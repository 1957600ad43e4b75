----------------------------- MODULE HistoryQueries -----------------------------
(***************************************************************************)
(* The queries of api/routes_history.py over a set R of rows of tag_values *)
(* of one tag: raw samples, or one summary per bucket of w seconds.        *)
(* A row is [ts, float]: the key of the table is (tag_id, ts), and float is *)
(* Null for text and truth values.                                         *)
(***************************************************************************)
EXTENDS Integers, FiniteSets, FiniteSetsExt

CONSTANT Null

\* TagValue.ts >= start, TagValue.ts <= end
InRange(R, start, end) == {r \in R : start <= r.ts /\ r.ts <= end}

\* order_by(...).limit(n): the n elements of S with the lowest time stamps.
FirstOf(n, S) == {x \in S : Cardinality({y \in S : y.ts < x.ts}) < n}

Raw(R, start, end, limit) == FirstOf(limit, InRange(R, start, end))

\* floor(epoch / interval_seconds) * interval_seconds
NearestBucket(ts, w) == ((ts + w \div 2) \div w) * w
Bucket(ts, w) == (ts \div w) * w

\* avg, min and max skip the rows without a number; count() does not.  avg is kept as the
\* sum and the number of its terms.
Summary(b, G) ==
  LET Numbers == {r \in G : r.float # Null}
      Values == {r.float : r \in Numbers}
  IN [ts |-> b,
      count |-> Cardinality(G),
      terms |-> Cardinality(Numbers),
      sum |-> FoldSet(LAMBDA r, s : s + r.float, 0, Numbers),
      min |-> IF Values = {} THEN Null ELSE Min(Values),
      max |-> IF Values = {} THEN Null ELSE Max(Values)]

Bucketed(R, start, end, w, limit) ==
  LET In == InRange(R, start, end)
      Group(b) == {r \in In : Bucket(r.ts, w) = b}
  IN FirstOf(limit, {Summary(b, Group(b)) : b \in {Bucket(r.ts, w) : r \in In}})

-----------------------------------------------------------------------------
\* What the trend promises of a bucketed answer P for the rows In of its range: every row
\* is told by the one point whose bucket its time is in, or comes after every point of a
\* full answer; no point tells more rows than there are, nor a value outside its extremes.
Tells(p, r, w) == p.ts <= r.ts /\ r.ts < p.ts + w

Summarises(P, In, w, limit) ==
  /\ \A r \in In :
       \/ \E p \in P :
            /\ Tells(p, r, w) /\ \A q \in P \ {p} : ~ Tells(q, r, w)
            /\ r.float # Null => p.min <= r.float /\ r.float <= p.max
       \/ Cardinality(P) = limit /\ \A p \in P : p.ts + w <= r.ts
  /\ \A p \in P :
       /\ p.count = Cardinality({r \in In : Tells(p, r, w)})
       /\ p.terms = 0 <=> p.min = Null
       /\ p.terms > 0 => p.terms * p.min <= p.sum /\ p.sum <= p.terms * p.max
=============================================================================
