-------------------------------- MODULE MCArchive --------------------------------
(* A small instance of Archive, with what an administrator can tell: which         *)
(* retentions were in force since the pass under way began, and since when nothing *)
(* was changed and nothing failed.                                                 *)
EXTENDS Archive

MCFloats == {1, 4, Null}

Requests ==
  [start : {Null, 1}, end : {Null}, interval : {0, 2}, limit : {2}]
  \cup [start : {0}, end : {3}, interval : {1}, limit : {1}]

\* The ticks from the beginning of a pass to the end of the next.
TwoPasses == Interval + 2 * DbTime

VARIABLES
  inForce,   \* values retention.days has had since the pass under way began
  calm       \* ticks since a setting was changed or a pass failed, as far as they matter

mcvars == <<vars, inForce, calm>>

MCInit == Init /\ inForce = {} /\ calm = 0

Watched ==
  /\ inForce' = IF pc' # "delete" THEN {} ELSE inForce \cup {days'}
  /\ calm' = IF days' # days \/ failures' # failures THEN 0
             ELSE Min({calm + (now' - now), TwoPasses + 1})

MCSpec == MCInit /\ [][Next /\ Watched]_mcvars

-----------------------------------------------------------------------------
\* A row is deleted only when it is older than a retention that was in force while the
\* pass ran: never under "keep forever", and never younger than every setting of the pass,
\* whatever is saved between the reading of the setting and the DELETE.
DeletesOnlyExpired ==
  [][\A r \in rows \ rows' : \E d \in inForce : d # 0 /\ r.ts < now - d * Day]_mcvars

\* Once the setting has been left alone and no pass has failed for as long as two passes
\* may take, no row is older than the retention by more than the pruner's period.
RetentionIsKept ==
  (~ stop /\ days # 0 /\ calm > TwoPasses)
    => \A r \in rows : now - r.ts <= days * Day + TwoPasses

\* A bucketed history tells the rows of its range, and a raw one is those rows or, at the
\* limit, the earliest of them.
HistoryTellsRows ==
  \A q \in Requests :
    LET In == {r \in rows : r.ts \in Start(q) .. End(q)}
        A == Answer(q)
    IN IF q.interval > 0 THEN Summarises(A, In, q.interval, q.limit)
       ELSE /\ A \subseteq In
            /\ A # In => Cardinality(A) = q.limit
            /\ \A r \in A : \A s \in In \ A : r.ts <= s.ts
=============================================================================
