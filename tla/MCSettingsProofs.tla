--------------------------- MODULE MCSettingsProofs ---------------------------
(***************************************************************************)
(* The settings and the embedded servers, for every registry, number of    *)
(* requests and of reloads, whatever the requests carry.                   *)
(***************************************************************************)
EXTENDS MCSettings, FiniteSetTheorems, TLAPS

-----------------------------------------------------------------------------
(* The registry's rules.                                                     *)

LEMMA Registry ==
  /\ \A k \in Keys : Settings[k].default \in SettingValue /\ Accepts(k, Settings[k].default)
  /\ DOMAIN FirstTable \subseteq Keys
  /\ \A k \in Keys : k \in DOMAIN FirstTable => RowOK(k, FirstTable[k])
  /\ \A seed \in Seeds : DOMAIN seed \subseteq Keys /\ \A k \in DOMAIN seed : seed[k] \in SettingValue
BY SettingsAssumption

LEMMA BodyIs ==
  ASSUME NEW body \in Bodies
  PROVE  /\ body \in Seq([key : STRING, value : SettingValue])
         /\ \A i, j \in DOMAIN body : body[i].key = body[j].key => i = j
BY SettingsAssumption

LEMMA CoercedTyped ==
  ASSUME NEW k, NEW row \in SettingValue
  PROVE  Coerced(k, row) \in SettingValue
<1>1. [row EXCEPT !.kind = "text"] \in SettingValue
  BY DEF SettingValue
<1> QED
  BY <1>1 DEF Coerced

LEMMA ToStrTyped ==
  ASSUME NEW k, NEW v \in SettingValue
  PROVE  ToStr(k, v) \in SettingValue
<1>1. [kind |-> "bool", n |-> IF v.n # 0 THEN 2 ELSE 0] \in SettingValue
  BY DEF SettingValue
<1> QED
  BY <1>1 DEF ToStr

\* The row of an accepted value: if it reads back at all, it reads back as an accepted one.
LEMMA ToStrOK ==
  ASSUME NEW k, NEW v \in SettingValue, Accepts(k, v)
  PROVE  RowOK(k, ToStr(k, v))
<1>1. ToStr(k, v) \in SettingValue
  BY ToStrTyped
<1>2. ASSUME ReadsBack(k, ToStr(k, v)) PROVE Accepts(k, Coerced(k, ToStr(k, v)))
  <2>1. CASE Settings[k].type \in {"bool", "string"}
    BY <2>1 DEF Accepts
  <2>2. CASE Settings[k].type \notin {"bool", "string"}
    <3>1. Coerced(k, ToStr(k, v)) = v
      BY <2>2 DEF Coerced, ToStr
    <3> QED
      BY <3>1
  <2> QED
    BY <2>1, <2>2
<1> QED
  BY <1>1, <1>2 DEF RowOK

RowsOK(t) == DOMAIN t \subseteq Keys /\ \A k \in DOMAIN t : RowOK(k, t[k])
CacheOK(c) == c \in [Keys -> SettingValue] /\ \A k \in Keys : Accepts(k, c[k])

\* load and the seeds leave accepted values in the cache, and rows of such values.
LEMMA StartsTyped ==
  ASSUME NEW seed \in Seeds, NEW t, RowsOK(t), NEW c, NEW u, Starts(seed, t, c, u)
  PROVE  CacheOK(c) /\ RowsOK(u)
<1>1. PICK s : s = Seeded(seed, t)
  OBVIOUS
<1>2. /\ DOMAIN s = DOMAIN seed \ DOMAIN t /\ DOMAIN s \subseteq Keys
      /\ \A k \in DOMAIN s : s[k] = seed[k] /\ s[k] \in SettingValue /\ Accepts(k, s[k])
  BY <1>1, Registry DEF Seeded, Starts
<1>3. PICK d : d = Loaded(t)
  OBVIOUS
<1>4. CacheOK(d)
  <2>1. ASSUME NEW k \in Keys PROVE d[k] \in SettingValue /\ Accepts(k, d[k])
    <3>1. CASE k \in DOMAIN t /\ ReadsBack(k, t[k])
      <4>1. d[k] = Coerced(k, t[k])
        BY <1>3, <3>1 DEF Loaded
      <4>2. t[k] \in SettingValue /\ Accepts(k, Coerced(k, t[k]))
        BY <3>1 DEF RowsOK, RowOK
      <4> QED
        BY <4>1, <4>2, CoercedTyped
    <3>2. CASE ~ (k \in DOMAIN t /\ ReadsBack(k, t[k]))
      <4>1. d[k] = Settings[k].default
        BY <1>3, <3>2 DEF Loaded
      <4> QED
        BY <4>1, Registry
    <3> QED
      BY <3>1, <3>2
  <2>2. d = [k \in Keys |-> d[k]]
    BY <1>3 DEF Loaded
  <2> QED
    BY <2>1, <2>2 DEF CacheOK
<1>5. c = Over(d, s)
  BY <1>1, <1>3 DEF Starts
<1>6. CacheOK(c)
  BY <1>2, <1>4, <1>5 DEF Over, CacheOK
<1>7. u = Over(t, [k \in DOMAIN s |-> ToStr(k, seed[k])])
  BY <1>1 DEF Starts
<1>8. ASSUME NEW k \in DOMAIN s PROVE RowOK(k, ToStr(k, seed[k]))
  BY <1>2, ToStrOK
<1>9. RowsOK(u)
  BY <1>2, <1>7, <1>8 DEF Over, RowsOK
<1> QED
  BY <1>6, <1>9

-----------------------------------------------------------------------------
(* The requests.                                                             *)

BodyEntry == [key : STRING, value : SettingValue]
RequestPc == {"idle", "get", "got", "commit", "saved", "rejected", "failed"}

\* The key at hand is one of the body's, and its value was accepted; what is pending is rows
\* of accepted values.
ReqOK(q) ==
  /\ q = Request(q.pc, q.body, q.i, q.row, q.pending, q.inserts, q.changed)
  /\ q.pc \in RequestPc
  /\ q.changed \subseteq Keys /\ q.inserts \subseteq Keys
  /\ RowsOK(q.pending)
  /\ q.pc \in {"get", "got"} =>
       /\ q.body \in Bodies /\ q.i \in DOMAIN q.body
       /\ Accepts(q.body[q.i].key, q.body[q.i].value)

ReqsOK == req = [r \in Requests |-> req[r]] /\ \A r \in Requests : ReqOK(req[r])

LEMMA IdleOK == ReqOK(Idle)
BY DEF ReqOK, Idle, Request, RequestPc, RowsOK

\* A request of which one field changes.
LEMMA PcField ==
  ASSUME NEW pc, NEW body, NEW i, NEW row, NEW pending, NEW inserts, NEW changed, NEW x
  PROVE  [Request(pc, body, i, row, pending, inserts, changed) EXCEPT !.pc = x] =
           Request(x, body, i, row, pending, inserts, changed)
BY DEF Request

LEMMA RowField ==
  ASSUME NEW pc, NEW body, NEW i, NEW row, NEW pending, NEW inserts, NEW changed, NEW x
  PROVE  [Request(pc, body, i, row, pending, inserts, changed) EXCEPT !.row = x] =
           Request(pc, body, i, x, pending, inserts, changed)
BY DEF Request

LEMMA FailedOK == ReqOK([Idle EXCEPT !.pc = "failed"])
<1>1. [Idle EXCEPT !.pc = "failed"] = Request("failed", <<>>, 0, NoRow, <<>>, {}, {})
  BY PcField DEF Idle
<1> QED
  BY <1>1 DEF ReqOK, Request, RequestPc, RowsOK

LEMMA BodyItem ==
  ASSUME NEW body \in Bodies, NEW i \in DOMAIN body
  PROVE  body[i] \in BodyEntry /\ body[i].value \in SettingValue /\ i \in 1 .. Len(body) /\ Len(body) \in Nat
<1>1. body \in Seq(BodyEntry)
  BY BodyIs DEF BodyEntry
<1>2. body[i] \in BodyEntry
  BY <1>1
<1> QED
  BY <1>1, <1>2 DEF BodyEntry

LEMMA TurnToTyped ==
  ASSUME NEW body \in Bodies, NEW i \in Nat \ {0}, NEW pending, RowsOK(pending),
         NEW inserts \in SUBSET Keys, NEW changed \in SUBSET Keys, NEW c
  PROVE  ReqOK(TurnTo(body, i, pending, inserts, changed, c))
<1>1. Len(body) \in Nat /\ DOMAIN body = 1 .. Len(body)
  BY BodyIs
<1>2. CASE i > Len(body)
  BY <1>2 DEF TurnTo, ReqOK, Request, RequestPc
<1>3. CASE ~ (i > Len(body)) /\ ~ Accepts(body[i].key, body[i].value)
  BY <1>3 DEF TurnTo, ReqOK, Request, RequestPc, RowsOK
<1>4. CASE ~ (i > Len(body)) /\ Accepts(body[i].key, body[i].value)
  <2>1. i \in DOMAIN body
    BY <1>1, <1>4
  <2>2. body[i].key \in Keys
    BY <1>4 DEF Accepts
  <2> QED
    BY <1>4, <2>1, <2>2 DEF TurnTo, ReqOK, Request, RequestPc
<1> QED
  BY <1>2, <1>3, <1>4

SettingsOK == CacheOK(cache) /\ RowsOK(table) /\ ReqsOK /\ failures \in 0 .. MaxDbFailures

LEMMA BecomesTyped ==
  ASSUME ReqsOK, NEW r \in Requests, NEW q, ReqOK(q), req' = [req EXCEPT ![r] = q]
  PROVE  ReqsOK'
<1>1. \A p \in Requests : req'[p] = IF p = r THEN q ELSE req[p]
  BY DEF ReqsOK
<1>2. req' = [p \in Requests |-> req'[p]]
  BY DEF ReqsOK
<1> QED
  BY <1>1, <1>2 DEF ReqsOK

LEMMA WithTyped ==
  ASSUME NEW t, RowsOK(t), NEW k \in Keys, NEW row, RowOK(k, row)
  PROVE  RowsOK(With(t, k, row))
BY DEF With, RowsOK

LEMMA FailsTyped ==
  ASSUME failures \in 0 .. MaxDbFailures, DbFails \/ UNCHANGED failures
  PROVE  failures' \in 0 .. MaxDbFailures
BY SettingsAssumption DEF DbFails

LEMMA PutTyped ==
  ASSUME SettingsOK, NEW r \in Requests, Put(r)
  PROVE  SettingsOK'
<1>1. PICK body \in Bodies : Becomes(r, TurnTo(body, 1, <<>>, {}, {}, cache))
  BY DEF Put
<1>2. RowsOK(<<>>)
  BY DEF RowsOK
<1>3. ReqOK(TurnTo(body, 1, <<>>, {}, {}, cache))
  BY <1>2, TurnToTyped
<1>4. ReqsOK'
  BY <1>1, <1>3, BecomesTyped DEF SettingsOK, Becomes
<1> QED
  BY <1>4 DEF Put, SettingsOK

LEMMA RowReadIs ==
  ASSUME ReqsOK, NEW r \in Requests, RowRead(r)
  PROVE  LET q == req[r]
             key == q.body[q.i].key
             row == IF key \in DOMAIN table THEN table[key] ELSE NoRow IN
         /\ q.pc = "get" /\ ReqOK(q)
         /\ req' = [req EXCEPT ![r] = Request("got", q.body, q.i, row, q.pending, q.inserts, q.changed)]
<1>1. PICK q : q = req[r]
  OBVIOUS
<1>2. ReqOK(q) /\ q.pc = "get"
  BY <1>1 DEF ReqsOK, RowRead, ReqAt
<1>3. PICK row : row = IF q.body[q.i].key \in DOMAIN table THEN table[q.body[q.i].key] ELSE NoRow
  OBVIOUS
<1>4. req' = [req EXCEPT ![r].pc = "got", ![r].row = row]
  BY <1>1, <1>3 DEF RowRead
<1>5. PICK p : p = Request("got", q.body, q.i, row, q.pending, q.inserts, q.changed)
  OBVIOUS
<1>6. req' = [req EXCEPT ![r] = p]
  <2>1. req' = [req EXCEPT ![r] = [[req[r] EXCEPT !.pc = "got"] EXCEPT !.row = row]]
    BY <1>4 DEF ReqsOK
  <2>2. [[q EXCEPT !.pc = "got"] EXCEPT !.row = row] = p
    <3>1. PICK pc, body, i, old, pending, inserts, changed :
            q = Request(pc, body, i, old, pending, inserts, changed)
      BY <1>2 DEF ReqOK
    <3>2. p = Request("got", body, i, row, pending, inserts, changed)
      BY <1>5, <3>1 DEF Request
    <3>3. [q EXCEPT !.pc = "got"] = Request("got", body, i, old, pending, inserts, changed)
      BY <3>1, PcField
    <3>4. [Request("got", body, i, old, pending, inserts, changed) EXCEPT !.row = row] = p
      BY <3>2, RowField
    <3> QED
      BY <3>3, <3>4
  <2> QED
    BY <1>1, <2>1, <2>2
<1> QED
  BY <1>1, <1>2, <1>3, <1>5, <1>6

LEMMA RowReadTyped ==
  ASSUME SettingsOK, NEW r \in Requests, RowRead(r)
  PROVE  SettingsOK'
<1>1. PICK q : q = req[r]
  OBVIOUS
<1>2. PICK row : /\ q.pc = "get" /\ ReqOK(q)
                 /\ req' = [req EXCEPT ![r] =
                              Request("got", q.body, q.i, row, q.pending, q.inserts, q.changed)]
  BY <1>1, RowReadIs DEF SettingsOK
<1>3. ReqOK(Request("got", q.body, q.i, row, q.pending, q.inserts, q.changed))
  BY <1>2 DEF ReqOK, Request, RequestPc
<1>4. ReqsOK'
  BY <1>2, <1>3, BecomesTyped DEF SettingsOK
<1> QED
  BY <1>4 DEF RowRead, SettingsOK

\* What set_many does with the row of the key at hand.
Goes(r, q, key, value) ==
  /\ cache' = [cache EXCEPT ![key] = value]
  /\ req' = [req EXCEPT ![r] =
       TurnTo(q.body, q.i + 1,
              IF q.row = ToStr(key, value) THEN q.pending ELSE With(q.pending, key, ToStr(key, value)),
              IF q.row = NoRow THEN q.inserts \cup {key} ELSE q.inserts,
              q.changed, cache')]
  /\ UNCHANGED <<table, failures>>

LEMMA KeyCachedIs ==
  ASSUME SettingsOK, NEW r \in Requests, KeyCached(r)
  PROVE  LET q == req[r] IN
         /\ q.pc = "got" /\ ReqOK(q) /\ q.body \in Bodies /\ q.i \in 1 .. Len(q.body)
         /\ q.body[q.i].key \in Keys /\ q.body[q.i].value \in SettingValue
         /\ Accepts(q.body[q.i].key, q.body[q.i].value)
         /\ Goes(r, q, q.body[q.i].key, q.body[q.i].value)
<1>1. PICK q : q = req[r]
  OBVIOUS
<1>2. q.pc = "got" /\ ReqOK(q)
  BY <1>1 DEF KeyCached, ReqAt, SettingsOK, ReqsOK
<1>3. /\ q.body \in Bodies /\ q.i \in DOMAIN q.body
      /\ Accepts(q.body[q.i].key, q.body[q.i].value)
  BY <1>2 DEF ReqOK
<1>4. q.body[q.i].value \in SettingValue /\ q.i \in 1 .. Len(q.body)
  BY <1>3, BodyItem
<1>5. q.body[q.i].key \in Keys
  BY <1>3 DEF Accepts
<1>6. Goes(r, q, q.body[q.i].key, q.body[q.i].value)
  BY <1>1 DEF KeyCached, Becomes, Goes
<1> QED
  BY <1>1, <1>2, <1>3, <1>4, <1>5, <1>6

LEMMA KeyCachedTyped ==
  ASSUME SettingsOK, NEW r \in Requests, KeyCached(r)
  PROVE  SettingsOK'
<1>1. PICK q : q = req[r]
  OBVIOUS
<1>2. PICK key, value : key = q.body[q.i].key /\ value = q.body[q.i].value
  OBVIOUS
<1>3. /\ ReqOK(q) /\ q.body \in Bodies /\ q.i \in 1 .. Len(q.body)
      /\ key \in Keys /\ value \in SettingValue /\ Accepts(key, value)
      /\ Goes(r, q, key, value)
  BY <1>1, <1>2, KeyCachedIs
<1>4. RowOK(key, ToStr(key, value))
  BY <1>3, ToStrOK
<1>5. RowsOK(q.pending)
  BY <1>3 DEF ReqOK
<1>6. PICK pending : /\ RowsOK(pending)
                     /\ pending = IF q.row = ToStr(key, value) THEN q.pending
                                  ELSE With(q.pending, key, ToStr(key, value))
  BY <1>3, <1>4, <1>5, WithTyped
<1>7. PICK inserts \in SUBSET Keys :
        inserts = IF q.row = NoRow THEN q.inserts \cup {key} ELSE q.inserts
  BY <1>3 DEF ReqOK
<1>8. q.changed \in SUBSET Keys /\ q.i + 1 \in Nat \ {0}
  BY <1>3 DEF ReqOK
<1>9. PICK i : i = q.i + 1
  OBVIOUS
<1>10. PICK body, changed : body = q.body /\ changed = q.changed
  OBVIOUS
<1>11. PICK c : c = cache'
  OBVIOUS
<1>12. ReqOK(TurnTo(body, i, pending, inserts, changed, c))
  BY <1>3, <1>6, <1>7, <1>8, <1>9, <1>10, TurnToTyped
<1>13. req' = [req EXCEPT ![r] = TurnTo(body, i, pending, inserts, changed, c)]
  BY <1>3, <1>6, <1>7, <1>9, <1>10, <1>11 DEF Goes
<1>14. ReqsOK'
  BY <1>12, <1>13, BecomesTyped DEF SettingsOK
<1>15. CacheOK(cache')
  BY <1>3 DEF Goes, SettingsOK, CacheOK
<1> QED
  BY <1>3, <1>14, <1>15 DEF Goes, SettingsOK

\* A request that only changes its pc.
LEMMA MovesIs ==
  ASSUME ReqsOK, NEW r \in Requests, NEW where, req' = [req EXCEPT ![r].pc = where]
  PROVE  LET q == req[r] IN
         req' = [req EXCEPT ![r] = Request(where, q.body, q.i, q.row, q.pending, q.inserts, q.changed)]
<1>1. PICK q : q = req[r]
  OBVIOUS
<1>2. ReqOK(q)
  BY <1>1 DEF ReqsOK
<1>3. PICK p : p = Request(where, q.body, q.i, q.row, q.pending, q.inserts, q.changed)
  OBVIOUS
<1>4. req' = [req EXCEPT ![r] = [req[r] EXCEPT !.pc = where]]
  OBVIOUS
<1>5. [q EXCEPT !.pc = where] = p
  <2>1. PICK pc, body, i, row, pending, inserts, changed :
          q = Request(pc, body, i, row, pending, inserts, changed)
    BY <1>2 DEF ReqOK
  <2>2. p = Request(where, body, i, row, pending, inserts, changed)
    BY <1>3, <2>1 DEF Request
  <2> QED
    BY <2>1, <2>2, PcField
<1> QED
  BY <1>1, <1>3, <1>4, <1>5

LEMMA MovesTyped ==
  ASSUME ReqsOK, NEW r \in Requests, NEW where \in {"saved", "failed"},
         req' = [req EXCEPT ![r].pc = where]
  PROVE  ReqsOK'
<1>1. PICK q : q = req[r]
  OBVIOUS
<1>2. ReqOK(q)
  BY <1>1 DEF ReqsOK
<1>3. ReqOK(Request(where, q.body, q.i, q.row, q.pending, q.inserts, q.changed))
  BY <1>2 DEF ReqOK, Request, RequestPc
<1>4. req' = [req EXCEPT ![r] = Request(where, q.body, q.i, q.row, q.pending, q.inserts, q.changed)]
  BY <1>1, MovesIs
<1> QED
  BY <1>3, <1>4, BecomesTyped

LEMMA CommittedTyped ==
  ASSUME SettingsOK, NEW r \in Requests, Committed(r)
  PROVE  SettingsOK'
<1>1. ReqsOK'
  BY MovesTyped DEF Committed, SettingsOK
<1>2. RowsOK(req[r].pending)
  BY DEF SettingsOK, ReqsOK, ReqOK
<1>3. RowsOK(table')
  BY <1>2 DEF Committed, Persisted, SettingsOK, RowsOK
<1> QED
  BY <1>1, <1>3 DEF Committed, SettingsOK

LEMMA CallFailedTyped ==
  ASSUME SettingsOK, NEW r \in Requests, CallFailed(r)
  PROVE  SettingsOK'
<1>1. ReqsOK'
  BY MovesTyped DEF CallFailed, SettingsOK
<1>2. failures' \in 0 .. MaxDbFailures
  BY FailsTyped DEF CallFailed, SettingsOK
<1> QED
  BY <1>1, <1>2 DEF CallFailed, SettingsOK

-----------------------------------------------------------------------------
(* The servers.                                                              *)

CallPc == {"none", "synced", "joining", "stopping", "loading", "starting", "started", "done", "failed"}

ServerState(n, v) == [running : BOOLEAN, server : 0 .. n, forward : 0 .. n, nodes : 0 .. v]
CallState(n, v) ==
  {c \in [pc : CallPc, kind : Kinds, then : BOOLEAN, again : BOOLEAN, id : 0 .. n, port : Int,
          version : 0 .. v] :
     (c.then => c.kind = "opcua") /\ (c.pc = "started" => c.id # None)}

InstanceOK(i, n) ==
  /\ i = Instance(i.id, i.kind, i.port, i.state)
  /\ i.id \in 1 .. n /\ i.kind \in Kinds /\ i.port \in Int
  /\ i.state \in {"binding", "listening", "refused"}
  /\ i.state # "listening" => i.kind = "modbus"

ServersOK ==
  /\ srv \in [Kinds -> ServerState(lastId, tags)]
  /\ call \in [Callers -> CallState(lastId, tags)]
  /\ forwarders \subseteq 1 .. lastId
  /\ \A i \in instances : InstanceOK(i, lastId)
  /\ tags \in Nat /\ lastId \in Nat /\ restarts \in 0 .. MaxRestarts

Typed == SettingsOK /\ ServersOK

LEMMA TypedMeans == Typed => TypeOK
<1> SUFFICES ASSUME Typed PROVE TypeOK
  OBVIOUS
<1>1. SettingsTypeOK /\ \A k \in Keys : Accepts(k, cache[k])
  BY DEF Typed, SettingsOK, CacheOK, RowsOK, RowOK, ReqsOK, ReqOK, RequestPc, SettingsTypeOK
<1>2. /\ srv \in [Kinds -> [running : BOOLEAN, server : Ids, forward : Ids, nodes : 0 .. tags]]
      /\ forwarders \subseteq Ids \ {None}
      /\ restarts \in 0 .. MaxRestarts
  BY DEF Typed, ServersOK, ServerState, Ids, None
<1>3. ASSUME NEW i \in instances
      PROVE  /\ i.id \in Ids \ {None} /\ i.kind \in Kinds
             /\ i.state \in {"binding", "listening", "refused"}
             /\ i.state # "listening" => i.kind = "modbus"
  BY DEF Typed, ServersOK, InstanceOK, Ids, None
<1>4. ASSUME NEW p \in Callers
      PROVE  /\ call[p].pc \in {"none", "synced", "joining", "stopping", "loading", "starting",
                                "started", "done", "failed"}
             /\ call[p].kind \in Kinds /\ call[p].id \in Ids /\ call[p].version \in 0 .. tags
             /\ call[p].then => call[p].kind = "opcua"
  <2>1. call[p] \in CallState(lastId, tags)
    BY DEF Typed, ServersOK
  <2> QED
    BY <2>1 DEF CallState, CallPc, Ids
<1> QED
  BY <1>1, <1>2, <1>3, <1>4 DEF TypeOK

LEMMA CallTyped ==
  ASSUME NEW n \in Nat, NEW v \in Nat, NEW pc \in CallPc, NEW kind \in Kinds, NEW then \in BOOLEAN,
         then => kind = "opcua", NEW again \in BOOLEAN, NEW id \in 0 .. n, NEW port \in Int,
         NEW version \in 0 .. v, pc = "started" => id # None
  PROVE  Call(pc, kind, then, again, id, port, version) \in CallState(n, v)
BY DEF Call, CallState

LEMMA NoneTyped ==
  ASSUME NEW n \in Nat
  PROVE  None \in 0 .. n /\ None \in Int
BY DEF None

LEMMA NoCallTyped ==
  ASSUME NEW n \in Nat, NEW v \in Nat, NEW pc \in CallPc \ {"started"}
  PROVE  NoCall(pc) \in CallState(n, v)
<1>1. "opcua" \in Kinds /\ FALSE \in BOOLEAN
  BY DEF Kinds
<1>2. None \in 0 .. n /\ None \in 0 .. v /\ None \in Int
  BY NoneTyped
<1>3. Call(pc, "opcua", FALSE, FALSE, None, None, None) \in CallState(n, v)
  BY <1>1, <1>2, CallTyped
<1> QED
  BY <1>3 DEF NoCall

LEMMA OffTyped ==
  ASSUME NEW n \in Nat, NEW v \in Nat
  PROVE  Off \in ServerState(n, v)
BY DEF Off, Server, ServerState, None

LEMMA PortTyped ==
  ASSUME NEW k \in Kinds, NEW c, CacheOK(c)
  PROVE  c[Port(k)].n \in Int
<1>1. Port(k) \in Keys
  BY ServerAssumption
<1>2. c[Port(k)] \in SettingValue
  BY <1>1 DEF CacheOK
<1> QED
  BY <1>2 DEF SettingValue

Sound(o, n, v) == o.server \in ServerState(n, v) /\ o.call \in CallState(n, v)

LEMMA OutcomeSound ==
  ASSUME NEW n \in Nat, NEW v \in Nat, NEW s \in ServerState(n, v), NEW c \in CallState(n, v)
  PROVE  Sound(Outcome(s, c), n, v)
BY DEF Sound, Outcome

LEMMA FinishedSound ==
  ASSUME NEW n \in Nat, NEW v \in Nat, NEW s \in ServerState(n, v)
  PROVE  Sound(Finished(s), n, v)
<1>1. NoCall("done") \in CallState(n, v)
  BY NoCallTyped DEF CallPc
<1> QED
  BY <1>1, OutcomeSound DEF Finished

LEMMA StartingSound ==
  ASSUME NEW n \in Nat, NEW v \in Nat, NEW k \in Kinds, NEW then \in BOOLEAN, then => k = "opcua",
         NEW s \in ServerState(n, v), CacheOK(cache')
  PROVE  Sound(Starting(k, then, s), n, v)
<1>1. CASE s.running
  BY <1>1, FinishedSound DEF Starting
<1>2. CASE ~ s.running
  <2>1. PICK port \in Int : port = cache'[Port(k)].n
    <3>1. PICK c : c = cache'
      OBVIOUS
    <3> QED
      BY <3>1, PortTyped
  <2>2. None \in 0 .. n /\ None \in 0 .. v /\ "loading" \in CallPc /\ FALSE \in BOOLEAN
    BY NoneTyped DEF CallPc
  <2>3. Call("loading", k, then, FALSE, None, port, None) \in CallState(n, v)
    BY <2>2, CallTyped
  <2> QED
    BY <1>2, <2>1, <2>3, OutcomeSound DEF Starting
<1> QED
  BY <1>1, <1>2

LEMMA AfterStopSound ==
  ASSUME NEW n \in Nat, NEW v \in Nat, NEW k \in Kinds, NEW then \in BOOLEAN, then => k = "opcua",
         NEW again \in BOOLEAN, NEW s \in ServerState(n, v), CacheOK(cache')
  PROVE  Sound(AfterStop(k, then, again, s), n, v)
BY StartingSound, FinishedSound DEF AfterStop

LEMMA AfterJoinSound ==
  ASSUME NEW n \in Nat, NEW v \in Nat, NEW k \in Kinds, NEW then \in BOOLEAN, then => k = "opcua",
         NEW again \in BOOLEAN, NEW s \in ServerState(n, v), CacheOK(cache')
  PROVE  Sound(AfterJoin(k, then, again, s), n, v)
<1>1. CASE s.server # None
  <2>1. s.server \in 0 .. n
    BY DEF ServerState
  <2>2. Call("stopping", k, then, again, s.server, None, None) \in CallState(n, v)
    BY <2>1, CallTyped DEF None, CallPc
  <2> QED
    BY <1>1, <2>2, OutcomeSound DEF AfterJoin
<1>2. CASE s.server = None
  <2>1. [s EXCEPT !.nodes = None] \in ServerState(n, v)
    BY DEF ServerState, None
  <2> QED
    BY <1>2, <2>1, AfterStopSound DEF AfterJoin
<1> QED
  BY <1>1, <1>2

LEMMA StoppingSound ==
  ASSUME NEW n \in Nat, NEW v \in Nat, NEW k \in Kinds, NEW then \in BOOLEAN, then => k = "opcua",
         NEW again \in BOOLEAN, NEW s \in ServerState(n, v), CacheOK(cache')
  PROVE  Sound(Stopping(k, then, again, s), n, v)
<1>1. PICK off \in ServerState(n, v) : off = [s EXCEPT !.running = FALSE]
  BY DEF ServerState
<1>2. CASE s.forward # None
  <2>1. s.forward \in 0 .. n
    BY DEF ServerState
  <2>2. Call("joining", k, then, again, s.forward, None, None) \in CallState(n, v)
    BY <2>1, CallTyped DEF None, CallPc
  <2> QED
    BY <1>1, <1>2, <2>2, OutcomeSound DEF Stopping
<1>3. CASE s.forward = None
  BY <1>1, <1>3, AfterJoinSound DEF Stopping
<1> QED
  BY <1>2, <1>3

LEMMA AskedSound ==
  ASSUME NEW n \in Nat, NEW v \in Nat, NEW p \in Callers, NEW k \in Kinds, NEW then \in BOOLEAN,
         then => k = "opcua", srv[k] \in ServerState(n, v), CacheOK(cache')
  PROVE  Sound(Asked(p, k, then), n, v)
<1>1. PICK s \in ServerState(n, v) : s = srv[k]
  OBVIOUS
<1>2. Sound(Restarting(k, then, s), n, v)
  BY StoppingSound, StartingSound DEF Restarting
<1>3. Sound(Finished(s), n, v) /\ Sound(Stopping(k, then, FALSE, s), n, v)
  BY FinishedSound, StoppingSound
<1> QED
  BY <1>1, <1>2, <1>3 DEF Asked

CallersOK(n, v) == srv' \in [Kinds -> ServerState(n, v)] /\ call' \in [Callers -> CallState(n, v)]

LEMMA GoesOnTyped ==
  ASSUME NEW n \in Nat, NEW v \in Nat, srv \in [Kinds -> ServerState(n, v)],
         call \in [Callers -> CallState(n, v)], CacheOK(cache'),
         NEW p \in Callers, NEW k \in Kinds, NEW then, NEW o, Sound(o, n, v), GoesOn(p, k, then, o)
  PROVE  CallersOK(n, v)
<1>1. PICK next : next = Asked(p, "modbus", FALSE)
  OBVIOUS
<1>2. Sound(next, n, v)
  BY <1>1, AskedSound DEF Kinds
<1>3. CASE o.call.pc = "done" /\ then
  <2>1. /\ srv' = [srv EXCEPT ![k] = o.server, !["modbus"] = next.server]
        /\ call' = [call EXCEPT ![p] = next.call]
    BY <1>1, <1>3 DEF GoesOn
  <2> QED
    BY <1>2, <2>1 DEF CallersOK, Sound
<1>4. CASE ~ (o.call.pc = "done" /\ then)
  <2>1. srv' = [srv EXCEPT ![k] = o.server] /\ call' = [call EXCEPT ![p] = o.call]
    BY <1>4 DEF GoesOn
  <2> QED
    BY <2>1 DEF CallersOK, Sound
<1> QED
  BY <1>3, <1>4

LEMMA TurnsTyped ==
  ASSUME NEW n \in Nat, NEW v \in Nat, srv \in [Kinds -> ServerState(n, v)],
         call \in [Callers -> CallState(n, v)], CacheOK(cache'),
         NEW p \in Callers, NEW ks, Turns(p, ks)
  PROVE  CallersOK(n, v)
<1>0. ("modbus" \in ks) \in BOOLEAN
  OBVIOUS
<1>1. PICK then \in BOOLEAN : then = ("modbus" \in ks)
  BY <1>0, Zenon
<1>2. Sound(Asked(p, "opcua", then), n, v) /\ Sound(Asked(p, "modbus", FALSE), n, v)
  BY AskedSound DEF Kinds
<1>3. CASE GoesOn(p, "opcua", then, Asked(p, "opcua", then))
  BY <1>2, <1>3, GoesOnTyped DEF Kinds
<1>4. CASE GoesOn(p, "modbus", FALSE, Asked(p, "modbus", FALSE))
  BY <1>2, <1>4, GoesOnTyped DEF Kinds
<1>5. CASE call' = [call EXCEPT ![p] = NoCall("done")] /\ UNCHANGED srv
  BY <1>5, NoCallTyped DEF CallersOK, CallPc
<1> QED
  BY <1>1, <1>3, <1>4, <1>5 DEF Turns

\* Ids and versions only grow.
LEMMA Grow ==
  ASSUME NEW n \in Nat, NEW v \in Nat, NEW m \in Nat, NEW w \in Nat, n <= m, v <= w
  PROVE  /\ ServerState(n, v) \subseteq ServerState(m, w) /\ CallState(n, v) \subseteq CallState(m, w)
         /\ \A i : InstanceOK(i, n) => InstanceOK(i, m)
<1>1. 0 .. n \subseteq 0 .. m /\ 0 .. v \subseteq 0 .. w /\ 1 .. n \subseteq 1 .. m
  OBVIOUS
<1> QED
  BY <1>1 DEF ServerState, CallState, InstanceOK

LEMMA GrowAll ==
  ASSUME ServersOK, NEW m \in Nat, NEW w \in Nat, lastId <= m, tags <= w
  PROVE  /\ srv \in [Kinds -> ServerState(m, w)] /\ call \in [Callers -> CallState(m, w)]
         /\ forwarders \subseteq 1 .. m /\ \A i \in instances : InstanceOK(i, m)
<1>1. PICK n \in Nat, v \in Nat : n = lastId /\ v = tags
  BY DEF ServersOK
<1>2. /\ ServerState(n, v) \subseteq ServerState(m, w) /\ CallState(n, v) \subseteq CallState(m, w)
      /\ \A i : InstanceOK(i, n) => InstanceOK(i, m)
  BY <1>1, Grow
<1>3. 1 .. n \subseteq 1 .. m
  BY <1>1
<1> QED
  BY <1>1, <1>2, <1>3 DEF ServersOK

\* The settings stay as they are.
LEMMA SameSettings ==
  ASSUME SettingsOK, UNCHANGED settingsVars
  PROVE  SettingsOK' /\ CacheOK(cache')
BY DEF SettingsOK, settingsVars, ReqsOK

LEMMA RequestedTyped ==
  ASSUME Typed, NEW r \in Requests, Requested(r)
  PROVE  Typed'
<1>0. SettingsOK /\ ServersOK
  BY DEF Typed
<1>1. CASE (Put(r) \/ RowRead(r) \/ KeyCached(r) \/ CallFailed(r)) /\ UNCHANGED <<serverVars, call>>
  <2>1. SettingsOK'
    BY <1>0, <1>1, PutTyped, RowReadTyped, KeyCachedTyped, CallFailedTyped
  <2>2. ServersOK'
    BY <1>0, <1>1 DEF Requested, ServersOK, serverVars
  <2> QED
    BY <2>1, <2>2 DEF Typed
<1>2. CASE Saved(r)
  <2>1. SettingsOK' /\ CacheOK(cache')
    BY <1>0, <1>2, CommittedTyped DEF Saved, SettingsOK, Committed
  <2>2. r \in Callers
    BY DEF Callers
  <2>3. CallersOK(lastId, tags)
    <3>1. PICK ks : Turns(r, ks)
      BY <1>2 DEF Saved
    <3>2. PICK n \in Nat, v \in Nat : n = lastId /\ v = tags
      BY <1>0 DEF ServersOK
    <3> QED
      BY <1>0, <2>1, <2>2, <3>1, <3>2, TurnsTyped DEF ServersOK
  <2>4. ServersOK'
    BY <1>0, <1>2, <2>3 DEF Requested, Saved, ServersOK, CallersOK
  <2> QED
    BY <2>1, <2>4 DEF Typed
<1> QED
  BY <1>1, <1>2 DEF Requested

LEMMA ReloadTyped ==
  ASSUME Typed, NEW l \in Reloads, TagsSynced(l) \/ MetadataFailed(l) \/ ReloadReached(l)
  PROVE  Typed'
<1>0. SettingsOK /\ ServersOK /\ l \in Callers
  BY DEF Typed, Callers
<1>2. CASE TagsSynced(l)
  <2>0. SettingsOK'
    BY <1>0, <1>2, SameSettings DEF TagsSynced
  <2>1. PICK n \in Nat, v \in Nat : n = lastId /\ v = tags + 1 /\ tags <= v
    BY <1>0 DEF ServersOK
  <2>2. /\ srv \in [Kinds -> ServerState(n, v)] /\ call \in [Callers -> CallState(n, v)]
        /\ forwarders \subseteq 1 .. n /\ \A i \in instances : InstanceOK(i, n)
    BY <1>0, <2>1, GrowAll
  <2>3. NoCall("synced") \in CallState(n, v)
    BY NoCallTyped DEF CallPc
  <2>4. call' \in [Callers -> CallState(n, v)]
    BY <1>0, <1>2, <2>2, <2>3 DEF TagsSynced
  <2> QED
    BY <1>0, <2>0, <1>2, <2>1, <2>2, <2>4 DEF TagsSynced, serverVars, Typed, ServersOK
<1>3. CASE ReloadReached(l)
  <2>0. SettingsOK' /\ CacheOK(cache')
    BY <1>0, <1>3, SameSettings DEF ReloadReached
  <2>1. PICK n \in Nat, v \in Nat : n = lastId /\ v = tags
    BY <1>0 DEF ServersOK
  <2>2. CallersOK(n, v)
    BY <1>0, <2>0, <1>3, <2>1, TurnsTyped DEF ReloadReached, ServersOK
  <2> QED
    BY <1>0, <2>0, <1>3, <2>1, <2>2 DEF ReloadReached, Typed, ServersOK, CallersOK
<1>4. CASE MetadataFailed(l)
  <2>1. failures' \in 0 .. MaxDbFailures
    BY <1>0, <1>4, FailsTyped DEF MetadataFailed, SettingsOK
  <2>2. SettingsOK'
    BY <1>0, <1>4, <2>1 DEF MetadataFailed, SettingsOK, ReqsOK
  <2>3. PICK n \in Nat, v \in Nat : n = lastId /\ v = tags
    BY <1>0 DEF ServersOK
  <2>4. NoCall("failed") \in CallState(n, v)
    BY NoCallTyped DEF CallPc
  <2>5. call' \in [Callers -> CallState(n, v)]
    BY <1>0, <1>4, <2>3, <2>4 DEF MetadataFailed, ServersOK
  <2> QED
    BY <1>0, <1>4, <2>2, <2>3, <2>5 DEF MetadataFailed, serverVars, Typed, ServersOK
<1> QED
  BY <1>2, <1>3, <1>4

LEMMA CallIs ==
  ASSUME ServersOK, NEW p \in Callers
  PROVE  /\ call[p].pc \in CallPc /\ call[p].kind \in Kinds
         /\ call[p].then \in BOOLEAN /\ call[p].again \in BOOLEAN
         /\ call[p].then => call[p].kind = "opcua"
         /\ call[p].pc = "started" => call[p].id # None
         /\ call[p].id \in 0 .. lastId /\ call[p].port \in Int /\ call[p].version \in 0 .. tags
<1>1. call[p] \in CallState(lastId, tags)
  BY DEF ServersOK
<1> QED
  BY <1>1 DEF CallState

LEMMA JoinedTyped ==
  ASSUME Typed, NEW p \in Callers, Joined(p) \/ Stopped(p)
  PROVE  Typed'
<1>0. SettingsOK /\ ServersOK
  BY DEF Typed
<1>1. SettingsOK' /\ CacheOK(cache')
  BY <1>0, SameSettings DEF Joined, Stopped
<1>2. PICK n \in Nat, v \in Nat : n = lastId /\ v = tags
  BY <1>0 DEF ServersOK
<1>3. PICK c \in CallState(n, v) : c = call[p]
  BY <1>0, <1>2 DEF ServersOK
<1>4. PICK k \in Kinds, then \in BOOLEAN, again \in BOOLEAN :
        k = c.kind /\ then = c.then /\ again = c.again /\ (then => k = "opcua")
  BY <1>3 DEF CallState
<1>5. PICK s \in ServerState(n, v) : s = srv[k]
  BY <1>0, <1>2 DEF ServersOK
<1>6. None \in 0 .. n /\ None \in 0 .. v
  BY NoneTyped
<1>7. CASE Joined(p)
  <2>1. PICK t \in ServerState(n, v) : t = [s EXCEPT !.forward = None]
    BY <1>6 DEF ServerState
  <2>2. PICK o : o = AfterJoin(k, then, again, t) /\ Sound(o, n, v)
    BY <1>1, <1>4, AfterJoinSound
  <2>3. GoesOn(p, k, then, o)
    BY <1>3, <1>4, <1>5, <1>7, <2>1, <2>2 DEF Joined
  <2>4. CallersOK(n, v)
    BY <1>0, <1>1, <1>2, <2>2, <2>3, GoesOnTyped DEF ServersOK
  <2> QED
    BY <1>0, <1>1, <1>2, <1>7, <2>4 DEF Joined, Typed, ServersOK, CallersOK
<1>8. CASE Stopped(p)
  <2>1. PICK t \in ServerState(n, v) : t = [s EXCEPT !.server = None, !.nodes = None]
    BY <1>6 DEF ServerState
  <2>2. PICK o : o = AfterStop(k, then, again, t) /\ Sound(o, n, v)
    BY <1>1, <1>4, AfterStopSound
  <2>3. GoesOn(p, k, then, o)
    BY <1>3, <1>4, <1>5, <1>8, <2>1, <2>2 DEF Stopped
  <2>4. CallersOK(n, v)
    BY <1>0, <1>1, <1>2, <2>2, <2>3, GoesOnTyped DEF ServersOK
  <2> QED
    BY <1>0, <1>1, <1>2, <1>8, <2>4 DEF Stopped, Typed, ServersOK, CallersOK
<1> QED
  BY <1>7, <1>8

LEMMA StartedTyped ==
  ASSUME Typed, NEW p \in Callers, Started(p)
  PROVE  Typed'
<1>0. SettingsOK /\ ServersOK
  BY DEF Typed
<1>1. SettingsOK' /\ CacheOK(cache')
  BY <1>0, SameSettings DEF Started
<1>2. PICK n \in Nat, v \in Nat : n = lastId /\ v = tags
  BY <1>0 DEF ServersOK
<1>3. PICK c : c = call[p]
  OBVIOUS
<1>4. c.kind \in Kinds /\ c.id \in 0 .. n /\ c.version \in 0 .. v /\ c.id # 0
  BY <1>0, <1>2, <1>3, CallIs DEF None, Started, InCall
<1>5. Server(TRUE, c.id, c.id, c.version) \in ServerState(n, v)
  BY <1>4 DEF Server, ServerState
<1>6. PICK o : o = Finished(Server(TRUE, c.id, c.id, c.version)) /\ Sound(o, n, v)
  BY <1>5, FinishedSound
<1>7. PICK k, then : k \in Kinds /\ k = c.kind /\ then = c.then
  BY <1>4
<1>8. GoesOn(p, k, then, o) /\ forwarders' = forwarders \cup {c.id}
  BY <1>3, <1>6, <1>7 DEF Started
<1>9. CallersOK(n, v)
  BY <1>0, <1>1, <1>2, <1>6, <1>7, <1>8, GoesOnTyped DEF ServersOK
<1>10. c.id \in 1 .. n
  BY <1>4
<1> QED
  BY <1>0, <1>1, <1>2, <1>8, <1>9, <1>10 DEF Started, Typed, ServersOK, CallersOK

\* A call of which one field changes.
LEMMA CallPcField ==
  ASSUME NEW pc, NEW kind, NEW then, NEW again, NEW id, NEW port, NEW version, NEW x
  PROVE  [Call(pc, kind, then, again, id, port, version) EXCEPT !.pc = x] =
           Call(x, kind, then, again, id, port, version)
BY DEF Call

LEMMA CallIdField ==
  ASSUME NEW pc, NEW kind, NEW then, NEW again, NEW id, NEW port, NEW version, NEW x
  PROVE  [Call(pc, kind, then, again, id, port, version) EXCEPT !.id = x] =
           Call(pc, kind, then, again, x, port, version)
BY DEF Call

LEMMA CallVersionField ==
  ASSUME NEW pc, NEW kind, NEW then, NEW again, NEW id, NEW port, NEW version, NEW x
  PROVE  [Call(pc, kind, then, again, id, port, version) EXCEPT !.version = x] =
           Call(pc, kind, then, again, id, port, x)
BY DEF Call

LEMMA CallParts ==
  ASSUME NEW n, NEW v, NEW c \in CallState(n, v)
  PROVE  \E pc \in CallPc, kind \in Kinds, then \in BOOLEAN, again \in BOOLEAN, id \in 0 .. n,
            port \in Int, version \in 0 .. v :
           /\ c = Call(pc, kind, then, again, id, port, version)
           /\ then => kind = "opcua"
<1>1. c = Call(c.pc, c.kind, c.then, c.again, c.id, c.port, c.version)
  BY DEF CallState, Call
<1>2. /\ c.pc \in CallPc /\ c.kind \in Kinds /\ c.then \in BOOLEAN /\ c.again \in BOOLEAN
      /\ c.id \in 0 .. n /\ c.port \in Int /\ c.version \in 0 .. v
      /\ c.then => c.kind = "opcua"
  BY DEF CallState
<1> QED
  BY <1>1, <1>2, Zenon

\* The version is noted, and the caller is at the next await.
LEMMA VersionNoted ==
  ASSUME NEW n \in Nat, NEW v \in Nat, NEW c \in CallState(n, v)
  PROVE  [c EXCEPT !.pc = "starting", !.version = v] \in CallState(n, v)
<1>1. PICK pc \in CallPc, kind \in Kinds, then \in BOOLEAN, again \in BOOLEAN, id \in 0 .. n,
           port \in Int, version \in 0 .. v :
        /\ c = Call(pc, kind, then, again, id, port, version)
        /\ then => kind = "opcua"
  BY CallParts
<1>2. [[c EXCEPT !.pc = "starting"] EXCEPT !.version = v] =
        Call("starting", kind, then, again, id, port, v)
  <2>1. [c EXCEPT !.pc = "starting"] = Call("starting", kind, then, again, id, port, version)
    BY <1>1, CallPcField
  <2>2. [Call("starting", kind, then, again, id, port, version) EXCEPT !.version = v] =
          Call("starting", kind, then, again, id, port, v)
    BY CallVersionField
  <2> QED
    BY <2>1, <2>2
<1>3. Call("starting", kind, then, again, id, port, v) \in CallState(n, v)
  BY <1>1, CallTyped DEF CallPc
<1> QED
  BY <1>2, <1>3

\* The instance is noted.
LEMMA InstanceNoted ==
  ASSUME NEW n \in Nat \ {0}, NEW v \in Nat, NEW c \in CallState(n, v)
  PROVE  /\ [c EXCEPT !.pc = "started", !.id = n] \in CallState(n, v)
         /\ [c EXCEPT !.pc = "started", !.version = v, !.id = n] \in CallState(n, v)
<1>1. PICK pc \in CallPc, kind \in Kinds, then \in BOOLEAN, again \in BOOLEAN, id \in 0 .. n,
           port \in Int, version \in 0 .. v :
        /\ c = Call(pc, kind, then, again, id, port, version)
        /\ then => kind = "opcua"
  BY CallParts
<1>0. [c EXCEPT !.pc = "started"] = Call("started", kind, then, again, id, port, version)
  BY <1>1, CallPcField
<1>2. [[c EXCEPT !.pc = "started"] EXCEPT !.id = n] =
        Call("started", kind, then, again, n, port, version)
  <2>1. [Call("started", kind, then, again, id, port, version) EXCEPT !.id = n] =
          Call("started", kind, then, again, n, port, version)
    BY CallIdField
  <2> QED
    BY <1>0, <2>1
<1>3. [[[c EXCEPT !.pc = "started"] EXCEPT !.version = v] EXCEPT !.id = n] =
        Call("started", kind, then, again, n, port, v)
  <2>1. [Call("started", kind, then, again, id, port, version) EXCEPT !.version = v] =
          Call("started", kind, then, again, id, port, v)
    BY CallVersionField
  <2>2. [Call("started", kind, then, again, id, port, v) EXCEPT !.id = n] =
          Call("started", kind, then, again, n, port, v)
    BY CallIdField
  <2> QED
    BY <1>0, <2>1, <2>2
<1>4. ASSUME NEW w \in 0 .. v
      PROVE  Call("started", kind, then, again, n, port, w) \in CallState(n, v)
  <2>1. "started" \in CallPc /\ n \in 0 .. n /\ n # None
    BY DEF CallPc, None
  <2> QED
    BY <1>1, <2>1, CallTyped
<1> QED
  BY <1>1, <1>2, <1>3, <1>4

\* A new instance has a number of its own.
LEMMA InstanceMade ==
  ASSUME NEW n \in Nat \ {0}, NEW set, \A i \in set : InstanceOK(i, n),
         NEW kind \in Kinds, NEW port \in Int,
         NEW state \in {"binding", "listening"}, state = "binding" => kind = "modbus"
  PROVE  \A i \in set \cup {Instance(n, kind, port, state)} : InstanceOK(i, n)
<1>1. InstanceOK(Instance(n, kind, port, state), n)
  BY DEF InstanceOK, Instance
<1> QED
  BY <1>1

LEMMA LoadedTyped ==
  ASSUME Typed, NEW p \in Callers, TagsLoaded(p)
  PROVE  Typed'
<1>0. SettingsOK /\ ServersOK
  BY DEF Typed
<1>1. SettingsOK'
  BY <1>0, SameSettings DEF TagsLoaded
<1>2. CASE call[p].kind = "opcua" /\ call' = [call EXCEPT ![p].pc = "starting", ![p].version = tags]
           /\ UNCHANGED <<instances, lastId>>
  <2>1. PICK n \in Nat, v \in Nat : n = lastId /\ v = tags
    BY <1>0 DEF ServersOK
  <2>2. PICK c \in CallState(n, v) : c = call[p]
    BY <1>0, <2>1 DEF ServersOK
  <2>3. PICK d \in CallState(n, v) : d = [c EXCEPT !.pc = "starting", !.version = v]
    BY VersionNoted
  <2>4. call' = [call EXCEPT ![p] = d]
    BY <1>0, <1>2, <2>1, <2>2, <2>3 DEF ServersOK
  <2>5. call' \in [Callers -> CallState(n, v)]
    BY <1>0, <2>1, <2>3, <2>4 DEF ServersOK
  <2> QED
    BY <1>0, <1>1, <1>2, <2>1, <2>5 DEF TagsLoaded, Typed, ServersOK
<1>3. CASE /\ call[p].kind = "modbus" /\ lastId' = lastId + 1
           /\ instances' = instances \cup {Instance(lastId', "modbus", call[p].port, "binding")}
           /\ call' = [call EXCEPT ![p].pc = "started", ![p].version = tags, ![p].id = lastId']
  <2>1. PICK n \in Nat \ {0}, v \in Nat : n = lastId + 1 /\ lastId <= n /\ v = tags
    BY <1>0 DEF ServersOK
  <2>2. /\ srv \in [Kinds -> ServerState(n, v)] /\ call \in [Callers -> CallState(n, v)]
        /\ forwarders \subseteq 1 .. n /\ \A i \in instances : InstanceOK(i, n)
    BY <1>0, <2>1, GrowAll
  <2>3. PICK c \in CallState(n, v) : c = call[p]
    BY <2>2
  <2>4. PICK d \in CallState(n, v) : d = [c EXCEPT !.pc = "started", !.version = v, !.id = n]
    BY InstanceNoted
  <2>5. call' = [call EXCEPT ![p] = d]
    BY <1>3, <2>1, <2>2, <2>3, <2>4
  <2>6. call' \in [Callers -> CallState(n, v)]
    BY <2>2, <2>4, <2>5
  <2>7. PICK port \in Int : port = call[p].port
    BY <1>0, CallIs
  <2>8. instances' = instances \cup {Instance(n, "modbus", port, "binding")}
    BY <1>3, <2>1, <2>7
  <2>9. \A i \in instances' : InstanceOK(i, n)
    BY <2>2, <2>8, InstanceMade DEF Kinds
  <2> QED
    BY <1>0, <1>1, <1>3, <2>1, <2>2, <2>6, <2>9 DEF TagsLoaded, Typed, ServersOK
<1> QED
  BY <1>2, <1>3 DEF TagsLoaded

LEMMA BoundTyped ==
  ASSUME Typed, NEW p \in Callers, Bound(p)
  PROVE  Typed'
<1>0. SettingsOK /\ ServersOK
  BY DEF Typed
<1>1. SettingsOK'
  BY <1>0, SameSettings DEF Bound
<1>2. PICK n \in Nat \ {0}, v \in Nat : n = lastId + 1 /\ lastId <= n /\ v = tags
  BY <1>0 DEF ServersOK
<1>3. /\ srv \in [Kinds -> ServerState(n, v)] /\ call \in [Callers -> CallState(n, v)]
      /\ forwarders \subseteq 1 .. n /\ \A i \in instances : InstanceOK(i, n)
  BY <1>0, <1>2, GrowAll
<1>4. PICK c \in CallState(n, v) : c = call[p]
  BY <1>3
<1>5. PICK d \in CallState(n, v) : d = [c EXCEPT !.pc = "started", !.id = n]
  BY InstanceNoted
<1>6. call' = [call EXCEPT ![p] = d]
  BY <1>2, <1>3, <1>4, <1>5 DEF Bound
<1>7. PICK port \in Int : port = call[p].port
  BY <1>0, CallIs
<1>8. instances' = instances \cup {Instance(n, "opcua", port, "listening")}
  BY <1>2, <1>7 DEF Bound
<1>9. \A i \in instances' : InstanceOK(i, n)
  BY <1>3, <1>8, InstanceMade DEF Kinds
<1> QED
  BY <1>0, <1>1, <1>2, <1>3, <1>5, <1>6, <1>9 DEF Bound, Typed, ServersOK

LEMMA StartFailedTyped ==
  ASSUME Typed, NEW p \in Callers, StartFailed(p)
  PROVE  Typed'
<1>0. SettingsOK /\ ServersOK
  BY DEF Typed
<1>1. failures' \in 0 .. MaxDbFailures
  BY <1>0, FailsTyped DEF StartFailed, SettingsOK
<1>2. SettingsOK'
  BY <1>0, <1>1 DEF StartFailed, SettingsOK, ReqsOK
<1>3. PICK n \in Nat, v \in Nat : n = lastId /\ v = tags
  BY <1>0 DEF ServersOK
<1>4. NoCall("failed") \in CallState(n, v)
  BY NoCallTyped DEF CallPc
<1>5. call' \in [Callers -> CallState(n, v)]
  BY <1>0, <1>3, <1>4 DEF StartFailed, ServersOK
<1> QED
  BY <1>0, <1>2, <1>3, <1>5 DEF StartFailed, serverVars, Typed, ServersOK

LEMMA ModbusBindsTyped ==
  ASSUME Typed, ModbusBinds
  PROVE  Typed'
<1>0. SettingsOK /\ ServersOK
  BY DEF Typed
<1>1. SettingsOK'
  BY <1>0, SameSettings DEF ModbusBinds
<1>2. PICK i \in instances :
        /\ i.state = "binding"
        /\ instances' = (instances \ {i}) \cup
             {[i EXCEPT !.state = IF Taken(i.port) THEN "refused" ELSE "listening"]}
  BY DEF ModbusBinds
<1>3. PICK state \in {"refused", "listening"} : state = IF Taken(i.port) THEN "refused" ELSE "listening"
  OBVIOUS
<1>4. InstanceOK(i, lastId) /\ i.kind = "modbus"
  BY <1>0, <1>2 DEF ServersOK, InstanceOK
<1>5. [i EXCEPT !.state = state] = Instance(i.id, i.kind, i.port, state)
  BY <1>4 DEF InstanceOK, Instance
<1>6. InstanceOK([i EXCEPT !.state = state], lastId)
  BY <1>4, <1>5 DEF InstanceOK, Instance
<1>7. \A j \in instances' : InstanceOK(j, lastId)
  BY <1>0, <1>2, <1>3, <1>6 DEF ServersOK
<1> QED
  BY <1>0, <1>1, <1>7 DEF ModbusBinds, Typed, ServersOK

LEMMA FirstCallTyped ==
  ASSUME NEW n \in Nat, NEW v \in Nat, NEW c, CacheOK(c)
  PROVE  FirstCall(c) \in CallState(n, v)
<1>1. PICK a \in Int, b \in Int : a = c[Port("opcua")].n /\ b = c[Port("modbus")].n
  BY PortTyped DEF Kinds
<1>2. None \in 0 .. n /\ None \in 0 .. v
  BY NoneTyped
<1>3. /\ Call("loading", "opcua", TRUE, FALSE, None, a, None) \in CallState(n, v)
      /\ Call("loading", "modbus", FALSE, FALSE, None, b, None) \in CallState(n, v)
  BY <1>2, CallTyped DEF CallPc, Kinds
<1>4. NoCall("done") \in CallState(n, v)
  BY NoCallTyped DEF CallPc
<1> QED
  BY <1>1, <1>3, <1>4 DEF FirstCall

LEMMA RestartsTyped ==
  ASSUME Typed, ProgramRestarts
  PROVE  Typed'
<1>0. SettingsOK /\ ServersOK
  BY DEF Typed
<1>1. PICK seed \in Seeds : Starts(seed, table, cache', table')
  BY DEF ProgramRestarts
<1>2. CacheOK(cache') /\ RowsOK(table')
  <2>1. PICK t, c, u : t = table /\ c = cache' /\ u = table'
    OBVIOUS
  <2>2. RowsOK(t) /\ Starts(seed, t, c, u)
    BY <1>0, <1>1, <2>1 DEF SettingsOK
  <2>3. CacheOK(c) /\ RowsOK(u)
    BY <2>2, StartsTyped
  <2> QED
    BY <2>1, <2>3
<1>3. ReqsOK'
  <2>1. req' = [r \in Requests |-> req'[r]]
    BY DEF ProgramRestarts
  <2>2. ASSUME NEW r \in Requests PROVE ReqOK(req'[r])
    BY <1>0, FailedOK DEF ProgramRestarts, SettingsOK, ReqsOK
  <2> QED
    BY <2>1, <2>2 DEF ReqsOK
<1>4. SettingsOK'
  BY <1>0, <1>2, <1>3 DEF SettingsOK, ProgramRestarts
<1>5. PICK n \in Nat, v \in Nat : n = lastId /\ v = tags
  BY <1>0 DEF ServersOK
<1>6. PICK first \in CallState(n, v) : first = FirstCall(cache')
  <2>1. PICK c : c = cache'
    OBVIOUS
  <2> QED
    BY <1>2, <2>1, FirstCallTyped
<1>7. NoCall("done") \in CallState(n, v)
  BY NoCallTyped DEF CallPc
<1>8. call' \in [Callers -> CallState(n, v)]
  BY <1>0, <1>5, <1>6, <1>7 DEF ProgramRestarts, ServersOK
<1>9. srv' \in [Kinds -> ServerState(n, v)]
  BY OffTyped DEF ProgramRestarts
<1>10. restarts' \in 0 .. MaxRestarts
  BY <1>0, ServerAssumption DEF ProgramRestarts, ServersOK
<1> QED
  BY <1>0, <1>4, <1>5, <1>8, <1>9, <1>10 DEF ProgramRestarts, Typed, ServersOK

LEMMA InitTyped == Init => Typed
<1> SUFFICES ASSUME Init PROVE Typed
  OBVIOUS
<1>1. PICK seed \in Seeds : Starts(seed, FirstTable, cache, table)
  BY DEF Init, SettingsInit
<1>2. RowsOK(FirstTable)
  BY Registry DEF RowsOK
<1>3. CacheOK(cache) /\ RowsOK(table)
  BY <1>1, <1>2, StartsTyped
<1>4. ReqsOK
  BY IdleOK DEF Init, SettingsInit, ReqsOK
<1>5. SettingsOK
  BY <1>3, <1>4, SettingsAssumption DEF SettingsOK, Init, SettingsInit
<1>6. FirstCall(cache) \in CallState(0, 1)
  BY <1>3, FirstCallTyped
<1>7. NoCall("none") \in CallState(0, 1)
  BY NoCallTyped DEF CallPc
<1>8. call \in [Callers -> CallState(0, 1)]
  BY <1>6, <1>7 DEF Init
<1>9. srv \in [Kinds -> ServerState(0, 1)]
  BY OffTyped DEF Init
<1>10. ServersOK
  BY <1>8, <1>9, ServerAssumption DEF Init, ServersOK
<1> QED
  BY <1>5, <1>10 DEF Typed

LEMMA NextTyped == Typed /\ [Next]_vars => Typed'
<1> SUFFICES ASSUME Typed, [Next]_vars PROVE Typed'
  OBVIOUS
<1>1. ASSUME NEW r \in Requests, Requested(r) PROVE Typed'
  BY <1>1, RequestedTyped
<1>2. ASSUME NEW l \in Reloads, TagsSynced(l) \/ MetadataFailed(l) \/ ReloadReached(l) PROVE Typed'
  BY <1>2, ReloadTyped
<1>3. ASSUME NEW p \in Callers,
             Joined(p) \/ Stopped(p) \/ TagsLoaded(p) \/ Bound(p) \/ Started(p) \/ StartFailed(p)
      PROVE  Typed'
  BY <1>3, JoinedTyped, LoadedTyped, BoundTyped, StartedTyped, StartFailedTyped
<1>4. CASE ModbusBinds
  BY <1>4, ModbusBindsTyped
<1>5. CASE ProgramRestarts
  BY <1>5, RestartsTyped
<1>6. CASE UNCHANGED vars
  BY <1>6 DEF vars, serverVars, settingsVars, Typed, SettingsOK, ReqsOK, ServersOK
<1> QED
  BY <1>1, <1>2, <1>3, <1>4, <1>5, <1>6 DEF Next

LEMMA AlwaysTyped == Spec => []Typed
<1> QED
  BY InitTyped, NextTyped, PTL DEF Spec

(* Whatever the settings requests carry, every setting in force is one its  *)
(* registry entry accepts (SettingDef.validate): after set_many, after a    *)
(* failure half way through it, and after load has read the table and the   *)
(* environment; the servers and their callers stay in their domains.        *)
THEOREM TypeCorrect == Spec => []TypeOK
<1>1. Typed => TypeOK
  BY TypedMeans
<1> QED
  BY AlwaysTyped, <1>1, PTL

-----------------------------------------------------------------------------
(* What a restart keeps.                                                     *)

\* The text a value is saved as reads back as the value.
Faithful(k, v) == ReadsBack(k, ToStr(k, v)) /\ Same(Coerced(k, ToStr(k, v)), v)

\* Every value that a request or the environment may have saved does.
ValuesReadBack ==
  /\ \A body \in Bodies : \A i \in DOMAIN body :
       Accepts(body[i].key, body[i].value) => Faithful(body[i].key, body[i].value)
  /\ \A seed \in Seeds : \A k \in DOMAIN seed : Accepts(k, seed[k]) => Faithful(k, seed[k])

\* main.py gives load the same settings on every start.
SameSeedKeys == \A seed, other \in Seeds : DOMAIN seed = DOMAIN other

\* load would read the cache c from the table t.
Kept(t, c) == \A k \in Keys : Same(Loaded(t)[k], c[k])

\* The one request at work will leave the table and the cache alike when it commits; until
\* it has cached a value they are alike now.
Midway(q, t, c) ==
  /\ Kept(Over(t, q.pending), c)
  /\ q.i > 1 \/ q.pending = <<>>
  /\ q.pc \in {"get", "got"} =>
       \A j \in DOMAIN q.body : j >= q.i => q.body[j].key \notin DOMAIN q.pending
  /\ q.pc = "got" =>
       LET key == q.body[q.i].key IN q.row = IF key \in DOMAIN t THEN t[key] ELSE NoRow

Alone == \A r, s \in Writing : r = s

Lasts ==
  /\ Alone
  /\ Writing = {} => Kept(table, cache)
  /\ \A r \in Writing : Midway(req[r], table, cache)

SeedRows == \A seed \in Seeds : DOMAIN seed \subseteq DOMAIN table

LEMMA AtMostOne ==
  ASSUME NEW S, IsFiniteSet(S), ~ (Cardinality(S) > 1)
  PROVE  \A x, y \in S : x = y
<1> SUFFICES ASSUME NEW x \in S, NEW y \in S, x # y PROVE FALSE
  OBVIOUS
<1>1. IsFiniteSet({x}) /\ Cardinality({x}) = 1
  BY FS_Singleton
<1>2. Cardinality({x} \cup {y}) = 2
  BY <1>1, FS_AddElement
<1>3. {x} \cup {y} \in SUBSET S
  OBVIOUS
<1>4. Cardinality({x} \cup {y}) <= Cardinality(S)
  BY <1>3, FS_Subset
<1>5. Cardinality(S) \in Nat
  BY FS_CardinalityType
<1> QED
  BY <1>2, <1>4, <1>5

LEMMA LoadedOver ==
  ASSUME NEW t
  PROVE  Loaded(Over(t, <<>>)) = Loaded(t)
BY DEF Loaded, Over

LEMMA KeptOver ==
  ASSUME NEW t, NEW c
  PROVE  Kept(Over(t, <<>>), c) <=> Kept(t, c)
BY LoadedOver DEF Kept

\* The row of one key changes, and its value with it.
LEMMA KeptKey ==
  ASSUME NEW t, NEW u, NEW c \in [Keys -> SettingValue], Kept(t, c), NEW key \in Keys, NEW value,
         Faithful(key, value), key \in DOMAIN u, u[key] = ToStr(key, value),
         \A k \in Keys : k # key => /\ k \in DOMAIN u <=> k \in DOMAIN t
                                    /\ k \in DOMAIN t => u[k] = t[k]
  PROVE  Kept(u, [c EXCEPT ![key] = value])
<1> SUFFICES ASSUME NEW k \in Keys PROVE Same(Loaded(u)[k], [c EXCEPT ![key] = value][k])
  BY DEF Kept
<1>1. CASE k = key
  BY <1>1 DEF Loaded, Faithful
<1>2. CASE k # key
  <2>1. Loaded(u)[k] = Loaded(t)[k]
    BY <1>2 DEF Loaded
  <2> QED
    BY <1>2, <2>1 DEF Kept
<1> QED
  BY <1>1, <1>2

\* set_many's step from one key to the next: the row is already there, or it is pending.
LEMMA KeptWith ==
  ASSUME NEW t, NEW pending, NEW c \in [Keys -> SettingValue], Kept(Over(t, pending), c),
         NEW key \in Keys, key \notin DOMAIN pending, NEW value \in SettingValue, Faithful(key, value),
         NEW row, row = IF key \in DOMAIN t THEN t[key] ELSE NoRow,
         NEW rows, rows = IF row = ToStr(key, value) THEN pending ELSE With(pending, key, ToStr(key, value))
  PROVE  Kept(Over(t, rows), [c EXCEPT ![key] = value])
<1>1. ToStr(key, value) # NoRow
  <2>1. ToStr(key, value) \in SettingValue
    BY ToStrTyped
  <2> QED
    BY <2>1 DEF SettingValue, NoRow
<1>2. PICK u : u = Over(t, rows)
  OBVIOUS
<1>3. key \in DOMAIN u /\ u[key] = ToStr(key, value)
  BY <1>1, <1>2 DEF Over, With
<1>4. ASSUME NEW k \in Keys, k # key
      PROVE  /\ k \in DOMAIN u <=> k \in DOMAIN Over(t, pending)
             /\ k \in DOMAIN Over(t, pending) => u[k] = Over(t, pending)[k]
  BY <1>2, <1>4 DEF Over, With
<1>5. PICK s : s = Over(t, pending)
  OBVIOUS
<1>6. Kept(u, [c EXCEPT ![key] = value])
  BY <1>3, <1>4, <1>5, KeptKey
<1> QED
  BY <1>2, <1>6

\* A start leaves rows from which the cache would be read again, the seeds' among them.
LEMMA StartsKept ==
  ASSUME ValuesReadBack, NEW seed \in Seeds, NEW t, NEW c, NEW u, Starts(seed, t, c, u)
  PROVE  Kept(u, c) /\ DOMAIN seed \subseteq DOMAIN u /\ DOMAIN t \subseteq DOMAIN u
<1>1. PICK s : s = Seeded(seed, t)
  OBVIOUS
<1>2. /\ DOMAIN s = DOMAIN seed \ DOMAIN t /\ DOMAIN s \subseteq Keys
      /\ \A k \in DOMAIN s : s[k] = seed[k] /\ Accepts(k, s[k]) /\ Faithful(k, s[k])
  BY <1>1, Registry DEF Seeded, Starts, ValuesReadBack
<1>3. c = Over(Loaded(t), s)
  BY <1>1 DEF Starts
<1>4. u = Over(t, [k \in DOMAIN s |-> ToStr(k, seed[k])])
  BY <1>1 DEF Starts
<1>5. DOMAIN u = DOMAIN t \cup DOMAIN s
  BY <1>4 DEF Over
<1>6. ASSUME NEW k \in Keys PROVE Same(Loaded(u)[k], c[k])
  <2>1. CASE k \in DOMAIN s
    <3>1. u[k] = ToStr(k, s[k]) /\ k \in DOMAIN u
      BY <1>2, <1>4, <1>5, <2>1 DEF Over
    <3>2. c[k] = s[k]
      BY <1>3, <2>1 DEF Over, Loaded
    <3> QED
      BY <1>2, <2>1, <3>1, <3>2 DEF Loaded, Faithful
  <2>2. CASE k \notin DOMAIN s
    <3>1. /\ k \in DOMAIN u <=> k \in DOMAIN t
          /\ k \in DOMAIN t => u[k] = t[k]
      BY <1>4, <1>5, <2>2 DEF Over
    <3>2. Loaded(u)[k] = Loaded(t)[k]
      BY <3>1 DEF Loaded
    <3>3. c[k] = Loaded(t)[k]
      BY <1>3, <2>2 DEF Over, Loaded
    <3> QED
      BY <3>2, <3>3 DEF Same
  <2> QED
    BY <2>1, <2>2
<1> QED
  BY <1>2, <1>5, <1>6 DEF Kept

\* The requests that are at work after a step that changes request r only.
LEMMA WritingAfter ==
  ASSUME ReqsOK, NEW r \in Requests, NEW q, req' = [req EXCEPT ![r] = q]
  PROVE  /\ req'[r] = q
         /\ \A p \in Requests \ {r} : req'[p] = req[p] /\ (p \in Writing' <=> p \in Writing)
         /\ r \in Writing' <=> q.pc \in {"get", "got", "commit"}
         /\ Writing' \subseteq Requests /\ Writing \subseteq Requests
BY DEF ReqsOK, Writing, Saving

\* The request at work goes on: its new state and the new cache are midway again, or it is
\* done and has left the table and the cache alike.
LEMMA OnlyOneGoesOn ==
  ASSUME ReqsOK, Alone, NEW r \in Writing, NEW q, req' = [req EXCEPT ![r] = q],
         q.pc \in {"get", "got", "commit"} => Midway(q, table', cache'),
         q.pc \notin {"get", "got", "commit"} => Kept(table', cache')
  PROVE  Lasts'
<1>1. /\ req'[r] = q /\ Writing' \subseteq {r}
      /\ r \in Writing' <=> q.pc \in {"get", "got", "commit"}
  BY WritingAfter DEF Alone, Writing
<1> QED
  BY <1>1 DEF Lasts, Alone

LEMMA PutLasts ==
  ASSUME ReqsOK, Lasts, NEW r \in Requests, Put(r), Alone'
  PROVE  Lasts'
<1>1. PICK body \in Bodies : req' = [req EXCEPT ![r] = TurnTo(body, 1, <<>>, {}, {}, cache)]
  BY DEF Put, Becomes
<1>2. PICK q : q = TurnTo(body, 1, <<>>, {}, {}, cache)
  OBVIOUS
<1>3. q.pending = <<>> /\ q.pc \in {"get", "commit", "rejected"}
  BY <1>2 DEF TurnTo, Request
<1>4. /\ req'[r] = q
      /\ \A p \in Requests \ {r} : req'[p] = req[p] /\ (p \in Writing' <=> p \in Writing)
      /\ r \in Writing' <=> q.pc \in {"get", "got", "commit"}
      /\ Writing' \subseteq Requests /\ Writing \subseteq Requests
  BY <1>1, <1>2, WritingAfter
<1>5. r \notin Writing /\ table' = table /\ cache' = cache
  BY DEF Put, ReqAt, Writing, Saving
<1>6. CASE q.pc = "rejected"
  <2>1. Writing' = Writing /\ \A p \in Writing : req'[p] = req[p]
    BY <1>4, <1>5, <1>6
  <2> QED
    BY <1>5, <2>1 DEF Lasts
<1>7. CASE q.pc # "rejected"
  <2>1. Writing' = {r} /\ Writing = {}
    BY <1>3, <1>4, <1>5, <1>7 DEF Alone
  <2>2. Kept(Over(table, q.pending), cache)
    BY <1>3, <2>1, KeptOver DEF Lasts
  <2>3. Midway(q, table, cache)
    BY <1>3, <2>2 DEF Midway
  <2> QED
    BY <1>4, <1>5, <2>1, <2>3 DEF Lasts
<1> QED
  BY <1>6, <1>7

LEMMA RowReadLasts ==
  ASSUME ReqsOK, Lasts, NEW r \in Requests, RowRead(r)
  PROVE  Lasts'
<1>1. PICK q : q = req[r]
  OBVIOUS
<1>2. PICK row : row = IF q.body[q.i].key \in DOMAIN table THEN table[q.body[q.i].key] ELSE NoRow
  OBVIOUS
<1>3. PICK next : next = Request("got", q.body, q.i, row, q.pending, q.inserts, q.changed)
  OBVIOUS
<1>4. q.pc = "get" /\ req' = [req EXCEPT ![r] = next]
  BY <1>1, <1>2, <1>3, RowReadIs
<1>5. r \in Writing
  BY <1>1, <1>4 DEF Writing, Saving
<1>6. Midway(q, table, cache) /\ Alone
  BY <1>1, <1>5 DEF Lasts
<1>7. next.pc = "got" /\ Midway(next, table, cache)
  BY <1>2, <1>3, <1>4, <1>6 DEF Midway, Request
<1>8. table' = table /\ cache' = cache
  BY DEF RowRead
<1> QED
  BY <1>4, <1>5, <1>6, <1>7, <1>8, OnlyOneGoesOn

\* A key refused after another was cached is a request half saved.
LEMMA KeyCachedLasts ==
  ASSUME SettingsOK, ValuesReadBack, Lasts, NEW r \in Requests, KeyCached(r), ~ HalfSaved'
  PROVE  Lasts'
<1>1. PICK q : q = req[r]
  OBVIOUS
<1>2. PICK key, value : key = q.body[q.i].key /\ value = q.body[q.i].value
  OBVIOUS
<1>3. /\ q.pc = "got" /\ q.body \in Bodies /\ q.i \in 1 .. Len(q.body)
      /\ key \in Keys /\ value \in SettingValue /\ Accepts(key, value)
      /\ Goes(r, q, key, value)
  BY <1>1, <1>2, KeyCachedIs
<1>4. /\ r \in Writing /\ Alone /\ ReqsOK
      /\ cache \in [Keys -> SettingValue]
  BY <1>1, <1>3 DEF Writing, Saving, Lasts, SettingsOK, CacheOK
<1>5. Midway(q, table, cache)
  BY <1>1, <1>4 DEF Lasts
<1>6. q.i \in DOMAIN q.body /\ DOMAIN q.body = 1 .. Len(q.body) /\ Len(q.body) \in Nat
  BY <1>3, BodyIs
<1>7. Faithful(key, value)
  BY <1>2, <1>3, <1>6 DEF ValuesReadBack
<1>8. \A j \in DOMAIN q.body : j >= q.i => q.body[j].key \notin DOMAIN q.pending
  BY <1>3, <1>5 DEF Midway
<1>9. key \notin DOMAIN q.pending
  BY <1>2, <1>6, <1>8
<1>10. PICK rows : rows = IF q.row = ToStr(key, value) THEN q.pending
                          ELSE With(q.pending, key, ToStr(key, value))
  OBVIOUS
<1>11. q.row = IF key \in DOMAIN table THEN table[key] ELSE NoRow
  BY <1>2, <1>3, <1>5 DEF Midway
<1>12. PICK t, pending, row : t = table /\ pending = q.pending /\ row = q.row
  OBVIOUS
<1>13. PICK c \in [Keys -> SettingValue] : c = cache
  BY <1>4
<1>14. Kept(Over(t, rows), [c EXCEPT ![key] = value])
  <2>1. Kept(Over(t, pending), c)
    BY <1>5, <1>12, <1>13 DEF Midway
  <2>2. key \notin DOMAIN pending /\ row = IF key \in DOMAIN t THEN t[key] ELSE NoRow
    BY <1>9, <1>11, <1>12
  <2>3. rows = IF row = ToStr(key, value) THEN pending ELSE With(pending, key, ToStr(key, value))
    BY <1>10, <1>12
  <2> QED
    BY <1>3, <1>7, <2>1, <2>2, <2>3, KeptWith
<1>15. cache' = [c EXCEPT ![key] = value] /\ table' = table
  BY <1>3, <1>13 DEF Goes
<1>16. PICK inserts : inserts = IF q.row = NoRow THEN q.inserts \cup {key} ELSE q.inserts
  OBVIOUS
<1>17. PICK next : next = TurnTo(q.body, q.i + 1, rows, inserts, q.changed, cache')
  OBVIOUS
<1>18. req' = [req EXCEPT ![r] = next]
  BY <1>3, <1>10, <1>16, <1>17 DEF Goes
<1>19. /\ next.i = q.i + 1 /\ next.body = q.body
       /\ next.pc \in {"commit", "rejected", "get"}
       /\ next.pc # "rejected" => next.pending = rows
  BY <1>17 DEF TurnTo, Request
<1>20. next.pc # "rejected"
  <2>1. req'[r] = next
    BY <1>4, <1>18, WritingAfter
  <2>2. next.i > 1
    BY <1>3, <1>19
  <2> QED
    BY <2>1, <2>2 DEF HalfSaved, Rejected
<1>21. Midway(next, table', cache')
  <2>1. next.pending = rows /\ next.i > 1
    BY <1>3, <1>6, <1>19, <1>20
  <2>2. Kept(Over(table', next.pending), cache')
    BY <1>12, <1>14, <1>15, <2>1
  <2>3. ASSUME NEW j \in DOMAIN next.body, j >= next.i
        PROVE  next.body[j].key \notin DOMAIN next.pending
    <3>1. j \in DOMAIN q.body /\ j >= q.i /\ j # q.i
      BY <1>6, <1>19, <2>3
    <3>2. q.body[j].key \notin DOMAIN q.pending
      BY <1>8, <3>1
    <3>3. q.body[j].key # key
      BY <1>2, <1>3, <1>6, <3>1, BodyIs
    <3>4. DOMAIN rows \subseteq DOMAIN q.pending \cup {key}
      BY <1>10 DEF With
    <3> QED
      BY <1>19, <2>1, <3>2, <3>3, <3>4
  <2>4. next.pc # "got"
    BY <1>19
  <2> QED
    BY <2>1, <2>2, <2>3, <2>4 DEF Midway
<1>22. next.pc \in {"get", "got", "commit"}
  BY <1>19, <1>20
<1> QED
  BY <1>4, <1>18, <1>21, <1>22, OnlyOneGoesOn

LEMMA CommittedLasts ==
  ASSUME ReqsOK, Lasts, NEW r \in Requests, Committed(r)
  PROVE  Lasts'
<1>1. PICK q : q = req[r]
  OBVIOUS
<1>2. PICK next : next = Request("saved", q.body, q.i, q.row, q.pending, q.inserts, q.changed)
  OBVIOUS
<1>3. q.pc = "commit" /\ req' = [req EXCEPT ![r] = next]
  BY <1>1, <1>2, MovesIs DEF Committed, ReqAt
<1>4. r \in Writing
  BY <1>1, <1>3 DEF Writing, Saving
<1>5. Midway(q, table, cache) /\ Alone
  BY <1>1, <1>4 DEF Lasts
<1>6. table' = Over(table, q.pending) /\ cache' = cache
  BY <1>1 DEF Committed, Persisted, Over
<1>7. Kept(table', cache') /\ next.pc = "saved"
  BY <1>2, <1>5, <1>6 DEF Midway, Request
<1> QED
  BY <1>3, <1>4, <1>5, <1>7, OnlyOneGoesOn

LEMMA CallFailedLasts ==
  ASSUME ReqsOK, Lasts, NEW r \in Requests, CallFailed(r), ~ HalfSaved'
  PROVE  Lasts'
<1>1. PICK q : q = req[r]
  OBVIOUS
<1>2. PICK next : next = Request("failed", q.body, q.i, q.row, q.pending, q.inserts, q.changed)
  OBVIOUS
<1>3. q.pc \in {"get", "commit"} /\ req' = [req EXCEPT ![r] = next]
  BY <1>1, <1>2, MovesIs DEF CallFailed, ReqAt
<1>4. r \in Writing
  BY <1>1, <1>3 DEF Writing, Saving
<1>5. Midway(q, table, cache) /\ Alone
  BY <1>1, <1>4 DEF Lasts
<1>6. next.pc = "failed" /\ next.i = q.i
  BY <1>2 DEF Request
<1>7. ~ (q.i > 1)
  <2>1. req'[r] = next
    BY <1>3, WritingAfter
  <2> QED
    BY <1>6, <2>1 DEF HalfSaved, Rejected
<1>8. Kept(table, cache)
  BY <1>5, <1>7, KeptOver DEF Midway
<1>9. table' = table /\ cache' = cache
  BY DEF CallFailed
<1> QED
  BY <1>3, <1>4, <1>5, <1>6, <1>8, <1>9, OnlyOneGoesOn

\* A restart leaves no request at work.
LEMMA RestartsLasts ==
  ASSUME ValuesReadBack, ProgramRestarts
  PROVE  Lasts'
<1>1. PICK seed \in Seeds : Starts(seed, table, cache', table')
  BY DEF ProgramRestarts
<1>2. Kept(table', cache')
  <2>1. PICK t, c, u : t = table /\ c = cache' /\ u = table'
    OBVIOUS
  <2>2. Kept(u, c)
    BY <1>1, <2>1, StartsKept
  <2> QED
    BY <2>1, <2>2
<1>3. Writing' = {}
  BY DEF ProgramRestarts, Writing, Saving, Idle, Request
<1> QED
  BY <1>2, <1>3 DEF Lasts, Alone

\* No row is ever taken out of the table.
LEMMA RowsStay ==
  ASSUME SeedRows, SameSeedKeys, [Next]_vars
  PROVE  SeedRows'
<1>1. CASE table' = table
  BY <1>1 DEF SeedRows
<1>2. ASSUME NEW r \in Requests, Committed(r) PROVE SeedRows'
  <2>1. DOMAIN table \subseteq DOMAIN table'
    BY <1>2 DEF Committed, Persisted
  <2> QED
    BY <2>1 DEF SeedRows
<1>3. CASE ProgramRestarts
  <2>1. PICK seed \in Seeds : Starts(seed, table, cache', table')
    BY <1>3 DEF ProgramRestarts
  <2>2. DOMAIN table \subseteq DOMAIN table'
    BY <2>1 DEF Starts, Over
  <2> QED
    BY <2>2 DEF SeedRows
<1>4. CASE UNCHANGED vars
  BY <1>1, <1>4 DEF vars, settingsVars
<1>5. ASSUME NEW r \in Requests, Requested(r) PROVE SeedRows'
  <2>1. table' = table \/ Committed(r)
    BY <1>5 DEF Requested, Saved, Put, RowRead, KeyCached, CallFailed
  <2> QED
    BY <1>1, <1>2, <2>1
<1>6. ASSUME NEW l \in Reloads, TagsSynced(l) \/ MetadataFailed(l) \/ ReloadReached(l) PROVE table' = table
  BY <1>6 DEF TagsSynced, MetadataFailed, ReloadReached, settingsVars
<1>7. ASSUME NEW p \in Callers,
             Joined(p) \/ Stopped(p) \/ TagsLoaded(p) \/ Bound(p) \/ Started(p) \/ StartFailed(p)
      PROVE  table' = table
  BY <1>7 DEF Joined, Stopped, TagsLoaded, Bound, Started, StartFailed, settingsVars
<1>8. CASE ModbusBinds
  BY <1>1, <1>8 DEF ModbusBinds, settingsVars
<1> QED
  BY <1>1, <1>3, <1>4, <1>5, <1>6, <1>7, <1>8 DEF Next

\* Steps at the servers leave the settings alone.
LEMMA SameLasts ==
  ASSUME Lasts, UNCHANGED <<cache, table, req>>
  PROVE  Lasts'
<1>1. Writing' = Writing /\ cache' = cache /\ table' = table /\ req' = req
  BY DEF Writing, Saving
<1> QED
  BY <1>1 DEF Lasts, Alone

LEMMA NextLasts ==
  ASSUME Typed, ValuesReadBack, Lasts, [Next]_vars,
         ~ ProgramRestarts => Alone' /\ ~ HalfSaved'
  PROVE  Lasts'
<1>0. SettingsOK /\ ReqsOK
  BY DEF Typed, SettingsOK
<1>1. CASE ProgramRestarts
  BY <1>1, RestartsLasts
<1>2. CASE UNCHANGED <<cache, table, req>>
  BY <1>2, SameLasts
<1>3. ASSUME NEW r \in Requests, Requested(r), ~ ProgramRestarts PROVE Lasts'
  <2>1. Put(r) \/ RowRead(r) \/ KeyCached(r) \/ CallFailed(r) \/ Committed(r)
    BY <1>3 DEF Requested, Saved
  <2>2. Alone' /\ ~ HalfSaved'
    BY <1>3
  <2> QED
    BY <1>0, <2>1, <2>2, PutLasts, RowReadLasts, KeyCachedLasts, CallFailedLasts, CommittedLasts
<1>4. ASSUME NEW l \in Reloads, TagsSynced(l) \/ MetadataFailed(l) \/ ReloadReached(l)
      PROVE  UNCHANGED <<cache, table, req>>
  BY <1>4 DEF TagsSynced, MetadataFailed, ReloadReached, settingsVars
<1>5. ASSUME NEW p \in Callers,
             Joined(p) \/ Stopped(p) \/ TagsLoaded(p) \/ Bound(p) \/ Started(p) \/ StartFailed(p)
      PROVE  UNCHANGED <<cache, table, req>>
  BY <1>5 DEF Joined, Stopped, TagsLoaded, Bound, Started, StartFailed, settingsVars
<1>6. CASE ModbusBinds
  BY <1>2, <1>6 DEF ModbusBinds, settingsVars
<1>7. CASE UNCHANGED vars
  BY <1>2, <1>7 DEF vars, settingsVars
<1> QED
  BY <1>1, <1>2, <1>3, <1>4, <1>5, <1>6, <1>7 DEF Next

Lasting == Typed /\ SeedRows /\ (mixed \/ Lasts)

LEMMA InitLasting ==
  ASSUME ValuesReadBack, SameSeedKeys
  PROVE  MCInit => Lasting
<1> SUFFICES ASSUME MCInit PROVE Lasting
  OBVIOUS
<1>0. Init /\ Typed
  BY InitTyped DEF MCInit
<1>1. PICK seed \in Seeds : Starts(seed, FirstTable, cache, table)
  BY <1>0 DEF Init, SettingsInit
<1>2. Kept(table, cache) /\ DOMAIN seed \subseteq DOMAIN table
  BY <1>1, StartsKept
<1>3. SeedRows
  BY <1>2 DEF SeedRows, SameSeedKeys
<1>4. Writing = {}
  BY <1>0 DEF Init, SettingsInit, Writing, Saving, Idle, Request
<1>5. Lasts
  BY <1>2, <1>4 DEF Lasts, Alone
<1> QED
  BY <1>0, <1>3, <1>5 DEF Lasting

LEMMA NextLasting ==
  ASSUME ValuesReadBack, SameSeedKeys
  PROVE  Lasting /\ [MCNext]_mcvars => Lasting'
<1> SUFFICES ASSUME Lasting, [MCNext]_mcvars PROVE Lasting'
  OBVIOUS
<1>1. Typed /\ SeedRows /\ [Next]_vars
  BY DEF Lasting, MCNext, mcvars
<1>2. Typed' /\ SeedRows'
  BY <1>1, NextTyped, RowsStay
<1>3. CASE UNCHANGED mcvars
  <2>1. UNCHANGED <<cache, table, req>> /\ mixed' = mixed
    BY <1>3 DEF mcvars, vars, settingsVars
  <2> QED
    BY <1>2, <2>1, SameLasts DEF Lasting
<1>4. CASE MCNext /\ ~ mixed'
  <2>1. mixed' = (restarts' = restarts /\ (mixed \/ Cardinality(Writing') > 1 \/ HalfSaved'))
    BY <1>4 DEF MCNext
  <2>2. CASE restarts' # restarts
    <3>1. ProgramRestarts
      BY <1>4, <2>2 DEF MCNext, Next, Requested, TagsSynced, MetadataFailed, ReloadReached, Joined, Stopped,
         TagsLoaded, Bound, Started, StartFailed, ModbusBinds
    <3>2. Lasts'
      BY <3>1, RestartsLasts
    <3> QED
      BY <1>2, <3>2 DEF Lasting
  <2>3. CASE restarts' = restarts
    <3>1. ~ mixed /\ ~ (Cardinality(Writing') > 1) /\ ~ HalfSaved'
      BY <1>4, <2>1, <2>3
    <3>2. Alone'
      <4>1. PICK S : S = Writing'
        OBVIOUS
      <4>2. S \in SUBSET Requests
        BY <4>1 DEF Writing
      <4>3. IsFiniteSet(S)
        BY <4>2, SettingsAssumption, FS_Subset
      <4>4. \A x, y \in S : x = y
        BY <3>1, <4>1, <4>3, AtMostOne
      <4> QED
        BY <4>1, <4>4 DEF Alone
    <3>3. Lasts'
      BY <1>1, <3>1, <3>2, NextLasts DEF Lasting
    <3> QED
      BY <1>2, <3>3 DEF Lasting
  <2> QED
    BY <2>2, <2>3
<1>5. CASE mixed'
  BY <1>2, <1>5 DEF Lasting
<1> QED
  BY <1>3, <1>4, <1>5

LEMMA LastingMeans == Lasting => QuietRestartKeepsSettings
<1> SUFFICES ASSUME Lasting, Quiet, ~ mixed PROVE SurvivesRestart
  BY DEF QuietRestartKeepsSettings
<1>1. Kept(table, cache) /\ SeedRows
  BY DEF Lasting, Lasts, Quiet
<1>2. ASSUME NEW seed \in Seeds, NEW k \in Keys
      PROVE  Same(Over(Loaded(table), Seeded(seed, table))[k], cache[k])
  <2>1. DOMAIN Seeded(seed, table) = {}
    BY <1>1 DEF Seeded, SeedRows
  <2>2. Over(Loaded(table), Seeded(seed, table))[k] = Loaded(table)[k]
    BY <2>1 DEF Over, Loaded
  <2> QED
    BY <1>1, <2>2 DEF Kept
<1> QED
  BY <1>2 DEF SurvivesRestart

(* load's docstring (runtime_settings.py:24-26): once a setting was saved,   *)
(* its row takes over.  Whatever requests, reloads, failures and restarts   *)
(* came before, what the program works with when it is at rest is what it   *)
(* would read from the table on the next start, and the environment         *)
(* changes nothing, unless two requests were saved at once or one failed    *)
(* half way since the last start.  Two hypotheses: the text of every value  *)
(* that is saved reads back as the value (a fraction saved for a whole      *)
(* number does not), and every start gives load the same keys (main.py      *)
(* does).                                                                   *)
THEOREM RestartKeepsSettings ==
  ASSUME ValuesReadBack, SameSeedKeys
  PROVE  MCSpec => []QuietRestartKeepsSettings
<1>1. MCSpec => []Lasting
  BY InitLasting, NextLasting, PTL DEF MCSpec
<1> QED
  BY <1>1, LastingMeans, PTL

-----------------------------------------------------------------------------
(* What the servers come to rest as.                                         *)
(*                                                                           *)
(* The argument: a server that is not disturbed has at most one caller at it *)
(* or on the way to it, and its state is the one that caller's await implies *)
(* (InOrder).  It is, or its caller will make it, what the settings say,     *)
(* unless a request is about to turn to it (Heeds, or Due or Owing), and the *)
(* same of the tags (Fresh, or Synced or OwingTags), unless a reload passed  *)
(* it over.  The numbers of the two servers' instances are apart, so ending  *)
(* one never takes the other's instance or forward task.                     *)

Mine(k) == {i \in instances : i.kind = k}
On(k) == Truthy(cache[Enabled(k)])
PortNow(k) == cache[Port(k)].n

\* Whether callers are at server k, or have still to see to it after the one they are at.
Free(k) == \A p \in Serving : call[p].kind # k
Owes(p, k) == call[p].kind # k /\ k \in Concerns(call[p])

\* Settings that were cached, and a request under way that will apply them to server k.
Due(k) == \E r \in Writing : req[r].i > 1 /\ req[r].changed \cap ServerKeys(k) # {}
Owing(k) == \E p \in Serving : p \notin Reloads /\ Owes(p, k)

\* Tags that were put in the database, and a reload that will bring them to server k.
Synced == \E l \in Reloads : InCall(l, "synced")
OwingTags(k) == \E p \in Serving : Owes(p, k)

OneOf(m, id) == id # None /\ \E i \in m : m = {i} /\ i.id = id

\* The state s of a server nobody is at, m being its instances and fw the forward tasks.
RestOK(s, m, fw) ==
  IF s.running THEN OneOf(m, s.server) /\ s.forward = s.server /\ s.forward \in fw
  ELSE s = Off /\ m = {}

\* The state of the server a call is at.
StageOK(c, s, m, fw) ==
  /\ c.pc = "joining" => /\ ~ s.running /\ s.server = c.id /\ s.forward = c.id
                         /\ OneOf(m, c.id) /\ c.id \in fw
  /\ c.pc = "stopping" => ~ s.running /\ s.server = c.id /\ s.forward = None /\ OneOf(m, c.id)
  /\ c.pc \in {"loading", "starting"} => s = Off /\ m = {}
  /\ c.pc = "started" => s = Off /\ OneOf(m, c.id) /\ \A i \in m : i.port = c.port

\* The server is, or will be, as the settings say ...
CallHeeds(c, on, port) ==
  /\ c.pc \in {"joining", "stopping"} => (c.again <=> on)
  /\ c.pc \in {"loading", "starting", "started"} => on /\ c.port = port
RestHeeds(s, m, on, port) == (s.running <=> on) /\ \A i \in m : i.port = port

\* ... and knows the tags.
CallFresh(c, version) == c.pc \in {"starting", "started"} => c.version = version
RestFresh(s, version) == s.running => s.nodes = version

InOrder(k) ==
  /\ \A p, q \in Serving : k \in Concerns(call[p]) /\ k \in Concerns(call[q]) => p = q
  /\ \A p \in Serving : call[p].kind = k => StageOK(call[p], srv[k], Mine(k), forwarders)
  /\ Free(k) => RestOK(srv[k], Mine(k), forwarders)

Heeds(k) ==
  /\ \A p \in Serving : call[p].kind = k => CallHeeds(call[p], On(k), PortNow(k))
  /\ Free(k) => RestHeeds(srv[k], Mine(k), On(k), PortNow(k))

Fresh(k) ==
  /\ \A p \in Serving : call[p].kind = k => CallFresh(call[p], tags)
  /\ Free(k) => RestFresh(srv[k], tags)

Clean(k) ==
  /\ InOrder(k)
  /\ Due(k) \/ Owing(k) \/ Heeds(k)
  /\ k \in missed \/ Synced \/ OwingTags(k) \/ Fresh(k)

\* The numbers of the instances of one kind, whatever holds them.
Holds(k, x) ==
  \/ \E i \in instances : i.kind = k /\ i.id = x
  \/ x \in {srv[k].server, srv[k].forward}
  \/ \E p \in Callers : call[p].kind = k /\ call[p].id = x

Apart ==
  /\ \A x : Holds("opcua", x) /\ Holds("modbus", x) => x = None
  /\ \A p \in Callers : call[p].pc = "starting" => call[p].kind = "opcua"

\* A request turns to the servers once, when it is saved.
Waiting == \A r \in Requests : req[r].pc # "saved" => call[r].pc = "none"

\* What the request at work is to cache is what is cached, or noted as changed.
Changing ==
  \A r \in Writing : req[r].pc \in {"get", "got"} =>
    LET entry == req[r].body[req[r].i] IN
    entry.key \in req[r].changed \/ Same(cache[entry.key], entry.value)

ServersInv ==
  /\ Apart /\ Waiting
  /\ mixed => disturbed = Kinds
  /\ mixed \/ ((\A r, s \in Writing : r = s) /\ Changing)
  /\ \A k \in Kinds \ disturbed : Clean(k)
  /\ disturbed = {} => NoStrayForwarder

-----------------------------------------------------------------------------
(* What an operation of a server comes to.                                   *)

Busy == {"joining", "stopping", "loading", "starting", "started"}

Shaped(o, k, then) ==
  o.call.pc = "done"
  \/ (o.call.pc \in Busy \ {"starting"} /\ o.call.kind = k /\ o.call.then = then)

\* The outcome o leaves the server in the state its call is in, or at rest; and the same of
\* the settings and the tags.
Fits(o, m, fw) ==
  IF o.call.pc = "done" THEN RestOK(o.server, m, fw) ELSE StageOK(o.call, o.server, m, fw)
OutcomeHeeds(o, m, on, port) ==
  IF o.call.pc = "done" THEN RestHeeds(o.server, m, on, port) ELSE CallHeeds(o.call, on, port)
OutcomeFresh(o, version) ==
  IF o.call.pc = "done" THEN RestFresh(o.server, version) ELSE CallFresh(o.call, version)

LEMMA FinishedIs ==
  ASSUME NEW s
  PROVE  Finished(s).server = s /\ Finished(s).call.pc = "done"
BY DEF Finished, Outcome, NoCall, Call

LEMMA OutcomeIs ==
  ASSUME NEW s, NEW pc, NEW kind, NEW then, NEW again, NEW id, NEW port, NEW version
  PROVE  LET o == Outcome(s, Call(pc, kind, then, again, id, port, version)) IN
         /\ o.server = s /\ o.call.pc = pc /\ o.call.kind = kind /\ o.call.then = then
         /\ o.call.again = again /\ o.call.id = id /\ o.call.port = port /\ o.call.version = version
BY DEF Outcome, Call

LEMMA OffIs == Off.running = FALSE /\ Off.server = None /\ Off.forward = None /\ Off.nodes = None
BY DEF Off, Server

LEMMA StartingGood ==
  ASSUME NEW k, NEW then, NEW fw, NEW version, NEW on, NEW port, port = cache'[Port(k)].n,
         NEW o, o = Starting(k, then, Off)
  PROVE  /\ Shaped(o, k, then) /\ Fits(o, {}, fw) /\ OutcomeFresh(o, version)
         /\ on => OutcomeHeeds(o, {}, on, port)
<1>1. o = Outcome(Off, Call("loading", k, then, FALSE, None, port, None))
  BY OffIs DEF Starting
<1>2. /\ o.server = Off /\ o.call.pc = "loading" /\ o.call.kind = k /\ o.call.then = then
      /\ o.call.port = port
  BY <1>1 DEF Outcome, Call
<1> QED
  BY <1>2 DEF Shaped, Busy, Fits, StageOK, OutcomeFresh, CallFresh, OutcomeHeeds, CallHeeds

LEMMA StoppingGood ==
  ASSUME NEW n, NEW v, NEW k, NEW then, NEW again, NEW s \in ServerState(n, v), s.running,
         NEW m, NEW fw, RestOK(s, m, fw), NEW version, NEW on, NEW port,
         NEW o, o = Stopping(k, then, again, s)
  PROVE  /\ Shaped(o, k, then) /\ Fits(o, m, fw) /\ OutcomeFresh(o, version)
         /\ (again <=> on) => OutcomeHeeds(o, m, on, port)
<1>1. PICK t : t = [s EXCEPT !.running = FALSE]
  OBVIOUS
<1>2. t.running = FALSE /\ t.server = s.server /\ t.forward = s.forward
  BY <1>1 DEF ServerState
<1>3. OneOf(m, s.server) /\ s.forward = s.server /\ s.forward \in fw /\ s.forward # None
  BY DEF RestOK, OneOf
<1>4. o = Outcome(t, Call("joining", k, then, again, s.forward, None, None))
  BY <1>1, <1>3 DEF Stopping
<1>5. /\ o.server = t /\ o.call.pc = "joining" /\ o.call.kind = k /\ o.call.then = then
      /\ o.call.again = again /\ o.call.id = s.forward
  BY <1>4, OutcomeIs
<1>6. Shaped(o, k, then) /\ OutcomeFresh(o, version)
  BY <1>5 DEF Shaped, Busy, OutcomeFresh, CallFresh
<1>7. Fits(o, m, fw)
  BY <1>2, <1>3, <1>5 DEF Fits, StageOK
<1>8. (again <=> on) => OutcomeHeeds(o, m, on, port)
  BY <1>5 DEF OutcomeHeeds, CallHeeds
<1> QED
  BY <1>6, <1>7, <1>8

\* A caller that finds a server at rest.  Only a reload relies on it being as the settings say.
LEMMA AskedGood ==
  ASSUME NEW n, NEW v, NEW p, NEW k, NEW then, srv[k] \in ServerState(n, v),
         NEW m, NEW fw, RestOK(srv[k], m, fw), NEW version,
         NEW on \in BOOLEAN, on = Truthy(cache'[Enabled(k)]), NEW port, port = cache'[Port(k)].n,
         NEW o, o = Asked(p, k, then)
  PROVE  /\ Fits(o, m, fw) /\ OutcomeFresh(o, version)
         /\ p \notin Reloads \/ RestHeeds(srv[k], m, on, port) => OutcomeHeeds(o, m, on, port)
<1>1. PICK s \in ServerState(n, v) : s = srv[k]
  OBVIOUS
<1>2. RestOK(s, m, fw)
  BY <1>1
<1>3. CASE s.running
  <2>1. ASSUME NEW again, o = Stopping(k, then, again, s)
        PROVE  /\ Fits(o, m, fw) /\ OutcomeFresh(o, version)
               /\ (again <=> on) => OutcomeHeeds(o, m, on, port)
    BY <1>2, <1>3, <2>1, StoppingGood
  <2>2. CASE p \in Reloads
    <3>1. o = Stopping(k, then, TRUE, s)
      BY <1>1, <1>3, <2>2 DEF Asked, Restarting
    <3>2. RestHeeds(s, m, on, port) => on
      BY <1>3 DEF RestHeeds
    <3> QED
      BY <1>1, <2>1, <2>2, <3>1, <3>2
  <2>3. CASE p \notin Reloads /\ on
    <3>1. o = Stopping(k, then, TRUE, s)
      BY <1>1, <1>3, <2>3 DEF Asked, Restarting
    <3> QED
      BY <2>1, <2>3, <3>1
  <2>4. CASE p \notin Reloads /\ ~ on
    <3>1. o = Stopping(k, then, FALSE, s)
      BY <1>1, <1>3, <2>4 DEF Asked
    <3> QED
      BY <2>1, <2>4, <3>1
  <2> QED
    BY <2>2, <2>3, <2>4
<1>4. CASE ~ s.running
  <2>1. s = Off /\ m = {}
    BY <1>2, <1>4 DEF RestOK
  <2>2. CASE p \notin Reloads /\ on
    <3>1. o = Starting(k, then, Off)
      BY <1>1, <1>4, <2>1, <2>2 DEF Asked, Restarting
    <3> QED
      BY <2>1, <2>2, <3>1, StartingGood
  <2>3. CASE p \in Reloads \/ ~ on
    <3>1. o = Finished(s)
      BY <1>1, <1>4, <2>3 DEF Asked
    <3>2. o.server = s /\ o.call.pc = "done"
      BY <3>1, FinishedIs
    <3>3. Fits(o, m, fw) /\ OutcomeFresh(o, version)
      BY <1>2, <1>4, <3>2 DEF Fits, OutcomeFresh, RestFresh
    <3>4. RestHeeds(s, m, on, port) => OutcomeHeeds(o, m, on, port)
      BY <3>2 DEF OutcomeHeeds
    <3>5. ~ on => RestHeeds(s, m, on, port)
      BY <1>4, <2>1 DEF RestHeeds
    <3> QED
      BY <1>1, <2>3, <3>3, <3>4, <3>5
  <2> QED
    BY <2>2, <2>3
<1> QED
  BY <1>3, <1>4

LEMMA FinishedShaped ==
  ASSUME NEW k, NEW then, NEW s
  PROVE  Shaped(Finished(s), k, then)
BY FinishedIs DEF Shaped

LEMMA CallShaped ==
  ASSUME NEW k, NEW then, NEW s, NEW pc \in Busy \ {"starting"}, NEW again, NEW id, NEW port, NEW version
  PROVE  Shaped(Outcome(s, Call(pc, k, then, again, id, port, version)), k, then)
BY OutcomeIs DEF Shaped

LEMMA StartingShaped ==
  ASSUME NEW k, NEW then, NEW s
  PROVE  Shaped(Starting(k, then, s), k, then)
<1>1. PICK port : port = cache'[Port(k)].n
  OBVIOUS
<1>2. Shaped(Outcome(s, Call("loading", k, then, FALSE, None, port, None)), k, then)
  BY CallShaped DEF Busy
<1> QED
  BY <1>1, <1>2, FinishedShaped DEF Starting

LEMMA AfterJoinShaped ==
  ASSUME NEW k, NEW then, NEW again, NEW s
  PROVE  Shaped(AfterJoin(k, then, again, s), k, then) /\ Shaped(AfterStop(k, then, again, s), k, then)
<1>1. \A t : Shaped(AfterStop(k, then, again, t), k, then)
  BY StartingShaped, FinishedShaped DEF AfterStop
<1>2. Shaped(Outcome(s, Call("stopping", k, then, again, s.server, None, None)), k, then)
  BY CallShaped DEF Busy
<1> QED
  BY <1>1, <1>2 DEF AfterJoin

LEMMA StoppingShaped ==
  ASSUME NEW k, NEW then, NEW again, NEW s
  PROVE  Shaped(Stopping(k, then, again, s), k, then)
<1>1. PICK off : off = [s EXCEPT !.running = FALSE]
  OBVIOUS
<1>2. Shaped(Outcome(off, Call("joining", k, then, again, s.forward, None, None)), k, then)
  BY CallShaped DEF Busy
<1> QED
  BY <1>1, <1>2, AfterJoinShaped DEF Stopping

LEMMA AskedShaped ==
  ASSUME NEW p, NEW k, NEW then
  PROVE  Shaped(Asked(p, k, then), k, then)
<1>1. PICK s : s = srv[k]
  OBVIOUS
<1>2. Shaped(Restarting(k, then, s), k, then)
  BY StoppingShaped, StartingShaped DEF Restarting
<1> QED
  BY <1>1, <1>2, StoppingShaped, FinishedShaped DEF Asked

\* The forward task has ended: stop goes on to the instance.
LEMMA JoinedGood ==
  ASSUME NEW n, NEW v, NEW c, c.pc = "joining", NEW s \in ServerState(n, v),
         NEW m, NEW fw, NEW rest, StageOK(c, s, m, fw), NEW version, NEW on, NEW port,
         NEW k, NEW then, NEW again, again = c.again, NEW t, t = [s EXCEPT !.forward = None],
         NEW o, o = AfterJoin(k, then, again, t)
  PROVE  /\ Fits(o, m, rest) /\ OutcomeFresh(o, version)
         /\ CallHeeds(c, on, port) => OutcomeHeeds(o, m, on, port)
<1>1. /\ t.running = s.running /\ t.server = s.server /\ t.forward = None
  BY DEF ServerState
<1>2. ~ s.running /\ s.server = c.id /\ OneOf(m, c.id) /\ s.server # None
  BY DEF StageOK, OneOf
<1>3. o = Outcome(t, Call("stopping", k, then, again, s.server, None, None))
  BY <1>1, <1>2 DEF AfterJoin
<1>4. o.server = t /\ o.call.pc = "stopping" /\ o.call.again = again /\ o.call.id = s.server
  BY <1>3, OutcomeIs
<1>5. Fits(o, m, rest)
  BY <1>1, <1>2, <1>4 DEF Fits, StageOK
<1>6. OutcomeFresh(o, version)
  BY <1>4 DEF OutcomeFresh, CallFresh
<1>7. CallHeeds(c, on, port) => OutcomeHeeds(o, m, on, port)
  BY <1>4 DEF OutcomeHeeds, CallHeeds
<1> QED
  BY <1>5, <1>6, <1>7

\* The instance has ended: the server is off, and restart goes on to start it.
Halted(s) == \E server, nodes : s = Server(FALSE, server, None, nodes)

LEMMA StoppedOff ==
  ASSUME NEW n, NEW v, NEW c, c.pc = "stopping", NEW s \in ServerState(n, v),
         NEW m, NEW fw, StageOK(c, s, m, fw)
  PROVE  Halted(s)
<1>1. ~ s.running /\ s.forward = None
  BY DEF StageOK
<1>2. s = Server(s.running, s.server, s.forward, s.nodes) /\ s.running = FALSE
  BY <1>1 DEF ServerState, Server
<1> QED
  BY <1>1, <1>2 DEF Halted

LEMMA StoppedGood ==
  ASSUME NEW c, c.pc = "stopping", NEW fw, NEW version, NEW on \in BOOLEAN, NEW k, NEW then,
         NEW again \in BOOLEAN, again = c.again, NEW port, port = cache'[Port(k)].n,
         NEW o, o = AfterStop(k, then, again, Off)
  PROVE  /\ Fits(o, {}, fw) /\ OutcomeFresh(o, version)
         /\ CallHeeds(c, on, port) => OutcomeHeeds(o, {}, on, port)
<1>1. CASE again
  <2>1. o = Starting(k, then, Off)
    BY <1>1 DEF AfterStop
  <2>2. /\ Fits(o, {}, fw) /\ OutcomeFresh(o, version)
        /\ on => OutcomeHeeds(o, {}, on, port)
    BY <2>1, StartingGood
  <2>3. CallHeeds(c, on, port) => on
    BY <1>1 DEF CallHeeds
  <2> QED
    BY <2>2, <2>3
<1>2. CASE ~ again
  <2>1. o.server = Off /\ o.call.pc = "done"
    BY <1>2, FinishedIs DEF AfterStop
  <2>2. Fits(o, {}, fw) /\ OutcomeFresh(o, version)
    BY <2>1, OffIs DEF Fits, RestOK, OutcomeFresh, RestFresh
  <2>3. CallHeeds(c, on, port) => OutcomeHeeds(o, {}, on, port)
    BY <1>2, <2>1, OffIs DEF CallHeeds, OutcomeHeeds, RestHeeds
  <2> QED
    BY <2>2, <2>3
<1> QED
  BY <1>1, <1>2

\* start returns.
LEMMA StartedGood ==
  ASSUME NEW c, c.pc = "started", NEW s, NEW m, NEW fw, StageOK(c, s, m, fw), NEW version,
         NEW on, NEW port, NEW o, o = Finished(Server(TRUE, c.id, c.id, c.version))
  PROVE  /\ Fits(o, m, fw \cup {c.id})
         /\ CallFresh(c, version) => OutcomeFresh(o, version)
         /\ CallHeeds(c, on, port) => OutcomeHeeds(o, m, on, port)
<1>1. PICK t : t = Server(TRUE, c.id, c.id, c.version)
  OBVIOUS
<1>2. o.server = t /\ o.call.pc = "done"
  BY <1>1, FinishedIs
<1>3. t.running = TRUE /\ t.server = c.id /\ t.forward = c.id /\ t.nodes = c.version
  BY <1>1 DEF Server
<1>4. OneOf(m, c.id) /\ \A i \in m : i.port = c.port
  BY DEF StageOK
<1>5. Fits(o, m, fw \cup {c.id})
  BY <1>2, <1>3, <1>4 DEF Fits, RestOK
<1>6. CallFresh(c, version) => OutcomeFresh(o, version)
  BY <1>2, <1>3 DEF OutcomeFresh, CallFresh, RestFresh
<1>7. CallHeeds(c, on, port) => OutcomeHeeds(o, m, on, port)
  BY <1>2, <1>3, <1>4 DEF OutcomeHeeds, CallHeeds, RestHeeds
<1> QED
  BY <1>5, <1>6, <1>7

-----------------------------------------------------------------------------
(* What a step leaves of the order at a server.                              *)

\* p has seen to server j, with outcome o, and nobody else is there.
LEMMA Settles ==
  ASSUME NEW j, NEW p, NEW o, srv'[j] = o.server, Fits(o, Mine(j)', forwarders'),
         \A q \in Serving : q # p => j \notin Concerns(call[q]),
         \A q \in Callers : q # p => call'[q] = call[q],
         o.call.pc = "done" \/ o.call.pc \in Busy,
         o.call.pc = "done" => (p \in Serving' => call'[p].kind # j),
         o.call.pc # "done" => p \in Callers /\ call'[p] = o.call /\ o.call.kind = j
  PROVE  /\ InOrder(j)'
         /\ OutcomeHeeds(o, Mine(j)', On(j)', PortNow(j)') => Heeds(j)'
         /\ OutcomeFresh(o, tags') => Fresh(j)'
<1>1. \A q \in Serving' : q # p => j \notin Concerns(call'[q])
  BY DEF Serving, Concerns
<1>2. \A q \in Serving' : q # p => call'[q].kind # j
  BY <1>1 DEF Concerns
<1>3. \A q, r \in Serving' : j \in Concerns(call'[q]) /\ j \in Concerns(call'[r]) => q = r
  BY <1>1
<1>4. CASE o.call.pc = "done"
  <2>1. \A q \in Serving' : call'[q].kind # j
    BY <1>2, <1>4
  <2>2. RestOK(srv'[j], Mine(j)', forwarders')
    BY <1>4 DEF Fits
  <2>3. InOrder(j)'
    BY <1>3, <2>1, <2>2 DEF InOrder, Concerns
  <2>4. OutcomeHeeds(o, Mine(j)', On(j)', PortNow(j)') => Heeds(j)'
    BY <1>4, <2>1 DEF OutcomeHeeds, Heeds
  <2>5. OutcomeFresh(o, tags') => Fresh(j)'
    BY <1>4, <2>1 DEF OutcomeFresh, Fresh
  <2> QED
    BY <2>3, <2>4, <2>5
<1>5. CASE o.call.pc # "done"
  <2>1. p \in Serving' /\ call'[p].kind = j /\ call'[p] = o.call
    BY <1>5 DEF Serving, Busy
  <2>2. StageOK(call'[p], srv'[j], Mine(j)', forwarders')
    BY <1>5 DEF Fits
  <2>3. ~ Free(j)'
    BY <2>1 DEF Free
  <2>4. InOrder(j)'
    BY <1>2, <1>3, <2>2, <2>3 DEF InOrder, Concerns
  <2>5. OutcomeHeeds(o, Mine(j)', On(j)', PortNow(j)') => Heeds(j)'
    BY <1>2, <1>5, <2>1, <2>3 DEF OutcomeHeeds, Heeds
  <2>6. OutcomeFresh(o, tags') => Fresh(j)'
    BY <1>2, <1>5, <2>1, <2>3 DEF OutcomeFresh, Fresh
  <2> QED
    BY <2>4, <2>5, <2>6
<1> QED
  BY <1>4, <1>5

\* p has been elsewhere; if it has still to see to server j, nobody else is there.
LEMMA Stays ==
  ASSUME NEW j, NEW p, InOrder(j), srv'[j] = srv[j], Mine(j)' = Mine(j),
         srv[j].forward \in forwarders => srv[j].forward \in forwarders',
         \A q \in Callers : q # p => call'[q] = call[q],
         p \in Serving => call[p].kind # j,
         p \in Serving' => call'[p].kind # j,
         p \in Serving' /\ j \in Concerns(call'[p]) =>
           \A q \in Serving : q # p => j \notin Concerns(call[q])
  PROVE  /\ InOrder(j)'
         /\ Heeds(j) /\ On(j)' = On(j) /\ PortNow(j)' = PortNow(j) => Heeds(j)'
         /\ Fresh(j) /\ tags' = tags => Fresh(j)'
<1>1. /\ \A q \in Callers : q # p => (q \in Serving' <=> q \in Serving)
      /\ Serving \subseteq Callers /\ Serving' \subseteq Callers
  BY DEF Serving
<1>2. \A q, r \in Serving' : j \in Concerns(call'[q]) /\ j \in Concerns(call'[r]) => q = r
  BY <1>1 DEF InOrder, Concerns
<1>3. \A q \in Serving' : call'[q].kind = j => q \in Serving /\ call'[q] = call[q]
  BY <1>1
<1>4. Free(j)' <=> Free(j)
  BY <1>1 DEF Free
<1>5. \A c : StageOK(c, srv[j], Mine(j), forwarders) => StageOK(c, srv[j], Mine(j), forwarders')
  BY DEF StageOK
<1>6. RestOK(srv[j], Mine(j), forwarders) => RestOK(srv[j], Mine(j), forwarders')
  BY DEF RestOK
<1>7. \A q \in Serving' : call'[q].kind = j => StageOK(call'[q], srv'[j], Mine(j)', forwarders')
  BY <1>3, <1>5 DEF InOrder
<1>8. Free(j)' => RestOK(srv'[j], Mine(j)', forwarders')
  BY <1>4, <1>6 DEF InOrder
<1>9. InOrder(j)'
  BY <1>2, <1>7, <1>8 DEF InOrder
<1>10. Heeds(j) /\ On(j)' = On(j) /\ PortNow(j)' = PortNow(j) => Heeds(j)'
  BY <1>3, <1>4 DEF Heeds
<1>11. Fresh(j) /\ tags' = tags => Fresh(j)'
  BY <1>3, <1>4 DEF Fresh
<1> QED
  BY <1>9, <1>10, <1>11

\* What GoesOn assigns, for the server the outcome is of and for the Modbus server after it.
MovedOn(p, k, then, o, next) ==
  /\ \A q \in Callers : q # p => call'[q] = call[q]
  /\ srv'[k] = o.server
  /\ o.call.pc = "done" /\ then => srv'["modbus"] = next.server /\ call'[p] = next.call
  /\ ~ (o.call.pc = "done" /\ then) =>
       /\ call'[p] = o.call
       /\ \A j \in Kinds : j # k => srv'[j] = srv[j]

LEMMA GoesOnIs ==
  ASSUME NEW n, NEW v, srv \in [Kinds -> ServerState(n, v)], call \in [Callers -> CallState(n, v)],
         NEW p \in Callers, NEW k \in Kinds, NEW then \in BOOLEAN, then => k = "opcua",
         NEW o, GoesOn(p, k, then, o), NEW next, next = Asked(p, "modbus", FALSE)
  PROVE  MovedOn(p, k, then, o, next)
<1>2. CASE o.call.pc = "done" /\ then
  <2>1. /\ srv' = [srv EXCEPT ![k] = o.server, !["modbus"] = next.server]
        /\ call' = [call EXCEPT ![p] = next.call]
    BY <1>2 DEF GoesOn
  <2>2. k # "modbus" /\ "modbus" \in Kinds
    BY <1>2 DEF Kinds
  <2> QED
    BY <1>2, <2>1, <2>2 DEF MovedOn
<1>3. CASE ~ (o.call.pc = "done" /\ then)
  <2>1. srv' = [srv EXCEPT ![k] = o.server] /\ call' = [call EXCEPT ![p] = o.call]
    BY <1>3 DEF GoesOn
  <2> QED
    BY <1>3, <2>1 DEF MovedOn
<1> QED
  BY <1>2, <1>3

\* The call p makes of the Modbus server is done, or at the Modbus server.
LEMMA NextCallIs ==
  ASSUME NEW p
  PROVE  LET c == Asked(p, "modbus", FALSE).call IN
         c.pc = "done" \/ (c.pc \in Busy /\ c.kind = "modbus")
<1>1. Shaped(Asked(p, "modbus", FALSE), "modbus", FALSE)
  BY AskedShaped
<1> QED
  BY <1>1 DEF Shaped

\* The server whose operation p was at.
LEMMA GoesOnHere ==
  ASSUME NEW n, NEW v, srv \in [Kinds -> ServerState(n, v)], call \in [Callers -> CallState(n, v)],
         NEW p \in Callers, NEW k \in Kinds, NEW then \in BOOLEAN, then => k = "opcua",
         NEW o, GoesOn(p, k, then, o), Shaped(o, k, then), Fits(o, Mine(k)', forwarders'),
         \A q \in Serving : q # p => k \notin Concerns(call[q])
  PROVE  /\ InOrder(k)'
         /\ OutcomeHeeds(o, Mine(k)', On(k)', PortNow(k)') => Heeds(k)'
         /\ OutcomeFresh(o, tags') => Fresh(k)'
<1>1. PICK next : next = Asked(p, "modbus", FALSE)
  OBVIOUS
<1>2. next.call.pc = "done" \/ (next.call.pc \in Busy /\ next.call.kind = "modbus")
  BY <1>1, NextCallIs
<1>3. /\ \A q \in Callers : q # p => call'[q] = call[q]
      /\ srv'[k] = o.server
      /\ o.call.pc = "done" /\ then => call'[p] = next.call
      /\ ~ (o.call.pc = "done" /\ then) => call'[p] = o.call
  <2>1. MovedOn(p, k, then, o, next)
    BY <1>1, GoesOnIs
  <2> QED
    BY <2>1 DEF MovedOn
<1>4. o.call.pc = "done" \/ (o.call.pc \in Busy /\ o.call.kind = k)
  BY DEF Shaped
<1>5. o.call.pc = "done" => (p \in Serving' => call'[p].kind # k)
  <2>1. CASE o.call.pc = "done" /\ then
    <3>1. p \in Serving' => call'[p].kind = "modbus"
      BY <1>2, <1>3, <2>1 DEF Serving
    <3> QED
      BY <2>1, <3>1
  <2>2. CASE o.call.pc = "done" /\ ~ then
    BY <1>3, <2>2 DEF Serving
  <2> QED
    BY <2>1, <2>2
<1>6. o.call.pc # "done" => p \in Callers /\ call'[p] = o.call /\ o.call.kind = k
  BY <1>3, <1>4
<1>7. o.call.pc = "done" \/ o.call.pc \in Busy
  BY <1>4
<1> QED
  BY <1>3, <1>5, <1>6, <1>7, Settles

\* The other server: it is left alone, or p turns to it now or has still to.
LEMMA GoesOnThere ==
  ASSUME NEW n, NEW v, srv \in [Kinds -> ServerState(n, v)], call \in [Callers -> CallState(n, v)],
         CacheOK(cache'), cache' = cache, tags' = tags,
         NEW p \in Callers, NEW k \in Kinds, NEW then \in BOOLEAN, then => k = "opcua",
         NEW o, GoesOn(p, k, then, o), Shaped(o, k, then),
         NEW j \in Kinds, j # k, InOrder(j), Mine(j)' = Mine(j),
         srv[j].forward \in forwarders => srv[j].forward \in forwarders',
         p \in Serving => call[p].kind = k /\ (call[p].then <=> then),
         then => \A q \in Serving : q # p => j \notin Concerns(call[q])
  PROVE  /\ InOrder(j)'
         /\ Heeds(j) \/ Owing(j) \/ (then /\ p \notin Reloads) => Heeds(j)' \/ Owing(j)'
         /\ Fresh(j) \/ OwingTags(j) \/ then => Fresh(j)' \/ OwingTags(j)'
<1>1. then => k = "opcua" /\ j = "modbus"
  BY DEF Kinds
<1>2. On(j)' = On(j) /\ PortNow(j)' = PortNow(j)
  BY DEF On, PortNow
<1>0. PICK next : next = Asked(p, "modbus", FALSE)
  OBVIOUS
<1>10. MovedOn(p, k, then, o, next)
  BY <1>0, GoesOnIs
<1>3. \A q \in Callers : q # p => call'[q] = call[q]
  BY <1>10 DEF MovedOn
<1>4. p \in Serving /\ j \in Concerns(call[p]) => then
  BY DEF Concerns
<1>5. \A q \in Serving : q # p => q \in Serving' /\ call'[q] = call[q]
  BY <1>3 DEF Serving
<1>6. (\E q \in Serving : q # p /\ q \notin Reloads /\ Owes(q, j)) => Owing(j)'
  BY <1>5 DEF Owing, Owes
<1>7. (\E q \in Serving : q # p /\ Owes(q, j)) => OwingTags(j)'
  BY <1>5 DEF OwingTags, Owes
<1>8. CASE o.call.pc = "done" /\ then
  <2>2. next.call.pc = "done" \/ (next.call.pc \in Busy /\ next.call.kind = "modbus")
    BY <1>0, NextCallIs
  <2>3. j = "modbus" /\ srv'[j] = next.server /\ call'[p] = next.call
    BY <1>1, <1>8, <1>10 DEF MovedOn
  <2>4. \A q \in Serving : q # p => j \notin Concerns(call[q])
    BY <1>8
  <2>5. Free(j)
    BY <2>4 DEF Free, Concerns
  <2>6. PICK m, fw : m = Mine(j)' /\ fw = forwarders'
    OBVIOUS
  <2>7. RestOK(srv[j], m, fw)
    BY <2>5, <2>6 DEF InOrder, RestOK
  <2>8. On(j)' \in BOOLEAN
    BY DEF On, Truthy
  <2>9. PICK on \in BOOLEAN : on = On(j)'
    BY <2>8, Zenon
  <2>10. PICK port, version : port = PortNow(j)' /\ version = tags'
    OBVIOUS
  <2>11. /\ Fits(next, m, fw) /\ OutcomeFresh(next, version)
         /\ p \notin Reloads \/ RestHeeds(srv[j], m, on, port) => OutcomeHeeds(next, m, on, port)
    <3>1. on = Truthy(cache'[Enabled(j)]) /\ port = cache'[Port(j)].n
      BY <2>9, <2>10 DEF On, PortNow
    <3>2. PICK then2 : then2 = FALSE
      OBVIOUS
    <3>3. next = Asked(p, j, then2) /\ srv[j] \in ServerState(n, v)
      BY <1>0, <2>3, <3>2
    <3> QED
      BY <2>7, <3>1, <3>3, AskedGood
  <2>12. /\ InOrder(j)'
         /\ OutcomeHeeds(next, Mine(j)', On(j)', PortNow(j)') => Heeds(j)'
         /\ OutcomeFresh(next, tags') => Fresh(j)'
    <3>1. Fits(next, Mine(j)', forwarders')
      BY <2>6, <2>11
    <3>2. next.call.pc = "done" => (p \in Serving' => call'[p].kind # j)
      BY <2>3 DEF Serving
    <3>3. next.call.pc # "done" => p \in Callers /\ call'[p] = next.call /\ next.call.kind = j
      BY <2>2, <2>3
    <3> QED
      BY <1>3, <2>2, <2>3, <2>4, <3>1, <3>2, <3>3, Settles
  <2>13. p \notin Reloads \/ Heeds(j) => Heeds(j)'
    <3>1. Heeds(j) => RestHeeds(srv[j], m, on, port)
      BY <1>2, <2>5, <2>6, <2>9, <2>10 DEF Heeds
    <3> QED
      BY <2>6, <2>9, <2>10, <2>11, <2>12, <3>1
  <2>14. Owing(j) => p \notin Reloads
    BY <2>4 DEF Owing, Owes
  <2>15. Fresh(j)'
    BY <2>10, <2>11, <2>12
  <2> QED
    BY <2>12, <2>13, <2>14, <2>15
<1>9. CASE ~ (o.call.pc = "done" /\ then)
  <2>1. call'[p] = o.call /\ srv'[j] = srv[j]
    BY <1>9, <1>10 DEF MovedOn
  <2>2. p \in Serving' => o.call.pc \in Busy /\ o.call.kind = k /\ o.call.then = then
    BY <2>1 DEF Serving, Shaped
  <2>3. p \in Serving' => call'[p].kind # j
    BY <2>1, <2>2
  <2>4. p \in Serving' /\ j \in Concerns(call'[p]) => then
    BY <2>1, <2>2 DEF Concerns
  <2>5. /\ InOrder(j)'
        /\ Heeds(j) => Heeds(j)'
        /\ Fresh(j) => Fresh(j)'
    BY <1>2, <1>3, <2>1, <2>3, <2>4, Stays
  <2>6. then => p \in Serving' /\ Owes(p, j)'
    <3>1. ASSUME then PROVE o.call.pc \in Busy /\ o.call.kind = k /\ o.call.then = then
      BY <1>9, <3>1 DEF Shaped
    <3> QED
      BY <1>1, <2>1, <3>1 DEF Serving, Busy, Owes, Concerns
  <2>7. then => OwingTags(j)' /\ (p \notin Reloads => Owing(j)')
    BY <2>6 DEF Owing, OwingTags
  <2>8. Owing(j) => Owing(j)'
    BY <1>4, <1>6, <2>7 DEF Owing, Owes
  <2>9. OwingTags(j) => OwingTags(j)'
    BY <1>4, <1>7, <2>7 DEF OwingTags, Owes
  <2>10. Heeds(j) \/ Owing(j) \/ (then /\ p \notin Reloads) => Heeds(j)' \/ Owing(j)'
    BY <2>5, <2>7, <2>8
  <2>11. Fresh(j) \/ OwingTags(j) \/ then => Fresh(j)' \/ OwingTags(j)'
    BY <2>5, <2>7, <2>9
  <2> QED
    BY <2>5, <2>10, <2>11
<1> QED
  BY <1>8, <1>9

\* p was at server k and goes on.
LEMMA MoverClean ==
  ASSUME ServersOK, CacheOK(cache'), UNCHANGED <<cache, tags, req>>,
         NEW p \in Serving, NEW k \in Kinds, k = call[p].kind,
         NEW then \in BOOLEAN, then <=> call[p].then, then => k = "opcua",
         NEW o, GoesOn(p, k, then, o), Shaped(o, k, then),
         NEW j \in Kinds, Clean(j), j \in missed => j \in missed',
         j # k => /\ Mine(j)' = Mine(j)
                  /\ srv[j].forward \in forwarders => srv[j].forward \in forwarders',
         j = k /\ StageOK(call[p], srv[k], Mine(k), forwarders) =>
           /\ Fits(o, Mine(k)', forwarders')
           /\ CallHeeds(call[p], On(k), PortNow(k)) => OutcomeHeeds(o, Mine(k)', On(k)', PortNow(k)')
           /\ CallFresh(call[p], tags) => OutcomeFresh(o, tags')
  PROVE  Clean(j)'
<1>1. PICK n, v : srv \in [Kinds -> ServerState(n, v)] /\ call \in [Callers -> CallState(n, v)]
  BY DEF ServersOK
<1>2. p \in Callers
  BY DEF Serving
<1>3. /\ InOrder(j) /\ (Due(j) \/ Owing(j) \/ Heeds(j))
      /\ j \in missed \/ Synced \/ OwingTags(j) \/ Fresh(j)
  BY DEF Clean
<1>4. Due(j) => Due(j)'
  BY DEF Due, Writing, Saving
<1>5. Synced => Synced'
  <2>1. ASSUME NEW l \in Reloads, InCall(l, "synced") PROVE InCall(l, "synced")'
    <3>1. l # p /\ l \in Callers
      BY <2>1 DEF InCall, Serving, Callers
    <3>2. PICK next : next = Asked(p, "modbus", FALSE)
      OBVIOUS
    <3>3. MovedOn(p, k, then, o, next)
      BY <1>1, <1>2, <3>2, GoesOnIs
    <3>4. call'[l] = call[l]
      BY <3>1, <3>3 DEF MovedOn
    <3> QED
      BY <2>1, <3>4 DEF InCall
  <2> QED
    BY <2>1 DEF Synced
<1>6. j \in Concerns(call[p]) => \A q \in Serving : q # p => j \notin Concerns(call[q])
  BY <1>3 DEF InOrder
<1>7. CASE j = k
  <2>1. \A q \in Serving : q # p => k \notin Concerns(call[q])
    BY <1>6, <1>7 DEF Concerns
  <2>2. StageOK(call[p], srv[k], Mine(k), forwarders)
    BY <1>3, <1>7 DEF InOrder
  <2>3. /\ Fits(o, Mine(k)', forwarders')
        /\ CallHeeds(call[p], On(k), PortNow(k)) => OutcomeHeeds(o, Mine(k)', On(k)', PortNow(k)')
        /\ CallFresh(call[p], tags) => OutcomeFresh(o, tags')
    BY <1>7, <2>2
  <2>4. /\ InOrder(k)'
        /\ OutcomeHeeds(o, Mine(k)', On(k)', PortNow(k)') => Heeds(k)'
        /\ OutcomeFresh(o, tags') => Fresh(k)'
    BY <1>1, <1>2, <2>1, <2>3, GoesOnHere
  <2>5. ~ OwingTags(k) /\ ~ Owing(k)
    <3>1. ASSUME NEW q \in Serving, Owes(q, k) PROVE FALSE
      <4>1. k \in Concerns(call[q]) /\ call[q].kind # k
        BY <3>1 DEF Owes
      <4>2. q = p
        BY <2>1, <4>1
      <4> QED
        BY <4>1, <4>2
    <3> QED
      BY <3>1 DEF OwingTags, Owing
  <2>6. Heeds(k) => Heeds(k)'
    BY <2>3, <2>4 DEF Heeds
  <2>7. Fresh(k) => Fresh(k)'
    BY <2>3, <2>4 DEF Fresh
  <2> QED
    BY <1>3, <1>4, <1>5, <1>7, <2>4, <2>5, <2>6, <2>7 DEF Clean
<1>8. CASE j # k
  <2>1. then => \A q \in Serving : q # p => j \notin Concerns(call[q])
    <3>1. then => j \in Concerns(call[p])
      BY <1>8 DEF Concerns, Kinds
    <3> QED
      BY <1>6, <3>1
  <2>2. /\ Mine(j)' = Mine(j)
        /\ srv[j].forward \in forwarders => srv[j].forward \in forwarders'
    BY <1>8
  <2>3. /\ InOrder(j)'
        /\ Heeds(j) \/ Owing(j) \/ (then /\ p \notin Reloads) => Heeds(j)' \/ Owing(j)'
        /\ Fresh(j) \/ OwingTags(j) \/ then => Fresh(j)' \/ OwingTags(j)'
    BY <1>1, <1>2, <1>3, <1>8, <2>1, <2>2, GoesOnThere
  <2>4. Due(j)' \/ Owing(j)' \/ Heeds(j)'
    BY <1>3, <1>4, <2>3
  <2>5. j \in missed' \/ Synced' \/ OwingTags(j)' \/ Fresh(j)'
    BY <1>3, <1>5, <2>3
  <2> QED
    BY <2>3, <2>4, <2>5 DEF Clean
<1> QED
  BY <1>7, <1>8

LEMMA ServingIs ==
  ASSUME ServersOK, NEW p \in Callers
  PROVE  p \in Serving <=> call[p].pc \in Busy
<1>1. call[p].pc \in CallPc
  BY CallIs
<1> QED
  BY <1>1 DEF Serving, CallPc, Busy

LEMMA SrvIs ==
  ASSUME ServersOK, NEW k \in Kinds
  PROVE  \E n, v : srv[k] \in ServerState(n, v)
BY DEF ServersOK

\* Numbers of one kind are not those of another.
LEMMA OtherId ==
  ASSUME Apart, NEW j \in Kinds, NEW k \in Kinds, j # k, NEW x, Holds(j, x), Holds(k, x)
  PROVE  x = None
BY DEF Apart, Kinds

LEMMA JoinedClean ==
  ASSUME Typed, Apart, NEW p \in Callers, Joined(p), NEW j \in Kinds, Clean(j),
         j \in missed => j \in missed'
  PROVE  Clean(j)'
<1>0. SettingsOK /\ ServersOK
  BY DEF Typed
<1>1. CacheOK(cache') /\ UNCHANGED <<cache, tags, req>>
  BY <1>0, SameSettings DEF Joined, settingsVars
<1>2. PICK c : c = call[p]
  OBVIOUS
<1>3. c.pc = "joining" /\ p \in Serving
  BY <1>0, <1>2, ServingIs DEF Joined, InCall, Busy
<1>4. PICK k \in Kinds, then \in BOOLEAN, again \in BOOLEAN :
        k = c.kind /\ then = c.then /\ again = c.again /\ (then => k = "opcua")
  BY <1>0, <1>2, CallIs, Zenon
<1>5. PICK s : s = srv[k]
  OBVIOUS
<1>6. PICK t : t = [s EXCEPT !.forward = None]
  OBVIOUS
<1>7. PICK o : o = AfterJoin(k, then, again, t)
  OBVIOUS
<1>8. GoesOn(p, k, then, o) /\ forwarders' = forwarders \ {c.id} /\ instances' = instances
  BY <1>2, <1>4, <1>5, <1>6, <1>7 DEF Joined
<1>9. Shaped(o, k, then)
  BY <1>7, AfterJoinShaped
<1>10. ASSUME j # k
       PROVE  /\ Mine(j)' = Mine(j)
              /\ srv[j].forward \in forwarders => srv[j].forward \in forwarders'
  <2>1. Mine(j)' = Mine(j)
    BY <1>8 DEF Mine
  <2>2. ASSUME srv[j].forward = c.id, srv[j].forward \in forwarders PROVE FALSE
    <3>1. Holds(j, c.id) /\ Holds(k, c.id)
      BY <1>2, <1>4, <2>2 DEF Holds
    <3>2. c.id = None
      BY <1>10, <3>1, OtherId
    <3> QED
      BY <1>0, <2>2, <3>2 DEF ServersOK, None
  <2> QED
    BY <1>8, <2>1, <2>2
<1>11. ASSUME j = k, StageOK(c, s, Mine(k), forwarders)
       PROVE  /\ Fits(o, Mine(k)', forwarders')
              /\ CallHeeds(c, On(k), PortNow(k)) => OutcomeHeeds(o, Mine(k)', On(k)', PortNow(k)')
              /\ CallFresh(c, tags) => OutcomeFresh(o, tags')
  <2>1. Mine(k)' = Mine(k) /\ On(k)' = On(k) /\ PortNow(k)' = PortNow(k)
    BY <1>1, <1>8 DEF Mine, On, PortNow
  <2>2. PICK m, fw, rest, on, port, version :
          /\ m = Mine(k) /\ fw = forwarders /\ rest = forwarders' /\ port = PortNow(k)
          /\ version = tags' /\ on = On(k)
    OBVIOUS
  <2>3. PICK n, v : s \in ServerState(n, v)
    BY <1>0, <1>5, SrvIs
  <2>4. /\ Fits(o, m, rest) /\ OutcomeFresh(o, version)
        /\ CallHeeds(c, on, port) => OutcomeHeeds(o, m, on, port)
    BY <1>3, <1>4, <1>6, <1>7, <1>11, <2>2, <2>3, JoinedGood
  <2> QED
    BY <2>1, <2>2, <2>4
<1> QED
  BY <1>0, <1>1, <1>2, <1>3, <1>4, <1>5, <1>8, <1>9, <1>10, <1>11, MoverClean

LEMMA StoppedClean ==
  ASSUME Typed, Apart, NEW p \in Callers, Stopped(p), NEW j \in Kinds, Clean(j),
         j \in missed => j \in missed'
  PROVE  Clean(j)'
<1>0. SettingsOK /\ ServersOK
  BY DEF Typed
<1>1. CacheOK(cache') /\ UNCHANGED <<cache, tags, req>>
  BY <1>0, SameSettings DEF Stopped, settingsVars
<1>2. PICK c : c = call[p]
  OBVIOUS
<1>3. c.pc = "stopping" /\ p \in Serving
  BY <1>0, <1>2, ServingIs DEF Stopped, InCall, Busy
<1>4. PICK k \in Kinds, then \in BOOLEAN, again \in BOOLEAN :
        k = c.kind /\ then = c.then /\ again = c.again /\ (then => k = "opcua")
  BY <1>0, <1>2, CallIs, Zenon
<1>5. PICK s : s = srv[k]
  OBVIOUS
<1>6. PICK t : t = [s EXCEPT !.server = None, !.nodes = None]
  OBVIOUS
<1>7. PICK o : o = AfterStop(k, then, again, t)
  OBVIOUS
<1>8. GoesOn(p, k, then, o) /\ instances' = instances \ Ended(c) /\ forwarders' = forwarders
  BY <1>2, <1>4, <1>5, <1>6, <1>7 DEF Stopped
<1>9. Shaped(o, k, then)
  BY <1>7, AfterJoinShaped
<1>10. ASSUME j # k
       PROVE  /\ Mine(j)' = Mine(j)
              /\ srv[j].forward \in forwarders => srv[j].forward \in forwarders'
  <2>1. ASSUME NEW i \in instances, i.kind = j PROVE i \notin Ended(c)
    <3>1. i.id # c.id
      <4>1. Holds(j, i.id) /\ (i.id = c.id => Holds(k, i.id))
        BY <1>2, <1>4, <2>1 DEF Holds
      <4>2. i.id # None
        BY <1>0, <2>1 DEF ServersOK, InstanceOK, None
      <4> QED
        BY <1>10, <4>1, <4>2, OtherId
    <3>2. c.kind = "modbus" => i \notin Newest("modbus")
      BY <1>4, <1>10, <2>1 DEF Newest
    <3> QED
      BY <3>1, <3>2 DEF Ended
  <2>2. Mine(j)' = Mine(j)
    BY <1>8, <2>1 DEF Mine
  <2> QED
    BY <1>8, <2>2
<1>11. ASSUME j = k, StageOK(c, s, Mine(k), forwarders)
       PROVE  /\ Fits(o, Mine(k)', forwarders')
              /\ CallHeeds(c, On(k), PortNow(k)) => OutcomeHeeds(o, Mine(k)', On(k)', PortNow(k)')
              /\ CallFresh(c, tags) => OutcomeFresh(o, tags')
  <2>1. On(k)' = On(k) /\ PortNow(k)' = PortNow(k)
    BY <1>1 DEF On, PortNow
  <2>2. Mine(k)' = {}
    <3>1. \A i \in Mine(k) : i.id = c.id
      BY <1>3, <1>11 DEF StageOK, OneOf
    <3> QED
      BY <1>8, <3>1 DEF Mine, Ended
  <2>3. PICK m, fw, version : m = Mine(k) /\ fw = forwarders /\ version = tags'
    OBVIOUS
  <2>4. PICK port : port = cache'[Port(k)].n
    OBVIOUS
  <2>5. On(k) \in BOOLEAN
    BY DEF On, Truthy
  <2>6. PICK on \in BOOLEAN : on = On(k)
    BY <2>5, Zenon
  <2>7. PICK n, v : s \in ServerState(n, v)
    BY <1>0, <1>5, SrvIs
  <2>8. t = Off
    <3>1. StageOK(c, s, m, fw)
      BY <1>11, <2>3
    <3>2. Halted(s)
      BY <1>3, <2>7, <3>1, StoppedOff
    <3>3. PICK server, nodes : s = Server(FALSE, server, None, nodes)
      BY <3>2 DEF Halted
    <3>4. t = [Server(FALSE, server, None, nodes) EXCEPT !.server = None, !.nodes = None]
      BY <1>6, <3>3
    <3> QED
      BY <3>4 DEF Off, Server
  <2>9. o = AfterStop(k, then, again, Off)
    BY <1>7, <2>8
  <2>10. /\ Fits(o, {}, fw) /\ OutcomeFresh(o, version)
         /\ CallHeeds(c, on, port) => OutcomeHeeds(o, {}, on, port)
    BY <1>3, <1>4, <2>4, <2>9, StoppedGood
  <2>11. port = PortNow(k)
    BY <1>1, <2>4 DEF PortNow
  <2> QED
    BY <1>8, <2>1, <2>2, <2>3, <2>6, <2>10, <2>11
<1> QED
  BY <1>0, <1>1, <1>2, <1>3, <1>4, <1>5, <1>8, <1>9, <1>10, <1>11, MoverClean

LEMMA StartedClean ==
  ASSUME Typed, Apart, NEW p \in Callers, Started(p), NEW j \in Kinds, Clean(j),
         j \in missed => j \in missed'
  PROVE  Clean(j)'
<1>0. SettingsOK /\ ServersOK
  BY DEF Typed
<1>1. CacheOK(cache') /\ UNCHANGED <<cache, tags, req>>
  BY <1>0, SameSettings DEF Started, settingsVars
<1>2. PICK c : c = call[p]
  OBVIOUS
<1>3. c.pc = "started" /\ p \in Serving
  BY <1>0, <1>2, ServingIs DEF Started, InCall, Busy
<1>4. PICK k \in Kinds, then \in BOOLEAN, again \in BOOLEAN :
        k = c.kind /\ then = c.then /\ again = c.again /\ (then => k = "opcua")
  BY <1>0, <1>2, CallIs, Zenon
<1>5. PICK s : s = srv[k]
  OBVIOUS
<1>6. PICK o : o = Finished(Server(TRUE, c.id, c.id, c.version))
  OBVIOUS
<1>7. GoesOn(p, k, then, o) /\ forwarders' = forwarders \cup {c.id} /\ instances' = instances
  BY <1>2, <1>4, <1>5, <1>6 DEF Started
<1>8. Shaped(o, k, then)
  BY <1>6, FinishedShaped
<1>9. ASSUME j # k
      PROVE  /\ Mine(j)' = Mine(j)
             /\ srv[j].forward \in forwarders => srv[j].forward \in forwarders'
  BY <1>7 DEF Mine
<1>10. ASSUME j = k, StageOK(c, s, Mine(k), forwarders)
       PROVE  /\ Fits(o, Mine(k)', forwarders')
              /\ CallHeeds(c, On(k), PortNow(k)) => OutcomeHeeds(o, Mine(k)', On(k)', PortNow(k)')
              /\ CallFresh(c, tags) => OutcomeFresh(o, tags')
  <2>1. Mine(k)' = Mine(k) /\ On(k)' = On(k) /\ PortNow(k)' = PortNow(k) /\ tags' = tags
    BY <1>1, <1>7 DEF Mine, On, PortNow
  <2>2. PICK m, fw, on, port, version :
          m = Mine(k) /\ fw = forwarders /\ port = PortNow(k) /\ version = tags /\ on = On(k)
    OBVIOUS
  <2>3. /\ Fits(o, m, fw \cup {c.id})
        /\ CallFresh(c, version) => OutcomeFresh(o, version)
        /\ CallHeeds(c, on, port) => OutcomeHeeds(o, m, on, port)
    BY <1>3, <1>6, <1>10, <2>2, StartedGood
  <2> QED
    BY <1>7, <2>1, <2>2, <2>3
<1> QED
  BY <1>0, <1>1, <1>2, <1>3, <1>4, <1>5, <1>7, <1>8, <1>9, <1>10, MoverClean

-----------------------------------------------------------------------------
(* The awaits within start.                                                  *)

\* A call of start goes from one await to the next.
LEMMA CallOnly ==
  ASSUME ServersOK, NEW p \in Serving, NEW c, call' = [call EXCEPT ![p] = c],
         c.pc \in Busy, c.kind = call[p].kind, c.then = call[p].then,
         UNCHANGED <<cache, req, srv, forwarders, tags>>,
         NEW j \in Kinds, Clean(j),
         j \in missed => j \in missed' \/ (j = c.kind /\ CallFresh(c, tags)),
         j # c.kind => Mine(j)' = Mine(j),
         j = c.kind /\ StageOK(call[p], srv[j], Mine(j), forwarders) =>
           /\ StageOK(c, srv[j], Mine(j)', forwarders)
           /\ CallHeeds(call[p], On(j), PortNow(j)) => CallHeeds(c, On(j), PortNow(j))
           /\ CallFresh(call[p], tags) => CallFresh(c, tags)
  PROVE  Clean(j)'
<1>1. /\ call'[p] = c /\ \A q \in Callers : q # p => call'[q] = call[q]
      /\ p \in Callers
  BY DEF ServersOK, Serving
<1>2. Serving' = Serving
  BY <1>1 DEF Serving, Busy
<1>3. /\ \A q \in Serving : call'[q].kind = call[q].kind /\ call'[q].then = call[q].then
      /\ Serving \subseteq Callers
  BY <1>1 DEF Serving
<1>4. /\ \A q \in Serving : Concerns(call'[q]) = Concerns(call[q])
      /\ \A q \in Serving : Owes(q, j)' <=> Owes(q, j)
  BY <1>3 DEF Concerns, Owes
<1>5. /\ Due(j)' <=> Due(j)
      /\ Owing(j)' <=> Owing(j)
      /\ OwingTags(j)' <=> OwingTags(j)
  BY <1>2, <1>4 DEF Due, Owing, OwingTags, Writing, Saving
<1>6. Synced => Synced'
  BY <1>1 DEF Synced, InCall, Serving, Callers
<1>7. On(j)' = On(j) /\ PortNow(j)' = PortNow(j)
  BY DEF On, PortNow
<1>8. Free(j)' <=> Free(j)
  BY <1>2, <1>3 DEF Free
<1>9. CASE j # c.kind
  <2>1. \A q \in Serving : call[q].kind = j => call'[q] = call[q]
    BY <1>1, <1>3, <1>9
  <2>2. InOrder(j)'
    BY <1>2, <1>3, <1>4, <1>8, <1>9, <2>1 DEF Clean, InOrder
  <2>3. Heeds(j) => Heeds(j)'
    BY <1>2, <1>3, <1>7, <1>8, <1>9, <2>1 DEF Heeds
  <2>4. Fresh(j) => Fresh(j)'
    BY <1>2, <1>3, <1>8, <2>1 DEF Fresh
  <2> QED
    BY <1>5, <1>6, <1>9, <2>2, <2>3, <2>4 DEF Clean
<1>10. CASE j = c.kind
  <2>1. ~ Free(j)
    BY <1>10 DEF Free
  <2>2. StageOK(call[p], srv[j], Mine(j), forwarders)
    BY <1>10 DEF Clean, InOrder
  <2>3. /\ StageOK(c, srv[j], Mine(j)', forwarders)
        /\ CallHeeds(call[p], On(j), PortNow(j)) => CallHeeds(c, On(j), PortNow(j))
        /\ CallFresh(call[p], tags) => CallFresh(c, tags)
    BY <1>10, <2>2
  <2>4. \A q \in Serving : call[q].kind = j => q = p
    <3>1. j \in Concerns(call[p])
      BY <1>10 DEF Concerns
    <3>2. \A q \in Serving : call[q].kind = j => j \in Concerns(call[q])
      BY DEF Concerns
    <3> QED
      BY <3>1, <3>2 DEF Clean, InOrder
  <2>5. InOrder(j)'
    <3>1. \A q, r \in Serving' : j \in Concerns(call'[q]) /\ j \in Concerns(call'[r]) => q = r
      BY <1>2, <1>4 DEF Clean, InOrder
    <3>2. \A q \in Serving' : call'[q].kind = j => StageOK(call'[q], srv'[j], Mine(j)', forwarders')
      BY <1>1, <1>2, <1>3, <2>3, <2>4
    <3> QED
      BY <1>8, <2>1, <3>1, <3>2 DEF InOrder
  <2>6. Heeds(j) => Heeds(j)'
    BY <1>1, <1>2, <1>3, <1>7, <1>8, <1>10, <2>1, <2>3, <2>4 DEF Heeds
  <2>7. Fresh(j) \/ CallFresh(c, tags) => Fresh(j)'
    BY <1>1, <1>2, <1>3, <1>8, <1>10, <2>1, <2>3, <2>4 DEF Fresh
  <2> QED
    BY <1>5, <1>6, <1>10, <2>5, <2>6, <2>7 DEF Clean
<1> QED
  BY <1>9, <1>10

\* What of a call start leaves alone between two awaits.
Continues(c, d) == d.kind = c.kind /\ d.then = c.then /\ d.again = c.again /\ d.port = c.port

\* What TagsLoaded and Bound make of p's call: the tags are known, or the instance is there.
Loads(p, c) ==
  /\ call' = [call EXCEPT ![p] = c] /\ Continues(call[p], c)
  /\ c.pc = "starting" /\ c.id = call[p].id /\ c.version = tags
  /\ UNCHANGED <<instances, lastId>>

Makes(p, c, i) ==
  /\ call' = [call EXCEPT ![p] = c] /\ Continues(call[p], c)
  /\ c.pc = "started" /\ c.id = lastId'
  /\ lastId' = lastId + 1 /\ instances' = instances \cup {i}
  /\ i.id = lastId' /\ i.kind = call[p].kind /\ i.port = call[p].port

LEMMA LoadedIs ==
  ASSUME ServersOK, NEW p \in Callers, TagsLoaded(p)
  PROVE  /\ \/ \E c : Loads(p, c) /\ call[p].kind = "opcua"
            \/ \E c, i : Makes(p, c, i) /\ c.version = tags
         /\ call[p].pc = "loading" /\ UNCHANGED <<cache, req, srv, forwarders, tags>>
<1>1. PICK n, v : call[p] \in CallState(n, v)
  BY DEF ServersOK
<1>2. CASE /\ call[p].kind = "opcua" /\ call' = [call EXCEPT ![p].pc = "starting", ![p].version = tags]
           /\ UNCHANGED <<instances, lastId>>
  <2>1. PICK c : c = [call[p] EXCEPT !.pc = "starting", !.version = tags]
    OBVIOUS
  <2>2. call' = [call EXCEPT ![p] = c]
    BY <1>2, <2>1 DEF ServersOK
  <2>3. PICK d, y : d = call[p] /\ y = tags
    OBVIOUS
  <2>4. Continues(d, c) /\ c.pc = "starting" /\ c.id = d.id /\ c.version = y
    <3>1. d \in CallState(n, v) /\ c = [d EXCEPT !.pc = "starting", !.version = y]
      BY <1>1, <2>1, <2>3
    <3> QED
      BY <3>1 DEF CallState, Continues
  <2>5. Loads(p, c)
    BY <1>2, <2>2, <2>3, <2>4 DEF Loads
  <2> QED
    BY <1>2, <2>5 DEF TagsLoaded, InCall, settingsVars
<1>3. CASE /\ call[p].kind = "modbus" /\ lastId' = lastId + 1
           /\ instances' = instances \cup {Instance(lastId', "modbus", call[p].port, "binding")}
           /\ call' = [call EXCEPT ![p].pc = "started", ![p].version = tags, ![p].id = lastId']
  <2>1. PICK c : c = [call[p] EXCEPT !.pc = "started", !.version = tags, !.id = lastId']
    OBVIOUS
  <2>2. call' = [call EXCEPT ![p] = c]
    BY <1>3, <2>1 DEF ServersOK
  <2>3. PICK d, x, y : d = call[p] /\ x = lastId' /\ y = tags
    OBVIOUS
  <2>4. Continues(d, c) /\ c.pc = "started" /\ c.id = x /\ c.version = y
    <3>1. d \in CallState(n, v) /\ c = [d EXCEPT !.pc = "started", !.version = y, !.id = x]
      BY <1>1, <2>1, <2>3
    <3> QED
      BY <3>1 DEF CallState, Continues
  <2>5. PICK i : i = Instance(lastId', "modbus", call[p].port, "binding")
    OBVIOUS
  <2>6. Makes(p, c, i)
    BY <1>3, <2>2, <2>3, <2>4, <2>5 DEF Makes, Instance
  <2> QED
    BY <1>3, <2>3, <2>4, <2>6 DEF TagsLoaded, InCall, settingsVars
<1> QED
  BY <1>2, <1>3 DEF TagsLoaded

LEMMA BoundIs ==
  ASSUME ServersOK, Apart, NEW p \in Callers, Bound(p)
  PROVE  /\ \E c, i : Makes(p, c, i) /\ c.version = call[p].version
         /\ call[p].pc = "starting" /\ UNCHANGED <<cache, req, srv, forwarders, tags>>
<1>1. PICK n, v : call[p] \in CallState(n, v)
  BY DEF ServersOK
<1>2. call[p].kind = "opcua"
  BY DEF Apart, Bound, InCall
<1>3. PICK c : c = [call[p] EXCEPT !.pc = "started", !.id = lastId']
  OBVIOUS
<1>4. call' = [call EXCEPT ![p] = c]
  BY <1>3 DEF ServersOK, Bound
<1>5. PICK d, x : d = call[p] /\ x = lastId'
  OBVIOUS
<1>6. Continues(d, c) /\ c.pc = "started" /\ c.id = x /\ c.version = d.version
  <2>1. d \in CallState(n, v) /\ c = [d EXCEPT !.pc = "started", !.id = x]
    BY <1>1, <1>3, <1>5
  <2> QED
    BY <2>1 DEF CallState, Continues
<1>7. PICK i : i = Instance(lastId', "opcua", call[p].port, "listening")
  OBVIOUS
<1>8. Makes(p, c, i)
  BY <1>2, <1>4, <1>5, <1>6, <1>7 DEF Makes, Instance, Bound
<1> QED
  BY <1>5, <1>6, <1>8 DEF Bound, InCall, settingsVars

LEMMA LoadsClean ==
  ASSUME ServersOK, NEW p \in Serving, call[p].pc = "loading", NEW c, Loads(p, c),
         UNCHANGED <<cache, req, srv, forwarders, tags>>, NEW j \in Kinds, Clean(j),
         j \in missed => j \in missed' \/ j = call[p].kind
  PROVE  Clean(j)'
<1>1. /\ call' = [call EXCEPT ![p] = c] /\ c.pc = "starting" /\ c.version = tags
      /\ c.kind = call[p].kind /\ c.then = call[p].then /\ c.again = call[p].again
      /\ c.port = call[p].port
      /\ Mine(j)' = Mine(j)
  BY DEF Loads, Continues, Mine
<1>2. c.pc \in Busy
  BY <1>1 DEF Busy
<1>3. ASSUME StageOK(call[p], srv[j], Mine(j), forwarders)
      PROVE  StageOK(c, srv[j], Mine(j)', forwarders)
  BY <1>1, <1>3 DEF StageOK
<1>4. CallHeeds(call[p], On(j), PortNow(j)) => CallHeeds(c, On(j), PortNow(j))
  BY <1>1 DEF CallHeeds
<1>5. CallFresh(c, tags)
  BY <1>1 DEF CallFresh
<1> QED
  BY <1>1, <1>2, <1>3, <1>4, <1>5, CallOnly

LEMMA MakesClean ==
  ASSUME ServersOK, NEW p \in Serving, call[p].pc \in {"loading", "starting"},
         NEW c, NEW i, Makes(p, c, i), CallFresh(call[p], tags) => c.version = tags,
         UNCHANGED <<cache, req, srv, forwarders, tags>>, NEW j \in Kinds, Clean(j),
         j \in missed => j \in missed' \/ (j = call[p].kind /\ c.version = tags)
  PROVE  Clean(j)'
<1>1. /\ call' = [call EXCEPT ![p] = c] /\ c.pc = "started" /\ c.id = lastId + 1
      /\ c.kind = call[p].kind /\ c.then = call[p].then /\ c.again = call[p].again
      /\ c.port = call[p].port
      /\ i.id = c.id /\ i.kind = c.kind /\ i.port = c.port /\ instances' = instances \cup {i}
  BY DEF Makes, Continues
<1>2. c.pc \in Busy /\ c.id # None
  BY <1>1 DEF Busy, ServersOK, None
<1>3. j # c.kind => Mine(j)' = Mine(j)
  BY <1>1 DEF Mine
<1>4. ASSUME j = c.kind, StageOK(call[p], srv[j], Mine(j), forwarders)
      PROVE  StageOK(c, srv[j], Mine(j)', forwarders)
  <2>1. srv[j] = Off /\ Mine(j) = {}
    BY <1>4 DEF StageOK
  <2>2. Mine(j)' = {i}
    BY <1>1, <1>4, <2>1 DEF Mine
  <2> QED
    BY <1>1, <1>2, <2>1, <2>2 DEF StageOK, OneOf
<1>5. CallHeeds(call[p], On(j), PortNow(j)) => CallHeeds(c, On(j), PortNow(j))
  BY <1>1 DEF CallHeeds
<1>6. CallFresh(call[p], tags) => CallFresh(c, tags)
  BY DEF CallFresh
<1>7. j \in missed => j \in missed' \/ (j = c.kind /\ CallFresh(c, tags))
  BY <1>1 DEF CallFresh
<1> QED
  BY <1>1, <1>2, <1>3, <1>4, <1>5, <1>6, <1>7, CallOnly

LEMMA LoadedClean ==
  ASSUME Typed, NEW p \in Callers, TagsLoaded(p), NEW j \in Kinds, Clean(j),
         j \in missed => j \in missed' \/ j = call[p].kind
  PROVE  Clean(j)'
<1>0. ServersOK
  BY DEF Typed
<1>1. /\ \/ \E c : Loads(p, c) /\ call[p].kind = "opcua"
         \/ \E c, i : Makes(p, c, i) /\ c.version = tags
      /\ call[p].pc = "loading" /\ UNCHANGED <<cache, req, srv, forwarders, tags>>
  BY <1>0, LoadedIs
<1>2. p \in Serving
  BY <1>0, <1>1, ServingIs DEF Busy
<1>3. CASE \E c : Loads(p, c) /\ call[p].kind = "opcua"
  BY <1>0, <1>1, <1>2, <1>3, LoadsClean
<1>4. CASE \E c, i : Makes(p, c, i) /\ c.version = tags
  BY <1>0, <1>1, <1>2, <1>4, MakesClean
<1> QED
  BY <1>1, <1>3, <1>4

LEMMA BoundClean ==
  ASSUME Typed, Apart, NEW p \in Callers, Bound(p), NEW j \in Kinds, Clean(j),
         j \in missed => j \in missed'
  PROVE  Clean(j)'
<1>0. ServersOK
  BY DEF Typed
<1>1. /\ \E c, i : Makes(p, c, i) /\ c.version = call[p].version
      /\ call[p].pc = "starting" /\ UNCHANGED <<cache, req, srv, forwarders, tags>>
  BY <1>0, BoundIs
<1>2. p \in Serving
  BY <1>0, <1>1, ServingIs DEF Busy
<1>3. CallFresh(call[p], tags) => call[p].version = tags
  BY <1>1 DEF CallFresh
<1> QED
  BY <1>0, <1>1, <1>2, <1>3, MakesClean

\* A start that fails disturbs the servers its caller had still to see to, and no other.
LEMMA StartFailedClean ==
  ASSUME ServersOK, NEW p \in Callers, StartFailed(p), NEW j \in Kinds, Clean(j),
         j \notin Concerns(call[p]), j \in missed => j \in missed'
  PROVE  Clean(j)'
<1>1. /\ call[p].pc \in {"loading", "starting"}
      /\ call' = [call EXCEPT ![p] = NoCall("failed")]
      /\ UNCHANGED <<cache, table, req, serverVars, tags, lastId, restarts>>
  BY DEF StartFailed, InCall
<1>2. call'[p].pc = "failed" /\ \A q \in Callers : q # p => call'[q] = call[q]
  BY <1>1 DEF ServersOK, NoCall, Call
<1>3. p \notin Serving' /\ p \in Serving
  BY <1>1, <1>2 DEF Serving
<1>4. call[p].kind # j /\ ~ Owes(p, j)
  BY DEF Concerns, Owes
<1>5. /\ srv'[j] = srv[j] /\ Mine(j)' = Mine(j) /\ forwarders' = forwarders /\ tags' = tags
      /\ On(j)' = On(j) /\ PortNow(j)' = PortNow(j)
  BY <1>1 DEF serverVars, Mine, On, PortNow
<1>6. /\ InOrder(j)'
      /\ Heeds(j) => Heeds(j)'
      /\ Fresh(j) => Fresh(j)'
  <2>1. InOrder(j)
    BY DEF Clean
  <2>2. srv[j].forward \in forwarders => srv[j].forward \in forwarders'
    BY <1>5
  <2> QED
    BY <1>2, <1>3, <1>4, <1>5, <2>1, <2>2, Stays
<1>7. \A q \in Serving : q # p => q \in Serving' /\ call'[q] = call[q]
  BY <1>2 DEF Serving
<1>8. /\ Due(j) => Due(j)'
      /\ Owing(j) => Owing(j)'
      /\ OwingTags(j) => OwingTags(j)'
  BY <1>1, <1>4, <1>7 DEF Due, Writing, Saving, Owing, OwingTags, Owes
<1>9. Synced => Synced'
  BY <1>1, <1>2 DEF Synced, InCall, Callers
<1> QED
  BY <1>6, <1>8, <1>9 DEF Clean

\* An instance that binds its port, or does not, keeps its number and the port.
LEMMA BindsIs ==
  ASSUME ServersOK, ModbusBinds
  PROVE  \E i, n : /\ instances' = (instances \ {i}) \cup {n} /\ i \in instances
                    /\ n.id = i.id /\ n.kind = i.kind /\ n.port = i.port
<1>1. PICK i \in instances :
        instances' = (instances \ {i}) \cup
          {[i EXCEPT !.state = IF Taken(i.port) THEN "refused" ELSE "listening"]}
  BY DEF ModbusBinds
<1>2. PICK state : state = IF Taken(i.port) THEN "refused" ELSE "listening"
  OBVIOUS
<1>3. i = Instance(i.id, i.kind, i.port, i.state)
  BY <1>1 DEF ServersOK, InstanceOK
<1>4. PICK n : n = [i EXCEPT !.state = state]
  OBVIOUS
<1>5. n.id = i.id /\ n.kind = i.kind /\ n.port = i.port /\ n.state = state
  BY <1>3, <1>4 DEF Instance
<1> QED
  BY <1>1, <1>2, <1>4, <1>5

LEMMA BindsClean ==
  ASSUME ServersOK, ModbusBinds, NEW j \in Kinds, Clean(j), j \in missed => j \in missed'
  PROVE  Clean(j)'
<1>1. PICK i, n : /\ instances' = (instances \ {i}) \cup {n} /\ i \in instances
                  /\ n.id = i.id /\ n.kind = i.kind /\ n.port = i.port
  BY BindsIs
<1>2. UNCHANGED <<cache, req, srv, forwarders, call, tags>>
  BY DEF ModbusBinds, settingsVars
<1>3. ASSUME NEW x, OneOf(Mine(j), x) PROVE OneOf(Mine(j)', x)
  <2>1. PICK k \in Mine(j) : Mine(j) = {k} /\ k.id = x
    BY <1>3 DEF OneOf
  <2>2. CASE i.kind = j
    <3>1. Mine(j)' = {n} /\ n.id = x
      BY <1>1, <2>1, <2>2 DEF Mine
    <3> QED
      BY <1>3, <3>1 DEF OneOf
  <2>3. CASE i.kind # j
    <3>1. Mine(j)' = Mine(j)
      BY <1>1, <2>3 DEF Mine
    <3> QED
      BY <1>3, <3>1
  <2> QED
    BY <2>2, <2>3
<1>4. Mine(j) = {} => Mine(j)' = {}
  BY <1>1 DEF Mine
<1>5. ASSUME NEW port, \A k \in Mine(j) : k.port = port PROVE \A k \in Mine(j)' : k.port = port
  BY <1>1, <1>5 DEF Mine
<1>6. \A c : StageOK(c, srv[j], Mine(j), forwarders) => StageOK(c, srv[j], Mine(j)', forwarders)
  BY <1>3, <1>4, <1>5 DEF StageOK
<1>7. RestOK(srv[j], Mine(j), forwarders) => RestOK(srv[j], Mine(j)', forwarders)
  BY <1>3, <1>4 DEF RestOK
<1>8. RestHeeds(srv[j], Mine(j), On(j), PortNow(j)) => RestHeeds(srv[j], Mine(j)', On(j), PortNow(j))
  BY <1>5 DEF RestHeeds
<1>9. /\ Serving' = Serving /\ On(j)' = On(j) /\ PortNow(j)' = PortNow(j)
      /\ Free(j)' <=> Free(j)
      /\ Due(j)' <=> Due(j)
      /\ Owing(j)' <=> Owing(j)
      /\ OwingTags(j)' <=> OwingTags(j)
      /\ Synced' <=> Synced
  BY <1>2 DEF Serving, On, PortNow, Free, Due, Writing, Saving, Owing, OwingTags, Owes, Synced, InCall
<1>10. InOrder(j)'
  BY <1>2, <1>6, <1>7, <1>9 DEF Clean, InOrder
<1>11. Heeds(j) => Heeds(j)'
  BY <1>2, <1>8, <1>9 DEF Heeds
<1>12. Fresh(j) => Fresh(j)'
  BY <1>2, <1>9 DEF Fresh
<1> QED
  BY <1>9, <1>10, <1>11, <1>12 DEF Clean

-----------------------------------------------------------------------------
(* A caller turns to the servers.                                            *)

\* What it leaves of server j, whether or not that is one it turns to.
Turned(p, j, reached) ==
  /\ InOrder(j)'
  /\ Heeds(j) \/ Owing(j) \/ (reached /\ p \notin Reloads) => Heeds(j)' \/ Owing(j)'
  /\ Fresh(j) \/ OwingTags(j) \/ reached => Fresh(j)' \/ OwingTags(j)'

LEMMA AsksHere ==
  ASSUME ServersOK, UNCHANGED <<cache, tags, instances, forwarders>>,
         NEW p \in Callers, NEW k \in Kinds, NEW then \in BOOLEAN, then => k = "opcua",
         NEW o, o = Asked(p, k, then), GoesOn(p, k, then, o), InOrder(k),
         \A q \in Serving : k \notin Concerns(call[q]),
         NEW reached \in BOOLEAN
  PROVE  Turned(p, k, reached)
<1>1. PICK n, v : srv \in [Kinds -> ServerState(n, v)] /\ call \in [Callers -> CallState(n, v)]
  BY DEF ServersOK
<1>2. Shaped(o, k, then)
  BY AskedShaped
<1>3. Free(k) /\ ~ Owing(k) /\ ~ OwingTags(k)
  BY DEF Free, Concerns, Owing, OwingTags, Owes
<1>4. Mine(k)' = Mine(k) /\ On(k)' = On(k) /\ PortNow(k)' = PortNow(k)
  BY DEF Mine, On, PortNow
<1>5. PICK m, fw, version : m = Mine(k)' /\ fw = forwarders' /\ version = tags'
  OBVIOUS
<1>6. RestOK(srv[k], m, fw)
  BY <1>3, <1>4, <1>5 DEF InOrder
<1>7. On(k)' \in BOOLEAN
  BY DEF On, Truthy
<1>8. PICK on \in BOOLEAN : on = On(k)'
  BY <1>7, Zenon
<1>9. PICK port : port = PortNow(k)'
  OBVIOUS
<1>10. /\ Fits(o, m, fw) /\ OutcomeFresh(o, version)
       /\ p \notin Reloads \/ RestHeeds(srv[k], m, on, port) => OutcomeHeeds(o, m, on, port)
  <2>1. on = Truthy(cache'[Enabled(k)]) /\ port = cache'[Port(k)].n
    BY <1>8, <1>9 DEF On, PortNow
  <2>2. srv[k] \in ServerState(n, v)
    BY <1>1
  <2> QED
    BY <1>6, <2>1, <2>2, AskedGood
<1>11. /\ InOrder(k)'
       /\ OutcomeHeeds(o, Mine(k)', On(k)', PortNow(k)') => Heeds(k)'
       /\ OutcomeFresh(o, tags') => Fresh(k)'
  <2>1. Fits(o, Mine(k)', forwarders')
    BY <1>5, <1>10
  <2> QED
    BY <1>1, <1>2, <2>1, GoesOnHere
<1>12. Heeds(k) => RestHeeds(srv[k], m, on, port)
  BY <1>3, <1>4, <1>5, <1>8, <1>9 DEF Heeds
<1>13. p \notin Reloads \/ Heeds(k) => Heeds(k)'
  BY <1>5, <1>8, <1>9, <1>10, <1>11, <1>12
<1>14. Fresh(k)'
  BY <1>5, <1>10, <1>11
<1> QED
  BY <1>3, <1>11, <1>13, <1>14 DEF Turned

LEMMA AsksThere ==
  ASSUME ServersOK, CacheOK(cache'), UNCHANGED <<cache, tags, instances, forwarders>>,
         NEW p \in Callers, p \notin Serving, NEW k \in Kinds, NEW then \in BOOLEAN, then => k = "opcua",
         NEW o, o = Asked(p, k, then), GoesOn(p, k, then, o), NEW j \in Kinds, j # k, InOrder(j),
         then => \A q \in Serving : j \notin Concerns(call[q])
  PROVE  Turned(p, j, then)
<1>1. PICK n, v : srv \in [Kinds -> ServerState(n, v)] /\ call \in [Callers -> CallState(n, v)]
  BY DEF ServersOK
<1>2. Shaped(o, k, then)
  BY AskedShaped
<1>3. /\ Mine(j)' = Mine(j) /\ cache' = cache /\ tags' = tags
      /\ srv[j].forward \in forwarders => srv[j].forward \in forwarders'
  BY DEF Mine
<1>4. /\ InOrder(j)'
      /\ Heeds(j) \/ Owing(j) \/ (then /\ p \notin Reloads) => Heeds(j)' \/ Owing(j)'
      /\ Fresh(j) \/ OwingTags(j) \/ then => Fresh(j)' \/ OwingTags(j)'
  BY <1>1, <1>2, <1>3, GoesOnThere
<1> QED
  BY <1>4 DEF Turned

LEMMA TurnsClean ==
  ASSUME ServersOK, CacheOK(cache'), UNCHANGED <<cache, tags, instances, forwarders>>,
         NEW p \in Callers, p \notin Serving, NEW ks \in SUBSET Kinds, Turns(p, ks),
         NEW j \in Kinds, InOrder(j), NEW reached \in BOOLEAN, reached <=> j \in ks,
         reached => \A q \in Serving : j \notin Concerns(call[q])
  PROVE  Turned(p, j, reached)
<1>1. ("modbus" \in ks) \in BOOLEAN
  OBVIOUS
<1>2. PICK then \in BOOLEAN : then = ("modbus" \in ks)
  BY <1>1, Zenon
<1>3. PICK no \in BOOLEAN : no = FALSE
  OBVIOUS
<1>4. CASE "opcua" \in ks /\ GoesOn(p, "opcua", then, Asked(p, "opcua", then))
  <2>1. PICK o : o = Asked(p, "opcua", then)
    OBVIOUS
  <2>2. CASE j = "opcua"
    BY <1>4, <2>1, <2>2, AsksHere
  <2>3. CASE j # "opcua"
    <3>1. (then <=> reached) /\ "opcua" \in Kinds
      BY <1>2, <2>3 DEF Kinds
    <3>2. Turned(p, j, then)
      BY <1>4, <2>1, <2>3, <3>1, AsksThere
    <3> QED
      BY <3>1, <3>2 DEF Turned
  <2> QED
    BY <2>2, <2>3
<1>5. CASE ks = {"modbus"} /\ GoesOn(p, "modbus", no, Asked(p, "modbus", no))
  <2>1. PICK o : o = Asked(p, "modbus", no)
    OBVIOUS
  <2>2. CASE j = "modbus"
    BY <1>3, <1>5, <2>1, <2>2, AsksHere
  <2>3. CASE j # "modbus"
    <3>1. (no <=> reached) /\ "modbus" \in Kinds
      BY <1>3, <1>5, <2>3 DEF Kinds
    <3>2. Turned(p, j, no)
      BY <1>3, <1>5, <2>1, <2>3, <3>1, AsksThere
    <3> QED
      BY <3>1, <3>2 DEF Turned
  <2> QED
    BY <2>2, <2>3
<1>6. CASE ks = {} /\ call' = [call EXCEPT ![p] = NoCall("done")] /\ UNCHANGED srv
  <2>1. call'[p].pc = "done" /\ \A q \in Callers : q # p => call'[q] = call[q]
    BY <1>6 DEF ServersOK, NoCall, Call
  <2>2. p \notin Serving'
    BY <2>1 DEF Serving
  <2>3. /\ Mine(j)' = Mine(j) /\ srv'[j] = srv[j] /\ On(j)' = On(j) /\ PortNow(j)' = PortNow(j)
        /\ srv[j].forward \in forwarders => srv[j].forward \in forwarders'
    BY <1>6 DEF Mine, On, PortNow
  <2>4. /\ InOrder(j)'
        /\ Heeds(j) => Heeds(j)'
        /\ Fresh(j) => Fresh(j)'
    BY <2>1, <2>2, <2>3, Stays
  <2>5. \A q \in Serving : q \in Serving' /\ call'[q] = call[q]
    BY <2>1 DEF Serving
  <2>6. (Owing(j) => Owing(j)') /\ (OwingTags(j) => OwingTags(j)')
    BY <2>5 DEF Owing, OwingTags, Owes
  <2> QED
    BY <1>6, <2>4, <2>6 DEF Turned
<1> QED
  BY <1>2, <1>3, <1>4, <1>5, <1>6 DEF Turns

LEMMA GoesOnElsewhere ==
  ASSUME ServersOK, NEW p, NEW k, NEW then, NEW o, GoesOn(p, k, then, o)
  PROVE  \A q \in Callers : q # p => call'[q] = call[q]
BY DEF GoesOn, ServersOK

LEMMA TurnsElsewhere ==
  ASSUME ServersOK, NEW p, NEW ks, Turns(p, ks)
  PROVE  \A q \in Callers : q # p => call'[q] = call[q]
<1>1. ("modbus" \in ks) \in BOOLEAN
  OBVIOUS
<1>2. PICK then \in BOOLEAN, no \in BOOLEAN : then = ("modbus" \in ks) /\ no = FALSE
  BY <1>1, Zenon
<1>3. PICK a, b : a = Asked(p, "opcua", then) /\ b = Asked(p, "modbus", no)
  OBVIOUS
<1>4. CASE GoesOn(p, "opcua", then, a)
  BY <1>4, GoesOnElsewhere
<1>5. CASE GoesOn(p, "modbus", no, b)
  BY <1>5, GoesOnElsewhere
<1>6. CASE call' = [call EXCEPT ![p] = NoCall("done")] /\ UNCHANGED srv
  BY <1>6 DEF ServersOK
<1> QED
  BY <1>2, <1>3, <1>4, <1>5, <1>6 DEF Turns

\* The servers a request turns to are those its changes concern.
Touched(r) == {k \in Kinds : req[r].changed \cap ServerKeys(k) # {}}

LEMMA SavedIs ==
  ASSUME Typed, Waiting, NEW r \in Requests, Saved(r)
  PROVE  /\ req[r].pc = "commit" /\ req'[r].pc = "saved" /\ \A s \in Requests : s # r => req'[s] = req[s]
         /\ Turns(r, Touched(r)) /\ UNCHANGED <<cache, instances, forwarders>>
         /\ r \in Callers /\ r \notin Serving /\ r \notin Reloads
<1>1. /\ req[r].pc = "commit" /\ req' = [req EXCEPT ![r].pc = "saved"]
      /\ Turns(r, Touched(r)) /\ UNCHANGED <<cache, instances, forwarders>>
  BY DEF Saved, Committed, ReqAt, Touched
<1>2. PICK q : q = Request("saved", req[r].body, req[r].i, req[r].row, req[r].pending,
                           req[r].inserts, req[r].changed)
  OBVIOUS
<1>3. ReqsOK /\ req' = [req EXCEPT ![r] = q]
  BY <1>1, <1>2, MovesIs DEF Typed, SettingsOK
<1>4. q.pc = "saved"
  BY <1>2 DEF Request
<1>5. req'[r].pc = "saved" /\ \A s \in Requests : s # r => req'[s] = req[s]
  BY <1>3, <1>4 DEF ReqsOK
<1>6. r \notin Serving
  BY <1>1 DEF Waiting, Serving
<1> QED
  BY <1>1, <1>5, <1>6, ServerAssumption DEF Callers

LEMMA MeetingIs ==
  ASSUME NEW p \in Callers, NEW q \in Serving, NEW j, j \in Reaches(p), j \in Concerns(call[q])
  PROVE  j \in Meeting
BY DEF Meeting

LEMMA SavedClean ==
  ASSUME Typed, Waiting, Alone, NEW r \in Requests, Saved(r), UNCHANGED tags,
         NEW j \in Kinds, Clean(j), j \notin Meeting, j \in missed => j \in missed'
  PROVE  Clean(j)'
<1>0. ServersOK /\ CacheOK(cache) /\ CacheOK(cache')
  BY SavedIs DEF Typed, SettingsOK
<1>1. /\ req[r].pc = "commit" /\ req'[r].pc = "saved"
      /\ Turns(r, Touched(r)) /\ UNCHANGED <<cache, instances, forwarders>>
      /\ r \in Callers /\ r \notin Serving /\ r \notin Reloads
  BY SavedIs
<1>2. PICK ks \in SUBSET Kinds : ks = Touched(r)
  BY DEF Touched
<1>3. Reaches(r) = ks
  BY <1>1, <1>2 DEF Reaches, Touched
<1>4. j \in ks => \A q \in Serving : j \notin Concerns(call[q])
  BY <1>1, <1>3, MeetingIs
<1>5. (j \in ks) \in BOOLEAN
  OBVIOUS
<1>6. PICK reached \in BOOLEAN : reached = (j \in ks)
  BY <1>5, Zenon
<1>7. Turned(r, j, reached)
  <2>1. (reached <=> j \in ks) /\ Turns(r, ks) /\ InOrder(j)
    BY <1>1, <1>2, <1>6 DEF Clean
  <2> QED
    BY <1>0, <1>1, <1>4, <2>1, TurnsClean
<1>8. Due(j) => reached
  <2>1. r \in Writing
    BY <1>1 DEF Writing, Saving
  <2> QED
    BY <1>2, <1>6, <2>1 DEF Due, Alone, Touched
<1>9. Synced => Synced'
  <2>1. \A q \in Callers : q # r => call'[q] = call[q]
    BY <1>0, <1>1, TurnsElsewhere
  <2> QED
    BY <1>1, <2>1 DEF Synced, InCall, Callers
<1> QED
  BY <1>1, <1>7, <1>8, <1>9 DEF Clean, Turned

LEMMA ReachedIs ==
  ASSUME ServersOK, NEW l \in Reloads, ReloadReached(l)
  PROVE  /\ Turns(l, Kinds) /\ UNCHANGED <<cache, req, instances, forwarders, tags>>
         /\ l \in Callers /\ l \notin Serving /\ l \notin Requests
         /\ call[l].pc = "synced" /\ call'[l].pc \notin {"synced", "failed"}
<1>1. /\ Turns(l, Kinds) /\ UNCHANGED <<cache, req, instances, forwarders, tags>>
      /\ l \in Callers /\ l \notin Serving /\ l \notin Requests /\ call[l].pc = "synced"
  BY ServerAssumption DEF ReloadReached, settingsVars, Callers, Serving, InCall
<1>2. PICK yes, no : yes = TRUE /\ no = FALSE
  OBVIOUS
<1>3. PICK o, next : o = Asked(l, "opcua", yes) /\ next = Asked(l, "modbus", no)
  OBVIOUS
<1>4. Shaped(o, "opcua", yes) /\ Shaped(next, "modbus", no)
  BY <1>3, AskedShaped
<1>5. o.call.pc \notin {"synced", "failed"} /\ next.call.pc \notin {"synced", "failed"}
  BY <1>4 DEF Shaped, Busy
<1>6. call' = [call EXCEPT ![l] = o.call] \/ call' = [call EXCEPT ![l] = next.call]
  BY <1>1, <1>2, <1>3 DEF Turns, GoesOn, Kinds
<1>7. call'[l] = o.call \/ call'[l] = next.call
  BY <1>1, <1>6 DEF ServersOK
<1> QED
  BY <1>1, <1>5, <1>7

LEMMA ReachedClean ==
  ASSUME Typed, NEW l \in Reloads, ReloadReached(l), NEW j \in Kinds, Clean(j), j \notin Meeting,
         j \in missed => j \in missed'
  PROVE  Clean(j)'
<1>0. ServersOK /\ CacheOK(cache)
  BY DEF Typed, SettingsOK
<1>1. /\ Turns(l, Kinds) /\ UNCHANGED <<cache, req, instances, forwarders, tags>>
      /\ l \in Callers /\ l \notin Serving /\ l \notin Requests
      /\ call[l].pc = "synced" /\ call'[l].pc \notin {"synced", "failed"}
  BY <1>0, ReachedIs
<1>2. Reaches(l) = Kinds
  BY <1>1 DEF Reaches, InCall
<1>3. \A q \in Serving : j \notin Concerns(call[q])
  BY <1>1, <1>2, MeetingIs
<1>4. PICK yes \in BOOLEAN : yes = TRUE
  OBVIOUS
<1>5. PICK ks \in SUBSET Kinds : ks = Kinds
  OBVIOUS
<1>6. Turned(l, j, yes)
  <2>1. (yes <=> j \in ks) /\ Turns(l, ks) /\ InOrder(j) /\ CacheOK(cache')
    BY <1>0, <1>1, <1>4, <1>5 DEF Clean
  <2> QED
    BY <1>0, <1>1, <1>3, <2>1, TurnsClean
<1>7. Due(j) => Due(j)'
  BY <1>1 DEF Due, Writing, Saving
<1> QED
  BY <1>4, <1>6, <1>7 DEF Clean, Turned

\* A reload has put other tags in the database, and no server knows them yet.
LEMMA SyncedClean ==
  ASSUME Typed, NEW l \in Reloads, TagsSynced(l), NEW j \in Kinds, Clean(j)
  PROVE  Clean(j)'
<1>0. ServersOK
  BY DEF Typed
<1>1. /\ call[l].pc = "none" /\ call' = [call EXCEPT ![l] = NoCall("synced")] /\ l \in Callers
      /\ UNCHANGED <<cache, req, srv, instances, forwarders>>
  BY DEF TagsSynced, InCall, settingsVars, serverVars, Callers
<1>2. call'[l].pc = "synced" /\ \A q \in Callers : q # l => call'[q] = call[q]
  BY <1>0, <1>1 DEF ServersOK, NoCall, Call
<1>3. l \notin Serving /\ l \notin Serving'
  BY <1>1, <1>2 DEF Serving
<1>4. /\ Mine(j)' = Mine(j) /\ On(j)' = On(j) /\ PortNow(j)' = PortNow(j)
      /\ srv'[j] = srv[j]
      /\ srv[j].forward \in forwarders => srv[j].forward \in forwarders'
  BY <1>1 DEF Mine, On, PortNow
<1>5. InOrder(j)' /\ (Heeds(j) => Heeds(j)')
  BY <1>2, <1>3, <1>4, Stays DEF Clean
<1>6. \A q \in Serving : q \in Serving' /\ call'[q] = call[q]
  BY <1>2, <1>3 DEF Serving
<1>7. (Due(j) => Due(j)') /\ (Owing(j) => Owing(j)')
  BY <1>1, <1>6 DEF Due, Writing, Saving, Owing, Owes
<1>8. Synced'
  BY <1>2 DEF Synced, InCall
<1> QED
  BY <1>5, <1>7, <1>8 DEF Clean

\* A reload that fails there passes the servers over.
LEMMA MissedClean ==
  ASSUME ServersOK, NEW l \in Reloads, MetadataFailed(l), NEW j \in Kinds, Clean(j), j \in missed'
  PROVE  Clean(j)'
<1>1. /\ call[l].pc = "synced" /\ call' = [call EXCEPT ![l] = NoCall("failed")] /\ l \in Callers
      /\ UNCHANGED <<cache, req, srv, instances, forwarders>>
  BY DEF MetadataFailed, InCall, serverVars, Callers
<1>2. call'[l].pc = "failed" /\ \A q \in Callers : q # l => call'[q] = call[q]
  BY <1>1 DEF ServersOK, NoCall, Call
<1>3. l \notin Serving /\ l \notin Serving'
  BY <1>1, <1>2 DEF Serving
<1>4. /\ Mine(j)' = Mine(j) /\ On(j)' = On(j) /\ PortNow(j)' = PortNow(j)
      /\ srv'[j] = srv[j]
      /\ srv[j].forward \in forwarders => srv[j].forward \in forwarders'
  BY <1>1 DEF Mine, On, PortNow
<1>5. InOrder(j)' /\ (Heeds(j) => Heeds(j)')
  BY <1>2, <1>3, <1>4, Stays DEF Clean
<1>6. \A q \in Serving : q \in Serving' /\ call'[q] = call[q]
  BY <1>2, <1>3 DEF Serving
<1>7. (Due(j) => Due(j)') /\ (Owing(j) => Owing(j)')
  BY <1>1, <1>6 DEF Due, Writing, Saving, Owing, Owes
<1> QED
  BY <1>5, <1>7 DEF Clean

-----------------------------------------------------------------------------
(* The steps of a request leave the servers alone until it is saved.         *)

LEMMA SameServersClean ==
  ASSUME UNCHANGED <<serverVars, call, tags>>, NEW j \in Kinds, Clean(j), j \in missed => j \in missed',
         Due(j) => Due(j)',
         ~ Due(j)' => On(j)' = On(j) /\ PortNow(j)' = PortNow(j)
  PROVE  Clean(j)'
<1>1. UNCHANGED <<srv, instances, forwarders, call, tags>>
  BY DEF serverVars
<1>2. /\ Serving' = Serving /\ Mine(j)' = Mine(j)
      /\ Free(j)' <=> Free(j)
      /\ Owing(j)' <=> Owing(j)
      /\ OwingTags(j)' <=> OwingTags(j)
      /\ Synced' <=> Synced
  BY <1>1 DEF Serving, Mine, Free, Owing, OwingTags, Owes, Synced, InCall
<1>3. InOrder(j)'
  BY <1>1, <1>2 DEF Clean, InOrder
<1>4. Heeds(j) => Due(j)' \/ Heeds(j)'
  BY <1>1, <1>2 DEF Heeds
<1>5. Fresh(j) => Fresh(j)'
  BY <1>1, <1>2 DEF Fresh
<1> QED
  BY <1>2, <1>3, <1>4, <1>5 DEF Clean

LEMMA PutClean ==
  ASSUME Typed, NEW r \in Requests, Put(r), UNCHANGED <<serverVars, call, tags>>,
         NEW j \in Kinds, Clean(j),
         j \in missed => j \in missed'
  PROVE  Clean(j)'
<1>1. PICK body \in Bodies : req' = [req EXCEPT ![r] = TurnTo(body, 1, <<>>, {}, {}, cache)]
  BY DEF Put, Becomes
<1>2. PICK q : q = TurnTo(body, 1, <<>>, {}, {}, cache)
  OBVIOUS
<1>3. \A s \in Requests \ {r} : req'[s] = req[s] /\ (s \in Writing' <=> s \in Writing)
  BY <1>1, <1>2, WritingAfter DEF Typed, SettingsOK
<1>4. r \notin Writing /\ Writing \subseteq Requests /\ cache' = cache
  BY DEF Put, ReqAt, Writing, Saving
<1>5. Due(j) => Due(j)'
  BY <1>3, <1>4 DEF Due
<1>6. On(j)' = On(j) /\ PortNow(j)' = PortNow(j)
  BY <1>4 DEF On, PortNow
<1> QED
  BY <1>5, <1>6, SameServersClean

LEMMA RowReadClean ==
  ASSUME Typed, NEW r \in Requests, RowRead(r), UNCHANGED <<serverVars, call, tags>>,
         NEW j \in Kinds, Clean(j),
         j \in missed => j \in missed'
  PROVE  Clean(j)'
<1>0. ReqsOK
  BY DEF Typed, SettingsOK
<1>1. PICK q : q = req[r]
  OBVIOUS
<1>2. PICK row : /\ q.pc = "get"
                 /\ req' = [req EXCEPT ![r] =
                              Request("got", q.body, q.i, row, q.pending, q.inserts, q.changed)]
  BY <1>0, <1>1, RowReadIs
<1>3. PICK next : next = Request("got", q.body, q.i, row, q.pending, q.inserts, q.changed)
  OBVIOUS
<1>5. next.pc = "got" /\ next.i = q.i /\ next.changed = q.changed
  BY <1>3 DEF Request
<1>4. /\ req'[r] = next /\ r \in Writing'
      /\ \A s \in Requests \ {r} : req'[s] = req[s] /\ (s \in Writing' <=> s \in Writing)
      /\ Writing \subseteq Requests
  <2>1. req' = [req EXCEPT ![r] = next]
    BY <1>2, <1>3
  <2> QED
    BY <1>0, <1>5, <2>1, WritingAfter
<1>6. Due(j) => Due(j)'
  BY <1>1, <1>4, <1>5 DEF Due
<1>7. On(j)' = On(j) /\ PortNow(j)' = PortNow(j)
  BY DEF On, PortNow, RowRead
<1> QED
  BY <1>6, <1>7, SameServersClean

\* A request that fails has changed nothing, or it is half saved.
LEMMA CallFailedClean ==
  ASSUME Typed, Alone, NEW r \in Requests, CallFailed(r), ~ HalfSaved',
         UNCHANGED <<serverVars, call, tags>>, NEW j \in Kinds, Clean(j),
         j \in missed => j \in missed'
  PROVE  Clean(j)'
<1>0. ReqsOK
  BY DEF Typed, SettingsOK
<1>1. PICK q : q = req[r]
  OBVIOUS
<1>2. PICK next : next = Request("failed", q.body, q.i, q.row, q.pending, q.inserts, q.changed)
  OBVIOUS
<1>3. q.pc \in {"get", "commit"} /\ req' = [req EXCEPT ![r] = next]
  BY <1>0, <1>1, <1>2, MovesIs DEF CallFailed, ReqAt
<1>4. r \in Writing
  BY <1>1, <1>3 DEF Writing, Saving
<1>5. next.pc = "failed" /\ next.i = q.i
  BY <1>2 DEF Request
<1>6. ~ (q.i > 1)
  <2>1. req'[r] = next
    BY <1>0, <1>3, WritingAfter
  <2> QED
    BY <1>5, <2>1 DEF HalfSaved, Rejected
<1>7. ~ Due(j)
  BY <1>1, <1>4, <1>6 DEF Due, Alone
<1>8. On(j)' = On(j) /\ PortNow(j)' = PortNow(j)
  BY DEF On, PortNow, CallFailed
<1> QED
  BY <1>7, <1>8, SameServersClean

\* What set_many has come to after it cached a value.
LEMMA CachedNext ==
  ASSUME SettingsOK, NEW r \in Requests, KeyCached(r), ~ HalfSaved'
  PROVE  \E next : /\ req' = [req EXCEPT ![r] = next] /\ next.pc \in {"get", "commit"}
                   /\ next.i > 1 /\ req[r].changed \subseteq next.changed
                   /\ next.pc = "get" =>
                        \/ next.body[next.i].key \in next.changed
                        \/ Same(cache'[next.body[next.i].key], next.body[next.i].value)
<1>1. PICK q : q = req[r]
  OBVIOUS
<1>2. PICK key, value : key = q.body[q.i].key /\ value = q.body[q.i].value
  OBVIOUS
<1>3. /\ q.pc = "got" /\ q.body \in Bodies /\ q.i \in 1 .. Len(q.body)
      /\ Goes(r, q, key, value)
  BY <1>1, <1>2, KeyCachedIs
<1>4. Len(q.body) \in Nat
  BY <1>3, BodyIs
<1>5. PICK i : i = q.i + 1 /\ i > 1
  BY <1>3, <1>4
<1>6. PICK rows, inserts :
        /\ rows = IF q.row = ToStr(key, value) THEN q.pending ELSE With(q.pending, key, ToStr(key, value))
        /\ inserts = IF q.row = NoRow THEN q.inserts \cup {key} ELSE q.inserts
  OBVIOUS
<1>7. PICK c : c = cache'
  OBVIOUS
<1>8. PICK next : next = TurnTo(q.body, i, rows, inserts, q.changed, c)
  OBVIOUS
<1>9. req' = [req EXCEPT ![r] = next]
  BY <1>3, <1>5, <1>6, <1>7, <1>8 DEF Goes
<1>10. req'[r] = next
  BY <1>9 DEF SettingsOK, ReqsOK
<1>11. next.i = i /\ next.body = q.body /\ next.pc \in {"commit", "rejected", "get"}
  BY <1>8 DEF TurnTo, Request
<1>12. next.pc # "rejected"
  BY <1>5, <1>10, <1>11 DEF HalfSaved, Rejected
<1>13. q.changed \subseteq next.changed
  BY <1>8, <1>11, <1>12 DEF TurnTo, Request
<1>14. next.pc = "get" =>
         \/ next.body[next.i].key \in next.changed
         \/ Same(c[next.body[next.i].key], next.body[next.i].value)
  BY <1>8, <1>11 DEF TurnTo, Request
<1> QED
  BY <1>1, <1>5, <1>7, <1>9, <1>11, <1>12, <1>13, <1>14

\* A key whose value changes is noted as changed.
LEMMA KeyCachedClean ==
  ASSUME Typed, Alone, Changing, NEW r \in Requests, KeyCached(r), ~ HalfSaved',
         UNCHANGED <<serverVars, call, tags>>, NEW j \in Kinds, Clean(j),
         j \in missed => j \in missed'
  PROVE  Clean(j)'
<1>0. SettingsOK /\ ReqsOK
  BY DEF Typed, SettingsOK
<1>1. PICK q : q = req[r]
  OBVIOUS
<1>2. PICK next : /\ req' = [req EXCEPT ![r] = next] /\ next.pc \in {"get", "commit"}
                  /\ next.i > 1 /\ q.changed \subseteq next.changed
  BY <1>0, <1>1, CachedNext
<1>3. PICK key, value : key = q.body[q.i].key /\ value = q.body[q.i].value
  OBVIOUS
<1>4. q.pc = "got" /\ key \in Keys /\ cache' = [cache EXCEPT ![key] = value]
  BY <1>0, <1>1, <1>3, KeyCachedIs DEF Goes
<1>5. r \in Writing
  BY <1>1, <1>4 DEF Writing, Saving
<1>6. req'[r] = next /\ r \in Writing'
  BY <1>0, <1>2, WritingAfter
<1>7. q.changed \cap ServerKeys(j) # {} => Due(j)'
  BY <1>2, <1>6 DEF Due
<1>8. Due(j) => Due(j)'
  BY <1>1, <1>5, <1>7 DEF Due, Alone
<1>9. key \in q.changed \/ Same(cache[key], value)
  BY <1>1, <1>3, <1>4, <1>5 DEF Changing
<1>10. cache \in [Keys -> SettingValue] /\ Enabled(j) \in Keys /\ Port(j) \in Keys
  BY <1>0, ServerAssumption DEF SettingsOK, CacheOK
<1>11. ASSUME ~ Due(j)', NEW k \in {Enabled(j), Port(j)} PROVE cache'[k].n = cache[k].n
  <2>1. k \notin q.changed
    BY <1>7, <1>11 DEF ServerKeys
  <2>2. CASE k = key
    BY <1>4, <1>9, <2>1, <2>2, <1>10 DEF Same
  <2>3. CASE k # key
    BY <1>4, <1>10, <2>3
  <2> QED
    BY <2>2, <2>3
<1>12. ~ Due(j)' => On(j)' = On(j) /\ PortNow(j)' = PortNow(j)
  BY <1>11 DEF On, PortNow, Truthy
<1> QED
  BY <1>8, <1>12, SameServersClean

-----------------------------------------------------------------------------
(* Numbers and forward tasks.                                                *)

\* An operation leaves the numbers of server s where they are; its call has one of them.
Carries(o, s) ==
  /\ o.server.server = s.server /\ o.server.forward = s.forward
  /\ o.call.id \in {s.server, s.forward, None}
  /\ o.call.pc = "done" => o.call.id = None

LEMMA FinishedCarries ==
  ASSUME NEW s
  PROVE  Carries(Finished(s), s)
BY DEF Carries, Finished, Outcome, NoCall, Call

LEMMA StartingCarries ==
  ASSUME NEW k, NEW then, NEW s
  PROVE  Carries(Starting(k, then, s), s)
<1>1. PICK port : port = cache'[Port(k)].n
  OBVIOUS
<1>2. Carries(Outcome(s, Call("loading", k, then, FALSE, None, port, None)), s)
  BY DEF Carries, Outcome, Call
<1> QED
  BY <1>1, <1>2, FinishedCarries DEF Starting

LEMMA AfterStopCarries ==
  ASSUME NEW k, NEW then, NEW again, NEW s
  PROVE  Carries(AfterStop(k, then, again, s), s)
BY StartingCarries, FinishedCarries DEF AfterStop

LEMMA AfterJoinCarries ==
  ASSUME NEW n, NEW v, NEW k, NEW then, NEW again, NEW s \in ServerState(n, v)
  PROVE  Carries(AfterJoin(k, then, again, s), s)
<1>1. CASE s.server # None
  <2>1. Carries(Outcome(s, Call("stopping", k, then, again, s.server, None, None)), s)
    BY DEF Carries, Outcome, Call
  <2> QED
    BY <1>1, <2>1 DEF AfterJoin
<1>2. CASE ~ (s.server # None)
  <2>1. PICK t : t = [s EXCEPT !.nodes = None]
    OBVIOUS
  <2>2. t.server = s.server /\ t.forward = s.forward
    BY <2>1 DEF ServerState
  <2>3. Carries(AfterStop(k, then, again, t), t)
    BY AfterStopCarries
  <2> QED
    BY <1>2, <2>1, <2>2, <2>3 DEF AfterJoin, Carries
<1> QED
  BY <1>1, <1>2

LEMMA StoppingCarries ==
  ASSUME NEW n, NEW v, NEW k, NEW then, NEW again, NEW s \in ServerState(n, v)
  PROVE  Carries(Stopping(k, then, again, s), s)
<1>1. PICK off : off = [s EXCEPT !.running = FALSE]
  OBVIOUS
<1>2. off \in ServerState(n, v) /\ off.server = s.server /\ off.forward = s.forward
  BY <1>1 DEF ServerState
<1>3. Carries(Outcome(off, Call("joining", k, then, again, s.forward, None, None)), s)
  BY <1>2 DEF Carries, Outcome, Call
<1>4. Carries(AfterJoin(k, then, again, off), off)
  BY <1>2, AfterJoinCarries
<1>5. Carries(AfterJoin(k, then, again, off), s)
  BY <1>2, <1>4 DEF Carries
<1> QED
  BY <1>1, <1>3, <1>5 DEF Stopping

LEMMA AskedCarries ==
  ASSUME ServersOK, NEW p, NEW k \in Kinds, NEW then
  PROVE  Carries(Asked(p, k, then), srv[k])
<1>0. PICK n, v : srv[k] \in ServerState(n, v)
  BY DEF ServersOK
<1>1. PICK s \in ServerState(n, v) : s = srv[k]
  BY <1>0
<1>2. \A again : Carries(Stopping(k, then, again, s), s)
  BY StoppingCarries
<1>3. Carries(Restarting(k, then, s), s)
  BY <1>2, StartingCarries DEF Restarting
<1> QED
  BY <1>1, <1>2, <1>3, FinishedCarries DEF Asked

\* A step that makes no number, and none that is at the bind of the OPC UA server.
Owned(k, x) == x = None \/ Holds(k, x)
OldIds == \A k \in Kinds : \A x : Holds(k, x)' => Owned(k, x)
OldStarts == \A q \in Callers : call'[q].pc = "starting" => call'[q] = call[q]

LEMMA StaysApart ==
  ASSUME Apart, OldIds, OldStarts
  PROVE  Apart'
<1>1. \A x : Holds("opcua", x)' /\ Holds("modbus", x)' => x = None
  BY DEF OldIds, Owned, Apart, Kinds
<1>2. \A p \in Callers : call'[p].pc = "starting" => call'[p].kind = "opcua"
  BY DEF OldStarts, Apart
<1> QED
  BY <1>1, <1>2 DEF Apart

\* p's call of server k has come to o, all the numbers in which are server k's.
OwnedBy(k, o) ==
  /\ Owned(k, o.server.server) /\ Owned(k, o.server.forward)
  /\ Owned(k, o.call.id) /\ (o.call.pc = "done" => o.call.id = None)

LEMMA CarriedOwned ==
  ASSUME NEW k, NEW s, Owned(k, s.server), Owned(k, s.forward), NEW o, Carries(o, s)
  PROVE  OwnedBy(k, o)
BY DEF Carries, OwnedBy, Owned

LEMMA AskedOwned ==
  ASSUME ServersOK, NEW p, NEW k \in Kinds, NEW then
  PROVE  OwnedBy(k, Asked(p, k, then))
<1>1. PICK s, o : s = srv[k] /\ o = Asked(p, k, then)
  OBVIOUS
<1>2. Owned(k, s.server) /\ Owned(k, s.forward)
  BY <1>1 DEF Owned, Holds
<1>3. Carries(o, s)
  BY <1>1, AskedCarries
<1> QED
  BY <1>1, <1>2, <1>3, CarriedOwned

LEMMA CallOwned ==
  ASSUME NEW k, NEW then, NEW o, Shaped(o, k, then), OwnedBy(k, o), NEW j, NEW x,
         o.call.kind = j, o.call.id = x
  PROVE  Owned(j, x) /\ o.call.pc # "starting"
BY DEF Shaped, OwnedBy, Owned, Busy

LEMMA GoesOnOwned ==
  ASSUME ServersOK, NEW p \in Callers, NEW k \in Kinds, NEW then \in BOOLEAN, then => k = "opcua",
         NEW o, GoesOn(p, k, then, o), Shaped(o, k, then), OwnedBy(k, o), instances' \subseteq instances
  PROVE  OldIds /\ OldStarts
<1>1. PICK n, v : srv \in [Kinds -> ServerState(n, v)] /\ call \in [Callers -> CallState(n, v)]
  BY DEF ServersOK
<1>2. PICK next, no : next = Asked(p, "modbus", no) /\ no = FALSE
  OBVIOUS
<1>3. MovedOn(p, k, then, o, next)
  BY <1>1, <1>2, GoesOnIs
<1>4. OwnedBy("modbus", next) /\ Shaped(next, "modbus", no)
  BY <1>2, AskedOwned, AskedShaped DEF Kinds
<1>5. \A q \in Callers : q # p => call'[q] = call[q]
  BY <1>3 DEF MovedOn
<1>6. ASSUME NEW j \in Kinds, NEW x, x \in {srv'[j].server, srv'[j].forward} PROVE Owned(j, x)
  <2>1. srv'[j] = srv[j] \/ (j = k /\ srv'[j] = o.server) \/ (j = "modbus" /\ srv'[j] = next.server)
    BY <1>1, <1>2 DEF GoesOn
  <2> QED
    BY <1>4, <1>6, <2>1 DEF OwnedBy, Owned, Holds
<1>7. call'[p] = o.call \/ call'[p] = next.call
  BY <1>3 DEF MovedOn
<1>8. ASSUME NEW j, NEW x, call'[p].kind = j, call'[p].id = x PROVE Owned(j, x) /\ call'[p].pc # "starting"
  BY <1>4, <1>7, <1>8, CallOwned
<1>9. OldStarts
  BY <1>5, <1>8 DEF OldStarts
<1>10. ASSUME NEW j \in Kinds, NEW x, Holds(j, x)' PROVE Owned(j, x)
  <2>1. CASE \E i \in instances' : i.kind = j /\ i.id = x
    BY <2>1 DEF Owned, Holds
  <2>2. CASE x \in {srv'[j].server, srv'[j].forward}
    BY <1>6, <2>2
  <2>3. CASE \E q \in Callers : call'[q].kind = j /\ call'[q].id = x
    BY <1>5, <1>8, <2>3 DEF Owned, Holds
  <2> QED
    BY <1>10, <2>1, <2>2, <2>3 DEF Holds
<1> QED
  BY <1>9, <1>10 DEF OldIds

LEMMA TurnsApart ==
  ASSUME ServersOK, Apart, UNCHANGED instances, NEW p \in Callers, NEW ks, Turns(p, ks)
  PROVE  Apart'
<1>1. ("modbus" \in ks) \in BOOLEAN
  OBVIOUS
<1>2. PICK then \in BOOLEAN : then = ("modbus" \in ks)
  BY <1>1, Zenon
<1>3. PICK no \in BOOLEAN : no = FALSE
  OBVIOUS
<1>4. PICK a, b : a = Asked(p, "opcua", then) /\ b = Asked(p, "modbus", no)
  OBVIOUS
<1>5. /\ OwnedBy("opcua", a) /\ Shaped(a, "opcua", then)
      /\ OwnedBy("modbus", b) /\ Shaped(b, "modbus", no)
  BY <1>4, AskedOwned, AskedShaped DEF Kinds
<1>6. CASE GoesOn(p, "opcua", then, a)
  BY <1>5, <1>6, GoesOnOwned, StaysApart DEF Kinds
<1>7. CASE GoesOn(p, "modbus", no, b)
  BY <1>3, <1>5, <1>7, GoesOnOwned, StaysApart DEF Kinds
<1>8. CASE call' = [call EXCEPT ![p] = NoCall("done")] /\ UNCHANGED srv
  <2>1. /\ \A q \in Callers : q # p => call'[q] = call[q]
        /\ call'[p].pc = "done" /\ call'[p].id = None
    BY <1>8 DEF ServersOK, NoCall, Call
  <2>2. OldIds
    BY <1>8, <2>1 DEF OldIds, Owned, Holds
  <2>3. OldStarts
    BY <2>1 DEF OldStarts
  <2> QED
    BY <2>2, <2>3, StaysApart
<1> QED
  BY <1>2, <1>3, <1>4, <1>6, <1>7, <1>8 DEF Turns

LEMMA NumberedIs ==
  ASSUME ServersOK, NEW k \in Kinds
  PROVE  \E n \in Nat, v \in Nat : srv[k] \in ServerState(n, v)
BY DEF ServersOK

LEMMA JoinedApart ==
  ASSUME ServersOK, Apart, NEW p \in Callers, Joined(p)
  PROVE  Apart'
<1>1. PICK c : c = call[p]
  OBVIOUS
<1>2. PICK k \in Kinds, then \in BOOLEAN, again \in BOOLEAN :
        k = c.kind /\ then = c.then /\ again = c.again /\ (then => k = "opcua")
  BY <1>1, CallIs, Zenon
<1>3. PICK s : s = srv[k]
  OBVIOUS
<1>4. PICK n \in Nat, v \in Nat : s \in ServerState(n, v)
  BY <1>3, NumberedIs
<1>5. PICK t : t = [s EXCEPT !.forward = None]
  OBVIOUS
<1>6. PICK o : o = AfterJoin(k, then, again, t)
  OBVIOUS
<1>7. GoesOn(p, k, then, o) /\ instances' \subseteq instances
  BY <1>1, <1>2, <1>3, <1>5, <1>6 DEF Joined
<1>8. t \in ServerState(n, v) /\ t.server = s.server /\ t.forward = None
  BY <1>4, <1>5 DEF ServerState, None
<1>9. Owned(k, t.server) /\ Owned(k, t.forward)
  BY <1>3, <1>8 DEF Owned, Holds
<1>10. OwnedBy(k, o)
  <2>1. Carries(o, t)
    BY <1>6, <1>8, AfterJoinCarries
  <2> QED
    BY <1>9, <2>1, CarriedOwned
<1>11. Shaped(o, k, then)
  BY <1>6, AfterJoinShaped
<1> QED
  BY <1>2, <1>7, <1>10, <1>11, GoesOnOwned, StaysApart

LEMMA StoppedApart ==
  ASSUME ServersOK, Apart, NEW p \in Callers, Stopped(p)
  PROVE  Apart'
<1>1. PICK c : c = call[p]
  OBVIOUS
<1>2. PICK k \in Kinds, then \in BOOLEAN, again \in BOOLEAN :
        k = c.kind /\ then = c.then /\ again = c.again /\ (then => k = "opcua")
  BY <1>1, CallIs, Zenon
<1>3. PICK s : s = srv[k]
  OBVIOUS
<1>4. PICK n \in Nat, v \in Nat : s \in ServerState(n, v)
  BY <1>3, NumberedIs
<1>5. PICK t : t = [s EXCEPT !.server = None, !.nodes = None]
  OBVIOUS
<1>6. PICK o : o = AfterStop(k, then, again, t)
  OBVIOUS
<1>7. GoesOn(p, k, then, o) /\ instances' \subseteq instances
  BY <1>1, <1>2, <1>3, <1>5, <1>6 DEF Stopped
<1>8. t.server = None /\ t.forward = s.forward
  BY <1>4, <1>5 DEF ServerState, None
<1>9. Owned(k, t.server) /\ Owned(k, t.forward)
  BY <1>3, <1>8 DEF Owned, Holds
<1>10. OwnedBy(k, o)
  <2>1. Carries(o, t)
    BY <1>6, AfterStopCarries
  <2> QED
    BY <1>9, <2>1, CarriedOwned
<1>11. Shaped(o, k, then)
  BY <1>6, AfterJoinShaped
<1> QED
  BY <1>2, <1>7, <1>10, <1>11, GoesOnOwned, StaysApart

LEMMA StartedApart ==
  ASSUME ServersOK, Apart, NEW p \in Callers, Started(p)
  PROVE  Apart'
<1>1. PICK c : c = call[p]
  OBVIOUS
<1>2. PICK k \in Kinds, then \in BOOLEAN : k = c.kind /\ then = c.then /\ (then => k = "opcua")
  BY <1>1, CallIs, Zenon
<1>3. PICK t : t = Server(TRUE, c.id, c.id, c.version)
  OBVIOUS
<1>4. PICK o : o = Finished(t)
  OBVIOUS
<1>5. GoesOn(p, k, then, o) /\ instances' \subseteq instances
  BY <1>1, <1>2, <1>3, <1>4 DEF Started
<1>6. t.server = c.id /\ t.forward = c.id
  BY <1>3 DEF Server
<1>7. Owned(k, t.server) /\ Owned(k, t.forward)
  BY <1>1, <1>2, <1>6 DEF Owned, Holds
<1>8. OwnedBy(k, o)
  <2>1. Carries(o, t)
    BY <1>4, FinishedCarries
  <2> QED
    BY <1>7, <2>1, CarriedOwned
<1>9. Shaped(o, k, then)
  BY <1>4, FinishedShaped
<1> QED
  BY <1>2, <1>5, <1>8, <1>9, GoesOnOwned, StaysApart

LEMMA LoadsApart ==
  ASSUME ServersOK, Apart, NEW p \in Callers, NEW c, Loads(p, c), call[p].kind = "opcua", UNCHANGED srv
  PROVE  Apart'
<1>1. /\ \A q \in Callers : q # p => call'[q] = call[q]
      /\ call'[p].kind = "opcua" /\ call'[p].id = call[p].id /\ instances' = instances
  BY DEF Loads, Continues, ServersOK
<1>2. OldIds
  BY <1>1 DEF OldIds, Owned, Holds
<1>3. \A x : Holds("opcua", x)' /\ Holds("modbus", x)' => x = None
  BY <1>2 DEF OldIds, Owned, Apart, Kinds
<1>4. \A q \in Callers : call'[q].pc = "starting" => call'[q].kind = "opcua"
  BY <1>1 DEF Apart
<1> QED
  BY <1>3, <1>4 DEF Apart

\* The number of a new instance has never been held.
LEMMA HeldIds ==
  ASSUME ServersOK, NEW k \in Kinds, NEW x, Holds(k, x)
  PROVE  x \in 0 .. lastId
<1>1. srv[k] \in ServerState(lastId, tags)
  BY DEF ServersOK
<1>2. srv[k].server \in 0 .. lastId /\ srv[k].forward \in 0 .. lastId
  BY <1>1 DEF ServerState
<1>3. \A i \in instances : i.id \in 0 .. lastId
  BY DEF ServersOK, InstanceOK
<1>4. \A p \in Callers : call[p].id \in 0 .. lastId
  BY CallIs
<1> QED
  BY <1>2, <1>3, <1>4 DEF Holds

LEMMA MakesApart ==
  ASSUME ServersOK, Apart, NEW p \in Callers, NEW c, NEW i, Makes(p, c, i), UNCHANGED srv
  PROVE  Apart'
<1>1. /\ \A q \in Callers : q # p => call'[q] = call[q]
      /\ call'[p] = c /\ c.kind = call[p].kind /\ c.pc = "started" /\ c.id = lastId + 1
      /\ instances' = instances \cup {i} /\ i.kind = c.kind /\ i.id = c.id
  BY DEF Makes, Continues, ServersOK
<1>2. ASSUME NEW k \in Kinds, NEW x, Holds(k, x)'
      PROVE  Holds(k, x) \/ (k = c.kind /\ x = c.id)
  BY <1>1, <1>2 DEF Holds
<1>3. ASSUME NEW x, Holds("opcua", x)', Holds("modbus", x)' PROVE x = None
  <2>1. x = c.id => ~ Holds("opcua", x) /\ ~ Holds("modbus", x)
    BY <1>1, HeldIds DEF Kinds, ServersOK
  <2>2. Holds("opcua", x) \/ ("opcua" = c.kind /\ x = c.id)
    BY <1>2, <1>3 DEF Kinds
  <2>3. Holds("modbus", x) \/ ("modbus" = c.kind /\ x = c.id)
    BY <1>2, <1>3 DEF Kinds
  <2>4. Holds("opcua", x) /\ Holds("modbus", x)
    BY <2>1, <2>2, <2>3
  <2> QED
    BY <2>4 DEF Apart
<1>4. \A q \in Callers : call'[q].pc = "starting" => call'[q].kind = "opcua"
  BY <1>1 DEF Apart
<1> QED
  BY <1>3, <1>4 DEF Apart

\* A call that ends has no number.
LEMMA EndsApart ==
  ASSUME ServersOK, Apart, NEW p \in Callers, NEW where \in {"synced", "failed"},
         call' = [call EXCEPT ![p] = NoCall(where)], UNCHANGED serverVars
  PROVE  Apart'
<1>1. /\ \A q \in Callers : q # p => call'[q] = call[q]
      /\ call'[p].pc = where /\ call'[p].id = None
  BY DEF ServersOK, NoCall, Call
<1>2. OldIds
  BY <1>1 DEF OldIds, Owned, Holds, serverVars
<1>3. OldStarts
  BY <1>1 DEF OldStarts
<1> QED
  BY <1>2, <1>3, StaysApart

LEMMA BindsApart ==
  ASSUME ServersOK, Apart, ModbusBinds
  PROVE  Apart'
<1>1. PICK i, n : /\ instances' = (instances \ {i}) \cup {n} /\ i \in instances
                  /\ n.id = i.id /\ n.kind = i.kind /\ n.port = i.port
  BY BindsIs
<1>2. UNCHANGED <<srv, call>>
  BY DEF ModbusBinds
<1>3. OldIds
  BY <1>1, <1>2 DEF OldIds, Owned, Holds
<1>4. OldStarts
  BY <1>2 DEF OldStarts
<1> QED
  BY <1>3, <1>4, StaysApart

LEMMA SameApart ==
  ASSUME Apart, UNCHANGED <<srv, instances, call>>
  PROVE  Apart'
<1>1. OldIds /\ OldStarts
  BY DEF OldIds, OldStarts, Owned, Holds
<1> QED
  BY <1>1, StaysApart

\* The first call of a start has no number.
LEMMA FirstCallIs ==
  ASSUME NEW c
  PROVE  FirstCall(c).id = None /\ FirstCall(c).pc \in {"loading", "done"}
<1>1. PICK a, b : a = c[Port("opcua")].n /\ b = c[Port("modbus")].n
  OBVIOUS
<1>2. FirstCall(c) \in {Call("loading", "opcua", TRUE, FALSE, None, a, None),
                        Call("loading", "modbus", FALSE, FALSE, None, b, None), NoCall("done")}
  BY <1>1 DEF FirstCall
<1> QED
  BY <1>2 DEF Call, NoCall

LEMMA RestartApart ==
  ASSUME ServersOK, Apart, ProgramRestarts
  PROVE  Apart'
<1>1. PICK first : first = FirstCall(cache')
  OBVIOUS
<1>2. first.id = None /\ first.pc \in {"loading", "done"}
  BY <1>1, FirstCallIs
<1>3. /\ instances' = {} /\ \A k \in Kinds : srv'[k] = Off
      /\ call' = [p \in Callers |-> IF p = "lifespan" THEN first
                                    ELSE IF call[p].pc = "none" THEN call[p] ELSE NoCall("done")]
  BY <1>1 DEF ProgramRestarts
<1>4. NoCall("done").pc = "done" /\ NoCall("done").id = None
  BY DEF NoCall, Call
<1>5. OldIds
  BY <1>2, <1>3, <1>4, OffIs DEF OldIds, Owned, Holds
<1>6. OldStarts
  BY <1>2, <1>3, <1>4 DEF OldStarts
<1> QED
  BY <1>5, <1>6, StaysApart

-----------------------------------------------------------------------------
(* Forward tasks.                                                            *)

LEMMA GoesOnForwards ==
  ASSUME ServersOK, NEW p \in Callers, NEW k \in Kinds, NEW then \in BOOLEAN, then => k = "opcua",
         NEW o, GoesOn(p, k, then, o)
  PROVE  /\ srv'[k].forward = o.server.forward
         /\ \A j \in Kinds : j # k => srv'[j].forward = srv[j].forward
<1>1. PICK no : no = FALSE
  OBVIOUS
<1>2. PICK next : next = Asked(p, "modbus", no)
  OBVIOUS
<1>3. next.server.forward = srv["modbus"].forward
  BY <1>2, AskedCarries DEF Carries, Kinds
<1>4. \/ srv' = [srv EXCEPT ![k] = o.server]
      \/ srv' = [srv EXCEPT ![k] = o.server, !["modbus"] = next.server] /\ k # "modbus"
  BY <1>1, <1>2 DEF GoesOn
<1>5. srv \in [Kinds -> ServerState(lastId, tags)]
  BY DEF ServersOK
<1> QED
  BY <1>3, <1>4, <1>5 DEF Kinds

LEMMA TurnsForwards ==
  ASSUME ServersOK, NEW p \in Callers, NEW ks, Turns(p, ks)
  PROVE  \A j \in Kinds : srv'[j].forward = srv[j].forward
<1>1. ("modbus" \in ks) \in BOOLEAN
  OBVIOUS
<1>2. PICK then \in BOOLEAN : then = ("modbus" \in ks)
  BY <1>1, Zenon
<1>3. PICK no \in BOOLEAN : no = FALSE
  OBVIOUS
<1>4. PICK a, b : a = Asked(p, "opcua", then) /\ b = Asked(p, "modbus", no)
  OBVIOUS
<1>5. a.server.forward = srv["opcua"].forward /\ b.server.forward = srv["modbus"].forward
  BY <1>4, AskedCarries DEF Carries, Kinds
<1>6. CASE GoesOn(p, "opcua", then, a)
  BY <1>5, <1>6, GoesOnForwards DEF Kinds
<1>7. CASE GoesOn(p, "modbus", no, b)
  BY <1>3, <1>5, <1>7, GoesOnForwards DEF Kinds
<1> QED
  BY <1>2, <1>3, <1>4, <1>6, <1>7 DEF Turns

LEMMA SameForwards ==
  ASSUME NoStrayForwarder, forwarders' = forwarders,
         \A j \in Kinds : srv'[j].forward = srv[j].forward
  PROVE  NoStrayForwarder'
BY DEF NoStrayForwarder

\* stop takes the forward task it waited for out of the server, and no other.
LEMMA JoinedForwards ==
  ASSUME ServersOK, NoStrayForwarder, NEW p \in Callers, Joined(p), \A k \in Kinds : InOrder(k)
  PROVE  NoStrayForwarder'
<1>1. PICK c : c = call[p]
  OBVIOUS
<1>2. PICK k \in Kinds, then \in BOOLEAN, again \in BOOLEAN :
        k = c.kind /\ then = c.then /\ again = c.again /\ (then => k = "opcua")
  BY <1>1, CallIs, Zenon
<1>3. PICK s, o : s = srv[k] /\ o = AfterJoin(k, then, again, [s EXCEPT !.forward = None])
  OBVIOUS
<1>4. GoesOn(p, k, then, o) /\ forwarders' = forwarders \ {c.id}
  BY <1>1, <1>2, <1>3 DEF Joined
<1>5. c.pc = "joining" /\ p \in Serving
  BY <1>1, ServingIs DEF Joined, InCall, Busy
<1>6. srv[k].forward = c.id
  <2>1. StageOK(call[p], srv[k], Mine(k), forwarders)
    BY <1>1, <1>2, <1>5 DEF InOrder
  <2> QED
    BY <1>1, <1>5, <2>1 DEF StageOK
<1>7. \A j \in Kinds : j # k => srv'[j].forward = srv[j].forward
  BY <1>2, <1>4, GoesOnForwards
<1> QED
  BY <1>4, <1>6, <1>7 DEF NoStrayForwarder

LEMMA StoppedForwards ==
  ASSUME ServersOK, NoStrayForwarder, NEW p \in Callers, Stopped(p)
  PROVE  NoStrayForwarder'
<1>1. PICK c : c = call[p]
  OBVIOUS
<1>2. PICK k \in Kinds, then \in BOOLEAN, again \in BOOLEAN :
        k = c.kind /\ then = c.then /\ again = c.again /\ (then => k = "opcua")
  BY <1>1, CallIs, Zenon
<1>3. PICK s : s = srv[k]
  OBVIOUS
<1>4. PICK n, v : s \in ServerState(n, v)
  BY <1>3, SrvIs
<1>5. PICK t : t = [s EXCEPT !.server = None, !.nodes = None]
  OBVIOUS
<1>6. PICK o : o = AfterStop(k, then, again, t)
  OBVIOUS
<1>7. GoesOn(p, k, then, o) /\ forwarders' = forwarders
  BY <1>1, <1>2, <1>3, <1>5, <1>6 DEF Stopped
<1>8. t.forward = s.forward
  BY <1>4, <1>5 DEF ServerState
<1>9. o.server.forward = t.forward
  BY <1>6, AfterStopCarries DEF Carries
<1>10. \A j \in Kinds : srv'[j].forward = srv[j].forward
  BY <1>2, <1>3, <1>7, <1>8, <1>9, GoesOnForwards
<1> QED
  BY <1>7, <1>10, SameForwards

LEMMA StartedForwards ==
  ASSUME ServersOK, NoStrayForwarder, NEW p \in Callers, Started(p), \A k \in Kinds : InOrder(k)
  PROVE  NoStrayForwarder'
<1>1. PICK c : c = call[p]
  OBVIOUS
<1>2. PICK k \in Kinds, then \in BOOLEAN : k = c.kind /\ then = c.then /\ (then => k = "opcua")
  BY <1>1, CallIs, Zenon
<1>3. PICK t : t = Server(TRUE, c.id, c.id, c.version)
  OBVIOUS
<1>4. PICK o : o = Finished(t)
  OBVIOUS
<1>5. GoesOn(p, k, then, o) /\ forwarders' = forwarders \cup {c.id}
  BY <1>1, <1>2, <1>3, <1>4 DEF Started
<1>6. o.server.forward = c.id
  BY <1>3, <1>4, FinishedIs DEF Server
<1>7. c.pc = "started" /\ p \in Serving
  BY <1>1, ServingIs DEF Started, InCall, Busy
<1>8. srv[k].forward = None
  <2>1. StageOK(call[p], srv[k], Mine(k), forwarders)
    BY <1>1, <1>2, <1>7 DEF InOrder
  <2> QED
    BY <1>1, <1>7, <2>1, OffIs DEF StageOK
<1>9. None \notin forwarders
  BY DEF ServersOK, None
<1>10. /\ srv'[k].forward = c.id
       /\ \A j \in Kinds : j # k => srv'[j].forward = srv[j].forward
  BY <1>2, <1>5, <1>6, GoesOnForwards
<1> QED
  BY <1>5, <1>8, <1>9, <1>10 DEF NoStrayForwarder

-----------------------------------------------------------------------------
(* Requests that wait.                                                       *)

\* A step of a caller that is at a server, or is no request, and of no request otherwise.
LEMMA OthersWait ==
  ASSUME Waiting, UNCHANGED req, NEW p \in Callers, call[p].pc # "none" \/ p \notin Requests,
         \A q \in Callers : q # p => call'[q] = call[q]
  PROVE  Waiting'
BY DEF Waiting, Callers

\* A step of a request that is not saved by it.
LEMMA WorkerWaits ==
  ASSUME Waiting, ReqsOK, UNCHANGED call, NEW r \in Requests,
         Put(r) \/ RowRead(r) \/ KeyCached(r) \/ CallFailed(r)
  PROVE  Waiting'
<1>1. req[r].pc # "saved"
  BY DEF Put, RowRead, KeyCached, CallFailed, ReqAt
<1>2. \A s \in Requests : s # r => req'[s] = req[s]
  BY DEF Put, RowRead, KeyCached, CallFailed, Becomes, ReqsOK
<1> QED
  BY <1>1, <1>2 DEF Waiting

LEMMA SavedWaits ==
  ASSUME Typed, Waiting, NEW r \in Requests, Saved(r)
  PROVE  Waiting'
<1>1. /\ req'[r].pc = "saved" /\ \A s \in Requests : s # r => req'[s] = req[s]
      /\ Turns(r, Touched(r))
  BY SavedIs
<1>2. \A q \in Callers : q # r => call'[q] = call[q]
  BY <1>1, TurnsElsewhere DEF Typed
<1> QED
  BY <1>1, <1>2 DEF Waiting, Callers

LEMMA RestartWaits ==
  ASSUME Typed, Waiting, ProgramRestarts
  PROVE  Waiting'
<1>1. ASSUME NEW r \in Requests, req'[r].pc # "saved" PROVE call'[r].pc = "none"
  <2>1. req[r].pc # "saved"
    <3>1. CASE Saving(r)
      BY <3>1 DEF Saving
    <3>2. CASE ~ Saving(r)
      BY <1>1, <3>2 DEF ProgramRestarts
    <3> QED
      BY <3>1, <3>2
  <2>2. call[r].pc = "none"
    BY <2>1 DEF Waiting
  <2>3. r # "lifespan" /\ r \in Callers
    BY ServerAssumption DEF Callers
  <2> QED
    BY <2>2, <2>3 DEF ProgramRestarts
<1> QED
  BY <1>1 DEF Waiting

-----------------------------------------------------------------------------
(* The program starts.                                                       *)

Begins ==
  /\ \A k \in Kinds : srv[k] = Off
  /\ instances = {} /\ forwarders = {}
  /\ \A p \in Callers : p # "lifespan" => p \notin Serving
  /\ call["lifespan"] = FirstCall(cache)

Shuts == (\A k \in Kinds : Clean(k)) /\ NoStrayForwarder

LEMMA BeginsOrderly ==
  ASSUME Begins, NEW j \in Kinds
  PROVE  InOrder(j) /\ Fresh(j)
<1>1. srv[j] = Off /\ Mine(j) = {}
  BY DEF Begins, Mine
<1>2. \A p \in Serving : p = "lifespan" /\ call[p].pc = "loading"
  <2>1. PICK c : c = FirstCall(cache)
    OBVIOUS
  <2>2. c.pc \in {"loading", "done"}
    BY <2>1, FirstCallIs
  <2> QED
    BY <2>1, <2>2 DEF Begins, Serving
<1>3. InOrder(j)
  BY <1>1, <1>2, OffIs DEF InOrder, StageOK, RestOK
<1>4. Fresh(j)
  BY <1>1, <1>2, OffIs DEF Fresh, CallFresh, RestFresh
<1> QED
  BY <1>3, <1>4

\* The first call is for a server that is enabled; the other is owed a call or is not.
LEMMA BeginsHeeded ==
  ASSUME Begins, NEW j \in Kinds
  PROVE  Owing(j) \/ Heeds(j)
<1>1. PICK c, a, b : c = call["lifespan"] /\ a = PortNow("opcua") /\ b = PortNow("modbus")
  OBVIOUS
<1>2. srv[j] = Off /\ Mine(j) = {} /\ \A p \in Serving : p = "lifespan"
  BY DEF Begins, Mine, Serving
<1>3. c = IF On("opcua") THEN Call("loading", "opcua", TRUE, FALSE, None, a, None)
          ELSE IF On("modbus") THEN Call("loading", "modbus", FALSE, FALSE, None, b, None)
          ELSE NoCall("done")
  BY <1>1 DEF Begins, FirstCall, On, PortNow
<1>4. On(j) \in BOOLEAN
  BY DEF On, Truthy
<1>5. CASE On("opcua")
  <2>1. c.pc = "loading" /\ c.kind = "opcua" /\ c.then = TRUE /\ c.port = a
    BY <1>3, <1>5 DEF Call
  <2>2. "lifespan" \in Serving
    BY <1>1, <2>1 DEF Serving, Callers
  <2>3. CASE j = "opcua"
    <3>1. ~ Free(j)
      BY <1>1, <2>1, <2>2, <2>3 DEF Free
    <3>2. CallHeeds(c, On(j), PortNow(j))
      BY <1>1, <1>5, <2>1, <2>3 DEF CallHeeds
    <3> QED
      BY <1>1, <1>2, <3>1, <3>2 DEF Heeds
  <2>4. CASE j = "modbus"
    <3>1. Owing(j)
      BY <1>1, <2>1, <2>2, <2>4, ServerAssumption DEF Owing, Owes, Concerns
    <3> QED
      BY <3>1
  <2> QED
    BY <2>3, <2>4 DEF Kinds
<1>6. CASE ~ On("opcua") /\ On("modbus")
  <2>1. c.pc = "loading" /\ c.kind = "modbus" /\ c.port = b
    BY <1>3, <1>6 DEF Call
  <2>2. "lifespan" \in Serving
    BY <1>1, <2>1 DEF Serving, Callers
  <2>3. CASE j = "modbus"
    <3>1. ~ Free(j)
      BY <1>1, <2>1, <2>2, <2>3 DEF Free
    <3>2. CallHeeds(c, On(j), PortNow(j))
      BY <1>1, <1>6, <2>1, <2>3 DEF CallHeeds
    <3> QED
      BY <1>1, <1>2, <3>1, <3>2 DEF Heeds
  <2>4. CASE j = "opcua"
    <3>1. RestHeeds(srv[j], Mine(j), On(j), PortNow(j))
      BY <1>2, <1>6, <2>4, OffIs DEF RestHeeds
    <3> QED
      BY <1>1, <1>2, <2>1, <2>4, <3>1 DEF Heeds
  <2> QED
    BY <2>3, <2>4 DEF Kinds
<1>7. CASE ~ On("opcua") /\ ~ On("modbus")
  <2>1. Serving = {}
    <3>1. c = NoCall("done")
      BY <1>3, <1>7
    <3>2. c.pc = "done"
      BY <3>1 DEF NoCall, Call
    <3> QED
      BY <1>1, <1>2, <3>2 DEF Serving
  <2>2. RestHeeds(srv[j], Mine(j), On(j), PortNow(j))
    BY <1>2, <1>7, OffIs DEF RestHeeds, Kinds
  <2> QED
    BY <2>1, <2>2 DEF Heeds
<1> QED
  BY <1>5, <1>6, <1>7

LEMMA BeginsInOrder == Begins => Shuts
<1> SUFFICES ASSUME Begins PROVE Shuts
  OBVIOUS
<1>1. \A j \in Kinds : Clean(j)
  BY BeginsOrderly, BeginsHeeded DEF Clean
<1>2. NoStrayForwarder
  BY DEF Begins, NoStrayForwarder
<1> QED
  BY <1>1, <1>2 DEF Shuts

LEMMA BeginsAgain == Begins' => Shuts'
BY BeginsInOrder, PTL

LEMMA RestartBegins ==
  ASSUME ProgramRestarts
  PROVE  Begins'
<1>1. PICK first : first = FirstCall(cache')
  OBVIOUS
<1>2. call' = [p \in Callers |-> IF p = "lifespan" THEN first
                                 ELSE IF call[p].pc = "none" THEN call[p] ELSE NoCall("done")]
  BY <1>1 DEF ProgramRestarts
<1>3. "lifespan" \in Callers
  BY DEF Callers
<1>4. \A p \in Callers : p # "lifespan" => p \notin Serving'
  BY <1>2 DEF Serving, NoCall, Call
<1> QED
  BY <1>1, <1>2, <1>3, <1>4 DEF ProgramRestarts, Begins

LEMMA InitBegins ==
  ASSUME Init
  PROVE  Begins /\ Apart /\ Waiting /\ Writing = {}
<1>1. PICK first : first = FirstCall(cache)
  OBVIOUS
<1>2. call = [p \in Callers |-> IF p = "lifespan" THEN first ELSE NoCall("none")]
  BY <1>1 DEF Init
<1>3. "lifespan" \in Callers /\ "lifespan" \notin Requests
  BY ServerAssumption DEF Callers
<1>4. NoCall("none").pc = "none" /\ NoCall("none").id = None
  BY DEF NoCall, Call
<1>5. first.id = None /\ first.pc \in {"loading", "done"}
  BY <1>1, FirstCallIs
<1>6. Begins
  BY <1>1, <1>2, <1>3, <1>4 DEF Init, Begins, Serving
<1>7. \A k \in Kinds : \A x : Holds(k, x) => x = None
  BY <1>2, <1>4, <1>5, OffIs DEF Init, Holds
<1>8. Apart
  BY <1>2, <1>4, <1>5, <1>7 DEF Apart, Kinds
<1>9. Waiting
  BY <1>2, <1>3, <1>4 DEF Waiting, Callers
<1>10. Writing = {}
  BY DEF Init, SettingsInit, Writing, Saving, Idle, Request
<1> QED
  BY <1>6, <1>8, <1>9, <1>10

-----------------------------------------------------------------------------
(* Every step.                                                               *)

CallerStep(p) ==
  Joined(p) \/ Stopped(p) \/ TagsLoaded(p) \/ Bound(p) \/ Started(p) \/ StartFailed(p)

LEMMA StepIs ==
  ASSUME Next, ~ ProgramRestarts
  PROVE  \/ \E r \in Requests : Requested(r)
         \/ \E l \in Reloads : TagsSynced(l) \/ MetadataFailed(l) \/ ReloadReached(l)
         \/ \E p \in Callers : CallerStep(p)
         \/ ModbusBinds
BY DEF Next, CallerStep

LEMMA FailedIs ==
  ASSUME ServersOK, NEW p \in Callers, StartFailed(p)
  PROVE  /\ call' = [call EXCEPT ![p] = NoCall("failed")] /\ UNCHANGED <<req, srv, instances, forwarders>>
         /\ p \in Serving /\ \A j \in Concerns(call[p]) : j \in Failing
<1>1. /\ call[p].pc \in {"loading", "starting"}
      /\ call' = [call EXCEPT ![p] = NoCall("failed")] /\ UNCHANGED <<req, srv, instances, forwarders>>
  BY DEF StartFailed, InCall, serverVars
<1>2. call'[p].pc = "failed"
  BY <1>1 DEF ServersOK, NoCall, Call
<1>3. p \in Serving
  BY <1>1 DEF Serving
<1> QED
  BY <1>1, <1>2, <1>3 DEF Failing

\* A step of a caller that is in a call changes that call alone.
LEMMA CallerStepIs ==
  ASSUME ServersOK, Apart, NEW p \in Callers, CallerStep(p)
  PROVE  /\ p \in Serving /\ UNCHANGED <<req, cache>>
         /\ \A q \in Callers : q # p => call'[q] = call[q]
<1>1. CASE Joined(p) \/ Stopped(p) \/ Started(p)
  <2>1. p \in Serving /\ UNCHANGED <<req, cache>>
    BY <1>1 DEF Joined, Stopped, Started, InCall, Serving, settingsVars
  <2>2. \E k, then, o : GoesOn(p, k, then, o)
    BY <1>1 DEF Joined, Stopped, Started
  <2> QED
    BY <2>1, <2>2, GoesOnElsewhere
<1>2. CASE TagsLoaded(p) \/ Bound(p)
  <2>1. p \in Serving /\ UNCHANGED <<req, cache>>
    BY <1>2 DEF TagsLoaded, Bound, InCall, Serving, settingsVars
  <2>2. \E c : call' = [call EXCEPT ![p] = c]
    BY <1>2, LoadedIs, BoundIs DEF Loads, Makes
  <2> QED
    BY <2>1, <2>2 DEF ServersOK
<1>3. CASE StartFailed(p)
  <2>1. \A q \in Callers : q # p => call'[q] = call[q]
    BY <1>3, FailedIs DEF ServersOK
  <2> QED
    BY <1>3, <2>1, FailedIs DEF StartFailed
<1> QED
  BY <1>1, <1>2, <1>3 DEF CallerStep

LEMMA NextWaits ==
  ASSUME Typed, Apart, Waiting, Next
  PROVE  Waiting'
<1>0. ServersOK /\ ReqsOK
  BY DEF Typed, SettingsOK
<1>1. CASE ProgramRestarts
  BY <1>1, RestartWaits
<1>2. ASSUME NEW r \in Requests, Requested(r) PROVE Waiting'
  <2>1. CASE Saved(r)
    BY <2>1, SavedWaits
  <2>2. CASE (Put(r) \/ RowRead(r) \/ KeyCached(r) \/ CallFailed(r)) /\ UNCHANGED <<serverVars, call>>
    BY <1>0, <2>2, WorkerWaits
  <2> QED
    BY <1>2, <2>1, <2>2 DEF Requested
<1>3. ASSUME NEW l \in Reloads, TagsSynced(l) \/ MetadataFailed(l) \/ ReloadReached(l) PROVE Waiting'
  <2>1. l \in Callers /\ l \notin Requests
    BY ServerAssumption DEF Callers
  <2>2. UNCHANGED req /\ \A q \in Callers : q # l => call'[q] = call[q]
    <3>1. CASE TagsSynced(l) \/ MetadataFailed(l)
      BY <1>0, <3>1 DEF TagsSynced, MetadataFailed, settingsVars, ServersOK
    <3>2. CASE ReloadReached(l)
      BY <1>0, <3>2, ReachedIs, TurnsElsewhere
    <3> QED
      BY <1>3, <3>1, <3>2
  <2> QED
    BY <2>1, <2>2, OthersWait
<1>4. ASSUME NEW p \in Callers, CallerStep(p) PROVE Waiting'
  <2>1. p \in Serving /\ UNCHANGED req /\ \A q \in Callers : q # p => call'[q] = call[q]
    BY <1>0, <1>4, CallerStepIs
  <2>2. call[p].pc # "none"
    BY <2>1 DEF Serving
  <2> QED
    BY <2>1, <2>2, OthersWait
<1>5. CASE ModbusBinds
  BY <1>5 DEF ModbusBinds, settingsVars, Waiting
<1> QED
  BY <1>1, <1>2, <1>3, <1>4, <1>5, StepIs

LEMMA NextApart ==
  ASSUME Typed, Apart, Waiting, Next
  PROVE  Apart'
<1>0. ServersOK
  BY DEF Typed
<1>1. CASE ProgramRestarts
  BY <1>0, <1>1, RestartApart
<1>2. ASSUME NEW r \in Requests, Requested(r) PROVE Apart'
  <2>1. CASE Saved(r)
    BY <1>0, <2>1, SavedIs, TurnsApart
  <2>2. CASE UNCHANGED <<serverVars, call>>
    BY <2>2, SameApart DEF serverVars
  <2> QED
    BY <1>2, <2>1, <2>2 DEF Requested
<1>3. ASSUME NEW l \in Reloads, TagsSynced(l) \/ MetadataFailed(l) PROVE Apart'
  <2>1. PICK where \in {"synced", "failed"} :
          l \in Callers /\ call' = [call EXCEPT ![l] = NoCall(where)] /\ UNCHANGED serverVars
    BY <1>3 DEF Callers, TagsSynced, MetadataFailed
  <2> QED
    BY <1>0, <2>1, EndsApart
<1>4. ASSUME NEW l \in Reloads, ReloadReached(l) PROVE Apart'
  BY <1>0, <1>4, ReachedIs, TurnsApart
<1>5. ASSUME NEW p \in Callers, CallerStep(p) PROVE Apart'
  <2>1. CASE Joined(p) \/ Stopped(p) \/ Started(p)
    BY <1>0, <2>1, JoinedApart, StoppedApart, StartedApart
  <2>2. CASE TagsLoaded(p) \/ Bound(p)
    BY <1>0, <2>2, LoadedIs, BoundIs, LoadsApart, MakesApart
  <2>3. CASE StartFailed(p)
    <3>1. call' = [call EXCEPT ![p] = NoCall("failed")] /\ UNCHANGED serverVars
      BY <2>3 DEF StartFailed
    <3> QED
      BY <1>0, <3>1, EndsApart
  <2> QED
    BY <1>5, <2>1, <2>2, <2>3 DEF CallerStep
<1>6. CASE ModbusBinds
  BY <1>0, <1>6, BindsApart
<1> QED
  BY <1>1, <1>2, <1>3, <1>4, <1>5, <1>6, StepIs

LEMMA NextForwards ==
  ASSUME Typed, Apart, Waiting, NoStrayForwarder, \A k \in Kinds : InOrder(k), Next, ~ ProgramRestarts
  PROVE  NoStrayForwarder'
<1>0. ServersOK
  BY DEF Typed
<1>1. CASE UNCHANGED <<srv, forwarders>>
  BY <1>1, SameForwards
<1>2. ASSUME NEW r \in Requests, Requested(r) PROVE NoStrayForwarder'
  <2>1. CASE Saved(r)
    <3>1. forwarders' = forwarders /\ r \in Callers /\ Turns(r, Touched(r))
      BY <2>1, SavedIs
    <3>2. \A j \in Kinds : srv'[j].forward = srv[j].forward
      BY <1>0, <3>1, TurnsForwards
    <3> QED
      BY <3>1, <3>2, SameForwards
  <2>2. CASE UNCHANGED <<serverVars, call>>
    BY <1>1, <2>2 DEF serverVars
  <2> QED
    BY <1>2, <2>1, <2>2 DEF Requested
<1>3. ASSUME NEW l \in Reloads, TagsSynced(l) \/ MetadataFailed(l) PROVE NoStrayForwarder'
  BY <1>1, <1>3 DEF TagsSynced, MetadataFailed, serverVars
<1>4. ASSUME NEW l \in Reloads, ReloadReached(l) PROVE NoStrayForwarder'
  <2>1. forwarders' = forwarders /\ l \in Callers /\ Turns(l, Kinds)
    BY <1>0, <1>4, ReachedIs
  <2>2. \A j \in Kinds : srv'[j].forward = srv[j].forward
    BY <1>0, <2>1, TurnsForwards
  <2> QED
    BY <2>1, <2>2, SameForwards
<1>5. ASSUME NEW p \in Callers, CallerStep(p) PROVE NoStrayForwarder'
  <2>1. CASE Joined(p) \/ Stopped(p) \/ Started(p)
    BY <1>0, <2>1, JoinedForwards, StoppedForwards, StartedForwards
  <2>2. CASE TagsLoaded(p) \/ Bound(p) \/ StartFailed(p)
    BY <1>1, <2>2 DEF TagsLoaded, Bound, StartFailed, serverVars
  <2> QED
    BY <1>5, <2>1, <2>2 DEF CallerStep
<1>6. CASE ModbusBinds
  BY <1>1, <1>6 DEF ModbusBinds
<1> QED
  BY <1>2, <1>3, <1>4, <1>5, <1>6, StepIs

\* What the request at work has noted stays true while the others wait.
LEMMA NextChanging ==
  ASSUME Typed, Alone, Changing, Next, ~ ProgramRestarts, ~ HalfSaved', Alone'
  PROVE  Changing'
<1>0. SettingsOK /\ ReqsOK
  BY DEF Typed, SettingsOK
<1>1. CASE UNCHANGED <<cache, req>>
  BY <1>1 DEF Changing, Writing, Saving
<1>2. ASSUME NEW r \in Requests, NEW q, req' = [req EXCEPT ![r] = q],
             q.pc \in {"get", "got"} => \/ q.body[q.i].key \in q.changed
                                        \/ Same(cache'[q.body[q.i].key], q.body[q.i].value),
             cache' = cache \/ r \in Writing
      PROVE  Changing'
  <2>1. /\ req'[r] = q
        /\ \A p \in Requests \ {r} : req'[p] = req[p] /\ (p \in Writing' <=> p \in Writing)
        /\ r \in Writing' <=> q.pc \in {"get", "got", "commit"}
        /\ Writing' \subseteq Requests
    BY <1>0, <1>2, WritingAfter
  <2>2. ASSUME NEW s \in Writing', req'[s].pc \in {"get", "got"}
        PROVE  LET entry == req'[s].body[req'[s].i] IN
               entry.key \in req'[s].changed \/ Same(cache'[entry.key], entry.value)
    <3>1. CASE s = r
      BY <1>2, <2>1, <2>2, <3>1
    <3>2. CASE s # r
      <4>1. s \in Writing /\ req'[s] = req[s]
        BY <2>1, <2>2, <3>2
      <4>2. cache' = cache
        BY <1>2, <3>2, <4>1 DEF Alone
      <4>3. LET entry == req[s].body[req[s].i] IN
            entry.key \in req[s].changed \/ Same(cache[entry.key], entry.value)
        BY <2>2, <4>1 DEF Changing
      <4> QED
        BY <4>1, <4>2, <4>3
    <3> QED
      BY <3>1, <3>2
  <2> QED
    BY <2>2 DEF Changing
<1>3. ASSUME NEW r \in Requests, Put(r) PROVE Changing'
  <2>1. PICK body \in Bodies : Becomes(r, TurnTo(body, 1, <<>>, {}, {}, cache))
    BY <1>3 DEF Put
  <2>2. PICK q : q = TurnTo(body, 1, <<>>, {}, {}, cache)
    OBVIOUS
  <2>3. req' = [req EXCEPT ![r] = q] /\ cache' = cache
    BY <1>3, <2>1, <2>2 DEF Put, Becomes
  <2>4. q.pc \in {"get", "got"} => \/ q.body[q.i].key \in q.changed
                                   \/ Same(cache[q.body[q.i].key], q.body[q.i].value)
    BY <2>2 DEF TurnTo, Request
  <2> QED
    BY <1>2, <2>3, <2>4
<1>4. ASSUME NEW r \in Requests, RowRead(r) PROVE Changing'
  <2>1. PICK row : req' = [req EXCEPT ![r].pc = "got", ![r].row = row]
    BY <1>4 DEF RowRead
  <2>2. cache' = cache /\ req[r].pc = "get" /\ r \in Writing
    BY <1>4 DEF RowRead, ReqAt, Writing, Saving
  <2>3. PICK q : q = req'[r]
    OBVIOUS
  <2>4. q.body = req[r].body /\ q.i = req[r].i /\ q.changed = req[r].changed
    BY <1>0, <2>1, <2>3 DEF ReqsOK, ReqOK, Request
  <2>5. req' = [req EXCEPT ![r] = q]
    BY <1>0, <2>1, <2>3 DEF ReqsOK
  <2>6. LET entry == req[r].body[req[r].i] IN
        entry.key \in req[r].changed \/ Same(cache[entry.key], entry.value)
    BY <2>2 DEF Changing
  <2> QED
    BY <1>2, <2>2, <2>4, <2>5, <2>6
<1>5. ASSUME NEW r \in Requests, KeyCached(r) PROVE Changing'
  <2>1. r \in Writing
    BY <1>5 DEF KeyCached, ReqAt, Writing, Saving
  <2>2. PICK next : /\ req' = [req EXCEPT ![r] = next] /\ next.pc \in {"get", "commit"}
                    /\ next.pc = "get" =>
                         \/ next.body[next.i].key \in next.changed
                         \/ Same(cache'[next.body[next.i].key], next.body[next.i].value)
    BY <1>0, <1>5, CachedNext
  <2> QED
    BY <1>2, <2>1, <2>2
<1>6. ASSUME NEW r \in Requests, CallFailed(r) \/ Committed(r) PROVE Changing'
  <2>1. PICK where \in {"failed", "saved"} : req' = [req EXCEPT ![r].pc = where]
    BY <1>6 DEF CallFailed, Committed
  <2>2. cache' = cache
    BY <1>6 DEF CallFailed, Committed
  <2>3. PICK q : q = req'[r]
    OBVIOUS
  <2>4. q.pc = where
    BY <1>0, <2>1, <2>3 DEF ReqsOK, ReqOK, Request
  <2>5. req' = [req EXCEPT ![r] = q]
    BY <1>0, <2>1, <2>3 DEF ReqsOK
  <2> QED
    BY <1>2, <2>2, <2>4, <2>5
<1>7. ASSUME NEW r \in Requests, Requested(r) PROVE Changing'
  BY <1>3, <1>4, <1>5, <1>6, <1>7 DEF Requested, Saved
<1>8. ASSUME NEW l \in Reloads, TagsSynced(l) \/ MetadataFailed(l) \/ ReloadReached(l) PROVE UNCHANGED <<cache, req>>
  BY <1>8 DEF TagsSynced, MetadataFailed, ReloadReached, settingsVars
<1>9. ASSUME NEW p \in Callers, CallerStep(p) PROVE UNCHANGED <<cache, req>>
  BY <1>9 DEF CallerStep, Joined, Stopped, TagsLoaded, Bound, Started, StartFailed, settingsVars
<1>10. CASE ModbusBinds
  BY <1>1, <1>10 DEF ModbusBinds, settingsVars
<1> QED
  BY <1>1, <1>7, <1>8, <1>9, <1>10, StepIs

\* A step of a caller that does not load the tags leaves what the servers missed.
LEMMA MissedStays ==
  ASSUME NEW p, call[p].pc # "loading" \/ call'[p].pc = "failed",
         \A q \in Callers : q # p => call'[q] = call[q],
         missed' = (missed \cup Passed) \ Loading, NEW j, j \in missed
  PROVE  j \in missed'
BY DEF Loading, InCall

LEMMA NextClean ==
  ASSUME Typed, Apart, Waiting, Alone, Changing, Next, ~ ProgramRestarts, ~ HalfSaved',
         missed' = (missed \cup Passed) \ Loading,
         NEW j \in Kinds, Clean(j), j \notin Meeting, j \notin Failing
  PROVE  Clean(j)'
<1>0. ServersOK
  BY DEF Typed
<1>1. ASSUME NEW r \in Requests, Requested(r) PROVE Clean(j)'
  <2>1. UNCHANGED tags
    BY <1>1 DEF Requested
  <2>2. CASE Saved(r)
    <3>1. r \notin Serving /\ r \in Callers /\ Turns(r, Touched(r))
      BY <1>0, <2>2, SavedIs DEF Typed
    <3>2. call[r].pc # "loading"
      BY <3>1 DEF Serving
    <3>3. j \in missed => j \in missed'
      BY <1>0, <3>1, <3>2, TurnsElsewhere, MissedStays
    <3> QED
      BY <2>1, <2>2, <3>3, SavedClean
  <2>3. CASE (Put(r) \/ RowRead(r) \/ KeyCached(r) \/ CallFailed(r)) /\ UNCHANGED <<serverVars, call>>
    <3>1. UNCHANGED <<serverVars, call, tags>>
      BY <2>1, <2>3
    <3>2. j \in missed => j \in missed'
      BY <3>1 DEF Loading, InCall
    <3> QED
      BY <2>3, <3>1, <3>2, PutClean, RowReadClean, KeyCachedClean, CallFailedClean
  <2> QED
    BY <1>1, <2>2, <2>3 DEF Requested
<1>2. ASSUME NEW l \in Reloads, TagsSynced(l) PROVE Clean(j)'
  BY <1>2, SyncedClean
<1>3. ASSUME NEW l \in Reloads, MetadataFailed(l) PROVE Clean(j)'
  <2>1. /\ call[l].pc = "synced" /\ l \in Callers /\ call'[l].pc = "failed"
        /\ \A q \in Callers : q # l => call'[q] = call[q]
    BY <1>0, <1>3 DEF MetadataFailed, InCall, Callers, ServersOK, NoCall, Call
  <2>2. Passed = Kinds /\ Loading = {}
    BY <2>1 DEF Passed, Loading, InCall
  <2> QED
    BY <1>0, <1>3, <2>2, MissedClean
<1>4. ASSUME NEW l \in Reloads, ReloadReached(l) PROVE Clean(j)'
  <2>1. l \in Callers /\ call[l].pc # "loading" /\ Turns(l, Kinds)
    BY <1>0, <1>4, ReachedIs
  <2>2. j \in missed => j \in missed'
    BY <1>0, <2>1, TurnsElsewhere, MissedStays
  <2> QED
    BY <1>4, <2>2, ReachedClean
<1>5. ASSUME NEW p \in Callers, CallerStep(p) PROVE Clean(j)'
  <2>1. \A q \in Callers : q # p => call'[q] = call[q]
    BY <1>0, <1>5, CallerStepIs
  <2>2. CASE StartFailed(p)
    <3>1. call'[p].pc = "failed"
      BY <1>0, <2>2 DEF StartFailed, ServersOK, NoCall, Call
    <3>2. j \in missed => j \in missed'
      BY <2>1, <3>1, MissedStays
    <3> QED
      BY <1>0, <2>2, <3>2, FailedIs, StartFailedClean
  <2>3. CASE Joined(p) \/ Stopped(p) \/ Bound(p) \/ Started(p)
    <3>1. call[p].pc # "loading"
      BY <2>3 DEF Joined, Stopped, Bound, Started, InCall
    <3>2. j \in missed => j \in missed'
      BY <2>1, <3>1, MissedStays
    <3> QED
      BY <2>3, <3>2, JoinedClean, StoppedClean, BoundClean, StartedClean
  <2>4. CASE TagsLoaded(p)
    <3>1. j \in missed => j \in missed' \/ j = call[p].kind
      BY <2>1 DEF Loading, InCall
    <3> QED
      BY <2>4, <3>1, LoadedClean
  <2> QED
    BY <1>5, <2>2, <2>3, <2>4 DEF CallerStep
<1>6. CASE ModbusBinds
  <2>1. UNCHANGED call
    BY <1>6 DEF ModbusBinds
  <2>2. j \in missed => j \in missed'
    BY <2>1 DEF Loading, InCall
  <2> QED
    BY <1>0, <1>6, <2>2, BindsClean
<1> QED
  BY <1>1, <1>2, <1>3, <1>4, <1>5, <1>6, StepIs

LEMMA OnlyRestartsRestart ==
  ASSUME Next, restarts' # restarts
  PROVE  ProgramRestarts
BY DEF Next, Requested, TagsSynced, MetadataFailed, ReloadReached, Joined, Stopped, TagsLoaded, Bound, Started,
   StartFailed, ModbusBinds

LEMMA InitServers == MCInit => ServersInv
<1> SUFFICES ASSUME MCInit PROVE ServersInv
  OBVIOUS
<1>1. Begins /\ Apart /\ Waiting /\ Writing = {} /\ mixed = FALSE /\ disturbed = {}
  BY InitBegins DEF MCInit
<1>2. Shuts
  BY <1>1, BeginsInOrder
<1> QED
  BY <1>1, <1>2 DEF ServersInv, Shuts, Changing

LEMMA NextServers == Typed /\ ServersInv /\ [MCNext]_mcvars => ServersInv'
<1> SUFFICES ASSUME Typed, ServersInv, [MCNext]_mcvars PROVE ServersInv'
  OBVIOUS
<1>1. CASE UNCHANGED mcvars
  <2>1. /\ missed' = missed
        /\ UNCHANGED <<serverVars, call, tags>> /\ UNCHANGED <<cache, req>>
        /\ UNCHANGED <<srv, instances, forwarders, call>> /\ mixed' = mixed /\ disturbed' = disturbed
    BY <1>1 DEF mcvars, vars, settingsVars, serverVars
  <2>2. Apart' /\ Waiting'
    BY <2>1, SameApart DEF ServersInv, Waiting
  <2>3. Writing' = Writing /\ (Changing => Changing')
    BY <2>1 DEF Writing, Saving, Changing
  <2>4. ASSUME NEW j \in Kinds \ disturbed' PROVE Clean(j)'
    <3>1. Clean(j)
      BY <2>1 DEF ServersInv
    <3>2. On(j)' = On(j) /\ PortNow(j)' = PortNow(j) /\ (Due(j) => Due(j)')
      BY <2>1, <2>3 DEF On, PortNow, Due
    <3> QED
      BY <2>1, <3>1, <3>2, SameServersClean
  <2>5. disturbed' = {} => NoStrayForwarder'
    BY <2>1 DEF ServersInv, NoStrayForwarder
  <2> QED
    BY <2>1, <2>2, <2>3, <2>4, <2>5 DEF ServersInv
<1>2. CASE MCNext
  <2>1. Next /\ Apart' /\ Waiting'
    BY <1>2, NextApart, NextWaits DEF MCNext, ServersInv
  <2>2. /\ mixed' = (restarts' = restarts /\ (mixed \/ Cardinality(Writing') > 1 \/ HalfSaved'))
        /\ disturbed' = IF restarts' # restarts THEN {}
                        ELSE IF mixed' THEN Kinds ELSE disturbed \cup Meeting \cup Failing
        /\ restarts' = restarts => missed' = (missed \cup Passed) \ Loading
    BY <1>2 DEF MCNext
  <2>3. CASE restarts' # restarts
    <3>1. ProgramRestarts
      BY <2>1, <2>3, OnlyRestartsRestart
    <3>2. Shuts'
      BY <3>1, RestartBegins, BeginsAgain
    <3>3. Writing' = {}
      BY <3>1 DEF ProgramRestarts, Writing, Saving, Idle, Request
    <3>4. ~ mixed'
      BY <2>2, <2>3
    <3> QED
      BY <2>1, <3>2, <3>3, <3>4 DEF ServersInv, Shuts, Changing
  <2>4. CASE restarts' = restarts /\ mixed'
    BY <2>1, <2>2, <2>4 DEF ServersInv, Kinds
  <2>5. CASE restarts' = restarts /\ ~ mixed'
    <3>1. ~ mixed /\ ~ (Cardinality(Writing') > 1) /\ ~ HalfSaved'
      BY <2>2, <2>5
    <3>2. Alone /\ Changing /\ ~ ProgramRestarts
      <4>1. Alone /\ Changing
        BY <3>1 DEF ServersInv, Alone
      <4>2. ~ ProgramRestarts
        BY <2>5 DEF ProgramRestarts, Typed, ServersOK
      <4> QED
        BY <4>1, <4>2
    <3>3. Alone'
      <4>1. PICK S : S = Writing'
        OBVIOUS
      <4>2. S \in SUBSET Requests
        BY <4>1 DEF Writing
      <4>3. IsFiniteSet(S)
        BY <4>2, SettingsAssumption, FS_Subset
      <4>4. \A x, y \in S : x = y
        BY <3>1, <4>1, <4>3, AtMostOne
      <4> QED
        BY <4>1, <4>4 DEF Alone
    <3>4. Changing'
      BY <2>1, <3>1, <3>2, <3>3, NextChanging
    <3>5. /\ disturbed' = disturbed \cup Meeting \cup Failing
          /\ missed' = (missed \cup Passed) \ Loading
      BY <2>2, <2>5
    <3>6. ASSUME NEW j \in Kinds \ disturbed' PROVE Clean(j)'
      <4>1. Clean(j) /\ j \notin Meeting /\ j \notin Failing
        BY <3>5, <3>6 DEF ServersInv
      <4> QED
        BY <2>1, <3>1, <3>2, <3>5, <4>1, NextClean DEF ServersInv
    <3>7. ASSUME disturbed' = {} PROVE NoStrayForwarder'
      <4>1. NoStrayForwarder /\ \A k \in Kinds : InOrder(k)
        BY <3>5, <3>7 DEF ServersInv, Clean
      <4> QED
        BY <2>1, <3>2, <4>1, NextForwards DEF ServersInv
    <3> QED
      BY <2>1, <2>5, <3>3, <3>4, <3>6, <3>7 DEF ServersInv, Alone
  <2> QED
    BY <2>3, <2>4, <2>5
<1> QED
  BY <1>1, <1>2

\* When everybody has come to rest, what the server will be is what it is.
LEMMA RestMatches ==
  ASSUME Typed, Quiet, NEW k \in Kinds, Clean(k)
  PROVE  MatchesSettings(k) /\ (k \notin missed => KnowsTags(k))
<1>0. ServersOK /\ Serving = {} /\ Writing = {}
  BY DEF Typed, Quiet
<1>1. PICK s, m : s = srv[k] /\ m = Mine(k)
  OBVIOUS
<1>2. ~ Due(k) /\ ~ Owing(k) /\ ~ OwingTags(k) /\ ~ Synced /\ Free(k)
  BY <1>0 DEF Quiet, Due, Owing, OwingTags, Synced, Free
<1>3. /\ RestOK(s, m, forwarders) /\ RestHeeds(s, m, On(k), PortNow(k))
      /\ k \notin missed => RestFresh(s, tags)
  BY <1>1, <1>2 DEF Clean, InOrder, Heeds, Fresh
<1>4. s.running \in BOOLEAN /\ On(k) \in BOOLEAN
  BY <1>0, <1>1 DEF ServersOK, ServerState, On, Truthy
<1>8. k \notin missed => KnowsTags(k)
  BY <1>1, <1>3 DEF RestFresh, KnowsTags
<1>5. s.running = On(k)
  <2>1. s.running <=> On(k)
    BY <1>3 DEF RestHeeds
  <2>2. PICK a \in BOOLEAN, b \in BOOLEAN : a = s.running /\ b = On(k)
    BY <1>4, Zenon
  <2>3. a <=> b
    BY <2>1, <2>2
  <2>4. a = b
    BY <2>3
  <2> QED
    BY <2>2, <2>4
<1>6. CASE s.running
  <2>1. PICK i \in m : m = {i} /\ i.id = s.server
    BY <1>3, <1>6 DEF RestOK, OneOf
  <2>2. i \in instances /\ i.kind = k /\ i.port = PortNow(k)
    BY <1>1, <1>3, <2>1 DEF Mine, RestHeeds
  <2>3. /\ i = Instance(i.id, i.kind, i.port, i.state)
        /\ i.state \in {"binding", "listening", "refused"}
        /\ i.state # "listening" => i.kind = "modbus"
    BY <1>0, <2>2 DEF ServersOK, InstanceOK
  <2>4. i.state # "binding"
    BY <2>2 DEF Quiet
  <2>5. i.state \in IF k = "modbus" THEN {"listening", "refused"} ELSE {"listening"}
    BY <2>2, <2>3, <2>4
  <2>6. m = {Instance(s.server, k, PortNow(k), i.state)}
    BY <2>1, <2>2, <2>3
  <2>7. s.forward = s.server /\ s.forward \in forwarders
    BY <1>3, <1>6 DEF RestOK
  <2> QED
    BY <1>1, <1>5, <1>6, <1>8, <2>5, <2>6, <2>7 DEF MatchesSettings, Mine, On, PortNow
<1>7. CASE ~ s.running
  <2>1. s = Off /\ m = {}
    BY <1>3, <1>7 DEF RestOK
  <2> QED
    BY <1>1, <1>5, <1>7, <1>8, <2>1 DEF MatchesSettings, Mine, On
<1> QED
  BY <1>6, <1>7

LEMMA ServersMean == Typed /\ ServersInv => QuietServerMatchesSettings
BY RestMatches DEF ServersInv, QuietServerMatchesSettings

(* update_settings' docstring (routes_settings.py:48-49): a server whose     *)
(* settings changed is restarted, started or stopped.  Whatever settings    *)
(* requests, reloads, failures and restarts came before, and however they   *)
(* interleave between the awaits of start and stop, when everybody has come *)
(* to rest each server is as the settings say: running or not, one instance *)
(* on the configured port, its forward task alone alive; unless two         *)
(* requests were saved at once, one failed half way, or a caller reached    *)
(* the server during another's call or failed in a call of its own there.   *)
(* Its nodes are those of the tags, unless besides a reload failed after it *)
(* had committed other tags (routes_connections.py:53-54) and the server    *)
(* has not loaded them since.                                               *)
THEOREM ServersMatchSettings == MCSpec => []QuietServerMatchesSettings
<1>1. MCInit => Typed /\ ServersInv
  BY InitTyped, InitServers DEF MCInit
<1>2. (Typed /\ ServersInv) /\ [MCNext]_mcvars => (Typed /\ ServersInv)'
  <2>1. [MCNext]_mcvars => [Next]_vars
    BY DEF MCNext, mcvars
  <2> QED
    BY <2>1, NextTyped, NextServers
<1> QED
  BY <1>1, <1>2, ServersMean, PTL DEF MCSpec
=============================================================================
