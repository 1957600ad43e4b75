---------------------------- MODULE MCReloadProofs ----------------------------
(***************************************************************************)
(* Alarms, their journal and the reload of their definitions, for every    *)
(* configuration, number of samples and number of reload requests.         *)
(*                                                                         *)
(* Four invariants: Definitions, what the tables and the loads under way   *)
(* have to do with each other, which always holds; InStep, that the        *)
(* journal, the memory and the loads agree on which alarms are active,     *)
(* which holds until a flip races with a load; Effect, that a load ends    *)
(* with what the database holds, until two loads overlap; and Tracking,    *)
(* that what is live is near what is archived, while no definition is      *)
(* replaced under a live value.                                            *)
(***************************************************************************)
EXTENDS MCReload, IngestPipelineProofs

-----------------------------------------------------------------------------
(* The journal.                                                              *)

\* The alarm's last entry among the first n of the journal is an activation.
ActiveIn(j, n, a) ==
  \E k \in 1 .. n : j[k] = [alarm |-> a, state |-> "active"] /\ \A m \in k + 1 .. n : j[m].alarm # a

Reported(j) == {a \in Alarms : ActiveIn(j, Len(j), a)}

\* Every entry tells something new of its alarm.
Turns(j) == \A i \in 1 .. Len(j) : j[i].state = "active" <=> ~ ActiveIn(j, i - 1, j[i].alarm)

Toggled(A, a) == IF a \in A THEN A \ {a} ELSE A \cup {a}

LEMMA AppendedActive ==
  ASSUME NEW j \in Seq(Event), NEW e \in Event, NEW a \in Alarms
  PROVE  /\ \A n \in 0 .. Len(j) : ActiveIn(Append(j, e), n, a) <=> ActiveIn(j, n, a)
         /\ ActiveIn(Append(j, e), Len(j) + 1, a) <=>
              IF e.alarm = a THEN e.state = "active" ELSE ActiveIn(j, Len(j), a)
<1> DEFINE r == Append(j, e)
<1>1. PICK n \in Nat : n = Len(j)
  OBVIOUS
<1>2. r[n + 1] = e /\ \A i \in 1 .. n : r[i] = j[i]
  BY <1>1
<1>3. e = [alarm |-> a, state |-> "active"] <=> e.alarm = a /\ e.state = "active"
  BY DEF Event
<1> HIDE DEF r
<1>4. ASSUME NEW m \in 0 .. n PROVE ActiveIn(r, m, a) <=> ActiveIn(j, m, a)
  <2>1. \A i \in 1 .. m : r[i] = j[i]
    BY <1>2
  <2>2. \A k \in 1 .. m : \A i \in k + 1 .. m : i \in 1 .. m
    OBVIOUS
  <2> QED
    BY <2>1, <2>2 DEF ActiveIn
<1>5. CASE e.alarm # a
  <2>1. ASSUME ActiveIn(j, n, a) PROVE ActiveIn(r, n + 1, a)
    <3>1. PICK k \in 1 .. n : j[k] = [alarm |-> a, state |-> "active"] /\ \A i \in k + 1 .. n : j[i].alarm # a
      BY <2>1 DEF ActiveIn
    <3>2. \A i \in k + 1 .. n + 1 : i \in 1 .. n \/ i = n + 1
      OBVIOUS
    <3>3. \A i \in k + 1 .. n + 1 : r[i].alarm # a
      BY <3>1, <3>2, <1>2, <1>5
    <3> QED
      BY <3>1, <3>3, <1>2 DEF ActiveIn
  <2>2. ASSUME ActiveIn(r, n + 1, a) PROVE ActiveIn(j, n, a)
    <3>1. PICK k \in 1 .. n + 1 : r[k] = [alarm |-> a, state |-> "active"] /\ \A i \in k + 1 .. n + 1 : r[i].alarm # a
      BY <2>2 DEF ActiveIn
    <3>2. k # n + 1
      BY <3>1, <1>2, <1>3, <1>5
    <3>3. k \in 1 .. n /\ \A i \in k + 1 .. n : i \in k + 1 .. n + 1 /\ i \in 1 .. n
      BY <3>2
    <3> QED
      BY <3>1, <3>3, <1>2 DEF ActiveIn
  <2> QED
    BY <2>1, <2>2, <1>1, <1>4, <1>5 DEF r
<1>6. CASE e.alarm = a
  <2>1. ASSUME e.state = "active" PROVE ActiveIn(r, n + 1, a)
    <3>1. n + 1 \in 1 .. n + 1 /\ n + 1 + 1 .. n + 1 = {}
      OBVIOUS
    <3> QED
      BY <3>1, <2>1, <1>2, <1>3, <1>6 DEF ActiveIn
  <2>2. ASSUME ActiveIn(r, n + 1, a) PROVE e.state = "active"
    <3>1. PICK k \in 1 .. n + 1 : r[k] = [alarm |-> a, state |-> "active"] /\ \A i \in k + 1 .. n + 1 : r[i].alarm # a
      BY <2>2 DEF ActiveIn
    <3>2. k = n + 1
      <4>1. k # n + 1 => n + 1 \in k + 1 .. n + 1
        OBVIOUS
      <4> QED
        BY <4>1, <3>1, <1>2, <1>6
    <3> QED
      BY <3>1, <3>2, <1>2, <1>3
  <2> QED
    BY <2>1, <2>2, <1>1, <1>4, <1>6 DEF r
<1> QED
  BY <1>5, <1>6

LEMMA AppendTurns ==
  ASSUME NEW j \in Seq(Event), NEW e \in Event, Turns(j), e.state = "active" <=> e.alarm \notin Reported(j)
  PROVE  Turns(Append(j, e)) /\ Reported(Append(j, e)) = Toggled(Reported(j), e.alarm)
<1> DEFINE r == Append(j, e)
<1>1. PICK n \in Nat : n = Len(j) /\ Len(r) = n + 1
  OBVIOUS
<1>2. r[n + 1] = e /\ \A i \in 1 .. n : r[i] = j[i] /\ j[i] \in Event
  BY <1>1
<1>3. e.alarm \in Alarms /\ \A i \in 1 .. n : j[i].alarm \in Alarms
  BY <1>2 DEF Event
<1>4. \A a \in Alarms : /\ \A m \in 0 .. n : ActiveIn(r, m, a) <=> ActiveIn(j, m, a)
                        /\ ActiveIn(r, n + 1, a) <=>
                             IF e.alarm = a THEN e.state = "active" ELSE ActiveIn(j, n, a)
  BY <1>1, AppendedActive
<1> HIDE DEF r
<1>5. Turns(r)
  <2>1. ASSUME NEW i \in 1 .. Len(r) PROVE r[i].state = "active" <=> ~ ActiveIn(r, i - 1, r[i].alarm)
    <3>1. CASE i \in 1 .. n
      <4>1. i - 1 \in 0 .. n
        BY <3>1
      <4> QED
        BY <3>1, <4>1, <1>1, <1>2, <1>3, <1>4 DEF Turns
    <3>2. CASE i = n + 1
      <4>1. i - 1 = n /\ n \in 0 .. n
        BY <3>2
      <4> QED
        BY <3>2, <4>1, <1>1, <1>2, <1>3, <1>4 DEF Reported
    <3> QED
      BY <3>1, <3>2, <1>1
  <2> QED
    BY <2>1 DEF Turns
<1>6. Reported(r) = Toggled(Reported(j), e.alarm)
  BY <1>1, <1>3, <1>4 DEF Reported, Toggled
<1> QED
  BY <1>5, <1>6 DEF r

LEMMA TurnsAlternate ==
  ASSUME journal \in Seq(Event), Turns(journal)
  PROVE  JournalAlternates
<1>1. DOMAIN journal = 1 .. Len(journal) /\ Len(journal) \in Nat
  OBVIOUS
<1>2. \A i \in 1 .. Len(journal) : journal[i] \in Event
  OBVIOUS
<1>3. ASSUME NEW i \in DOMAIN journal, NEW j \in DOMAIN journal, Repeats(i, j) PROVE FALSE
  <2>1. i \in Nat /\ j \in Nat /\ 1 <= i /\ i < j /\ j <= Len(journal)
    BY <1>1, <1>3 DEF Repeats
  <2>2. journal[i] = journal[j] /\ \A k \in i + 1 .. j - 1 : journal[k].alarm # journal[i].alarm
    BY <1>3 DEF Repeats
  <2>3. journal[i] = [alarm |-> journal[i].alarm, state |-> journal[i].state]
    BY <1>1, <1>2 DEF Event
  <2>4. i \in 1 .. j - 1
    BY <2>1
  <2>5. CASE journal[i].state = "active"
    <3>1. ActiveIn(journal, j - 1, journal[j].alarm)
      BY <2>2, <2>3, <2>4, <2>5 DEF ActiveIn
    <3> QED
      BY <1>1, <2>2, <2>5, <3>1 DEF Turns
  <2>6. CASE journal[i].state # "active"
    <3>1. ActiveIn(journal, j - 1, journal[i].alarm)
      BY <1>1, <2>2, <2>6 DEF Turns
    <3>2. PICK k \in 1 .. j - 1 : /\ journal[k] = [alarm |-> journal[i].alarm, state |-> "active"]
                                  /\ \A m \in k + 1 .. j - 1 : journal[m].alarm # journal[i].alarm
      BY <3>1 DEF ActiveIn
    <3>3. k # i /\ journal[k].alarm = journal[i].alarm
      BY <2>6, <3>2
    <3>4. i \in k + 1 .. j - 1 \/ k \in i + 1 .. j - 1
      BY <2>1, <2>4, <3>3
    <3> QED
      BY <2>2, <3>2, <3>3, <3>4
  <2> QED
    BY <2>5, <2>6
<1>4. ASSUME NEW i \in DOMAIN journal, FirstOfItsAlarm(i) PROVE journal[i].state = "active"
  <2>1. ~ ActiveIn(journal, i - 1, journal[i].alarm)
    BY <1>4 DEF ActiveIn, FirstOfItsAlarm
  <2> QED
    BY <1>1, <2>1 DEF Turns
<1> QED
  BY <1>3, <1>4 DEF JournalAlternates

-----------------------------------------------------------------------------
(* What the consumer does to the alarms.                                     *)

\* The alarms the consumer iterates over are those in memory until a load replaces them.
Attached(w, al) == \A a \in DOMAIN w.states : a \in DOMAIN al /\ al[a] = w.states[a]

HandOK(w) ==
  /\ w = [sample |-> w.sample, meta |-> w.meta, states |-> w.states, cursor |-> w.cursor,
          detached |-> w.detached]
  /\ Partial(w.states, Alarms, Runtime)
  /\ w.detached \in BOOLEAN
  /\ ~ w.detached => Attached(w, alarms)

SameDefs ==
  DOMAIN alarms' = DOMAIN alarms /\ \A a \in DOMAIN alarms : alarms'[a].def = alarms[a].def

\* An alarm flips: in memory too, unless a load has replaced it.
FlipOf(w, a) ==
  /\ a \in DOMAIN w.states /\ w.cursor < a
  /\ pc' = "journal" /\ work'.cursor = a /\ work'.detached = w.detached
  /\ w.detached => alarms' = alarms
  /\ ~ w.detached => /\ ActiveAlarms' = Toggled(ActiveAlarms, a)
                     /\ work'.states[a].active <=> a \notin ActiveAlarms
                     /\ Attached(work', alarms')

LEMMA FlipIs ==
  ASSUME TypeOK, NEW w, HandOK(w), Flip(w)
  PROVE  SameDefs /\ \E a \in Alarms : FlipOf(w, a)
<1>1. PICK a \in Changed(w) :
        /\ work' = [w EXCEPT !.states = Flipped(w, a), !.cursor = a]
        /\ alarms' = IF w.detached THEN alarms ELSE Override(alarms, Flipped(w, a))
        /\ pc' = "journal"
  BY DEF Flip
<1>2. a \in DOMAIN w.states /\ w.cursor < a /\ a \in Alarms
  BY DEF Changed, HandOK, Partial
<1>3. w.states \in [DOMAIN w.states -> Runtime] /\ Partial(alarms, Alarms, Runtime)
  BY DEF HandOK, Partial, TypeOK
<1> DEFINE f == Flipped(w, a)
<1>4. /\ DOMAIN f = DOMAIN w.states
      /\ \A b \in DOMAIN w.states : b # a => f[b] = w.states[b]
      /\ f[a].def = w.states[a].def /\ f[a].active = ~ w.states[a].active
  BY <1>2, <1>3 DEF Flipped, Runtime
<1> HIDE DEF f
<1>5. /\ work'.states = f /\ work'.cursor = a /\ work'.detached = w.detached
  BY <1>1 DEF HandOK, f
<1>6. CASE w.detached
  BY <1>1, <1>2, <1>5, <1>6 DEF SameDefs, FlipOf
<1>7. CASE ~ w.detached
  <2>1. /\ alarms' = Override(alarms, f)
        /\ \A b \in DOMAIN w.states : b \in DOMAIN alarms /\ alarms[b] = w.states[b]
    BY <1>1, <1>7 DEF HandOK, Attached, f
  <2>2. /\ DOMAIN alarms' = DOMAIN alarms
        /\ \A b \in DOMAIN alarms : alarms'[b] = IF b \in DOMAIN w.states THEN f[b] ELSE alarms[b]
    BY <1>4, <2>1 DEF Override
  <2>3. \A b \in DOMAIN alarms : b # a => alarms'[b] = alarms[b]
    BY <1>4, <2>1, <2>2
  <2>4. a \in DOMAIN alarms /\ alarms'[a] = f[a] /\ alarms[a] = w.states[a]
    BY <1>2, <2>1, <2>2
  <2>5. SameDefs
    BY <1>4, <2>2, <2>3, <2>4 DEF SameDefs
  <2>6. alarms[a].active \in BOOLEAN /\ alarms'[a].active = ~ alarms[a].active
    BY <1>3, <1>4, <2>4 DEF Partial, Runtime
  <2>7. ActiveAlarms' = Toggled(ActiveAlarms, a)
    BY <2>2, <2>3, <2>4, <2>6 DEF ActiveAlarms, Toggled
  <2>8. work'.states[a].active <=> a \notin ActiveAlarms
    BY <1>5, <2>4, <2>6 DEF ActiveAlarms
  <2>9. Attached(work', alarms')
    BY <1>4, <1>5, <2>1, <2>2 DEF Attached
  <2> QED
    BY <1>1, <1>2, <1>5, <1>7, <2>5, <2>7, <2>8, <2>9 DEF FlipOf
<1> QED
  BY <1>6, <1>7

Ended == pc' \in {"get", "flush", "done", "final"} /\ alarms' = alarms

LEMMA ArchiveEnds ==
  ASSUME NEW s, NEW m, Archive(s, m)
  PROVE  pc' \in {"get", "flush", "done", "final"}
BY LoopNotLoading, UnwindNotLoading DEF Archive, Unarchived, DeadbandCheckRaises, Filtered, Stored

LEMMA EvaluateIs ==
  ASSUME TypeOK, NEW w, HandOK(w), Evaluate(w)
  PROVE  Ended \/ (SameDefs /\ \E a \in Alarms : FlipOf(w, a))
<1>1. CASE Flip(w)
  BY <1>1, FlipIs
<1>2. CASE Archive(w.sample, w.meta) /\ UNCHANGED alarms
  BY <1>2, ArchiveEnds DEF Ended
<1> QED
  BY <1>1, <1>2 DEF Evaluate

LEMMA TakeIs ==
  ASSUME TypeOK, Take
  PROVE  \/ Ended
         \/ /\ SameDefs
            /\ \E a \in Alarms : \E w : HandOK(w) /\ ~ w.detached /\ FlipOf(w, a)
<1> DEFINE s == Head(queue)
           w == [sample |-> s, meta |-> meta[s.tag], states |-> StatesOf(s.tag),
                 cursor |-> 0, detached |-> FALSE]
<1>1. CASE TakeUnknown(s)
  BY <1>1, LoopNotLoading DEF TakeUnknown, Ended
<1>2. CASE TakeUncoercible(s)
  BY <1>2, UnwindNotLoading DEF TakeUncoercible, Ended
<1>3. CASE TakeKnown(s)
  <2>1. Evaluate(w)
    BY <1>3 DEF TakeKnown
  <2>2. HandOK(w)
    <3>1. Partial(StatesOf(s.tag), Alarms, Runtime)
      BY StatesTyped DEF TypeOK
    <3>2. \A a \in DOMAIN StatesOf(s.tag) : a \in DOMAIN alarms /\ alarms[a] = StatesOf(s.tag)[a]
      BY DEF StatesOf
    <3> QED
      BY <3>1, <3>2 DEF HandOK, Attached
  <2> HIDE DEF w
  <2>3. Ended \/ (SameDefs /\ \E a \in Alarms : FlipOf(w, a))
    BY <2>1, <2>2, EvaluateIs
  <2>4. ~ w.detached
    BY DEF w
  <2> QED
    BY <2>2, <2>3, <2>4
<1> QED
  BY <1>1, <1>2, <1>3 DEF Take

LEMMA WrittenHand ==
  ASSUME TypeOK, pc = "journal", ~ work.detached => Attached(work, alarms)
  PROVE  HandOK(work) /\ work.cursor \in DOMAIN work.states /\ work.cursor \in Alarms
BY DEF TypeOK, WorkOK, HandOK, Partial

\* Everything the consumer does that flips no alarm leaves the alarms as they are.
LEMMA OthersEnd ==
  ASSUME Consumer, ~ Take, ~ JournalWritten
  PROVE  Ended /\ journal' = journal
<1>1. CASE JournalFailed
  BY <1>1, UnwindNotLoading DEF JournalFailed, Ended, defVars
<1>2. CASE FlushCommitted
  BY <1>2, LoopNotLoading DEF FlushCommitted, Ended, defVars
<1>3. CASE FlushFailed
  BY <1>3, UnwindNotLoading DEF FlushFailed, Ended, defVars
<1>4. CASE FinalCommitted \/ FinalFailed
  BY <1>4 DEF FinalCommitted, FinalFailed, Ended, defVars
<1> QED
  BY <1>1, <1>2, <1>3, <1>4 DEF Consumer

-----------------------------------------------------------------------------
(* What the tables, the memory and the loads have to do with each other.     *)

\* The rows of the database keep the tag of an alarm, and hold the tag of each alarm.
TablesOK ==
  /\ \A a \in DOMAIN dbAlarms : dbAlarms[a].tag \in DOMAIN dbTags
  /\ \A a \in DOMAIN dbAlarms, c \in Configs \cup {InitialConfig} :
       a \in DOMAIN c.alarms => c.alarms[a].tag = dbAlarms[a].tag
  /\ DOMAIN alarms \subseteq DOMAIN dbAlarms

HasTags == {"tagsRead", "alarmsQuery", "alarmsRead"}
Loading == {l \in Loaders : loader[l].pc = "tagsQuery" \/ loader[l].pc \in HasTags}

\* What a load has read of the alarms that were active when it began.
LoadOK(l) ==
  /\ l \notin Reloads => loader[l].pc \notin {"idle", "sync"}
  /\ loader[l].config \in Configs \cup {InitialConfig}
  /\ l \in Loading => loader[l].active \subseteq DOMAIN dbAlarms
  /\ loader[l].pc \in HasTags =>
       \A a \in loader[l].active : dbAlarms[a].tag \in DOMAIN loader[l].tags
  /\ loader[l].pc = "alarmsRead" =>
       /\ DOMAIN loader[l].alarms \subseteq DOMAIN dbAlarms
       /\ \A a \in loader[l].active :
            a \in DOMAIN loader[l].alarms /\ loader[l].alarms[a].tag = dbAlarms[a].tag

Hand == pc = "journal" /\ ~ work.detached => Attached(work, alarms)

Definitions ==
  /\ TablesOK
  /\ \A l \in Loaders : LoadOK(l)
  /\ Hand

LEMMA ConfigsAgree ==
  ASSUME NEW c \in Configs \cup {InitialConfig}, NEW d \in Configs \cup {InitialConfig}
  PROVE  /\ \A a \in DOMAIN c.alarms : c.alarms[a].tag \in DOMAIN c.tags
         /\ \A a \in DOMAIN c.alarms \cap DOMAIN d.alarms : c.alarms[a].tag = d.alarms[a].tag
BY PipelineAssumption DEF IsConfig, SameAlarms

LEMMA DefinitionsInit == Init => Definitions
<1> SUFFICES ASSUME Init PROVE Definitions
  OBVIOUS
<1>1. TablesOK
  <2>1. InitialConfig \in Configs \cup {InitialConfig} /\ DOMAIN alarms = {}
    BY DEF Init
  <2> QED
    BY <2>1, ConfigsAgree DEF Init, TablesOK
<1>2. ASSUME NEW l \in Loaders PROVE LoadOK(l)
  <2>1. loader[l] = NoCall(IF l \in Reloads THEN "idle" ELSE "begin")
    BY DEF Init
  <2> QED
    BY <2>1 DEF LoadOK, NoCall, Call, Loading, HasTags
<1>3. Hand
  BY DEF Init, Hand
<1> QED
  BY <1>1, <1>2, <1>3 DEF Definitions

\* No step takes a row away, or gives an alarm to another tag.
DbGrows ==
  /\ DOMAIN dbTags \subseteq DOMAIN dbTags'
  /\ \A a \in DOMAIN dbAlarms : a \in DOMAIN dbAlarms' /\ dbAlarms'[a].tag = dbAlarms[a].tag

LEMMA LoadStays ==
  ASSUME NEW l \in Loaders, LoadOK(l), DbGrows, loader'[l] = loader[l]
  PROVE  LoadOK(l)'
<1> DEFINE r == loader[l]
<1>1. r.pc = "tagsQuery" \/ r.pc \in HasTags => r.active \subseteq DOMAIN dbAlarms
  BY DEF LoadOK, Loading
<1> QED
  BY <1>1 DEF LoadOK, DbGrows, Loading, HasTags

LEMMA Grown == UNCHANGED dbVars => DbGrows
BY DEF DbGrows, dbVars

LEMMA OthersStay ==
  ASSUME TypeOK, Definitions, DbGrows, NEW l \in Loaders, NEW rec, Goes(l, rec), LoadOK(l)'
  PROVE  \A k \in Loaders : LoadOK(k)'
<1>1. ASSUME NEW k \in Loaders, k # l PROVE LoadOK(k)'
  <2>1. loader'[k] = loader[k]
    BY <1>1 DEF Goes, TypeOK
  <2> QED
    BY <2>1, LoadStays DEF Definitions
<1> QED
  BY <1>1

LEMMA ConsumerKeepsDb ==
  ASSUME Consumer
  PROVE  UNCHANGED <<dbVars, loader, meta>>
<1>1. CASE Take
  BY <1>1 DEF Take
<1>2. CASE JournalWritten
  BY <1>2 DEF JournalWritten
<1>3. CASE JournalFailed
  BY <1>3 DEF JournalFailed, defVars
<1>4. CASE FlushCommitted
  BY <1>4 DEF FlushCommitted, defVars
<1>5. CASE FlushFailed
  BY <1>5 DEF FlushFailed, defVars
<1>6. CASE FinalCommitted \/ FinalFailed
  BY <1>6 DEF FinalCommitted, FinalFailed, defVars
<1> QED
  BY <1>1, <1>2, <1>3, <1>4, <1>5, <1>6 DEF Consumer

\* One step of the consumer: it ends, or flips an alarm of a sample it takes, or of the one
\* it has in hand.
TakesAndFlips == pc = "get" /\ \E a \in Alarms : \E w : ~ w.detached /\ FlipOf(w, a)
FlipsOn == pc = "journal" /\ \E a \in Alarms : FlipOf(work, a)

LEMMA ConsumerIs ==
  ASSUME TypeOK, Hand, Consumer
  PROVE  Ended \/ (SameDefs /\ (TakesAndFlips \/ FlipsOn))
<1>1. CASE Take
  <2>1. pc = "get"
    BY <1>1 DEF Take
  <2> QED
    BY <1>1, <2>1, TakeIs DEF TakesAndFlips
<1>2. CASE JournalWritten
  <2>1. pc = "journal" /\ Evaluate(work)
    BY <1>2 DEF JournalWritten
  <2>2. HandOK(work)
    BY <2>1, WrittenHand DEF Hand
  <2> QED
    BY <2>1, <2>2, EvaluateIs DEF FlipsOn
<1>3. CASE ~ Take /\ ~ JournalWritten
  BY <1>3, OthersEnd
<1> QED
  BY <1>1, <1>2, <1>3

LEMMA ConsumerDefinitions ==
  ASSUME TypeOK, Definitions, Consumer
  PROVE  Definitions'
<1>1. UNCHANGED <<dbVars, loader>>
  BY ConsumerKeepsDb
<1>2. Ended \/ (SameDefs /\ (TakesAndFlips \/ FlipsOn))
  BY ConsumerIs DEF Definitions
<1>3. DOMAIN alarms' = DOMAIN alarms
  BY <1>2 DEF Ended, SameDefs
<1>4. TablesOK'
  BY <1>1, <1>3 DEF Definitions, TablesOK, dbVars
<1>5. ASSUME NEW l \in Loaders PROVE LoadOK(l)'
  BY <1>1, Grown, LoadStays DEF Definitions
<1>6. Hand'
  BY <1>2 DEF Hand, Ended, TakesAndFlips, FlipsOn, FlipOf
<1> QED
  BY <1>4, <1>5, <1>6 DEF Definitions

LEMMA ReloadDefinitions ==
  ASSUME TypeOK, Definitions, NEW l \in Reloads, ReloadRequested(l) \/ SyncCommitted(l)
  PROVE  Definitions'
<1>0. l \in Loaders /\ LoadOK(l)
  BY DEF Loaders, Definitions
<1>1. CASE ReloadRequested(l)
  <2>1. PICK c \in Configs : Goes(l, Call("sync", c, {}, <<>>, <<>>))
    BY <1>1 DEF ReloadRequested
  <2>2. UNCHANGED <<dbVars, taskVars, defVars>> /\ DbGrows
    BY <1>1, Grown DEF ReloadRequested
  <2>3. loader'[l] = Call("sync", c, {}, <<>>, <<>>)
    BY <1>0, <2>1 DEF Goes, TypeOK
  <2>4. LoadOK(l)'
    BY <2>3 DEF LoadOK, Call, Loading, HasTags
  <2>5. \A k \in Loaders : LoadOK(k)'
    BY <1>0, <2>1, <2>2, <2>4, OthersStay
  <2> QED
    BY <2>2, <2>5 DEF Definitions, TablesOK, Hand, taskVars, defVars, dbVars
<1>2. CASE SyncCommitted(l)
  <2>1. PICK c \in Configs \cup {InitialConfig} : c = loader[l].config
    BY <1>0 DEF LoadOK
  <2>2. dbTags' = Override(dbTags, c.tags) /\ dbAlarms' = Override(dbAlarms, c.alarms)
    BY <1>2, <2>1 DEF SyncCommitted
  <2>3. Goes(l, NoCall("begin")) /\ UNCHANGED <<taskVars, defVars>>
    BY <1>2 DEF SyncCommitted
  <2>4. /\ DOMAIN dbTags' = DOMAIN dbTags \cup DOMAIN c.tags
        /\ DOMAIN dbAlarms' = DOMAIN dbAlarms \cup DOMAIN c.alarms
        /\ \A a \in DOMAIN dbAlarms' :
             dbAlarms'[a] = IF a \in DOMAIN c.alarms THEN c.alarms[a] ELSE dbAlarms[a]
    BY <2>2 DEF Override
  <2>5. \A a \in DOMAIN dbAlarms \cap DOMAIN c.alarms : c.alarms[a].tag = dbAlarms[a].tag
    BY DEF Definitions, TablesOK
  <2>6. DbGrows
    BY <2>4, <2>5 DEF DbGrows
  <2>7. loader'[l] = NoCall("begin")
    BY <1>0, <2>3 DEF Goes, TypeOK
  <2>8. LoadOK(l)'
    BY <2>7 DEF LoadOK, NoCall, Call, Loading, HasTags
  <2>9. \A k \in Loaders : LoadOK(k)'
    BY <1>0, <2>3, <2>6, <2>8, OthersStay
  <2>10. TablesOK'
    <3>1. ASSUME NEW a \in DOMAIN dbAlarms' PROVE dbAlarms'[a].tag \in DOMAIN dbTags'
      BY <2>4, ConfigsAgree DEF Definitions, TablesOK
    <3>2. ASSUME NEW a \in DOMAIN dbAlarms', NEW d \in Configs \cup {InitialConfig},
                 a \in DOMAIN d.alarms
          PROVE  d.alarms[a].tag = dbAlarms'[a].tag
      <4>1. CASE a \in DOMAIN c.alarms
        <5>1. d.alarms[a].tag = c.alarms[a].tag
          BY <3>2, <4>1, ConfigsAgree
        <5> QED
          BY <2>4, <4>1, <5>1
      <4>2. CASE a \notin DOMAIN c.alarms
        BY <2>4, <3>2, <4>2 DEF Definitions, TablesOK
      <4> QED
        BY <4>1, <4>2
    <3>3. DOMAIN alarms' \subseteq DOMAIN dbAlarms'
      BY <2>3, <2>4 DEF Definitions, TablesOK, defVars
    <3> QED
      BY <3>1, <3>2, <3>3 DEF TablesOK
  <2> QED
    BY <2>3, <2>9, <2>10 DEF Definitions, Hand, taskVars, defVars
<1> QED
  BY <1>1, <1>2

\* Whose step only moves a loader.
LEMMA MoveDefinitions ==
  ASSUME TypeOK, Definitions, NEW l \in Loaders, NEW rec, Goes(l, rec), LoadOK(l)',
         UNCHANGED <<dbVars, alarms, work, pc>>
  PROVE  Definitions'
<1>1. \A k \in Loaders : LoadOK(k)'
  BY Grown, OthersStay
<1> QED
  BY <1>1 DEF Definitions, TablesOK, Hand, dbVars

LEMMA LoadDefinitions ==
  ASSUME TypeOK, RunLoads, Definitions, NEW l \in Loaders, Load(l) \/ LoadFailed(l)
  PROVE  Definitions'
<1>0. LoadOK(l) /\ UNCHANGED dbVars /\ DOMAIN loader = Loaders
  BY DEF Definitions, Load, LoadBegins, TagsRead, TagsApplied, AlarmsRead, AlarmsApplied, LoadFailed,
     TypeOK
<1>1. InitialConfig \in Configs \cup {InitialConfig}
  OBVIOUS
<1>2. CASE LoadBegins(l)
  <2>1. Goes(l, Call("tagsQuery", InitialConfig, ActiveAlarms, <<>>, <<>>)) /\ UNCHANGED <<alarms, work, pc>>
    BY <1>2 DEF LoadBegins, taskVars, defVars
  <2>2. loader'[l] = Call("tagsQuery", InitialConfig, ActiveAlarms, <<>>, <<>>)
    BY <1>0, <2>1 DEF Goes
  <2>3. ActiveAlarms \subseteq DOMAIN dbAlarms
    BY DEF ActiveAlarms, Definitions, TablesOK
  <2>4. LoadOK(l)'
    BY <1>0, <1>1, <2>2, <2>3 DEF LoadOK, Call, Loading, HasTags, dbVars
  <2> QED
    BY <1>0, <2>1, <2>4, MoveDefinitions
<1>3. CASE TagsRead(l)
  <2>1. /\ Goes(l, Call("tagsRead", InitialConfig, loader[l].active, dbTags, <<>>))
        /\ UNCHANGED <<alarms, work, pc>> /\ loader[l].pc = "tagsQuery"
    BY <1>3 DEF TagsRead, taskVars, defVars, At
  <2>2. loader'[l] = Call("tagsRead", InitialConfig, loader[l].active, dbTags, <<>>)
    BY <1>0, <2>1 DEF Goes
  <2>3. loader[l].active \subseteq DOMAIN dbAlarms
    BY <1>0, <2>1 DEF LoadOK, Loading
  <2>4. \A a \in loader[l].active : dbAlarms[a].tag \in DOMAIN dbTags
    BY <2>3 DEF Definitions, TablesOK
  <2>5. LoadOK(l)'
    BY <1>0, <1>1, <2>2, <2>3, <2>4 DEF LoadOK, Call, Loading, HasTags, dbVars
  <2> QED
    BY <1>0, <2>1, <2>5, MoveDefinitions
<1>4. CASE TagsApplied(l)
  <2>1. /\ Goes(l, Call("alarmsQuery", InitialConfig, loader[l].active, loader[l].tags, <<>>))
        /\ UNCHANGED <<alarms, work, pc>> /\ loader[l].pc = "tagsRead"
    BY <1>4 DEF TagsApplied, taskVars, At
  <2>2. loader'[l] = Call("alarmsQuery", InitialConfig, loader[l].active, loader[l].tags, <<>>)
    BY <1>0, <2>1 DEF Goes
  <2>3. /\ loader[l].active \subseteq DOMAIN dbAlarms
        /\ \A a \in loader[l].active : dbAlarms[a].tag \in DOMAIN loader[l].tags
    BY <1>0, <2>1 DEF LoadOK, Loading, HasTags
  <2>4. LoadOK(l)'
    BY <1>0, <1>1, <2>2, <2>3 DEF LoadOK, Call, Loading, HasTags, dbVars
  <2> QED
    BY <1>0, <2>1, <2>4, MoveDefinitions
<1>5. CASE AlarmsRead(l)
  <2>1. /\ Goes(l, Call("alarmsRead", InitialConfig, loader[l].active, loader[l].tags, dbAlarms))
        /\ UNCHANGED <<alarms, work, pc>> /\ loader[l].pc = "alarmsQuery"
    BY <1>5 DEF AlarmsRead, taskVars, defVars, At
  <2>2. loader'[l] = Call("alarmsRead", InitialConfig, loader[l].active, loader[l].tags, dbAlarms)
    BY <1>0, <2>1 DEF Goes
  <2>3. /\ loader[l].active \subseteq DOMAIN dbAlarms
        /\ \A a \in loader[l].active : dbAlarms[a].tag \in DOMAIN loader[l].tags
    BY <1>0, <2>1 DEF LoadOK, Loading, HasTags
  <2>4. LoadOK(l)'
    BY <1>0, <1>1, <2>2, <2>3 DEF LoadOK, Call, Loading, HasTags, dbVars
  <2> QED
    BY <1>0, <2>1, <2>4, MoveDefinitions
<1>6. CASE AlarmsApplied(l)
  <2>1. Goes(l, NoCall("done")) /\ alarms' = Rebuilt(l) /\ loader[l].pc = "alarmsRead"
    BY <1>6 DEF AlarmsApplied, At
  <2>2. loader'[l] = NoCall("done")
    BY <1>0, <2>1 DEF Goes
  <2>3. LoadOK(l)'
    BY <1>1, <2>2 DEF LoadOK, NoCall, Call, Loading, HasTags
  <2>4. \A k \in Loaders : LoadOK(k)'
    BY <1>0, <2>1, <2>3, Grown, OthersStay
  <2>5. DOMAIN alarms' \subseteq DOMAIN dbAlarms
    BY <1>0, <2>1 DEF Rebuilt, Known, LoadOK
  <2>6. Hand'
    <3>1. pc' = "journal" => pc = "journal" /\ work' = [work EXCEPT !.detached = TRUE]
      BY <1>6 DEF AlarmsApplied
    <3>2. pc = "journal" => WorkOK(work)
      BY DEF TypeOK
    <3> QED
      BY <3>1, <3>2 DEF Hand, WorkOK
  <2> QED
    BY <1>0, <2>4, <2>5, <2>6 DEF Definitions, TablesOK, dbVars
<1>7. CASE LoadFailed(l)
  <2>1. Goes(l, NoCall("failed")) /\ UNCHANGED <<alarms, work>> /\ (pc' = pc \/ pc' = "done")
    BY <1>7 DEF LoadFailed, defVars
  <2>2. loader'[l] = NoCall("failed")
    BY <1>0, <2>1 DEF Goes
  <2>3. LoadOK(l)'
    BY <1>1, <2>2 DEF LoadOK, NoCall, Call, Loading, HasTags
  <2>4. \A k \in Loaders : LoadOK(k)'
    BY <1>0, <2>1, <2>3, Grown, OthersStay
  <2> QED
    BY <1>0, <2>1, <2>4 DEF Definitions, TablesOK, Hand, dbVars
<1> QED
  BY <1>2, <1>3, <1>4, <1>5, <1>6, <1>7 DEF Load

LEMMA ShutdownDefinitions ==
  ASSUME TypeOK, Definitions, Shutdown
  PROVE  Definitions'
<1>0. UNCHANGED <<defVars, dbVars>>
  BY DEF Shutdown
<1>1. \A l \in Loaders : LoadOK(l)'
  <2>1. CASE ShutdownLoading
    <3>1. Goes("run", NoCall("failed")) /\ "run" \in Loaders
      BY <2>1, RunIsLoader DEF ShutdownLoading
    <3>2. loader'["run"] = NoCall("failed")
      BY <3>1 DEF Goes, TypeOK
    <3>3. LoadOK("run")'
      BY <3>2 DEF LoadOK, NoCall, Call, Loading, HasTags
    <3> QED
      BY <1>0, <3>1, <3>3, Grown, OthersStay
  <2>2. CASE ~ ShutdownLoading
    <3>1. loader' = loader
      BY <2>2 DEF Shutdown, ShutdownWaiting, ShutdownJournalling, ShutdownFlushing, ShutdownDead
    <3> QED
      BY <1>0, <3>1, Grown, LoadStays DEF Definitions
  <2> QED
    BY <2>1, <2>2
<1>2. pc' # "journal"
  BY UnwindNotLoading DEF Shutdown, ShutdownLoading, ShutdownWaiting, ShutdownJournalling, ShutdownFlushing,
     ShutdownDead
<1> QED
  BY <1>0, <1>1, <1>2 DEF Definitions, TablesOK, Hand, defVars, dbVars

LEMMA DefinitionsKept ==
  ASSUME TypeOK, RunLoads, Definitions, [Next]_vars
  PROVE  Definitions'
<1>1. CASE Emit \/ Flusher \/ UNCHANGED vars
  <2>1. UNCHANGED <<dbVars, defVars, loader, work, pc>>
    BY <1>1 DEF Emit, Flusher, FlusherWakes, FlusherCommitted, FlusherFailed, taskVars, vars
  <2>2. \A l \in Loaders : LoadOK(l)'
    BY <2>1, Grown, LoadStays DEF Definitions
  <2> QED
    BY <2>1, <2>2 DEF Definitions, TablesOK, Hand, dbVars, defVars
<1>2. CASE Consumer
  BY <1>2, ConsumerDefinitions
<1>3. CASE \E l \in Loaders : Load(l) \/ LoadFailed(l)
  BY <1>3, LoadDefinitions
<1>4. CASE \E l \in Reloads : ReloadRequested(l) \/ SyncCommitted(l)
  BY <1>4, ReloadDefinitions
<1>5. CASE Shutdown
  BY <1>5, ShutdownDefinitions
<1> QED
  BY <1>1, <1>2, <1>3, <1>4, <1>5 DEF Next

-----------------------------------------------------------------------------
(* The journal, the memory and the loads in step.                            *)

\* The journal shows the alarms that are active, but the one whose entry is being written,
\* whose new state is news; the loads under way remember the same ones.
Writing ==
  /\ ActiveAlarms = Toggled(Reported(journal), work.cursor)
  /\ work.states[work.cursor].active <=> work.cursor \notin Reported(journal)

Remembers == \A l \in Loading : loader[l].active = ActiveAlarms

InStep ==
  /\ Turns(journal)
  /\ pc \in {"load", "get", "flush"} => ActiveAlarms = Reported(journal)
  /\ pc = "journal" => Writing
  /\ Remembers

\* What breaks the step: a flip that a load under way does not see, or a flip of the states
\* that a load has replaced.
Race == Flips /\ (Underway # {} \/ (pc = "journal" /\ work.detached))

LEMMA InStepInit == Init => InStep
<1> SUFFICES ASSUME Init PROVE InStep
  OBVIOUS
<1>1. ActiveAlarms = {} /\ Reported(journal) = {} /\ Turns(journal)
  <2>1. Len(journal) = 0 /\ 1 .. 0 = {}
    BY DEF Init
  <2> QED
    BY <2>1 DEF Init, ActiveAlarms, Reported, ActiveIn, Turns
<1>2. Loading = {}
  BY DEF Init, Loading, HasTags, NoCall, Call
<1> QED
  BY <1>1, <1>2 DEF InStep, Remembers, Init

\* The entry at hand is news.
LEMMA WrittenTurns ==
  ASSUME TypeOK, pc = "journal", InStep
  PROVE  /\ Turns(Append(journal, EventOf(work)))
         /\ Reported(Append(journal, EventOf(work))) = ActiveAlarms
<1>1. PICK e \in Event : e = EventOf(work)
  BY EventTyped
<1>2. e.alarm = work.cursor /\ (e.state = "active" <=> work.states[work.cursor].active)
  BY <1>1 DEF EventOf
<1>3. e.state = "active" <=> e.alarm \notin Reported(journal)
  BY <1>2 DEF InStep, Writing
<1>4. Turns(Append(journal, e)) /\ Reported(Append(journal, e)) = Toggled(Reported(journal), e.alarm)
  BY <1>3, AppendTurns DEF InStep, TypeOK
<1> QED
  BY <1>1, <1>2, <1>4 DEF InStep, Writing

LEMMA SameActive == UNCHANGED alarms => ActiveAlarms' = ActiveAlarms
BY DEF ActiveAlarms

LEMMA SameRemembers ==
  ASSUME Remembers, UNCHANGED <<alarms, loader>>
  PROVE  Remembers'
BY SameActive DEF Remembers, Loading

LEMMA IdleRemembers ==
  ASSUME Underway = {}, loader' = loader
  PROVE  Remembers'
BY DEF Remembers, Underway, Loading, HasTags

LEMMA GoesRemembers ==
  ASSUME TypeOK, Remembers, NEW l \in Loaders, NEW rec, Goes(l, rec), ActiveAlarms' = ActiveAlarms,
         rec.pc = "tagsQuery" \/ rec.pc \in HasTags => rec.active = ActiveAlarms
  PROVE  Remembers'
<1>1. DOMAIN loader = Loaders
  BY DEF TypeOK
<1>2. \A k \in Loaders : loader'[k] = IF k = l THEN rec ELSE loader[k]
  BY <1>1 DEF Goes
<1> QED
  BY <1>2 DEF Remembers, Loading, HasTags

LEMMA OthersFlush ==
  ASSUME Consumer, ~ Take, ~ JournalWritten, pc' \in {"get", "flush"}
  PROVE  pc = "flush"
BY UnwindNotLoading
DEF Consumer, JournalFailed, FlushCommitted, FlushFailed, FinalCommitted, FinalFailed

LEMMA ConsumerInStep ==
  ASSUME TypeOK, Definitions, InStep, Consumer, ~ Race
  PROVE  InStep'
<1>0. loader' = loader
  BY ConsumerKeepsDb
<1>1. CASE Take
  <2>1. pc = "get" /\ journal' = journal /\ ActiveAlarms = Reported(journal)
    BY <1>1 DEF Take, InStep
  <2>2. CASE Ended
    BY <1>0, <2>1, <2>2, SameActive, SameRemembers DEF InStep, Ended
  <2>3. CASE ~ Ended
    <3>1. PICK a \in Alarms : \E w : ~ w.detached /\ FlipOf(w, a)
      BY <1>1, <2>3, TakeIs
    <3>2. Remembers'
      BY <1>0, <2>1, <3>1, IdleRemembers DEF Race, Flips, FlipOf
    <3> QED
      BY <2>1, <3>1, <3>2 DEF InStep, Writing, FlipOf
  <2> QED
    BY <2>2, <2>3
<1>2. CASE JournalWritten
  <2>1. pc = "journal" /\ Evaluate(work) /\ journal' = Append(journal, EventOf(work))
    BY <1>2 DEF JournalWritten
  <2>2. HandOK(work)
    BY <2>1, WrittenHand DEF Definitions, Hand
  <2>3. Turns(journal') /\ Reported(journal') = ActiveAlarms
    BY <2>1, WrittenTurns
  <2>4. CASE Ended
    BY <1>0, <2>3, <2>4, SameActive, SameRemembers DEF InStep, Ended
  <2>5. CASE ~ Ended
    <3>1. PICK a \in Alarms : FlipOf(work, a)
      BY <2>1, <2>2, <2>5, EvaluateIs
    <3>2. work'.cursor # work.cursor /\ pc' = "journal"
      <4>1. work.cursor \in Alarms /\ work.cursor < a
        BY <2>1, <3>1, WrittenHand DEF Definitions, Hand, FlipOf
      <4>2. work.cursor \in Nat /\ a \in Nat
        BY <4>1, PipelineAssumption
      <4> QED
        BY <3>1, <4>1, <4>2 DEF FlipOf
    <3>3. ~ work.detached /\ Underway = {}
      BY <2>1, <3>2 DEF Race, Flips
    <3>4. Remembers'
      BY <1>0, <3>3, IdleRemembers
    <3> QED
      BY <2>3, <3>1, <3>3, <3>4 DEF InStep, Writing, FlipOf
  <2> QED
    BY <2>4, <2>5
<1>3. CASE ~ Take /\ ~ JournalWritten
  <2>1. Ended /\ journal' = journal
    BY <1>3, OthersEnd
  <2>2. pc' \in {"get", "flush"} => pc = "flush"
    BY <1>3, OthersFlush
  <2> QED
    BY <1>0, <2>1, <2>2, SameActive, SameRemembers DEF InStep, Ended
<1> QED
  BY <1>1, <1>2, <1>3

\* A load puts back the alarms it remembers, all of them.
LEMMA RebuiltActive ==
  ASSUME TypeOK, Definitions, InStep, NEW l \in Loaders, AlarmsApplied(l)
  PROVE  ActiveAlarms' = ActiveAlarms
<1>1. loader[l].pc = "alarmsRead" /\ alarms' = Rebuilt(l)
  BY DEF AlarmsApplied, At
<1>2. loader[l].active = ActiveAlarms
  BY <1>1 DEF InStep, Remembers, Loading, HasTags
<1>3. \A a \in loader[l].active : a \in DOMAIN loader[l].alarms /\ loader[l].alarms[a].tag \in DOMAIN loader[l].tags
  <2>1. LoadOK(l)
    BY DEF Definitions
  <2> QED
    BY <1>1, <2>1 DEF LoadOK, HasTags
<1>4. loader[l].active \subseteq Known(l)
  BY <1>3 DEF Known
<1>5. ActiveAlarms' = {a \in Known(l) : a \in loader[l].active}
  BY <1>1 DEF ActiveAlarms, Rebuilt
<1> QED
  BY <1>2, <1>4, <1>5

LEMMA LoadInStep ==
  ASSUME TypeOK, RunLoads, Definitions, InStep, NEW l \in Loaders, Load(l) \/ LoadFailed(l)
  PROVE  InStep'
<1>1. CASE LoadBegins(l)
  <2>1. Goes(l, Call("tagsQuery", InitialConfig, ActiveAlarms, <<>>, <<>>))
    BY <1>1 DEF LoadBegins
  <2>2. UNCHANGED <<alarms, journal, pc, work>> /\ ActiveAlarms' = ActiveAlarms
    BY <1>1, SameActive DEF LoadBegins, taskVars, defVars
  <2>3. Remembers'
    BY <2>1, <2>2, GoesRemembers DEF InStep, Call
  <2> QED
    BY <2>2, <2>3 DEF InStep, Writing
<1>2. CASE TagsRead(l) \/ TagsApplied(l) \/ AlarmsRead(l)
  <2>1. PICK rec : Goes(l, rec) /\ rec.active = loader[l].active
    BY <1>2 DEF TagsRead, TagsApplied, AlarmsRead, Call
  <2>2. UNCHANGED <<alarms, journal, pc, work>> /\ ActiveAlarms' = ActiveAlarms
    BY <1>2, SameActive DEF TagsRead, TagsApplied, AlarmsRead, taskVars, defVars
  <2>3. loader[l].active = ActiveAlarms
    BY <1>2 DEF TagsRead, TagsApplied, AlarmsRead, At, InStep, Remembers, Loading, HasTags
  <2>4. Remembers'
    BY <2>1, <2>2, <2>3, GoesRemembers DEF InStep
  <2> QED
    BY <2>2, <2>4 DEF InStep, Writing
<1>3. CASE AlarmsApplied(l)
  <2>1. Goes(l, NoCall("done")) /\ journal' = journal
    BY <1>3 DEF AlarmsApplied
  <2>2. ActiveAlarms' = ActiveAlarms
    BY <1>3, RebuiltActive
  <2>3. Remembers'
    BY <2>1, <2>2, GoesRemembers DEF InStep, NoCall, Call, HasTags
  <2>4. pc' \in {"load", "get", "flush"} => pc \in {"load", "get", "flush"}
    BY <1>3 DEF AlarmsApplied, RunLoads, At
  <2>5. pc' = "journal" => pc = "journal" /\ work'.states = work.states /\ work'.cursor = work.cursor
    <3>1. pc' = "journal" => pc = "journal" /\ work' = [work EXCEPT !.detached = TRUE]
      BY <1>3 DEF AlarmsApplied
    <3>2. pc = "journal" => WorkOK(work)
      BY DEF TypeOK
    <3> QED
      BY <3>1, <3>2 DEF WorkOK
  <2> QED
    BY <2>1, <2>2, <2>3, <2>4, <2>5 DEF InStep, Writing
<1>4. CASE LoadFailed(l)
  <2>1. Goes(l, NoCall("failed")) /\ (pc' = pc \/ pc' = "done") /\ UNCHANGED <<alarms, journal, work>>
    BY <1>4 DEF LoadFailed, defVars
  <2>2. Remembers'
    BY <2>1, SameActive, GoesRemembers DEF InStep, NoCall, Call, HasTags
  <2> QED
    BY <2>1, <2>2, SameActive DEF InStep, Writing
<1> QED
  BY <1>1, <1>2, <1>3, <1>4 DEF Load

LEMMA ReloadInStep ==
  ASSUME TypeOK, InStep, NEW l \in Reloads, ReloadRequested(l) \/ SyncCommitted(l)
  PROVE  InStep'
<1>1. PICK rec : Goes(l, rec) /\ rec.pc \in {"sync", "begin"}
  <2>1. CASE ReloadRequested(l)
    <3>1. PICK c \in Configs : Goes(l, Call("sync", c, {}, <<>>, <<>>))
      BY <2>1 DEF ReloadRequested
    <3>2. Call("sync", c, {}, <<>>, <<>>).pc = "sync"
      BY DEF Call
    <3> QED
      BY <3>1, <3>2
  <2>2. CASE SyncCommitted(l)
    <3>1. Goes(l, NoCall("begin")) /\ NoCall("begin").pc = "begin"
      BY <2>2 DEF SyncCommitted, NoCall, Call
    <3> QED
      BY <3>1
  <2> QED
    BY <2>1, <2>2
<1>2. UNCHANGED <<alarms, journal, pc, work>> /\ ActiveAlarms' = ActiveAlarms
  BY SameActive DEF ReloadRequested, SyncCommitted, taskVars, defVars
<1>3. Remembers'
  BY <1>1, <1>2, GoesRemembers DEF InStep, HasTags, Loaders
<1> QED
  BY <1>2, <1>3 DEF InStep, Writing

LEMMA ShutdownInStep ==
  ASSUME TypeOK, InStep, Shutdown
  PROVE  InStep'
<1>1. ActiveAlarms' = ActiveAlarms
  BY SameActive DEF Shutdown, defVars
<1>2. Remembers'
  <2>1. CASE ShutdownLoading
    BY <1>1, <2>1, RunIsLoader, GoesRemembers DEF ShutdownLoading, InStep, NoCall, Call, HasTags
  <2>2. CASE ~ ShutdownLoading
    <3>1. loader' = loader
      BY <2>2 DEF Shutdown, ShutdownWaiting, ShutdownJournalling, ShutdownFlushing, ShutdownDead
    <3> QED
      BY <1>1, <3>1 DEF InStep, Remembers, Loading
  <2> QED
    BY <2>1, <2>2
<1>3. CASE ShutdownJournalling
  <2>1. pc' \in {"done", "final"} /\ pc = "journal"
    BY <1>3, UnwindNotLoading DEF ShutdownJournalling
  <2>2. Turns(journal')
    BY <1>3, <2>1, WrittenTurns DEF ShutdownJournalling, InStep
  <2> QED
    BY <1>2, <2>1, <2>2 DEF InStep
<1>4. CASE ~ ShutdownJournalling
  <2>1. journal' = journal /\ (pc' \in {"done", "final"} \/ (pc' = pc /\ pc \in {"get", "done"}))
    BY <1>4, UnwindNotLoading
    DEF Shutdown, ShutdownLoading, ShutdownWaiting, ShutdownFlushing, ShutdownDead
  <2> QED
    BY <1>1, <1>2, <2>1 DEF InStep
<1> QED
  BY <1>3, <1>4

LEMMA InStepKept ==
  ASSUME TypeOK, RunLoads, Definitions, InStep, [Next]_vars, ~ Race
  PROVE  InStep'
<1>1. CASE Emit \/ Flusher \/ UNCHANGED vars
  <2>1. UNCHANGED <<alarms, loader, work, pc, journal>>
    BY <1>1 DEF Emit, Flusher, FlusherWakes, FlusherCommitted, FlusherFailed, taskVars, defVars, vars
  <2> QED
    BY <2>1, SameActive, SameRemembers DEF InStep, Writing
<1>2. CASE Consumer
  BY <1>2, ConsumerInStep
<1>3. CASE \E l \in Loaders : Load(l) \/ LoadFailed(l)
  BY <1>3, LoadInStep
<1>4. CASE \E l \in Reloads : ReloadRequested(l) \/ SyncCommitted(l)
  BY <1>4, ReloadInStep
<1>5. CASE Shutdown
  BY <1>5, ShutdownInStep
<1> QED
  BY <1>1, <1>2, <1>3, <1>4, <1>5 DEF Next

-----------------------------------------------------------------------------
(* Reloads that no flip races with.                                          *)

LEMMA InStepMeans ==
  ASSUME TypeOK, InStep
  PROVE  JournalAlternates /\ JournalMatchesMemory
<1>1. JournalAlternates
  BY TurnsAlternate DEF InStep, TypeOK
<1>2. ASSUME NEW a \in Alarms PROVE a \in Reported(journal) <=> JournalledActive(a)
  <2>1. DOMAIN journal = 1 .. Len(journal)
    BY DEF TypeOK
  <2> QED
    BY <2>1 DEF Reported, ActiveIn, JournalledActive
<1>3. ASSUME NEW a \in DOMAIN alarms, pc \in {"get", "journal", "flush"},
             ~ (pc = "journal" /\ work.cursor = a)
      PROVE  alarms[a].active <=> JournalledActive(a)
  <2>1. a \in Alarms /\ (alarms[a].active <=> a \in ActiveAlarms)
    BY DEF TypeOK, Partial, ActiveAlarms
  <2>2. a \in ActiveAlarms <=> a \in Reported(journal)
    BY <1>3 DEF InStep, Writing, Toggled
  <2> QED
    BY <2>1, <2>2, <1>2
<1> QED
  BY <1>1, <1>3 DEF JournalMatchesMemory

LEMMA Steps == [MCNext]_<<vars, raced, overlapped, file>> => [Next]_vars
BY DEF MCNext

LEMMA Always == MCSpec => [](TypeOK /\ RunLoads /\ Definitions)
<1>1. MCInit => TypeOK /\ RunLoads /\ Definitions
  BY InitTyped, RunIsLoader, DefinitionsInit DEF MCInit, Init, RunLoads, NoCall, Call
<1>2. TypeOK /\ RunLoads /\ Definitions /\ [MCNext]_<<vars, raced, overlapped, file>>
        => (TypeOK /\ RunLoads /\ Definitions)'
  BY Steps, NextTyped, RunLoadsKept, DefinitionsKept
<1> QED
  BY <1>1, <1>2, PTL DEF MCSpec

LEMMA RacedOrInStep ==
  ASSUME TypeOK, RunLoads, Definitions, raced \/ InStep, [MCNext]_<<vars, raced, overlapped, file>>
  PROVE  (raced \/ InStep)'
<1>1. CASE MCNext
  <2>1. raced' <=> raced \/ Race
    BY <1>1 DEF MCNext, Race
  <2>2. [Next]_vars
    BY Steps
  <2> QED
    BY <2>1, <2>2, InStepKept
<1>2. CASE UNCHANGED <<vars, raced, overlapped, file>>
  <2>1. ~ Race
    BY <1>2 DEF Race, Flips, vars, taskVars
  <2>2. [Next]_vars
    BY Steps
  <2> QED
    BY <1>2, <2>1, <2>2, InStepKept
<1> QED
  BY <1>1, <1>2

\* The docstring of load_metadata (an active alarm's state "is preserved across the reload
\* so it isn't reported as a fresh activation"), as far as it is true, for any number of
\* reloads: unless an alarm flips while some load is under way, or while its event
\* waits and a load replaces the states, each alarm's journal alternates and memory agrees
\* with it (QuietReloadKeepsAlarms).
THEOREM ReloadKeepsAlarms == MCSpec => []QuietReloadKeepsAlarms
<1>1. MCInit => raced \/ InStep
  BY InStepInit DEF MCInit
<1>2. /\ TypeOK /\ RunLoads /\ Definitions
      /\ raced \/ InStep
      /\ [MCNext]_<<vars, raced, overlapped, file>>
      => (raced \/ InStep)'
  BY RacedOrInStep
<1>3. TypeOK /\ (raced \/ InStep) => QuietReloadKeepsAlarms
  BY InStepMeans DEF QuietReloadKeepsAlarms
<1> QED
  BY <1>1, <1>2, <1>3, Always, PTL DEF MCSpec

-----------------------------------------------------------------------------
(* No reload at all: nothing races.                                          *)

\* Samples come once both loads of the start-up are over.
AfterStart ==
  /\ queue # <<>> \/ pc = "journal" => Started
  /\ pc = "journal" => ~ work.detached

LEMMA QuietLoads ==
  ASSUME Reloads = {}, RunLoads, Started, pc # "load"
  PROVE  Underway = {}
BY DEF RunLoads, Started, Underway, Loaders

LEMMA StartedKept ==
  ASSUME TypeOK, Started, Reloads = {}, [Next]_vars
  PROVE  Started'
<1>1. "lifespan" \in Loaders /\ DOMAIN loader = Loaders
  BY DEF TypeOK, Loaders
<1>2. CASE Emit \/ Flusher \/ UNCHANGED vars
  BY <1>2 DEF Started, Emit, Flusher, FlusherWakes, FlusherCommitted, FlusherFailed, vars
<1>3. CASE Consumer
  BY <1>3, ConsumerKeepsDb DEF Started
<1>4. ASSUME NEW l \in Loaders, Load(l) \/ LoadFailed(l) PROVE Started'
  BY <1>1, <1>4
  DEF Load, LoadBegins, TagsRead, TagsApplied, AlarmsRead, AlarmsApplied, LoadFailed, Goes, At, Started
<1>5. CASE Shutdown
  BY <1>1, <1>5 DEF Shutdown, ShutdownLoading, ShutdownWaiting, ShutdownJournalling, ShutdownFlushing,
     ShutdownDead, Goes, Started
<1> QED
  BY <1>2, <1>3, <1>4, <1>5 DEF Next

LEMMA SettledKept ==
  ASSUME TypeOK, RunLoads, Definitions, AfterStart, Reloads = {}, [Next]_vars
  PROVE  AfterStart' /\ ~ Race
<1>1. CASE Emit
  <2>1. Started /\ Started' /\ UNCHANGED <<pc, work>>
    BY <1>1, StartedKept DEF Emit, taskVars
  <2> QED
    BY <2>1 DEF AfterStart, Race, Flips
<1>2. CASE Flusher \/ UNCHANGED vars
  <2>1. UNCHANGED <<pc, work, queue, loader>>
    BY <1>2 DEF Flusher, FlusherWakes, FlusherCommitted, FlusherFailed, vars, connVars, taskVars
  <2> QED
    BY <2>1 DEF AfterStart, Race, Flips, Started
<1>3. CASE Consumer
  <2>1. pc # "load" /\ loader' = loader
    BY <1>3, ConsumerNotLoading
  <2>2. CASE Take
    <3>1. Started /\ pc = "get"
      BY <2>2 DEF Take, AfterStart
    <3>2. pc' = "journal" => ~ work'.detached
      BY <2>2, TakeIs DEF Ended, FlipOf
    <3> QED
      BY <2>1, <3>1, <3>2, QuietLoads DEF AfterStart, Race, Started
  <2>3. CASE JournalWritten
    <3>1. pc = "journal" /\ Evaluate(work) /\ Started /\ ~ work.detached
      BY <2>3 DEF JournalWritten, AfterStart
    <3>2. HandOK(work)
      BY <3>1, WrittenHand DEF Definitions, Hand
    <3>3. pc' = "journal" => ~ work'.detached
      BY <3>1, <3>2, EvaluateIs DEF Ended, FlipOf
    <3> QED
      BY <2>1, <3>1, <3>3, QuietLoads DEF AfterStart, Race, Started
  <2>4. CASE ~ Take /\ ~ JournalWritten
    <3>1. pc' # "journal"
      BY <1>3, <2>4, OthersEnd DEF Ended
    <3>2. queue' = queue
      BY <1>3, <2>4
      DEF Consumer, JournalFailed, FlushCommitted, FlushFailed, FinalCommitted, FinalFailed, connVars
    <3> QED
      BY <2>1, <3>1, <3>2 DEF AfterStart, Race, Flips, Started
  <2> QED
    BY <2>2, <2>3, <2>4
<1>4. ASSUME NEW l \in Loaders, Load(l) \/ LoadFailed(l) PROVE AfterStart' /\ ~ Race
  <2>1. Started => Started'
    BY StartedKept
  <2>2. queue' = queue
    BY <1>4
    DEF Load, LoadBegins, TagsRead, TagsApplied, AlarmsRead, AlarmsApplied, LoadFailed, connVars
  <2>3. pc # "journal" \/ ~ Started
    <3>1. loader[l].pc \notin {"idle", "done", "failed"}
      BY <1>4
      DEF Load, LoadBegins, TagsRead, TagsApplied, AlarmsRead, AlarmsApplied, LoadFailed, At
    <3>2. Underway # {}
      BY <3>1 DEF Underway
    <3> QED
      BY <3>2, QuietLoads
  <2>4. pc' # "journal"
    <3>1. pc # "journal"
      BY <2>3 DEF AfterStart
    <3> QED
      BY <1>4, <3>1
      DEF Load, LoadBegins, TagsRead, TagsApplied, AlarmsRead, AlarmsApplied, LoadFailed, taskVars
  <2> QED
    BY <2>1, <2>2, <2>4 DEF AfterStart, Race, Flips
<1>5. CASE Shutdown
  <2>1. Started => Started'
    BY StartedKept
  <2>2. pc' # "journal" /\ queue' = queue
    BY <1>5, UnwindNotLoading DEF Shutdown, ShutdownLoading, ShutdownWaiting, ShutdownJournalling,
       ShutdownFlushing, ShutdownDead, connVars
  <2> QED
    BY <2>1, <2>2 DEF AfterStart, Race, Flips
<1> QED
  BY <1>1, <1>2, <1>3, <1>4, <1>5 DEF Next

Quiet == TypeOK /\ RunLoads /\ Definitions /\ InStep /\ AfterStart

LEMMA QuietInit == Init => Quiet
<1>1. Init => AfterStart
  BY DEF Init, AfterStart
<1>2. Init => TypeOK /\ RunLoads
  BY InitTyped, RunIsLoader DEF Init, RunLoads, NoCall, Call
<1> QED
  BY <1>1, <1>2, DefinitionsInit, InStepInit DEF Quiet

LEMMA QuietKept == Reloads = {} /\ Quiet /\ [Next]_vars => Quiet'
BY NextTyped, RunLoadsKept, DefinitionsKept, InStepKept, SettledKept DEF Quiet

LEMMA QuietAlways ==
  ASSUME Reloads = {}
  PROVE  Spec => []Quiet
<1>1. Quiet /\ [Next]_vars => Quiet'
  BY QuietKept
<1> QED
  BY <1>1, QuietInit, PTL DEF Spec

\* A program that nobody asks to reload journals each alarm by turns, from its first
\* activation on, whatever fails and however it is shut down (JournalAlternates).
THEOREM AlarmsAlternate ==
  ASSUME Reloads = {}
  PROVE  Spec => []JournalAlternates
<1>1. Quiet => JournalAlternates
  BY InStepMeans DEF Quiet
<1> QED
  BY <1>1, QuietAlways, PTL

\* And its memory agrees with the journal on every alarm whose entry is not being written,
\* for as long as the consumer lives (JournalMatchesMemory).
THEOREM MemoryAgrees ==
  ASSUME Reloads = {}
  PROVE  Spec => []JournalMatchesMemory
<1>1. Quiet => JournalMatchesMemory
  BY InStepMeans DEF Quiet
<1> QED
  BY <1>1, QuietAlways, PTL

-----------------------------------------------------------------------------
(* Reloads take effect.                                                      *)

Overlap == \E l \in Reloads : l \in Underway /\ Underway # {l}
SomeLoadFails == \E l \in Underway : loader'[l].pc = "failed"

\* While one load runs and no reload beside it, what it has read is what the database holds.
LoadEffect(l) ==
  /\ loader[l].pc \in HasTags => loader[l].tags = dbTags
  /\ loader[l].pc \in {"alarmsQuery", "alarmsRead"} => meta = dbTags
  /\ loader[l].pc = "alarmsRead" => loader[l].alarms = dbAlarms
  /\ loader[l].pc = "sync" => file = loader[l].config

Defs == [a \in DOMAIN alarms |-> alarms[a].def]
Applied == Underway = {} => meta = dbTags /\ Defs = dbAlarms
Synced ==
  (\A l \in Loaders : ~ At(l, "sync")) =>
    Extends(dbTags, file.tags) /\ Extends(dbAlarms, file.alarms)

Effect == (\A l \in Loaders : LoadEffect(l)) /\ Applied /\ Synced

LEMMA EffectInit == MCInit => Effect
<1> SUFFICES ASSUME MCInit PROVE Effect
  OBVIOUS
<1>1. ASSUME NEW l \in Loaders PROVE loader[l].pc \in {"idle", "begin"}
  BY DEF MCInit, Init, NoCall, Call
<1>2. "run" \in Underway
  BY RunIsLoader DEF MCInit, Init, NoCall, Call, Underway
<1> QED
  BY <1>1, <1>2 DEF MCInit, Init, Effect, LoadEffect, Applied, Synced, Extends, HasTags

LEMMA SameDefinitions ==
  ASSUME Ended \/ SameDefs
  PROVE  Defs' = Defs
BY DEF Ended, SameDefs, Defs

LEMMA FilesStay ==
  ASSUME MCNext, \A l \in Reloads : At(l, "idle") => loader'[l].pc # "sync"
  PROVE  file' = file
<1>1. FilesRead = {}
  BY DEF FilesRead
<1> QED
  BY <1>1 DEF MCNext

\* A step that leaves the loads and the tables alone.
LEMMA EffectStays ==
  ASSUME Effect, UNCHANGED <<loader, dbVars, meta, file>>, Defs' = Defs
  PROVE  Effect'
BY DEF Effect, LoadEffect, Applied, Synced, Underway, At, dbVars

LEMMA SameLoaders ==
  ASSUME MCNext, loader' = loader
  PROVE  file' = file
BY FilesStay DEF At

\* A reload under way is the only load under way.
LEMMA Alone ==
  ASSUME NEW l \in Reloads, l \in Underway, ~ Overlap, NEW k \in Loaders, k # l
  PROVE  loader[k].pc \in {"idle", "done", "failed"}
BY DEF Overlap, Underway

LEMMA RequestedEffect ==
  ASSUME TypeOK, NEW l \in Reloads, ReloadRequested(l), MCNext
  PROVE  Overlap' \/ Effect'
<1>0. l \in Loaders /\ DOMAIN loader = Loaders
  BY DEF Loaders, TypeOK
<1>1. PICK c \in Configs : Goes(l, Call("sync", c, {}, <<>>, <<>>))
  BY DEF ReloadRequested
<1>2. /\ loader'[l].pc = "sync" /\ loader'[l].config = c /\ At(l, "idle")
      /\ \A k \in Loaders : k # l => loader'[k] = loader[k]
  BY <1>0, <1>1 DEF Goes, Call, ReloadRequested
<1>3. FilesRead = {c}
  <2>1. \A k \in Reloads : At(k, "idle") /\ loader'[k].pc = "sync" <=> k = l
    BY <1>0, <1>2 DEF At, Loaders
  <2> QED
    BY <1>2, <2>1 DEF FilesRead
<1>4. file' = c
  BY <1>3 DEF MCNext
<1>5. CASE Underway' # {l}
  <2>1. l \in Underway'
    BY <1>0, <1>2 DEF Underway
  <2> QED
    BY <1>5, <2>1 DEF Overlap
<1>6. CASE Underway' = {l}
  <2>1. ASSUME NEW k \in Loaders PROVE LoadEffect(k)'
    <3>1. CASE k = l
      BY <1>2, <1>4, <3>1 DEF LoadEffect, HasTags
    <3>2. CASE k # l
      BY <1>6, <3>2 DEF LoadEffect, HasTags, Underway
    <3> QED
      BY <3>1, <3>2
  <2> QED
    BY <1>0, <1>2, <1>6, <2>1 DEF Effect, Applied, Synced, At
<1> QED
  BY <1>5, <1>6

LEMMA SyncedEffect ==
  ASSUME TypeOK, Effect, ~ Overlap, NEW l \in Reloads, SyncCommitted(l), MCNext
  PROVE  Effect'
<1>0. l \in Loaders /\ DOMAIN loader = Loaders
  BY DEF Loaders, TypeOK
<1>1. loader[l].pc = "sync" /\ l \in Underway /\ file = loader[l].config
  BY <1>0 DEF SyncCommitted, At, Underway, Effect, LoadEffect
<1>2. /\ loader'[l].pc = "begin"
      /\ \A k \in Loaders : k # l => loader'[k] = loader[k]
  BY <1>0 DEF SyncCommitted, Goes, NoCall, Call
<1>3. file' = file
  BY <1>2, FilesStay DEF Loaders, At
<1>4. Extends(dbTags', file.tags) /\ Extends(dbAlarms', file.alarms)
  BY <1>1 DEF SyncCommitted, Override, Extends
<1>5. ASSUME NEW k \in Loaders PROVE LoadEffect(k)'
  <2>1. loader'[k].pc \in {"idle", "done", "failed", "begin"}
    BY <1>1, <1>2, Alone
  <2> QED
    BY <2>1 DEF LoadEffect, HasTags
<1>6. l \in Underway'
  BY <1>0, <1>2 DEF Underway
<1> QED
  BY <1>3, <1>4, <1>5, <1>6 DEF Effect, Applied, Synced

LEMMA MovedEffect ==
  ASSUME TypeOK, Effect, MCNext, NEW l \in Loaders, NEW rec, Goes(l, rec),
         loader[l].pc \notin {"idle", "sync"}, rec.pc = "tagsQuery" \/ rec.pc \in HasTags,
         UNCHANGED <<dbVars, alarms>>, meta' = meta \/ meta' = dbTags,
         LoadEffect(l)'
  PROVE  Effect'
<1>1. \A k \in Loaders : loader'[k] = IF k = l THEN rec ELSE loader[k]
  BY DEF Goes, TypeOK
<1>2. file' = file
  BY <1>1, FilesStay DEF At, Loaders, HasTags
<1>3. \A k \in Loaders : LoadEffect(k)'
  BY <1>1, <1>2 DEF Effect, LoadEffect, dbVars
<1>4. l \in Underway'
  BY <1>1 DEF Underway, HasTags
<1>5. Synced'
  <2>1. (\A k \in Loaders : ~ At(k, "sync")') => \A k \in Loaders : ~ At(k, "sync")
    BY <1>1 DEF At
  <2> QED
    BY <1>2, <2>1 DEF Effect, Synced, At, dbVars
<1> QED
  BY <1>3, <1>4, <1>5 DEF Effect, Applied

\* A load reads what the database holds; the other load of the start-up does not change it.
LEMMA MovingEffect ==
  ASSUME TypeOK, Effect, NEW l \in Loaders, MCNext,
         LoadBegins(l) \/ TagsRead(l) \/ TagsApplied(l) \/ AlarmsRead(l)
  PROVE  Effect'
<1>0. DOMAIN loader = Loaders /\ LoadEffect(l)
  BY DEF TypeOK, Effect
<1>1. CASE LoadBegins(l)
  <2>1. PICK rec : rec = Call("tagsQuery", InitialConfig, ActiveAlarms, <<>>, <<>>)
    OBVIOUS
  <2>2. Goes(l, rec) /\ rec.pc = "tagsQuery" /\ loader[l].pc = "begin" /\ loader'[l] = rec
    BY <1>0, <1>1, <2>1 DEF LoadBegins, Call, At, Goes
  <2>3. UNCHANGED <<dbVars, alarms, meta>>
    BY <1>1 DEF LoadBegins, defVars
  <2>4. LoadEffect(l)'
    BY <2>2 DEF LoadEffect, HasTags
  <2> QED
    BY <2>2, <2>3, <2>4, MovedEffect
<1>2. CASE TagsRead(l)
  <2>1. PICK rec : rec = Call("tagsRead", InitialConfig, loader[l].active, dbTags, <<>>)
    OBVIOUS
  <2>2. /\ Goes(l, rec) /\ rec.pc = "tagsRead" /\ rec.tags = dbTags
        /\ loader[l].pc = "tagsQuery" /\ loader'[l] = rec
    BY <1>0, <1>2, <2>1 DEF TagsRead, Call, At, Goes
  <2>3. UNCHANGED <<dbVars, alarms, meta>>
    BY <1>2 DEF TagsRead, defVars
  <2>4. LoadEffect(l)'
    BY <2>2, <2>3 DEF LoadEffect, HasTags, dbVars
  <2> QED
    BY <2>2, <2>3, <2>4, MovedEffect DEF HasTags
<1>3. CASE TagsApplied(l)
  <2>1. PICK rec : rec = Call("alarmsQuery", InitialConfig, loader[l].active, loader[l].tags, <<>>)
    OBVIOUS
  <2>2. /\ Goes(l, rec) /\ rec.pc = "alarmsQuery" /\ rec.tags = loader[l].tags
        /\ loader[l].pc = "tagsRead" /\ loader'[l] = rec
    BY <1>0, <1>3, <2>1 DEF TagsApplied, Call, At, Goes
  <2>3. UNCHANGED <<dbVars, alarms>> /\ meta' = loader[l].tags
    BY <1>3 DEF TagsApplied
  <2>4. loader[l].tags = dbTags
    BY <1>0, <2>2 DEF LoadEffect, HasTags
  <2>5. LoadEffect(l)'
    BY <2>2, <2>3, <2>4 DEF LoadEffect, HasTags, dbVars
  <2> QED
    BY <2>2, <2>3, <2>4, <2>5, MovedEffect DEF HasTags
<1>4. CASE AlarmsRead(l)
  <2>1. PICK rec : rec = Call("alarmsRead", InitialConfig, loader[l].active, loader[l].tags, dbAlarms)
    OBVIOUS
  <2>2. /\ Goes(l, rec) /\ rec.pc = "alarmsRead" /\ rec.tags = loader[l].tags /\ rec.alarms = dbAlarms
        /\ loader[l].pc = "alarmsQuery" /\ loader'[l] = rec
    BY <1>0, <1>4, <2>1 DEF AlarmsRead, Call, At, Goes
  <2>3. UNCHANGED <<dbVars, alarms, meta>>
    BY <1>4 DEF AlarmsRead, defVars
  <2>4. LoadEffect(l)'
    BY <1>0, <2>2, <2>3 DEF LoadEffect, HasTags, dbVars
  <2> QED
    BY <2>2, <2>3, <2>4, MovedEffect DEF HasTags
<1> QED
  BY <1>1, <1>2, <1>3, <1>4

LEMMA AppliedEffect ==
  ASSUME TypeOK, Definitions, Effect, NEW l \in Loaders, MCNext, AlarmsApplied(l)
  PROVE  Effect'
<1>1. /\ loader[l].pc = "alarmsRead" /\ alarms' = Rebuilt(l) /\ UNCHANGED <<dbVars, meta>>
      /\ loader' = [loader EXCEPT ![l] = NoCall("done")]
  BY DEF AlarmsApplied, At, Goes
<1>2. \A k \in Loaders : loader'[k] = IF k = l THEN NoCall("done") ELSE loader[k]
  BY <1>1 DEF TypeOK
<1>3. NoCall("done").pc = "done"
  BY DEF NoCall, Call
<1>4. file' = file
  BY <1>1, <1>2, <1>3, FilesStay DEF At, Loaders
<1>5. ASSUME NEW k \in Loaders PROVE LoadEffect(k)'
  BY <1>1, <1>2, <1>3, <1>4 DEF Effect, LoadEffect, HasTags, dbVars
<1>6. loader[l].tags = dbTags /\ meta = dbTags /\ loader[l].alarms = dbAlarms
  BY <1>1 DEF Effect, LoadEffect, HasTags
<1>7. Known(l) = DOMAIN dbAlarms
  BY <1>6 DEF Known, Definitions, TablesOK
<1>8. Defs' = dbAlarms
  <2>1. DOMAIN alarms' = DOMAIN dbAlarms /\ \A a \in DOMAIN alarms' : alarms'[a].def = dbAlarms[a]
    BY <1>1, <1>6, <1>7 DEF Rebuilt
  <2>2. dbAlarms = [a \in DOMAIN dbAlarms |-> dbAlarms[a]]
    BY DEF TypeOK, Partial
  <2> QED
    BY <2>1, <2>2 DEF Defs
<1>9. Synced'
  <2>1. (\A k \in Loaders : ~ At(k, "sync")') => \A k \in Loaders : ~ At(k, "sync")
    BY <1>1, <1>2 DEF At
  <2> QED
    BY <1>1, <1>4, <2>1 DEF Effect, Synced, At, dbVars
<1> QED
  BY <1>1, <1>5, <1>6, <1>8, <1>9 DEF Effect, Applied, dbVars

LEMMA ShutdownEffect ==
  ASSUME TypeOK, RunLoads, Definitions, Effect, MCNext, Shutdown, ~ SomeLoadFails
  PROVE  Effect'
<1>1. ~ ShutdownLoading
  <2>1. ASSUME ShutdownLoading PROVE FALSE
    <3>1. "run" \in Loaders /\ "run" \notin Reloads /\ DOMAIN loader = Loaders
      BY RunIsLoader DEF TypeOK
    <3>2. loader'["run"].pc = "failed" /\ pc = "load"
      BY <2>1, <3>1 DEF ShutdownLoading, Goes, NoCall, Call
    <3>3. LoadOK("run")
      BY <3>1 DEF Definitions
    <3>4. loader["run"].pc \notin {"idle", "done", "failed"}
      BY <3>1, <3>2, <3>3 DEF LoadOK, RunLoads
    <3> QED
      BY <3>1, <3>2, <3>4 DEF SomeLoadFails, Underway
  <2> QED
    BY <2>1
<1>2. loader' = loader
  BY <1>1 DEF Shutdown, ShutdownWaiting, ShutdownJournalling, ShutdownFlushing, ShutdownDead
<1>3. UNCHANGED <<dbVars, meta, alarms>>
  BY DEF Shutdown, defVars
<1> QED
  BY <1>2, <1>3, SameLoaders, EffectStays DEF Defs

LEMMA EffectStep ==
  ASSUME TypeOK, RunLoads, Definitions, Effect, MCNext, ~ Overlap, ~ SomeLoadFails
  PROVE  Overlap' \/ Effect'
<1>1. CASE Emit \/ Flusher
  <2>1. UNCHANGED <<dbVars, meta, alarms, loader>>
    BY <1>1 DEF Emit, Flusher, FlusherWakes, FlusherCommitted, FlusherFailed, defVars
  <2> QED
    BY <2>1, SameLoaders, EffectStays DEF Defs
<1>2. CASE Consumer
  <2>1. UNCHANGED <<dbVars, meta, loader>>
    BY <1>2, ConsumerKeepsDb
  <2>2. Ended \/ SameDefs
    BY <1>2, ConsumerIs DEF Definitions
  <2> QED
    BY <2>1, <2>2, SameDefinitions, SameLoaders, EffectStays
<1>3. ASSUME NEW l \in Loaders, Load(l) PROVE Effect'
  BY <1>3, MovingEffect, AppliedEffect DEF Load
<1>4. ASSUME NEW l \in Loaders, LoadFailed(l) PROVE FALSE
  <2>1. loader[l].pc \notin {"idle", "done", "failed"} /\ loader'[l].pc = "failed"
    BY <1>4 DEF LoadFailed, Goes, NoCall, Call, TypeOK
  <2> QED
    BY <2>1 DEF SomeLoadFails, Underway
<1>5. ASSUME NEW l \in Reloads, ReloadRequested(l) PROVE Overlap' \/ Effect'
  BY <1>5, RequestedEffect
<1>6. ASSUME NEW l \in Reloads, SyncCommitted(l) PROVE Effect'
  BY <1>6, SyncedEffect
<1>7. CASE Shutdown
  BY <1>7, ShutdownEffect
<1> QED
  BY <1>1, <1>2, <1>3, <1>4, <1>5, <1>6, <1>7 DEF MCNext, Next

LEMMA EffectMeans ==
  ASSUME overlapped \/ Overlap \/ Effect
  PROVE  ReloadTakesEffect
<1> SUFFICES ASSUME Underway = {}, ~ overlapped
             PROVE  /\ meta = dbTags /\ Defs = dbAlarms
                    /\ Extends(meta, file.tags) /\ Extends(dbAlarms, file.alarms)
  BY DEF ReloadTakesEffect, Defs
<1>1. Effect
  BY DEF Overlap
<1>2. \A l \in Loaders : ~ At(l, "sync")
  BY DEF Underway, At
<1> QED
  BY <1>1, <1>2 DEF Effect, Applied, Synced

\* The docstring of reload_config (edits "take effect immediately"), as far as it is true, for
\* any number of reloads: whenever no load is under way, and as long as no reload overlapped another load
\* and none failed, the pipeline works with what the database holds, and that includes what
\* the last request read from the files (ReloadTakesEffect).
THEOREM ReloadApplies == MCSpec => []ReloadTakesEffect
<1> DEFINE Inv == overlapped \/ Overlap \/ Effect
<1>1. MCInit => Inv
  BY EffectInit
<1>2. ASSUME TypeOK, RunLoads, Definitions, Inv, [MCNext]_<<vars, raced, overlapped, file>>
      PROVE  Inv'
  <2>1. CASE MCNext
    <3>1. overlapped' <=> overlapped \/ SomeLoadFails \/ Overlap
      BY <2>1 DEF MCNext, SomeLoadFails, Overlap
    <3> QED
      BY <1>2, <2>1, <3>1, EffectStep
  <2>2. CASE UNCHANGED <<vars, raced, overlapped, file>>
    <3>1. UNCHANGED <<loader, dbVars, meta, alarms, file, overlapped>>
      BY <2>2 DEF vars, defVars
    <3>2. Overlap' <=> Overlap
      BY <3>1 DEF Overlap, Underway
    <3> QED
      BY <1>2, <3>1, <3>2, EffectStays DEF Defs
  <2> QED
    BY <1>2, <2>1, <2>2
<1>3. Inv => ReloadTakesEffect
  BY EffectMeans
<1> QED
  BY <1>1, <1>2, <1>3, Always, PTL DEF MCSpec

-----------------------------------------------------------------------------
(* The archive follows the live values.                                      *)

\* A remembered number is archived; a live value is within the deadband of an archived one.
LastOK(t) ==
  (meta[t].type \in {"float", "int"} /\ last[t].kind = "number") =>
    \E r \in Archived : r.tag = t /\ r.float = last[t]

Follows(t) ==
  (live[t] # NoSample /\ meta[t].archive) =>
    \E r \in Archived : r.tag = t /\ Near(meta[t], FloatOf(live[t].value, meta[t].type), r.float)

\* The sample at hand is the live one, and its definition the current one.
HandIs(w) == w.sample.tag \in DOMAIN meta /\ w.meta = meta[w.sample.tag] /\ live[w.sample.tag] = w.sample

Tracks ==
  /\ \A t \in DOMAIN meta : LastOK(t)
  /\ \A t \in DOMAIN meta : (pc = "journal" /\ t = work.sample.tag) \/ Follows(t)
  /\ pc = "journal" => HandIs(work)

\* The consumer lives, and nothing was lost.
Going == pc \in {"load", "get", "journal", "flush"} /\ failures = 0
Tracking == Going => Tracks

\* Before the loads of the start-up are over nothing is live.
Fresh == ~ Started \/ pc = "load" => \A t \in Tags : live[t] = NoSample /\ last[t] = Null

LEMMA LoopArchived ==
  ASSUME NEW b, NEW r, NEW d, LoopHead(b, r, d), pc' \notin {"done", "final"}
  PROVE  Archived' = r \cup b \cup flBatch /\ pc' = "get"
BY UnwindNotLoading DEF LoopHead, Archived, flushVars

LEMMA HandlingArchived ==
  ASSUME NEW b, NEW d, AfterHandling(b, d), pc' \notin {"done", "final"}
  PROVE  Archived' = rows \cup b \cup flBatch /\ pc' \in {"get", "flush"}
<1>1. CASE Full(b)
  BY <1>1 DEF AfterHandling, Archived, flushVars
<1>2. CASE ~ Full(b)
  <2>1. LoopHead(b, rows, d)
    BY <1>2 DEF AfterHandling
  <2> QED
    BY <2>1, LoopArchived
<1> QED
  BY <1>1, <1>2

LEMMA NumbersParse ==
  ASSUME NEW v, NEW type \in {"float", "int"}, v.kind = "number"
  PROVE  FloatOf(v, type) # Null
<1>1. FloatOf(v, type).kind = "number"
  BY DEF FloatOf, ParsesAsFloat, ParsesAsInt, Number
<1>2. Null.kind = "null"
  BY DEF Null
<1> QED
  BY <1>1, <1>2

\* What the end of a sample's handling leaves of its tag.
Handled(s, m) ==
  /\ Archived \subseteq Archived' /\ pc' \in {"get", "flush"}
  /\ \A u \in Tags : u # s.tag => last'[u] = last[u]
  /\ (m.type \in {"float", "int"} /\ last'[s.tag].kind = "number") =>
       \E r \in Archived' : r.tag = s.tag /\ r.float = last'[s.tag]
  /\ m.archive =>
       \E r \in Archived' : r.tag = s.tag /\ Near(m, FloatOf(s.value, m.type), r.float)

LEMMA ArchiveHandles ==
  ASSUME TypeOK, batch = {}, NEW s, s.tag \in DOMAIN meta, LastOK(s.tag),
         Archive(s, meta[s.tag]), pc' \notin {"done", "final"}
  PROVE  Handled(s, meta[s.tag])
<1>1. PICK m : m = meta[s.tag]
  OBVIOUS
<1>2. PICK float : float = FloatOf(s.value, m.type)
  OBVIOUS
<1>3. /\ s.tag \in Tags /\ last \in [Tags -> Value]
      /\ Archived = rows \cup buffer \cup flBatch
  BY DEF TypeOK, Partial, Archived
<1>4. (m.type \in {"float", "int"} /\ last[s.tag].kind = "number") =>
        \E r \in Archived : r.tag = s.tag /\ r.float = last[s.tag]
  BY <1>1 DEF LastOK
<1>5. CASE Unarchived(s, m)
  <2>1. Archived' = Archived /\ pc' \in {"get", "flush"} /\ last' = last /\ ~ m.archive
    BY <1>3, <1>5, HandlingArchived DEF Unarchived
  <2> QED
    BY <1>1, <1>4, <2>1 DEF Handled
<1>6. CASE DeadbandCheckRaises(s, m)
  BY <1>6, UnwindNotLoading DEF DeadbandCheckRaises
<1>7. CASE Filtered(s, m)
  <2>1. Archived' = Archived /\ pc' \in {"get", "flush"} /\ last' = last
    BY <1>3, <1>7, HandlingArchived DEF Filtered
  <2>2. WithinDeadband(m, float, last[s.tag])
    BY <1>2, <1>7 DEF Filtered
  <2>3. m.type \in {"float", "int"}
    BY <1>2, <2>2 DEF WithinDeadband, Compares, FloatOf
  <2>4. PICK r \in Archived : r.tag = s.tag /\ r.float = last[s.tag]
    BY <1>4, <2>2, <2>3 DEF WithinDeadband
  <2>5. Near(m, float, r.float)
    BY <2>2, <2>4 DEF WithinDeadband, Near
  <2> QED
    BY <1>1, <1>2, <1>4, <2>1, <2>4, <2>5 DEF Handled
<1>8. CASE Stored(s, m)
  <2>1. PICK row : row = [id |-> s.id, tag |-> s.tag, float |-> float]
    OBVIOUS
  <2>2. AfterHandling(buffer \cup {row}, dropped) /\ last' = [last EXCEPT ![s.tag] = Remembered(s.value, float)]
    BY <1>2, <1>8, <2>1 DEF Stored
  <2>3. Archived' = rows \cup (buffer \cup {row}) \cup flBatch /\ pc' \in {"get", "flush"}
    BY <2>2, HandlingArchived
  <2>4. row \in Archived' /\ Archived \subseteq Archived' /\ row.tag = s.tag /\ row.float = float
    BY <1>3, <2>1, <2>3
  <2>5. last'[s.tag] = Remembered(s.value, float) /\ \A u \in Tags : u # s.tag => last'[u] = last[u]
    BY <1>3, <2>2
  <2>6. m.type \in {"float", "int"} /\ last'[s.tag].kind = "number" => last'[s.tag] = float
    BY <1>2, <2>5, NumbersParse DEF Remembered
  <2>7. Near(m, float, row.float)
    BY <2>4 DEF Near
  <2> QED
    BY <1>1, <1>2, <2>3, <2>4, <2>5, <2>6, <2>7 DEF Handled
<1> QED
  BY <1>1, <1>5, <1>6, <1>7, <1>8 DEF Archive

\* Rows are kept, and nothing else of it changes.
LEMMA TracksStay ==
  ASSUME TypeOK, Tracks, Archived \subseteq Archived', UNCHANGED <<meta, live, last>>,
         UNCHANGED <<pc, work>> \/ (pc # "journal" /\ pc' # "journal")
  PROVE  Tracks'
<1>1. \A t \in DOMAIN meta : LastOK(t)'
  BY DEF Tracks, LastOK
<1>2. \A t \in DOMAIN meta : Follows(t) => Follows(t)'
  BY DEF Follows
<1> QED
  BY <1>1, <1>2 DEF Tracks, HandIs

\* A sample of a known tag is handled, or its alarms are: from the take, or from the hand.
LEMMA EvaluateTracks ==
  ASSUME TypeOK, batch = {}, NEW w, HandOK(w), Evaluate(w), UNCHANGED meta,
         pc' \notin {"done", "final"},
         \A t \in DOMAIN meta : LastOK(t),
         \A t \in DOMAIN meta : t = w.sample.tag \/ Follows(t),
         w.sample.tag \in DOMAIN meta, w.meta = meta[w.sample.tag],
         live'[w.sample.tag] = w.sample,
         \A t \in DOMAIN meta : t = w.sample.tag \/ live'[t] = live[t]
  PROVE  Tracks'
<1> DEFINE s == w.sample
<1>0. DOMAIN meta \subseteq Tags
  BY DEF TypeOK, Partial
<1>1. CASE Flip(w)
  <2>1. Archived' = Archived /\ last' = last /\ pc' = "journal"
    BY <1>1 DEF Flip, Archived, flushVars
  <2>2. work'.sample = w.sample /\ work'.meta = w.meta
    BY <1>1 DEF Flip, HandOK
  <2>3. \A t \in DOMAIN meta : LastOK(t)'
    BY <2>1 DEF LastOK
  <2>4. \A t \in DOMAIN meta : t = w.sample.tag \/ Follows(t)'
    BY <2>1 DEF Follows
  <2>5. HandIs(work)'
    BY <2>2 DEF HandIs
  <2> QED
    BY <2>1, <2>2, <2>3, <2>4, <2>5 DEF Tracks, HandIs
<1>2. CASE Archive(w.sample, w.meta)
  <2>1. Handled(s, meta[s.tag])
    BY <1>2, ArchiveHandles
  <2>2. Archived \subseteq Archived' /\ pc' \in {"get", "flush"} /\ \A u \in Tags : u # s.tag => last'[u] = last[u]
    BY <2>1 DEF Handled
  <2>3. ASSUME NEW t \in DOMAIN meta PROVE LastOK(t)' /\ Follows(t)'
    <3>1. CASE t = s.tag
      <4>1. LastOK(t)'
        BY <2>1, <3>1 DEF Handled, LastOK
      <4>2. Follows(t)'
        BY <2>1, <3>1 DEF Handled, Follows
      <4> QED
        BY <4>1, <4>2
    <3>2. CASE t # s.tag
      <4>1. LastOK(t)'
        BY <1>0, <2>2, <3>2 DEF LastOK
      <4>2. Follows(t)'
        BY <2>2, <3>2 DEF Follows
      <4> QED
        BY <4>1, <4>2
    <3> QED
      BY <3>1, <3>2
  <2> QED
    BY <2>2, <2>3 DEF Tracks
<1> QED
  BY <1>1, <1>2 DEF Evaluate

LEMMA ConsumerTracks ==
  ASSUME TypeOK, Definitions, Aside, Tracks, Consumer, failures = 0, failures' = 0,
         pc' \notin {"done", "final"}
  PROVE  Tracks'
<1>0. meta' = meta
  BY ConsumerKeepsDb
<1>1. failures \in Nat
  BY PipelineAssumption DEF TypeOK
<1>2. CASE Take
  <2> DEFINE s == Head(queue)
             w == [sample |-> s, meta |-> meta[s.tag], states |-> StatesOf(s.tag),
                   cursor |-> 0, detached |-> FALSE]
  <2>1. pc = "get" /\ batch = {}
    BY <1>2 DEF Take, Aside
  <2>2. CASE TakeUnknown(s)
    <3>1. Archived' = Archived /\ pc' \in {"get", "flush"}
      BY <2>1, <2>2, HandlingArchived DEF TakeUnknown, Archived
    <3> QED
      BY <1>0, <2>1, <2>2, <3>1, TracksStay DEF TakeUnknown
  <2>3. CASE TakeUncoercible(s)
    BY <2>3, UnwindNotLoading DEF TakeUncoercible
  <2>4. CASE TakeKnown(s)
    <3>1. s.tag \in DOMAIN meta /\ live' = [live EXCEPT ![s.tag] = s] /\ Evaluate(w)
      BY <2>4 DEF TakeKnown
    <3>2. DOMAIN meta \subseteq Tags /\ DOMAIN live = Tags
      BY DEF TypeOK, Partial
    <3>3. /\ live'[s.tag] = s
          /\ \A t \in DOMAIN meta : t = s.tag \/ live'[t] = live[t]
      BY <3>1, <3>2
    <3>4. HandOK(w)
      <4>1. Partial(StatesOf(s.tag), Alarms, Runtime)
        BY StatesTyped DEF TypeOK
      <4> QED
        BY <4>1 DEF HandOK, Attached, StatesOf
    <3>5. w.sample = s /\ w.meta = meta[s.tag]
      OBVIOUS
    <3>6. (\A t \in DOMAIN meta : LastOK(t)) /\ \A t \in DOMAIN meta : Follows(t)
      BY <2>1 DEF Tracks
    <3> HIDE DEF w
    <3> QED
      BY <1>0, <2>1, <3>1, <3>3, <3>4, <3>5, <3>6, EvaluateTracks
  <2> QED
    BY <1>2, <2>2, <2>3, <2>4 DEF Take
<1>3. CASE JournalWritten
  <2>1. pc = "journal" /\ Evaluate(work) /\ live' = live
    BY <1>3 DEF JournalWritten
  <2>2. HandOK(work) /\ batch = {}
    BY <2>1, WrittenHand DEF Definitions, Hand, Aside
  <2> QED
    BY <1>0, <2>1, <2>2, EvaluateTracks DEF Tracks, HandIs
<1>4. CASE JournalFailed \/ FlushFailed \/ FinalFailed
  BY <1>1, <1>4 DEF JournalFailed, FlushFailed, FinalFailed, Fails
<1>5. CASE FlushCommitted
  <2>1. LoopHead(buffer, rows \cup batch, dropped) /\ UNCHANGED <<live, last>> /\ pc = "flush"
    BY <1>5 DEF FlushCommitted
  <2>2. Archived' = Archived /\ pc' = "get"
    BY <2>1, LoopArchived DEF Archived
  <2> QED
    BY <1>0, <2>1, <2>2, TracksStay
<1>6. CASE FinalCommitted
  BY <1>6 DEF FinalCommitted
<1> QED
  BY <1>2, <1>3, <1>4, <1>5, <1>6 DEF Consumer

LEMMA FlusherTracks ==
  ASSUME TypeOK, Aside, Tracks, Flusher, failures = 0, failures' = 0
  PROVE  Tracks'
<1>1. UNCHANGED <<meta, live, last, pc, work>>
  BY DEF Flusher, FlusherWakes, FlusherCommitted, FlusherFailed, taskVars, defVars
<1>2. Archived \subseteq Archived'
  <2>1. CASE FlusherWakes
    BY <2>1 DEF FlusherWakes, Archived, Aside
  <2>2. CASE FlusherCommitted
    BY <2>2 DEF FlusherCommitted, Archived, taskVars
  <2>3. CASE FlusherFailed
    BY <2>3 DEF FlusherFailed, Fails
  <2> QED
    BY <2>1, <2>2, <2>3 DEF Flusher
<1> QED
  BY <1>1, <1>2, TracksStay

\* Definitions change while nothing is live.
LEMMA LoadTracks ==
  ASSUME Quiet, Reloads = {}, Fresh, TypeOK', NEW l \in Loaders, Load(l) \/ LoadFailed(l)
  PROVE  Tracks'
<1>1. Underway # {}
  <2>1. loader[l].pc \notin {"idle", "done", "failed"}
    BY DEF Load, LoadBegins, TagsRead, TagsApplied, AlarmsRead, AlarmsApplied, LoadFailed, At
  <2> QED
    BY <2>1 DEF Underway
<1>2. ~ Started \/ pc = "load"
  BY <1>1, QuietLoads DEF Quiet
<1>3. pc # "journal" /\ pc' # "journal"
  <2>1. pc # "journal"
    BY <1>2 DEF Quiet, AfterStart
  <2> QED
    BY <2>1
    DEF Load, LoadBegins, TagsRead, TagsApplied, AlarmsRead, AlarmsApplied, LoadFailed, taskVars
<1>4. UNCHANGED <<live, last>>
  BY DEF Load, LoadBegins, TagsRead, TagsApplied, AlarmsRead, AlarmsApplied, LoadFailed, taskVars
<1>5. DOMAIN meta' \subseteq Tags
  BY DEF TypeOK, Partial
<1>6. \A t \in DOMAIN meta' : live'[t] = NoSample /\ last'[t].kind = "null"
  BY <1>2, <1>4, <1>5 DEF Fresh, Null
<1> QED
  BY <1>3, <1>6 DEF Tracks, LastOK, Follows

LEMMA TrackingKept ==
  ASSUME Quiet, Aside, Reloads = {}, Fresh, Tracking, TypeOK', [Next]_vars
  PROVE  Tracking'
<1> SUFFICES ASSUME pc' \in {"load", "get", "journal", "flush"}, failures' = 0
             PROVE  Tracks'
  BY DEF Tracking, Going
<1>0. failures \in Nat /\ TypeOK /\ Definitions
  BY PipelineAssumption DEF Quiet, TypeOK
<1>1. failures = 0
  BY <1>0 DEF Next, Emit, Consumer, Take, JournalWritten, JournalFailed, FlushCommitted, FlushFailed,
     FinalCommitted, FinalFailed, Flusher, FlusherWakes, FlusherCommitted, FlusherFailed, Load, LoadBegins,
     TagsRead, TagsApplied, AlarmsRead, AlarmsApplied, LoadFailed, ReloadRequested, SyncCommitted, Shutdown,
     Fails, vars
<1>2. CASE Emit \/ UNCHANGED vars
  <2>1. UNCHANGED <<meta, live, last, pc, work, rows, buffer, batch, flBatch>>
    BY <1>2 DEF Emit, taskVars, flushVars, defVars, vars
  <2>2. Archived' = Archived
    BY <2>1 DEF Archived
  <2> QED
    BY <1>0, <1>1, <2>1, <2>2, TracksStay DEF Tracking, Going
<1>3. CASE Consumer
  <2>1. pc \in {"load", "get", "journal", "flush"}
    BY <1>3 DEF Consumer, Take, JournalWritten, JournalFailed, FlushCommitted, FlushFailed, FinalCommitted,
       FinalFailed
  <2> QED
    BY <1>0, <1>1, <1>3, <2>1, ConsumerTracks DEF Tracking, Going
<1>4. CASE Flusher
  <2>1. pc' = pc
    BY <1>4 DEF Flusher, FlusherWakes, FlusherCommitted, FlusherFailed, taskVars
  <2> QED
    BY <1>0, <1>1, <1>4, <2>1, FlusherTracks DEF Tracking, Going
<1>5. CASE \E l \in Loaders : Load(l) \/ LoadFailed(l)
  BY <1>5, LoadTracks
<1>6. CASE Shutdown
  <2>1. ShutdownWaiting /\ UNCHANGED <<pc, work, batch, buffer, flBatch, rows>> /\ pc = "get"
    BY <1>6, UnwindNotLoading DEF Shutdown, ShutdownLoading, ShutdownWaiting, ShutdownJournalling,
       ShutdownFlushing, ShutdownDead, flushVars
  <2>2. UNCHANGED <<meta, live, last>> /\ Archived' = Archived
    BY <1>6, <2>1 DEF Shutdown, defVars, Archived
  <2> QED
    BY <1>0, <1>1, <2>1, <2>2, TracksStay DEF Tracking, Going
<1> QED
  BY <1>2, <1>3, <1>4, <1>5, <1>6 DEF Next

LEMMA FreshKept ==
  ASSUME Quiet, Reloads = {}, Fresh, [Next]_vars
  PROVE  Fresh'
<1>0. TypeOK /\ (Started => Started')
  BY StartedKept DEF Quiet
<1>1. CASE Take \/ JournalWritten
  <2>1. Started
    BY <1>1 DEF Take, JournalWritten, Quiet, AfterStart
  <2>2. pc' # "load"
    BY <1>1, ConsumerNotLoading DEF Consumer
  <2> QED
    BY <1>0, <2>1, <2>2 DEF Fresh
<1>2. CASE ~ Take /\ ~ JournalWritten
  <2>1. UNCHANGED <<live, last>>
    BY <1>2 DEF Next, Emit, Consumer, JournalFailed, FlushCommitted, FlushFailed,
       FinalCommitted, FinalFailed, Flusher, FlusherWakes, FlusherCommitted, FlusherFailed, Load, LoadBegins,
       TagsRead, TagsApplied, AlarmsRead, AlarmsApplied, LoadFailed, Shutdown, taskVars, vars
  <2>2. pc' = "load" => pc = "load"
    BY <1>2, UnwindNotLoading, ConsumerNotLoading
    DEF Next, Emit, Flusher, FlusherWakes, FlusherCommitted, FlusherFailed, Load, LoadBegins,
        TagsRead, TagsApplied, AlarmsRead, AlarmsApplied, LoadFailed, Shutdown, ShutdownLoading, ShutdownWaiting,
        ShutdownJournalling, ShutdownFlushing, ShutdownDead, taskVars, vars
  <2> QED
    BY <1>0, <2>1, <2>2 DEF Fresh
<1> QED
  BY <1>1, <1>2

\* A slow drift cannot hide from the archive: while no database operation failed and nobody
\* asks for a reload, the live value of an archived tag is within the deadband of a value that
\* is archived or about to be, for every type, range and deadband (TrendTracksLive).
THEOREM TrendFollows ==
  ASSUME Reloads = {}
  PROVE  Spec => []TrendTracksLive
<1> DEFINE Inv == Quiet /\ Aside /\ Fresh /\ Tracking
<1>1. Init => Inv
  <2>1. Init => Aside /\ Fresh /\ Tracking
    BY DEF Init, Aside, Fresh, Tracking, Tracks
  <2> QED
    BY <2>1, QuietInit
<1>2. Inv /\ [Next]_vars => Inv'
  <2> SUFFICES ASSUME Inv, [Next]_vars PROVE Inv'
    OBVIOUS
  <2>1. Quiet' /\ TypeOK'
    BY QuietKept DEF Quiet
  <2>2. Aside'
    BY NextAside DEF Quiet
  <2>3. Fresh'
    BY FreshKept
  <2>4. Tracking'
    BY <2>1, TrackingKept
  <2> QED
    BY <2>1, <2>2, <2>3, <2>4
<1>3. Inv => TrendTracksLive
  BY DEF TrendTracksLive, Tracking, Going, Tracks, Follows
<1> QED
  BY <1>1, <1>2, <1>3, PTL DEF Spec
=============================================================================
