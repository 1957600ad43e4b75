--------------------------- MODULE MCJournalProofs ----------------------------
(***************************************************************************)
(* The journal tells the state of the alarms, for every number of alarms,  *)
(* operators, filters and restarts, and every page size; and what its users*)
(* are told is true.                                                       *)
(*                                                                         *)
(* The inductive invariant Inv says that the entries of the table and those*)
(* under way bear distinct stamps already given, that what an operator is  *)
(* committing is an acknowledgement, and that the entry the consumer is    *)
(* committing is newer than every change it wrote since the program        *)
(* started and tells what its memory holds.                                *)
(***************************************************************************)
EXTENDS MCJournal, Integers, FiniteSetTheorems, WellFoundedInduction, TLAPS

Pending == {o \in Operators : ack[o].pc = "commit"}

Ack == [pc : {"idle", "read", "commit"}, alarm : Alarms \cup {0}, row : Row \cup {NoRow}]
Page == [offset : Nat, filter : Filters, more : BOOLEAN, shown : SUBSET Row]

\* The domains, with what the functions and records are in full.
Typed ==
  /\ clock \in 0 .. MaxEvents
  /\ rows \subseteq Row
  /\ active \in [Alarms -> BOOLEAN] /\ alive \in BOOLEAN
  /\ writing \in Row \cup {NoRow}
  /\ ack \in [Operators -> Ack]
  /\ \A o \in Operators : ack[o].pc # "idle" => ack[o].row \in Row
  /\ page \in Page
  /\ asked \subseteq Request
  /\ restarts \in 0 .. MaxRestarts /\ bootedAt \in 0 .. clock

\* No entry bears a stamp not yet given, and no two of them the same.
Stamped ==
  /\ \A e \in rows : e.ts <= clock
  /\ writing.ts <= clock
  /\ \A o \in Operators : ack[o].pc # "idle" => ack[o].row.ts <= clock
  /\ \A e, x \in rows : e.ts = x.ts => e = x
  /\ \A e \in rows : e.ts # writing.ts
  /\ \A e \in rows, o \in Pending : e.ts # ack[o].row.ts
  /\ \A o, p \in Pending : ack[o].row.ts = ack[p].row.ts => o = p
  /\ \A o \in Pending : ack[o].row.ts # writing.ts

\* What a page shows fits on it, and the bound on the requests holds.
Paged ==
  /\ IsFiniteSet(asked) /\ Cardinality(asked) <= MaxAsked
  /\ Cardinality(page.shown) <= Limit

\* Operators commit acknowledgements; the consumer commits the newest change of all, and it
\* tells the memory.
Told ==
  /\ \A o \in Pending : ack[o].row.state = "acked"
  /\ writing # NoRow =>
       /\ alive /\ bootedAt < writing.ts
       /\ writing.state = IF active[writing.alarm] THEN "active" ELSE "cleared"
       /\ \A a \in Alarms : \A e \in Changes(a) : e.ts < writing.ts

Inv == Typed /\ Stamped /\ Paged /\ Told /\ JournalTellsState

-----------------------------------------------------------------------------
(* A page holds at most Limit entries.                                       *)

\* A non-empty set of entries has a newest one: the one after which the fewest stamps come,
\* as the strict subsets of a finite set are well founded.
LEMMA NewestExists ==
  ASSUME NEW R \in SUBSET Row, R # {}, JournalAssumption
  PROVE  \E e \in R : \A x \in R : x.ts <= e.ts
<1> DEFINE Later(t) == {n \in Stamps : n > t}
<1> DEFINE T == {Later(e.ts) : e \in R}
<1>1. \A e \in R : e.ts \in Stamps
  BY DEF Row
<1>2. IsFiniteSet(Stamps)
  BY FS_Interval DEF Stamps, JournalAssumption
<1>3. T \subseteq FiniteSubsetsOf(Stamps) /\ T # {}
  <2>1. T \subseteq SUBSET Stamps /\ T # {}
    OBVIOUS
  <2> QED
    BY <2>1, <1>2, FS_FiniteSubsetsOfFinite
<1> HIDE DEF T
<1>4. PICK m \in T : \A y \in T : <<y, m>> \notin StrictSubsetOrdering(Stamps)
  BY <1>3, FS_StrictSubsetOrderingWellFounded, WFMin
<1>5. PICK e \in R : m = Later(e.ts)
  BY <1>4 DEF T
<1>6. ASSUME NEW x \in R, e.ts < x.ts PROVE FALSE
  <2>1. e.ts \in Nat /\ x.ts \in Stamps /\ x.ts \in Nat
    BY <1>1 DEF Stamps
  <2>2. Later(x.ts) \subseteq Later(e.ts) /\ x.ts \in Later(e.ts) /\ x.ts \notin Later(x.ts)
    BY <2>1, <1>6 DEF Stamps
  <2>3. Later(x.ts) \in T
    BY DEF T
  <2>4. Later(x.ts) \in SUBSET Stamps /\ m \in SUBSET Stamps
    BY <1>5
  <2>5. Later(x.ts) \subseteq m /\ Later(x.ts) # m
    BY <2>2, <1>5
  <2> HIDE DEF Later
  <2>6. <<Later(x.ts), m>> \in StrictSubsetOrdering(Stamps)
    BY <2>4, <2>5 DEF StrictSubsetOrdering
  <2> QED
    BY <2>3, <2>6, <1>4
<1>7. ASSUME NEW x \in R PROVE x.ts <= e.ts
  BY <1>1, <1>6 DEF Stamps
<1> QED
  BY <1>7

LEMMA LatestIsAnEntry ==
  ASSUME Typed, JournalAssumption, NEW a \in Alarms, EntriesOf(a) # {}
  PROVE  Latest(a) \in EntriesOf(a) /\ \A x \in EntriesOf(a) : x.ts <= Latest(a).ts
<1>1. EntriesOf(a) \in SUBSET Row
  BY DEF EntriesOf, Typed
<1>2. \E e \in EntriesOf(a) : \A x \in EntriesOf(a) : x.ts <= e.ts
  BY <1>1, NewestExists
<1> QED
  BY <1>2 DEF Latest

\* As the stamps are distinct there are no more entries than stamps.
LEMMA EntriesFinite ==
  ASSUME NEW R \in SUBSET Row, JournalAssumption, \A e, x \in R : e.ts = x.ts => e = x
  PROVE  IsFiniteSet(R)
<1> DEFINE f == [e \in R |-> e.ts]
<1>1. f \in Injection(R, Stamps)
  BY DEF Injection, IsInjective, Row
<1>2. IsFiniteSet(Stamps)
  BY FS_Interval DEF Stamps, JournalAssumption
<1> HIDE DEF f
<1> QED
  BY <1>1, <1>2, FS_Injection

LEMMA MatchingFinite ==
  ASSUME Typed, Stamped, JournalAssumption, NEW f
  PROVE  /\ IsFiniteSet(Matching(f)) /\ Matching(f) \subseteq rows
         /\ \A e \in Matching(f) : e.ts \in Nat
<1>1. Matching(f) \in SUBSET Row /\ Matching(f) \subseteq rows
  BY DEF Matching, Typed
<1>2. IsFiniteSet(Matching(f))
  BY <1>1, EntriesFinite DEF Stamped
<1> QED
  BY <1>1, <1>2 DEF Row, Stamps

\* Different entries have different places in the order from the newest to the oldest.
LEMMA PlacesDiffer ==
  ASSUME Typed, Stamped, JournalAssumption, NEW f
  PROVE  /\ \A e \in Matching(f) : Newer(e, f) \in Nat
         /\ \A e, x \in Matching(f) : Newer(e, f) = Newer(x, f) => e = x
<1> DEFINE After(e) == {x \in Matching(f) : x.ts > e.ts}
<1>1. ASSUME NEW e \in Matching(f)
      PROVE  IsFiniteSet(After(e)) /\ Newer(e, f) \in Nat
  <2>1. After(e) \in SUBSET Matching(f)
    OBVIOUS
  <2>2. IsFiniteSet(After(e))
    BY <2>1, MatchingFinite, FS_Subset
  <2> QED
    BY <2>2, FS_CardinalityType DEF Newer
<1>2. ASSUME NEW e \in Matching(f), NEW x \in Matching(f), e.ts < x.ts
      PROVE  Newer(x, f) # Newer(e, f)
  <2>0. \A y \in Matching(f) : y.ts \in Nat
    BY MatchingFinite
  <2>1. After(x) \in SUBSET After(e) /\ x \in After(e) /\ x \notin After(x)
    BY <2>0, <1>2
  <2>2. IsFiniteSet(After(e))
    BY <1>1
  <2>3. Newer(x, f) = Cardinality(After(x)) /\ Newer(e, f) = Cardinality(After(e))
    BY DEF Newer
  <2> HIDE DEF After
  <2>4. After(x) # After(e)
    BY <2>1
  <2>5. Cardinality(After(x)) # Cardinality(After(e))
    BY <2>1, <2>2, <2>4, FS_Subset
  <2> QED
    BY <2>3, <2>5
<1>3. ASSUME NEW e \in Matching(f), NEW x \in Matching(f), Newer(e, f) = Newer(x, f)
      PROVE  e = x
  <2>1. e.ts \in Nat /\ x.ts \in Nat
    BY MatchingFinite
  <2>2. ~ (e.ts < x.ts)
    BY <1>2, <1>3
  <2>3. ~ (x.ts < e.ts)
    BY <1>2, <1>3
  <2>4. e.ts = x.ts
    BY <2>1, <2>2, <2>3
  <2> QED
    BY <2>4, MatchingFinite DEF Stamped
<1> QED
  BY <1>1, <1>3

\* The answer has no more entries than there are places from the offset to the limit.
LEMMA PageFits ==
  ASSUME Typed, Stamped, JournalAssumption, NEW r \in Request
  PROVE  Events(r) \subseteq rows /\ Cardinality(Events(r)) <= Limit
<1> DEFINE Places == r.offset .. r.offset + Limit - 1
<1> DEFINE f == [e \in Events(r) |-> Newer(e, r.filter)]
<1>1. Matching(r.filter) \subseteq rows /\ Events(r) \subseteq Matching(r.filter)
  BY DEF Events, Fetched, Matching
<1>2. f \in Injection(Events(r), Places)
  <2>1. ASSUME NEW e \in Events(r) PROVE f[e] \in Places
    <3>1. r.offset <= Newer(e, r.filter) /\ Newer(e, r.filter) < r.offset + Limit
      BY DEF Events, Fetched
    <3>2. r.offset \in Nat /\ Limit \in Nat /\ Newer(e, r.filter) \in Nat
      BY <1>1, PlacesDiffer DEF Request, JournalAssumption
    <3> QED
      BY <3>1, <3>2
  <2>2. ASSUME NEW e \in Events(r), NEW x \in Events(r), f[e] = f[x] PROVE e = x
    BY <2>2, <1>1, PlacesDiffer
  <2> QED
    BY <2>1, <2>2 DEF Injection, IsInjective
<1>3. IsFiniteSet(Places) /\ Cardinality(Places) = Limit
  BY FS_Interval, Limit - 1 >= 0 DEF Request, JournalAssumption
<1> HIDE DEF f, Places
<1>4. IsFiniteSet(Events(r)) /\ Cardinality(Events(r)) <= Cardinality(Places)
  BY <1>2, <1>3, FS_Injection
<1> QED
  BY <1>1, <1>3, <1>4

LEMMA RanksCounted ==
  ASSUME NEW n \in Nat
  PROVE  IsFiniteSet(0 .. n - 1) /\ Cardinality(0 .. n - 1) = n
<1>1. n - 1 \in Int
  OBVIOUS
<1>2. IsFiniteSet(0 .. n - 1)
  BY <1>1, FS_Interval
<1>3. CASE n = 0
  <2>1. 0 .. n - 1 = {}
    BY <1>3
  <2> QED
    BY <1>2, <1>3, <2>1, FS_EmptySet
<1>4. CASE n # 0
  <2>1. ~ (0 > n - 1)
    BY <1>4
  <2>2. Cardinality(0 .. n - 1) = IF 0 > n - 1 THEN 0 ELSE n - 1 - 0 + 1
    BY <1>1, FS_Interval
  <2> QED
    BY <1>2, <2>1, <2>2
<1> QED
  BY <1>3, <1>4

\* The places are filled without a gap: when an entry comes after those of the page the
\* answer says that there are more.
LEMMA NoneAfterTheLastPage ==
  ASSUME Typed, Stamped, JournalAssumption, NEW r \in Request,
         NEW e \in Matching(r.filter), r.offset + Limit <= Newer(e, r.filter)
  PROVE  HasMore(r)
<1> DEFINE M == Matching(r.filter)
<1> DEFINE Place(x) == Newer(x, r.filter)
<1> DEFINE Ranks == 0 .. Cardinality(M) - 1
<1> DEFINE f == [x \in M |-> Place(x)]
<1> DEFINE Asked == r.offset .. r.offset + Limit
<1> DEFINE g == [x \in Fetched(r) |-> Place(x)]
<1>1. IsFiniteSet(M) /\ Cardinality(M) \in Nat /\ e \in M
  BY MatchingFinite, FS_CardinalityType
<1>2. ASSUME NEW x \in M PROVE Place(x) \in Ranks
  <2> DEFINE After == {y \in M : y.ts > x.ts}
  <2>1. x.ts \in Nat
    BY MatchingFinite
  <2>2. After \in SUBSET (M \ {x})
    BY <2>1
  <2>3. IsFiniteSet(M \ {x}) /\ Cardinality(M \ {x}) = Cardinality(M) - 1
    BY <1>1, <1>2, FS_RemoveElement
  <2>4. Place(x) = Cardinality(After)
    BY DEF Newer
  <2> HIDE DEF After, M
  <2>5. Cardinality(After) <= Cardinality(M) - 1
    BY <2>2, <2>3, FS_Subset
  <2>6. Place(x) \in Nat
    BY <1>2, PlacesDiffer DEF M
  <2> QED
    BY <1>1, <2>4, <2>5, <2>6
<1>3. f \in Injection(M, Ranks)
  BY <1>2, PlacesDiffer DEF Injection, IsInjective
<1>4. IsFiniteSet(Ranks) /\ Cardinality(Ranks) = Cardinality(M)
  <2> PICK n \in Nat : n = Cardinality(M)
    BY <1>1
  <2> QED
    BY RanksCounted
<1> HIDE DEF f, Ranks
<1>5. f \in Surjection(M, Ranks)
  BY <1>3, <1>4, FS_Injection
<1> USE DEF f, Ranks
<1>6. ASSUME NEW n \in Asked PROVE \E x \in Fetched(r) : Place(x) = n
  <2>1. r.offset \in Nat /\ Limit \in Nat /\ Place(e) \in Ranks
    BY <1>2 DEF Request, JournalAssumption
  <2>2. n \in Ranks
    BY <1>1, <2>1
  <2>3. PICK x \in M : Place(x) = n
    BY <1>5, <2>2 DEF Surjection
  <2> QED
    BY <2>1, <2>3 DEF Fetched
<1>7. g \in Surjection(Fetched(r), Asked)
  <2>1. ASSUME NEW x \in Fetched(r) PROVE Place(x) \in Asked
    <3>1. r.offset <= Place(x) /\ Place(x) <= r.offset + Limit /\ x \in M
      BY DEF Fetched
    <3>2. r.offset \in Nat /\ Limit \in Nat /\ Place(x) \in Nat
      BY <3>1, PlacesDiffer DEF Request, JournalAssumption
    <3> QED
      BY <3>1, <3>2
  <2> HIDE DEF Asked
  <2> QED
    BY <2>1, <1>6 DEF Surjection
<1>8. IsFiniteSet(Fetched(r))
  <2>1. Fetched(r) \in SUBSET M
    BY DEF Fetched
  <2> QED
    BY <1>1, <2>1, FS_Subset
<1>9. Cardinality(Asked) = Limit + 1
  BY FS_Interval DEF Request, JournalAssumption
<1> HIDE DEF g, Asked
<1>10. Cardinality(Asked) <= Cardinality(Fetched(r)) /\ Cardinality(Fetched(r)) \in Nat
  BY <1>7, <1>8, FS_Surjection, FS_CardinalityType
<1> QED
  BY <1>9, <1>10 DEF HasMore, JournalAssumption

-----------------------------------------------------------------------------
(* The invariant holds initially, and every step preserves it.               *)

LEMMA InitInv ==
  ASSUME JournalAssumption, Init
  PROVE  Inv
<1> USE DEF Init
<1>1. Typed
  BY DEF Typed, JournalAssumption, Ack, Page, Idle, Request
<1>2. Stamped
  BY DEF Stamped, Pending, Idle, NoRow
<1>3. Paged
  BY FS_EmptySet DEF Paged, JournalAssumption
<1>4. Told
  BY DEF Told, Pending, Idle
<1>5. JournalTellsState
  BY DEF JournalTellsState, LastIsActivation, Changes, EntriesOf
<1> QED
  BY <1>1, <1>2, <1>3, <1>4, <1>5 DEF Inv

\* What JournalTellsState says depends on the changes, the memory and what is being written.
LEMMA SameChangesTell ==
  ASSUME JournalTellsState, UNCHANGED <<active, writing, alive>>,
         \A a \in Alarms : Changes(a)' = Changes(a)
  PROVE  JournalTellsState'
BY DEF JournalTellsState, BeingWritten, LastIsActivation

LEMMA FlipPreserves ==
  ASSUME JournalAssumption, Inv, NEW a \in Alarms, Flip(a)
  PROVE  Inv'
<1> USE DEF Flip, pageVars, bootVars
<1>0. clock \in Nat /\ clock + 1 \in Stamps /\ writing' \in Row /\ writing' # NoRow
      /\ writing'.ts = clock + 1 /\ writing'.alarm = a /\ bootedAt <= clock
  BY DEF Inv, Typed, Row, State, Stamps, NoRow, JournalAssumption
<1>1. Typed'
  BY <1>0 DEF Inv, Typed, JournalAssumption, Stamps
<1>2. Stamped'
  <2>1. \A e \in rows : e.ts \in Nat /\ e.ts <= clock
    BY DEF Inv, Typed, Stamped, Row, Stamps
  <2>2. \A o \in Operators : ack[o].pc # "idle" => ack[o].row.ts \in Nat
    BY DEF Inv, Typed, Row, Stamps
  <2>3. Pending' = Pending /\ \A o \in Pending : o \in Operators /\ ack[o].pc # "idle"
    BY DEF Pending
  <2> QED
    BY <1>0, <2>1, <2>2, <2>3 DEF Inv, Stamped
<1>3. Paged'
  BY DEF Inv, Paged
<1>4. \A b \in Alarms : Changes(b)' = Changes(b)
  BY DEF Changes, EntriesOf
<1>5. Told'
  <2>1. writing'.state = IF active'[a] THEN "active" ELSE "cleared"
    BY DEF Inv, Typed
  <2>2. \A b \in Alarms : \A e \in Changes(b) : e.ts < clock + 1
    BY <1>0 DEF Inv, Typed, Stamped, Row, Stamps, Changes, EntriesOf
  <2>3. \A o \in Pending' : ack'[o].row.state = "acked"
    BY DEF Inv, Told, Pending
  <2>4. bootedAt < clock + 1
    BY <1>0 DEF Inv, Typed
  <2> QED
    BY <1>0, <1>4, <2>1, <2>2, <2>3, <2>4 DEF Told
<1>6. JournalTellsState'
  <2>1. ASSUME NEW b \in Alarms, b # a PROVE active'[b] = active[b]
    BY <2>1 DEF Inv, Typed
  <2>2. BeingWritten(a)'
    BY <1>0 DEF BeingWritten
  <2>3. \A b \in Alarms : LastIsActivation(b)' = LastIsActivation(b)
    BY <1>4 DEF LastIsActivation
  <2> QED
    BY <2>1, <2>2, <2>3 DEF Inv, JournalTellsState, BeingWritten
<1> QED
  BY <1>1, <1>2, <1>3, <1>5, <1>6 DEF Inv

LEMMA EventCommittedPreserves ==
  ASSUME JournalAssumption, Inv, EventCommitted
  PROVE  Inv'
<1> USE DEF EventCommitted, pageVars, bootVars
<1>0. writing \in Row /\ writing.alarm \in Alarms /\ writing.ts \in Nat \ {0} /\ NoRow.ts = 0
  BY DEF Inv, Typed, Row, Stamps, NoRow
<1>1. Typed'
  BY <1>0 DEF Inv, Typed
<1>2. Stamped'
  <2>1. Pending' = Pending
    BY DEF Pending
  <2>2. clock \in Nat /\ \A e \in rows : e.ts \in Nat /\ e.ts # 0
    BY DEF Inv, Typed, Row, Stamps
  <2>3. \A o \in Pending : ack[o].row.ts # 0
    BY DEF Inv, Typed, Pending, Row, Stamps
  <2> QED
    BY <1>0, <2>1, <2>2, <2>3 DEF Inv, Stamped
<1>3. Paged'
  BY DEF Inv, Paged
<1>4. Told'
  BY DEF Inv, Told, Pending
<1>5. PICK a \in Alarms : a = writing.alarm
  BY <1>0
<1>6. JournalTellsState'
  <2>1. ASSUME NEW b \in Alarms, b # a
        PROVE  Changes(b)' = Changes(b)
    BY <1>5, <2>1 DEF Changes, EntriesOf
  <2>2. Changes(a)' = Changes(a) \cup {writing}
    <3>1. writing.state # "acked" /\ bootedAt < writing.ts
      BY <1>0 DEF Inv, Told
    <3>2. writing.ts > bootedAt
      BY <1>0, <3>1 DEF Inv, Typed
    <3> QED
      BY <1>5, <3>1, <3>2 DEF Changes, EntriesOf
  <2>3. \A x \in Changes(a) : x.ts < writing.ts /\ x.ts \in Nat
    BY <1>0 DEF Inv, Told, Typed, Changes, EntriesOf, Row, Stamps
  <2>4. LastIsActivation(a)' <=> writing.state = "active"
    <3>1. \A x \in Changes(a)' : x.ts <= writing.ts
      BY <1>0, <2>2, <2>3
    <3>2. writing \in Changes(a)'
      BY <2>2
    <3>3. \A e \in Changes(a)' : writing.ts <= e.ts => e = writing
      BY <1>0, <2>2, <2>3
    <3> QED
      BY <3>1, <3>2, <3>3 DEF LastIsActivation
  <2>5. active[a] <=> writing.state = "active"
    BY <1>5 DEF Inv, Told
  <2>6. ASSUME NEW b \in Alarms, b # a
        PROVE  active[b] <=> LastIsActivation(b)'
    <3>1. alive /\ ~ BeingWritten(b)
      BY <1>5, <2>6 DEF Inv, Told, BeingWritten
    <3>2. LastIsActivation(b)' <=> LastIsActivation(b)
      BY <2>1, <2>6 DEF LastIsActivation
    <3> QED
      BY <3>1, <3>2 DEF Inv, JournalTellsState
  <2>7. ASSUME NEW b \in Alarms PROVE active[b] <=> LastIsActivation(b)'
    <3>1. CASE b = a
      BY <2>4, <2>5, <3>1
    <3>2. CASE b # a
      BY <2>6, <3>2
    <3> QED
      BY <3>1, <3>2
  <2>8. active' = active
    OBVIOUS
  <2> QED
    BY <2>7, <2>8 DEF JournalTellsState
<1> QED
  BY <1>1, <1>2, <1>3, <1>4, <1>6 DEF Inv

LEMMA EventFailedPreserves ==
  ASSUME JournalAssumption, Inv, EventFailed
  PROVE  Inv'
<1> USE DEF EventFailed, pageVars, bootVars
<1>1. Typed'
  BY DEF Inv, Typed
<1>2. Stamped'
  <2>1. Pending' = Pending
    BY DEF Pending
  <2>2. clock \in Nat /\ NoRow.ts = 0 /\ \A e \in rows : e.ts # 0
    BY DEF Inv, Typed, Row, Stamps, NoRow
  <2>3. \A o \in Pending : ack[o].row.ts # 0
    BY DEF Inv, Typed, Pending, Row, Stamps
  <2> QED
    BY <2>1, <2>2, <2>3 DEF Inv, Stamped
<1>3. Paged' /\ Told' /\ JournalTellsState'
  BY DEF Inv, Paged, Told, JournalTellsState, Pending
<1> QED
  BY <1>1, <1>2, <1>3 DEF Inv

\* A step that leaves the consumer and the table alone keeps what they tell each other.
LEMMA ConsumerUnchanged ==
  ASSUME Inv, UNCHANGED <<rows, consumerVars, bootVars>>
  PROVE  /\ JournalTellsState'
         /\ (\A o \in Pending' : ack'[o].row.state = "acked") => Told'
<1>1. \A a \in Alarms : Changes(a)' = Changes(a)
  BY DEF Changes, EntriesOf, bootVars
<1>2. JournalTellsState'
  BY <1>1, SameChangesTell DEF Inv, consumerVars
<1> QED
  BY <1>1, <1>2 DEF Inv, Told, consumerVars, bootVars

LEMMA AckReadPreserves ==
  ASSUME JournalAssumption, Inv, NEW o \in Operators, NEW a \in Alarms, AckRead(o, a)
  PROVE  Inv'
<1> USE DEF AckRead, consumerVars, pageVars, bootVars
<1>1. Latest(a) \in rows /\ Latest(a) \in Row /\ Latest(a).ts <= clock
  BY LatestIsAnEntry DEF Inv, Typed, Stamped, EntriesOf
<1>2. Typed'
  BY <1>1 DEF Inv, Typed, Ack
<1>3. Stamped'
  <2>1. Pending' = Pending /\ \A p \in Pending : ack'[p] = ack[p]
    BY DEF Pending, Inv, Typed, Ack
  <2>2. \A p \in Operators : ack'[p].pc # "idle" => ack'[p].row.ts <= clock
    BY <1>1 DEF Inv, Typed, Stamped, Ack
  <2> QED
    BY <2>1, <2>2 DEF Inv, Stamped
<1>4. \A p \in Pending' : ack'[p].row.state = "acked"
  BY DEF Pending, Inv, Typed, Told, Ack
<1>5. Paged'
  BY DEF Inv, Paged
<1> QED
  BY <1>2, <1>3, <1>4, <1>5, ConsumerUnchanged DEF Inv

LEMMA AckStampedPreserves ==
  ASSUME JournalAssumption, Inv, NEW o \in Operators, AckStamped(o)
  PROVE  Inv'
<1> USE DEF AckStamped
<1> DEFINE new == AckEntry(ack[o].row)
<1>0. clock \in Nat /\ clock + 1 \in Stamps /\ bootedAt \in Nat
  BY DEF Inv, Typed, Stamps, JournalAssumption
<1>1. new \in Row /\ new.ts = clock + 1 /\ new.state = "acked"
  BY <1>0 DEF Inv, Typed, AckEntry, Row, State
<1>2. ack'[o].pc = "commit" /\ ack'[o].row = new
      /\ \A p \in Operators \ {o} : ack'[p] = ack[p]
  BY DEF Inv, Typed, Ack
<1>3. ack' \in [Operators -> Ack]
  BY <1>1 DEF Inv, Typed, Ack
<1>u. clock' = clock + 1 /\ UNCHANGED <<rows, consumerVars, page, asked, restarts, bootedAt>>
      /\ UNCHANGED <<active, writing, alive>> /\ ack[o].pc = "read" /\ clock < MaxEvents
  BY DEF consumerVars, pageVars, bootVars
<1> HIDE DEF new, AckStamped
<1>4. Typed'
  <2>1. ASSUME NEW p \in Operators, ack'[p].pc # "idle" PROVE ack'[p].row \in Row
    BY <1>1, <1>2, <2>1 DEF Inv, Typed
  <2>2. clock' \in 0 .. MaxEvents /\ bootedAt \in 0 .. clock'
    BY <1>0, <1>u DEF Inv, Typed, Stamps
  <2> QED
    BY <1>u, <1>3, <2>1, <2>2 DEF Inv, Typed
<1>5. Pending' = Pending \cup {o} /\ o \notin Pending
  BY <1>u, <1>2 DEF Pending
<1>6. Stamped'
  <2>1. \A e \in rows : e.ts \in Nat /\ e.ts <= clock
    BY DEF Inv, Typed, Stamped, Row, Stamps
  <2>2. \A p \in Operators : ack[p].pc # "idle" => ack[p].row.ts \in Nat /\ ack[p].row.ts <= clock
    BY DEF Inv, Typed, Stamped, Row, Stamps
  <2>3. writing.ts \in Nat /\ writing.ts <= clock
    BY DEF Inv, Typed, Stamped, Row, Stamps, NoRow
  <2>4. \A p \in Operators : ack'[p].pc # "idle" => ack'[p].row.ts <= clock + 1
    <3>1. ASSUME NEW p \in Operators \ {o}, ack[p].pc # "idle" PROVE ack[p].row.ts <= clock + 1
      BY <1>0, <2>2, <3>1
    <3> QED
      BY <1>0, <1>1, <1>2, <3>1
  <2>5. \A e \in rows, p \in Pending' : e.ts # ack'[p].row.ts
    <3>1. \A e \in rows : e.ts # clock + 1
      BY <1>0, <2>1
    <3> QED
      BY <1>1, <1>2, <1>5, <3>1 DEF Inv, Stamped, Pending
  <2>6. \A p \in Pending' : p # o => ack'[p].row.ts # clock + 1
    <3>1. \A p \in Pending : ack[p].row.ts # clock + 1
      BY <1>0, <2>2 DEF Pending
    <3> QED
      BY <1>2, <1>5, <3>1 DEF Pending
  <2>7. \A p, q \in Pending' : ack'[p].row.ts = ack'[q].row.ts => p = q
    BY <1>1, <1>2, <1>5, <2>6 DEF Inv, Stamped, Pending
  <2>8. \A p \in Pending' : ack'[p].row.ts # writing.ts
    <3>1. writing.ts # clock + 1
      BY <1>0, <2>3
    <3> QED
      BY <1>1, <1>2, <1>5, <3>1 DEF Inv, Stamped, Pending
  <2>9. (\A e \in rows : e.ts <= clock + 1) /\ writing.ts <= clock + 1
    BY <1>0, <2>1, <2>3
  <2> QED
    BY <1>u, <2>4, <2>5, <2>7, <2>8, <2>9 DEF Inv, Stamped
<1>7. \A p \in Pending' : ack'[p].row.state = "acked"
  BY <1>1, <1>2, <1>5 DEF Inv, Told, Pending
<1>8. Paged'
  BY <1>u DEF Inv, Paged
<1> QED
  BY <1>u, <1>4, <1>6, <1>7, <1>8, ConsumerUnchanged DEF Inv, bootVars

\* The acknowledgement of o is gone from those under way.
LEMMA AckEnded ==
  ASSUME Inv, NEW o \in Operators, ack' = [ack EXCEPT ![o] = Idle]
  PROVE  /\ ack' \in [Operators -> Ack] /\ ack'[o] = Idle
         /\ \A p \in Operators \ {o} : ack'[p] = ack[p]
         /\ Pending' = Pending \ {o}
BY DEF Inv, Typed, Ack, Idle, Pending

LEMMA AckFailedPreserves ==
  ASSUME JournalAssumption, Inv, NEW o \in Operators, AckFailed(o)
  PROVE  Inv'
<1>1. /\ ack' \in [Operators -> Ack] /\ ack'[o] = Idle
      /\ \A p \in Operators \ {o} : ack'[p] = ack[p]
      /\ Pending' = Pending \ {o}
  BY AckEnded DEF AckFailed
<1>2. UNCHANGED <<clock, rows, consumerVars, page, asked, bootVars>>
  BY DEF AckFailed, pageVars
<1>3. Typed'
  BY <1>1, <1>2 DEF Inv, Typed, Idle, consumerVars, bootVars
<1>4. Stamped'
  BY <1>1, <1>2 DEF Inv, Stamped, Idle, Pending, consumerVars
<1>5. \A p \in Pending' : ack'[p].row.state = "acked"
  BY <1>1 DEF Inv, Told, Pending
<1>6. Paged'
  BY <1>2 DEF Inv, Paged
<1> QED
  BY <1>2, <1>3, <1>4, <1>5, <1>6, ConsumerUnchanged DEF Inv

LEMMA AckCommittedPreserves ==
  ASSUME JournalAssumption, Inv, NEW o \in Operators, AckCommitted(o)
  PROVE  Inv'
<1>1. /\ ack' \in [Operators -> Ack] /\ ack'[o] = Idle
      /\ \A p \in Operators \ {o} : ack'[p] = ack[p]
      /\ Pending' = Pending \ {o}
  BY AckEnded DEF AckCommitted
<1>2. /\ UNCHANGED <<clock, active, writing, alive, page, asked, restarts, bootedAt>>
      /\ o \in Pending /\ rows' = rows \cup {ack[o].row}
  BY DEF AckCommitted, Pending, consumerVars, pageVars, bootVars
<1>3. Typed'
  <2>1. rows' \subseteq Row
    BY <1>2 DEF Inv, Typed, Pending
  <2>2. \A p \in Operators : ack'[p].pc # "idle" => ack'[p].row \in Row
    BY <1>1 DEF Inv, Typed, Idle
  <2> QED
    BY <1>1, <1>2, <2>1, <2>2 DEF Inv, Typed
<1>4. Stamped'
  <2>1. \A p \in Operators : ack'[p].pc # "idle" => ack'[p].row.ts <= clock
    BY <1>1 DEF Inv, Stamped, Idle
  <2>2. ack[o].row.ts <= clock /\ ack[o].row.ts # writing.ts
        /\ \A e \in rows : e.ts # ack[o].row.ts
    BY <1>2 DEF Inv, Stamped, Pending
  <2>3. \A e \in rows', p \in Pending' : e.ts # ack'[p].row.ts
    BY <1>1, <1>2 DEF Inv, Stamped, Pending
  <2>4. \A p, q \in Pending' : ack'[p].row.ts = ack'[q].row.ts => p = q
    BY <1>1 DEF Inv, Stamped, Pending
  <2>5. \A p \in Pending' : ack'[p].row.ts # writing.ts
    BY <1>1 DEF Inv, Stamped, Pending
  <2> QED
    BY <1>2, <2>1, <2>2, <2>3, <2>4, <2>5 DEF Inv, Stamped
<1>5. Paged'
  BY <1>2 DEF Inv, Paged
<1>6. \A a \in Alarms : Changes(a)' = Changes(a)
  BY <1>2 DEF Changes, EntriesOf, Inv, Told
<1>7. JournalTellsState'
  BY <1>2, <1>6, SameChangesTell DEF Inv
<1>8. \A p \in Pending' : ack'[p].row.state = "acked"
  BY <1>1 DEF Inv, Told, Pending
<1>9. Told'
  BY <1>2, <1>6, <1>8 DEF Inv, Told
<1> QED
  BY <1>3, <1>4, <1>5, <1>7, <1>9 DEF Inv

\* The history page reads the table: its steps change nothing else.
LEMMA PageStepPreserves ==
  ASSUME Inv, UNCHANGED <<clock, rows, consumerVars, ack, bootVars>>,
         page' \in Page, asked' \subseteq Request, Paged'
  PROVE  Inv'
<1>1. Typed'
  BY DEF Inv, Typed, consumerVars, bootVars
<1>2. Stamped' /\ \A p \in Pending' : ack'[p].row.state = "acked"
  BY DEF Inv, Stamped, Told, Pending, consumerVars
<1> QED
  BY <1>1, <1>2, ConsumerUnchanged DEF Inv

LEMMA LoadPreserves ==
  ASSUME JournalAssumption, Inv, NEW f \in Filters, NEW offset \in Nat, Load(f, offset)
  PROVE  Inv'
<1> DEFINE r == [filter |-> f, offset |-> offset]
<1>1. /\ asked' = asked \cup {r} /\ Cardinality(asked) < MaxAsked
      /\ page' = [page EXCEPT !.filter = f, !.offset = offset]
  BY DEF Load
<1>2. page' \in Page /\ page'.shown = page.shown /\ r \in Request
  BY <1>1 DEF Inv, Typed, Page, Request
<1> HIDE DEF r
<1>3. Cardinality(asked) \in Nat /\ Cardinality(asked') <= Cardinality(asked) + 1
      /\ IsFiniteSet(asked')
  <2>1. IsFiniteSet(asked)
    BY DEF Inv, Paged
  <2>2. Cardinality(asked) \in Nat
    BY <2>1, FS_CardinalityType
  <2>3. IsFiniteSet(asked \cup {r})
        /\ Cardinality(asked \cup {r}) \in {Cardinality(asked), Cardinality(asked) + 1}
    BY <2>1, FS_AddElement
  <2> QED
    BY <1>1, <2>2, <2>3
<1>4. Cardinality(asked') <= MaxAsked
  <2>1. Cardinality(asked') \in Nat
    BY <1>3, FS_CardinalityType
  <2> QED
    BY <1>1, <1>3, <2>1 DEF JournalAssumption
<1>5. Paged'
  BY <1>2, <1>3, <1>4 DEF Inv, Paged
<1>6. asked' \subseteq Request
  BY <1>1, <1>2 DEF Inv, Typed
<1> QED
  BY <1>2, <1>5, <1>6, PageStepPreserves DEF Load

LEMMA PageActionsPreserve ==
  ASSUME JournalAssumption, Inv,
         (\E f \in Filters : Search(f)) \/ NextPage \/ PreviousPage
           \/ \E r \in asked : Answered(r) \/ PageFailed(r)
  PROVE  Inv'
<1>0. page.filter \in Filters /\ page.offset \in Nat /\ Limit \in Nat
  BY DEF Inv, Typed, Page, JournalAssumption
<1>1. CASE \E f \in Filters : Search(f)
  BY <1>1, LoadPreserves DEF Search
<1>2. CASE NextPage
  BY <1>0, <1>2, LoadPreserves DEF NextPage, NextOffset
<1>3. CASE PreviousPage
  <2> DEFINE back == IF page.offset > Limit THEN page.offset - Limit ELSE 0
  <2>1. back \in Nat
    BY <1>0
  <2> QED
    BY <1>0, <1>3, <2>1, LoadPreserves DEF PreviousPage
<1>4. ASSUME NEW r \in asked, Answered(r) \/ PageFailed(r) PROVE Inv'
  <2>0. UNCHANGED <<clock, rows, consumerVars, ack, bootVars>> /\ asked' = asked \ {r}
    BY <1>4 DEF Answered, PageFailed
  <2>1. asked' \subseteq Request /\ r \in Request
    BY <2>0 DEF Inv, Typed
  <2>2. IsFiniteSet(asked') /\ Cardinality(asked') <= MaxAsked
    <3>1. asked' \in SUBSET asked /\ IsFiniteSet(asked) /\ Cardinality(asked) <= MaxAsked
      BY <2>0 DEF Inv, Paged
    <3>2. IsFiniteSet(asked') /\ Cardinality(asked') <= Cardinality(asked)
      BY <3>1, FS_Subset
    <3>3. Cardinality(asked') \in Nat /\ Cardinality(asked) \in Nat
      BY <3>1, <3>2, FS_CardinalityType
    <3> QED
      BY <3>1, <3>2, <3>3 DEF JournalAssumption
  <2>3. Events(r) \subseteq rows /\ Cardinality(Events(r)) <= Limit
    BY <2>1, PageFits DEF Inv
  <2>4. CASE Answered(r)
    <3>1. page' = [page EXCEPT !.more = HasMore(r), !.shown = Events(r)]
      BY <2>4 DEF Answered
    <3>2. HasMore(r) \in BOOLEAN
      BY DEF HasMore
    <3>3. page' \in Page /\ page'.shown = Events(r)
      BY <2>3, <3>1, <3>2 DEF Inv, Typed, Page
    <3> QED
      BY <2>0, <2>1, <2>2, <2>3, <3>3, PageStepPreserves DEF Paged
  <2>5. CASE PageFailed(r)
    <3>1. page' \in Page /\ page'.shown = {}
      BY <2>5 DEF PageFailed, Inv, Typed, Page
    <3>2. Cardinality(page'.shown) <= Limit
      BY <1>0, <3>1, FS_EmptySet
    <3> QED
      BY <2>0, <2>1, <2>2, <3>1, <3>2, PageStepPreserves DEF Paged
  <2> QED
    BY <1>4, <2>4, <2>5
<1> QED
  BY <1>1, <1>2, <1>3, <1>4

\* Whatever of the commits under way reached the table, no change is newer than the start.
LEMMA RestartPreserves ==
  ASSUME JournalAssumption, Inv, Restart
  PROVE  Inv'
<1> DEFINE off == [o \in Operators |-> Idle]
<1>1. PICK R \in SUBSET UnderWay : rows' = rows \cup R
  BY DEF Restart
<1>2. /\ active' = [a \in Alarms |-> FALSE] /\ writing' = NoRow /\ alive' = TRUE
      /\ ack' = off /\ bootedAt' = clock /\ clock' = clock /\ asked' = {}
      /\ restarts < MaxRestarts /\ restarts' = restarts + 1
      /\ page' \in {page, [page EXCEPT !.shown = {}]}
  BY DEF Restart
<1>3. clock \in Nat /\ NoRow.ts = 0
  BY DEF Inv, Typed, NoRow
<1>4. \A e \in R : \/ e = writing /\ writing \in Row
                   \/ \E o \in Pending : e = ack[o].row
  BY DEF UnderWay, Pending, Inv, Typed
<1>5. \A e \in rows' : e \in Row /\ e.ts \in Nat /\ e.ts # 0 /\ e.ts <= clock
  <2>1. \A e \in rows' : e \in Row /\ e.ts <= clock
    BY <1>1, <1>4 DEF Inv, Typed, Stamped, Pending
  <2> QED
    BY <2>1 DEF Row, Stamps
<1>6. ack' \in [Operators -> Ack] /\ \A o \in Operators : ack'[o].pc = "idle"
  BY <1>2 DEF Ack, Idle
<1>7. page' \in Page /\ Cardinality(page'.shown) <= Limit
  <2>1. page' \in Page /\ page'.shown \in {page.shown, {}}
    BY <1>2 DEF Inv, Typed, Page
  <2> QED
    BY <2>1, FS_EmptySet DEF Inv, Paged, JournalAssumption
<1>8. Typed'
  <2>1. restarts' \in 0 .. MaxRestarts /\ bootedAt' \in 0 .. clock' /\ clock' \in 0 .. MaxEvents
    BY <1>2, <1>3 DEF Inv, Typed, JournalAssumption
  <2>2. active' \in [Alarms -> BOOLEAN] /\ alive' \in BOOLEAN /\ writing' \in Row \cup {NoRow}
    BY <1>2
  <2> QED
    BY <1>2, <1>5, <1>6, <1>7, <2>1, <2>2 DEF Typed
<1>9. Pending' = {}
  BY <1>6 DEF Pending
<1>10. Stamped'
  <2>1. \A e, x \in rows' : e.ts = x.ts => e = x
    BY <1>1, <1>4 DEF Inv, Stamped
  <2>2. writing'.ts = 0
    BY <1>2, <1>3
  <2> QED
    BY <1>2, <1>3, <1>5, <1>6, <1>9, <2>1, <2>2 DEF Stamped
<1>11. Paged'
  BY <1>2, <1>7, FS_EmptySet DEF Paged, JournalAssumption
<1>12. Told'
  BY <1>2, <1>9 DEF Told
<1>13. JournalTellsState'
  <2>1. \A a \in Alarms : Changes(a)' = {}
    BY <1>2, <1>3, <1>5 DEF Changes, EntriesOf
  <2> QED
    BY <1>2, <2>1 DEF JournalTellsState, LastIsActivation
<1> QED
  BY <1>8, <1>10, <1>11, <1>12, <1>13 DEF Inv

LEMMA NextPreservesInv ==
  ASSUME JournalAssumption, Inv, [Next]_vars
  PROVE  Inv'
<1>1. CASE Consumer
  BY <1>1, FlipPreserves, EventCommittedPreserves, EventFailedPreserves DEF Consumer
<1>2. ASSUME NEW o \in Operators, Acknowledge(o) PROVE Inv'
  BY <1>2, AckReadPreserves, AckStampedPreserves, AckCommittedPreserves, AckFailedPreserves
     DEF Acknowledge
<1>3. CASE (\E f \in Filters : Search(f)) \/ NextPage \/ PreviousPage
             \/ \E r \in asked : Answered(r) \/ PageFailed(r)
  BY <1>3, PageActionsPreserve
<1>4. CASE Restart
  BY <1>4, RestartPreserves
<1>5. CASE UNCHANGED vars
  <2>1. UNCHANGED <<clock, rows, consumerVars, ack, bootVars>> /\ page' = page /\ asked' = asked
    BY <1>5 DEF vars, pageVars
  <2>2. page' \in Page /\ asked' \subseteq Request /\ Paged'
    BY <2>1 DEF Inv, Typed, Paged
  <2> QED
    BY <2>1, <2>2, PageStepPreserves
<1> QED
  BY <1>1, <1>2, <1>3, <1>4, <1>5 DEF Next

THEOREM Invariance == Spec => []Inv
<1>1. Init => Inv
  BY InitInv, JournalAssumption
<1>2. Inv /\ [Next]_vars => Inv'
  BY NextPreservesInv, JournalAssumption
<1> QED
  BY <1>1, <1>2, PTL DEF Spec

\* Every variable of the journal stays in its domain, stamps are only those given, and the
\* history page never shows more than one page of entries.
THEOREM TypeCorrect == Spec => []TypeOK
<1>1. Inv => TypeOK
  BY DEF Inv, Typed, Stamped, Paged, TypeOK, Page, Ack
<1> QED
  BY <1>1, Invariance, PTL

\* While the consumer runs the journal tells the state of every alarm whose entry is not
\* being committed, whatever operators acknowledge and however often the program restarts.
THEOREM JournalIsTold == Spec => []JournalTellsState
<1>1. Inv => JournalTellsState
  BY DEF Inv
<1> QED
  BY <1>1, Invariance, PTL

-----------------------------------------------------------------------------
(* What the users of the journal are told: an acknowledgement that no other*)
(* writer of its alarm met tells what the latest entry tells, and a search *)
(* turned forwards page by page misses nothing.  Both rest on how the table*)
(* grows: it loses no entry, and gains only entries that were under way.   *)

\* A step adds entries that were under way, and what it puts under way bears a new stamp.
Growth ==
  /\ rows \subseteq rows' /\ clock <= clock'
  /\ \A e \in rows' \ rows :
       \/ writing # NoRow /\ e = writing
       \/ \E p \in Pending \ Pending' : e = ack[p].row
  /\ writing' # NoRow => writing' = writing \/ writing'.ts = clock + 1
  /\ \A p \in Operators :
       \/ ack'[p] = ack[p]
       \/ ack'[p].pc = "idle"
       \/ \E a \in Alarms : AckRead(p, a)
       \/ AckStamped(p)

LEMMA StepGrows ==
  ASSUME JournalAssumption, Inv, [Next]_vars
  PROVE  Growth
<1>0. clock \in Nat
  BY DEF Inv, Typed
<1>1. ASSUME NEW a \in Alarms, Flip(a) PROVE Growth
  BY <1>0, <1>1 DEF Flip, Growth, pageVars, bootVars
<1>2. CASE EventCommitted
  BY <1>0, <1>2 DEF EventCommitted, Growth
<1>3. CASE EventFailed
  BY <1>0, <1>3 DEF EventFailed, Growth
<1>4. ASSUME NEW o \in Operators, NEW a \in Alarms, AckRead(o, a) PROVE Growth
  <2>1. \A p \in Operators : p # o => ack'[p] = ack[p]
    BY <1>4 DEF AckRead, Inv, Typed
  <2>2. UNCHANGED <<rows, clock, writing>>
    BY <1>4 DEF AckRead, consumerVars
  <2> QED
    BY <1>0, <1>4, <2>1, <2>2 DEF Growth
<1>5. ASSUME NEW o \in Operators, AckStamped(o) PROVE Growth
  <2>1. \A p \in Operators : p # o => ack'[p] = ack[p]
    BY <1>5 DEF AckStamped, Inv, Typed
  <2>2. UNCHANGED <<rows, writing>> /\ clock' = clock + 1
    BY <1>5 DEF AckStamped, consumerVars
  <2>3. clock <= clock'
    BY <1>0, <2>2
  <2> QED
    BY <1>5, <2>1, <2>2, <2>3 DEF Growth
<1>6. ASSUME NEW o \in Operators, AckCommitted(o) PROVE Growth
  <2>1. \A p \in Operators : p # o => ack'[p] = ack[p]
    BY <1>6 DEF AckCommitted, Inv, Typed
  <2>2. ack'[o].pc = "idle"
    BY <1>6 DEF AckCommitted, Inv, Typed, Idle
  <2>3. UNCHANGED <<clock, writing>> /\ rows' = rows \cup {ack[o].row} /\ o \in Pending
    BY <1>6 DEF AckCommitted, consumerVars, Pending
  <2>4. o \in Pending \ Pending'
    BY <2>2, <2>3 DEF Pending
  <2> QED
    BY <1>0, <2>1, <2>2, <2>3, <2>4 DEF Growth
<1>7. ASSUME NEW o \in Operators, AckFailed(o) PROVE Growth
  <2>1. \A p \in Operators : p # o => ack'[p] = ack[p]
    BY <1>7 DEF AckFailed, Inv, Typed
  <2>2. ack'[o].pc = "idle"
    BY <1>7 DEF AckFailed, Inv, Typed, Idle
  <2>3. UNCHANGED <<rows, clock, writing>>
    BY <1>7 DEF AckFailed, consumerVars
  <2> QED
    BY <1>0, <2>1, <2>2, <2>3 DEF Growth
<1>8. ASSUME UNCHANGED <<clock, rows, consumerVars, ack>> PROVE Growth
  BY <1>0, <1>8 DEF Growth, consumerVars
<1>9. CASE Restart
  <2>1. PICK R \in SUBSET UnderWay : rows' = rows \cup R
    BY <1>9 DEF Restart
  <2>2. \A e \in R : (writing # NoRow /\ e = writing) \/ \E p \in Pending : e = ack[p].row
    BY DEF UnderWay, Pending
  <2>3. clock' = clock /\ writing' = NoRow /\ \A p \in Operators : ack'[p].pc = "idle"
    BY <1>9 DEF Restart, Idle
  <2>4. Pending' = {}
    BY <2>3 DEF Pending
  <2> QED
    BY <1>0, <2>1, <2>2, <2>3, <2>4 DEF Growth
<1>10. CASE Consumer
  BY <1>1, <1>2, <1>3, <1>10 DEF Consumer
<1>11. ASSUME NEW o \in Operators, Acknowledge(o) PROVE Growth
  BY <1>4, <1>5, <1>6, <1>7, <1>11 DEF Acknowledge
<1>12. CASE (\E f \in Filters : Search(f)) \/ NextPage \/ PreviousPage
              \/ \E r \in asked : Answered(r) \/ PageFailed(r)
  BY <1>8, <1>12 DEF Search, NextPage, PreviousPage, Load, Answered, PageFailed
<1>13. CASE UNCHANGED vars
  BY <1>8, <1>13 DEF vars
<1> QED
  BY <1>9, <1>10, <1>11, <1>12, <1>13 DEF Next

\* What the users do, the journal does.
LEMMA UsersStep ==
  ASSUME [MCNext]_mcvars
  PROVE  [Next]_vars
BY DEF MCNext, mcvars, Next

LEMMA UsersKeepInv == MCSpec => []Inv
<1>1. MCInit => Inv
  BY InitInv, JournalAssumption DEF MCInit
<1>2. Inv /\ [MCNext]_mcvars => Inv'
  BY UsersStep, NextPreservesInv, JournalAssumption
<1> QED
  BY <1>1, <1>2, PTL DEF MCSpec

-----------------------------------------------------------------------------
(* Quiet acknowledgements.                                                   *)

\* Entry e is the newest of R, which it belongs to.
NewestOf(e, R) == e \in R /\ \A x \in R : x.ts <= e.ts

BeforeIn(e) == {x \in EntriesOf(e.alarm) : x.ts < e.ts}

\* An operator that met no other writer has read the latest entry of its alarm, and what it
\* is committing tells the same.
UnmetBy(o) ==
  /\ ack[o].pc # "idle" => ~ Meets(o)
  /\ ack[o].pc = "read" => NewestOf(ack[o].row, EntriesOf(ack[o].alarm))
  /\ ack[o].pc = "commit" =>
       \E x \in EntriesOf(ack[o].alarm) :
         /\ NewestOf(x, EntriesOf(ack[o].alarm))
         /\ x.ts < ack[o].row.ts /\ x.tells = ack[o].row.tells
Unmet == \A o \in Operators \ crossed : UnmetBy(o)

\* A quiet acknowledgement e: what precedes it is settled, as every entry of its alarm that
\* is under way is newer.
Settled(e) ==
  /\ e \in rows
  /\ \E x \in BeforeIn(e) : NewestOf(x, BeforeIn(e)) /\ x.tells = e.tells
  /\ writing # NoRow /\ writing.alarm = e.alarm => writing.ts > e.ts
  /\ \A p \in Pending : ack[p].row.alarm = e.alarm => ack[p].row.ts > e.ts

QuietInv ==
  /\ \A o \in Operators : ack[o].pc # "idle" => ack[o].row.alarm = ack[o].alarm
  /\ Unmet
  /\ \A t \in quiet : \E e \in rows : e.ts = t /\ Settled(e)

LEMMA QuietInvImplies ==
  ASSUME Inv, QuietInv
  PROVE  QuietAckTellsLatest
<1> SUFFICES ASSUME NEW t \in quiet
             PROVE  LET e == CHOOSE e \in rows : e.ts = t
                        Before == {x \in EntriesOf(e.alarm) : x.ts < t}
                    IN \E x \in Before : (\A y \in Before : y.ts <= x.ts) /\ x.tells = e.tells
  BY DEF QuietAckTellsLatest
<1>1. PICK e \in rows : e.ts = t /\ Settled(e)
  BY DEF QuietInv
<1>2. (CHOOSE d \in rows : d.ts = t) = e
  BY <1>1 DEF Inv, Stamped
<1> QED
  BY <1>1, <1>2 DEF Settled, NewestOf, BeforeIn

LEMMA RowsKeepAlarms ==
  ASSUME JournalAssumption, Inv, QuietInv, Growth, NEW o \in Operators, ack'[o].pc # "idle"
  PROVE  ack'[o].row.alarm = ack'[o].alarm
<1>1. CASE ack'[o] = ack[o]
  BY <1>1 DEF QuietInv
<1>2. ASSUME NEW a \in Alarms, AckRead(o, a) PROVE ack'[o].row.alarm = ack'[o].alarm
  <2>1. ack'[o] = [pc |-> "read", alarm |-> a, row |-> Latest(a)] /\ EntriesOf(a) # {}
    BY <1>2 DEF AckRead, Inv, Typed
  <2>2. Latest(a).alarm = a
    BY <2>1, LatestIsAnEntry DEF Inv, EntriesOf
  <2> QED
    BY <2>1, <2>2
<1>3. CASE AckStamped(o)
  <2>1. /\ ack[o].pc = "read" /\ ack[o].row \in Row
        /\ ack'[o].alarm = ack[o].alarm /\ ack'[o].row = AckEntry(ack[o].row)
    BY <1>3 DEF AckStamped, Inv, Typed, Ack
  <2> QED
    BY <2>1 DEF QuietInv, AckEntry, Row
<1> QED
  BY <1>1, <1>2, <1>3 DEF Growth

\* No entry of its alarm appears while an operator that met no other writer is at work.
LEMMA UnmetEntriesStay ==
  ASSUME Inv, QuietInv, Growth, NEW o \in Operators \ crossed, ack[o].pc # "idle",
         o \in Pending => o \in Pending'
  PROVE  \A e \in rows' : e.alarm = ack[o].alarm => e \in EntriesOf(ack[o].alarm)
<1>1. ~ Meets(o)
  BY DEF QuietInv, Unmet, UnmetBy
<1>2. ASSUME NEW p \in Pending, p # o PROVE ack[p].row.alarm # ack[o].alarm
  BY <1>1, <1>2 DEF Meets, QuietInv, Pending
<1>3. writing # NoRow => writing.alarm # ack[o].alarm
  BY <1>1 DEF Meets
<1> QED
  BY <1>2, <1>3 DEF Growth, EntriesOf

LEMMA UnmetStep ==
  ASSUME JournalAssumption, Inv, QuietInv, Growth, [MCNext]_mcvars
  PROVE  Unmet'
<1>1. CASE UNCHANGED mcvars
  <2>1. UNCHANGED <<rows, writing, ack, crossed>>
    BY <1>1 DEF mcvars, vars, consumerVars
  <2> QED
    BY <2>1 DEF QuietInv, Unmet, UnmetBy, Meets, NewestOf, EntriesOf
<1>2. ASSUME Watched, NEW o \in Operators \ crossed' PROVE UnmetBy(o)'
  <2>1. CASE ack'[o].pc = "idle"
    BY <2>1 DEF UnmetBy
  <2>2. ASSUME ack'[o].pc # "idle" PROVE (~ Meets(o))' /\ o \in Operators \ crossed
    BY <1>2, <2>2 DEF Watched
  <2>3. CASE ack'[o].pc # "idle" /\ ack'[o] = ack[o]
    <3> PICK a : a = ack[o].alarm
      OBVIOUS
    <3>1. ack[o].pc # "idle" /\ (o \in Pending => o \in Pending')
      BY <2>3 DEF Pending
    <3>2. EntriesOf(a)' = EntriesOf(a)
      BY <2>2, <2>3, <3>1, UnmetEntriesStay DEF EntriesOf, Growth
    <3>3. UnmetBy(o)
      BY <2>2, <2>3 DEF QuietInv, Unmet
    <3> QED
      BY <2>2, <2>3, <3>2, <3>3 DEF UnmetBy
  <2>4. ASSUME NEW a \in Alarms, AckRead(o, a) PROVE UnmetBy(o)'
    <3>1. ack'[o] = [pc |-> "read", alarm |-> a, row |-> Latest(a)] /\ EntriesOf(a) # {}
          /\ rows' = rows
      BY <2>4 DEF AckRead, Inv, Typed
    <3>2. NewestOf(Latest(a), EntriesOf(a))
      BY <3>1, LatestIsAnEntry DEF Inv, NewestOf
    <3>3. EntriesOf(a)' = EntriesOf(a)
      BY <3>1 DEF EntriesOf
    <3>4. ack'[o].pc = "read" /\ ack'[o].alarm = a /\ ack'[o].row = Latest(a)
      BY <3>1
    <3> QED
      BY <2>2, <3>2, <3>3, <3>4 DEF UnmetBy
  <2>5. CASE AckStamped(o)
    <3> PICK a : a = ack[o].alarm
      OBVIOUS
    <3>1. /\ ack[o].pc = "read" /\ ack[o].row \in Row /\ ack'[o].pc = "commit"
          /\ ack'[o].alarm = a /\ ack'[o].row = AckEntry(ack[o].row)
          /\ rows' = rows
      BY <2>5 DEF AckStamped, Inv, Typed, Ack
    <3>2. /\ ack'[o].row.tells = ack[o].row.tells /\ ack'[o].row.ts = clock + 1
          /\ ack[o].row.ts < clock + 1
      BY <3>1 DEF AckEntry, Row, Inv, Typed, Stamped, Stamps
    <3>3. NewestOf(ack[o].row, EntriesOf(a))
      BY <2>2, <3>1 DEF QuietInv, Unmet, UnmetBy
    <3>4. EntriesOf(a)' = EntriesOf(a)
      BY <3>1 DEF EntriesOf
    <3>5. ack[o].row \in EntriesOf(a)
      BY <3>3 DEF NewestOf
    <3>6. \E y \in EntriesOf(a) :
            NewestOf(y, EntriesOf(a)) /\ y.ts < ack'[o].row.ts /\ y.tells = ack'[o].row.tells
      BY <3>2, <3>3, <3>5
    <3> QED
      BY <2>2, <3>1, <3>4, <3>6 DEF UnmetBy
  <2> QED
    BY <2>1, <2>3, <2>4, <2>5 DEF Growth
<1> QED
  BY <1>1, <1>2 DEF MCNext, Unmet

\* What precedes a quiet acknowledgement stays as it is.
LEMMA SettledStays ==
  ASSUME JournalAssumption, Inv, QuietInv, Growth, NEW e \in rows, Settled(e)
  PROVE  Settled(e)'
<1>0. e.ts \in Nat /\ e.ts <= clock /\ clock \in Nat
  BY DEF Inv, Typed, Stamped, Row, Stamps
<1>1. \A d \in rows' \ rows : d.alarm = e.alarm => d.ts > e.ts
  BY DEF Growth, Settled
<1>2. \A d \in rows' \ rows : d.ts \in Nat
  BY DEF Growth, Inv, Typed, Pending, Row, Stamps
<1>3. BeforeIn(e)' = BeforeIn(e)
  BY <1>0, <1>1, <1>2 DEF BeforeIn, EntriesOf, Growth
<1>4. \E x \in BeforeIn(e)' : NewestOf(x, BeforeIn(e)') /\ x.tells = e.tells
  BY <1>3 DEF Settled
<1>5. ASSUME writing' # NoRow, writing'.alarm = e.alarm PROVE writing'.ts > e.ts
  <2>1. CASE writing' = writing
    BY <1>5, <2>1 DEF Settled
  <2>2. CASE writing' # writing
    <3>1. writing'.ts = clock + 1
      BY <1>5, <2>2 DEF Growth
    <3> QED
      BY <3>1, <1>0
  <2> QED
    BY <2>1, <2>2
<1>6. ASSUME NEW p \in Pending', ack'[p].row.alarm = e.alarm PROVE ack'[p].row.ts > e.ts
  <2>0. p \in Operators /\ ack'[p].pc = "commit"
    BY DEF Pending
  <2>1. CASE ack'[p] = ack[p]
    BY <1>6, <2>0, <2>1 DEF Settled, Pending
  <2>2. CASE AckStamped(p)
    <3>1. ack'[p].row = AckEntry(ack[p].row) /\ ack[p].row \in Row
      BY <2>0, <2>2 DEF AckStamped, Inv, Typed, Ack
    <3>2. ack'[p].row.ts = clock + 1
      BY <3>1 DEF AckEntry, Row
    <3> QED
      BY <3>2, <1>0
  <2>3. ASSUME NEW a \in Alarms, AckRead(p, a) PROVE FALSE
    BY <2>0, <2>3 DEF AckRead, Inv, Typed
  <2> QED
    BY <2>0, <2>1, <2>2, <2>3 DEF Growth
<1>7. e \in rows'
  BY DEF Growth
<1> QED
  BY <1>4, <1>5, <1>6, <1>7 DEF Settled

\* An acknowledgement committed by an operator that met no other writer is settled.
LEMMA QuietCommitSettles ==
  ASSUME JournalAssumption, Inv, QuietInv, NEW o \in Operators \ crossed, AckCommitted(o)
  PROVE  \E e \in rows' : e.ts = ack[o].row.ts /\ Settled(e)'
<1> PICK e : e = ack[o].row
  OBVIOUS
<1>1. /\ ack[o].pc = "commit" /\ rows' = rows \cup {e} /\ writing' = writing
      /\ ack'[o].pc = "idle" /\ \A p \in Operators : p # o => ack'[p] = ack[p]
  BY DEF AckCommitted, Inv, Typed, Idle, consumerVars
<1>2. e \in Row /\ e.alarm = ack[o].alarm /\ ~ Meets(o) /\ o \in Pending
  BY <1>1 DEF Inv, Typed, QuietInv, Unmet, UnmetBy, Pending
<1>3. PICK x \in EntriesOf(e.alarm) :
        NewestOf(x, EntriesOf(e.alarm)) /\ x.ts < e.ts /\ x.tells = e.tells
  BY <1>1, <1>2 DEF QuietInv, Unmet, UnmetBy
<1>4. \A d \in EntriesOf(e.alarm) : d.ts < e.ts
  <2>1. \A d \in EntriesOf(e.alarm) : d.ts \in Nat /\ d.ts <= x.ts
    BY <1>3 DEF NewestOf, EntriesOf, Inv, Typed, Row, Stamps
  <2> QED
    BY <1>2, <1>3, <2>1 DEF Row, Stamps
<1>5. BeforeIn(e)' = EntriesOf(e.alarm)
  BY <1>1, <1>2, <1>4 DEF BeforeIn, EntriesOf, Row, Stamps
<1>6. writing' # NoRow => writing'.alarm # e.alarm
  BY <1>1, <1>2 DEF Meets
<1>7. ASSUME NEW p \in Pending' PROVE ack'[p].row.alarm # e.alarm
  <2>1. p \in Operators /\ p # o /\ ack[p].pc = "commit" /\ ack'[p] = ack[p]
    BY <1>1 DEF Pending
  <2>2. ack[p].alarm # ack[o].alarm
    BY <1>1, <1>2, <2>1 DEF Meets
  <2> QED
    BY <1>2, <2>1, <2>2 DEF QuietInv
<1>8. Settled(e)'
  BY <1>1, <1>3, <1>5, <1>6, <1>7 DEF Settled
<1> QED
  BY <1>1, <1>8

LEMMA QuietInvStep ==
  ASSUME JournalAssumption, Inv, QuietInv, [MCNext]_mcvars
  PROVE  QuietInv'
<1>1. Growth
  BY UsersStep, StepGrows
<1>2. \A o \in Operators : ack'[o].pc # "idle" => ack'[o].row.alarm = ack'[o].alarm
  BY <1>1, RowsKeepAlarms
<1>3. Unmet'
  BY <1>1, UnmetStep
<1>4. ASSUME NEW t \in quiet' PROVE \E e \in rows' : e.ts = t /\ Settled(e)'
  <2>1. CASE t \in quiet
    <3>1. PICK e \in rows : e.ts = t /\ Settled(e)
      BY <2>1 DEF QuietInv
    <3>2. e \in rows' /\ Settled(e)'
      BY <1>1, <3>1, SettledStays DEF Growth
    <3> QED
      BY <3>1, <3>2
  <2>2. ASSUME NEW o \in Operators \ crossed, AckCommitted(o), t = ack[o].row.ts
        PROVE  \E e \in rows' : e.ts = t /\ Settled(e)'
    BY <2>2, QuietCommitSettles
  <2>3. t \in quiet \/ \E o \in Operators \ crossed : AckCommitted(o) /\ t = ack[o].row.ts
    BY <1>4 DEF MCNext, Watched, mcvars
  <2> QED
    BY <2>1, <2>2, <2>3
<1> QED
  BY <1>2, <1>3, <1>4 DEF QuietInv

\* An acknowledgement that no other writer of its alarm met between its read and its commit
\* tells what the entry it follows by time stamp tells, for every number of operators,
\* alarms and restarts.
THEOREM QuietAcksTellLatest == MCSpec => []QuietAckTellsLatest
<1>1. MCInit => QuietInv
  BY DEF MCInit, Init, QuietInv, Unmet, UnmetBy, Idle
<1>2. Inv /\ QuietInv /\ [MCNext]_mcvars => QuietInv'
  BY QuietInvStep, JournalAssumption
<1>3. Inv /\ QuietInv => QuietAckTellsLatest
  BY QuietInvImplies
<1> QED
  BY <1>1, <1>2, <1>3, UsersKeepInv, PTL DEF MCSpec

-----------------------------------------------------------------------------
(* Searches.                                                                 *)

\* The entries before this place have been shown, or will be with the answer under way.
Reached == IF asked = {} THEN page.offset + Limit ELSE page.offset

Unseen(e) == e \in Matching(page.filter) /\ e.ts \in search.there \ search.seen

\* Of an orderly search, at most the request for the page in view is under way.  What there
\* was when the search began is still in the table, what has not been seen of it comes after
\* the places reached, and after the last page there is nothing of it.
SearchInv ==
  /\ search \in [began : BOOLEAN, there : SUBSET Nat, seen : SUBSET Nat, orderly : BOOLEAN]
  /\ search.orderly =>
       /\ asked \subseteq {[filter |-> page.filter, offset |-> page.offset]}
       /\ ~ search.began => asked # {} /\ page.offset = 0
       /\ search.began =>
            /\ search.there \subseteq StampsOf(Matching(page.filter))
            /\ \A e \in rows : Unseen(e) => Reached <= Newer(e, page.filter)
       /\ PagesSkipNothing

\* Entries only move down the list.
LEMMA EntriesMoveDown ==
  ASSUME JournalAssumption, Inv, Inv', rows \subseteq rows', NEW f, NEW e \in Matching(f)
  PROVE  e \in Matching(f)' /\ Newer(e, f) <= Newer(e, f)' /\ Newer(e, f)' \in Nat
<1>1. Matching(f) \subseteq Matching(f)'
  BY DEF Matching, Matches
<1> DEFINE After == {x \in Matching(f) : x.ts > e.ts}
<1> DEFINE AfterNow == {x \in Matching(f)' : x.ts > e.ts}
<1>2. IsFiniteSet(Matching(f)')
  <2>1. rows' \in SUBSET Row /\ Matching(f)' \in SUBSET rows'
    BY DEF Inv, Typed, Matching
  <2>2. Matching(f)' \in SUBSET Row /\ \A d, x \in Matching(f)' : d.ts = x.ts => d = x
    BY <2>1 DEF Inv, Stamped
  <2> HIDE DEF Matching
  <2> QED
    BY <2>2, EntriesFinite
<1>3. AfterNow \in SUBSET (Matching(f)') /\ After \in SUBSET AfterNow
  BY <1>1
<1>4. IsFiniteSet(AfterNow)
  BY <1>2, <1>3, FS_Subset
<1>5. Newer(e, f) = Cardinality(After) /\ Newer(e, f)' = Cardinality(AfterNow)
  BY DEF Newer
<1> HIDE DEF After, AfterNow
<1> QED
  BY <1>1, <1>3, <1>4, <1>5, FS_Subset, FS_CardinalityType

\* A step that leaves the search and what has been reached of it alone.
LEMMA SearchStays ==
  ASSUME JournalAssumption, Inv, Inv', SearchInv, rows \subseteq rows',
         search' = search, page'.filter = page.filter, page'.more = page.more,
         search.orderly => /\ asked' \subseteq {[filter |-> page'.filter, offset |-> page'.offset]}
                           /\ search.began \/ UNCHANGED <<page, asked>>
                           /\ Reached' = Reached /\ (asked' = {} => asked = {})
  PROVE  SearchInv'
<1> SUFFICES ASSUME search.orderly PROVE SearchInv'
  BY DEF SearchInv, PagesSkipNothing
<1>1. CASE ~ search.began
  BY <1>1 DEF SearchInv, PagesSkipNothing
<1>2. CASE search.began
  <2> PICK f : f = page.filter
    OBVIOUS
  <2>1. search.there \subseteq StampsOf(Matching(f))
    BY <1>2 DEF SearchInv
  <2>2. Matching(f) \subseteq Matching(f)'
    BY DEF Matching, Matches
  <2>3. search'.there \subseteq StampsOf(Matching(page.filter))'
    BY <2>1, <2>2 DEF StampsOf
  <2>4. ASSUME NEW e \in rows', Unseen(e)' PROVE Reached' <= Newer(e, page.filter)'
    <3>1. e \in Matching(f)' /\ e.ts \in search.there \ search.seen
      BY <2>4 DEF Unseen
    <3>2. PICK d \in Matching(f) : d.ts = e.ts
      BY <2>1, <3>1 DEF StampsOf
    <3>3. d = e
      BY <2>2, <3>1, <3>2 DEF Inv, Stamped, Matching
    <3>4. Reached <= Newer(e, f)
      BY <1>2, <3>1, <3>2, <3>3 DEF SearchInv, Unseen, Matching
    <3>5. Newer(e, f) <= Newer(e, f)' /\ Newer(e, f)' \in Nat /\ Newer(e, f) \in Nat
      BY <3>2, <3>3, EntriesMoveDown, PlacesDiffer DEF Inv
    <3>6. Reached \in Nat
      BY DEF Reached, Inv, Typed, Page, JournalAssumption
    <3>7. Newer(e, page.filter)' = Newer(e, f)'
      BY DEF Newer, Matching
    <3> QED
      BY <3>4, <3>5, <3>6, <3>7
  <2>5. PagesSkipNothing'
    BY DEF SearchInv, PagesSkipNothing
  <2> QED
    BY <1>2, <2>3, <2>4, <2>5 DEF SearchInv
<1> QED
  BY <1>1, <1>2

LEMMA NotOrderly ==
  ASSUME search' = NoSearch
  PROVE  SearchInv'
BY DEF SearchInv, NoSearch

\* The answer to an orderly search shows the entries of the page, and what is still unseen
\* comes after them; when there is none after them the search is complete.
LEMMA AnswerPreserves ==
  ASSUME JournalAssumption, Inv, SearchInv, search.orderly, NEW r \in asked, Answered(r),
         search' = [search EXCEPT
                      !.began = TRUE,
                      !.there = IF search.began THEN @ ELSE StampsOf(Matching(r.filter)),
                      !.seen = @ \cup StampsOf(Events(r))]
  PROVE  SearchInv'
<1> PICK f, n : f = page.filter /\ n = page.offset
  OBVIOUS
<1> USE DEF StampsOf
<1>1. r = [filter |-> f, offset |-> n] /\ asked = {r} /\ r \in Request
      /\ n \in Nat /\ Limit \in Nat
  BY DEF SearchInv, Inv, Typed, Page, JournalAssumption
<1>2. asked' = {} /\ rows' = rows /\ page' = [page EXCEPT !.more = HasMore(r), !.shown = Events(r)]
  BY <1>1 DEF Answered
<1>3. page'.filter = f /\ page'.offset = n /\ page'.more = HasMore(r)
  BY <1>2 DEF Inv, Typed, Page
<1>4. /\ search'.began /\ search'.orderly
      /\ search'.there = IF search.began THEN search.there ELSE StampsOf(Matching(f))
      /\ search'.seen = search.seen \cup StampsOf(Events(r))
  BY <1>1 DEF SearchInv
<1>5. Matching(f) \subseteq rows /\ \A e \in Matching(f) : e.ts \in Nat
  BY MatchingFinite DEF Inv
<1>6. search'.there \subseteq StampsOf(Matching(f)) /\ search'.there \subseteq Nat
  BY <1>4, <1>5 DEF SearchInv
<1>7. search' \in [began : BOOLEAN, there : SUBSET Nat, seen : SUBSET Nat, orderly : BOOLEAN]
  <2>1. StampsOf(Events(r)) \subseteq Nat
    BY <1>1, <1>5 DEF Events, Fetched
  <2> QED
    BY <1>4, <1>6, <2>1 DEF SearchInv
<1>8. ASSUME NEW e \in Matching(f), e.ts \in search'.there \ search'.seen
      PROVE  n + Limit <= Newer(e, f)
  <2>1. Newer(e, f) \in Nat
    BY PlacesDiffer DEF Inv
  <2>2. n <= Newer(e, f)
    <3>1. CASE search.began
      <4>1. Unseen(e) /\ e \in rows
        BY <1>4, <1>5, <1>8, <3>1 DEF Unseen
      <4>2. Reached = n
        BY <1>1 DEF Reached
      <4> QED
        BY <3>1, <4>1, <4>2 DEF SearchInv
    <3>2. CASE ~ search.began
      BY <2>1, <3>2 DEF SearchInv
    <3> QED
      BY <3>1, <3>2
  <2>3. ASSUME Newer(e, f) < n + Limit PROVE FALSE
    <3>1. e \in Fetched(r)
      BY <1>1, <2>1, <2>2, <2>3 DEF Fetched
    <3>2. e \in Events(r)
      BY <1>1, <2>3, <3>1 DEF Events
    <3> QED
      BY <1>4, <1>8, <3>2
  <2> QED
    BY <1>1, <2>1, <2>3
<1>9. Matching(f)' = Matching(f) /\ \A e : Newer(e, f)' = Newer(e, f)
  BY <1>2 DEF Matching, Newer
<1>10. ASSUME NEW e \in rows', Unseen(e)' PROVE Reached' <= Newer(e, page.filter)'
  <2>1. e \in Matching(f) /\ e.ts \in search'.there \ search'.seen
    BY <1>3, <1>9, <1>10 DEF Unseen, Matching
  <2>2. Reached' = n + Limit /\ Newer(e, page.filter)' = Newer(e, f)
    BY <1>2, <1>3, <1>9 DEF Reached, Newer, Matching
  <2> QED
    BY <1>8, <2>1, <2>2
<1>11. ASSUME ~ HasMore(r) PROVE search'.there \subseteq search'.seen
  <2>1. ASSUME NEW t \in search'.there, t \notin search'.seen PROVE FALSE
    <3>1. PICK e \in Matching(f) : e.ts = t
      BY <1>6, <2>1
    <3>2. n + Limit <= Newer(e, f)
      BY <1>8, <2>1, <3>1
    <3> QED
      BY <1>1, <1>11, <3>2, NoneAfterTheLastPage DEF Inv
  <2> QED
    BY <2>1
<1>12. PagesSkipNothing'
  BY <1>3, <1>11 DEF PagesSkipNothing
<1>13. search'.there \subseteq StampsOf(Matching(page.filter))'
  BY <1>3, <1>6, <1>9 DEF Matching
<1> QED
  BY <1>2, <1>4, <1>7, <1>10, <1>12, <1>13 DEF SearchInv

LEMMA SearchInvStep ==
  ASSUME JournalAssumption, Inv, Inv', SearchInv, [MCNext]_mcvars
  PROVE  SearchInv'
<1>0. rows \subseteq rows'
  BY UsersStep, StepGrows DEF Growth
<1>1. ASSUME UNCHANGED <<page, asked, search>> PROVE SearchInv'
  BY <1>0, <1>1, SearchStays DEF SearchInv, Reached
<1>2. ASSUME Consumer \/ \E o \in Operators : Acknowledge(o) PROVE UNCHANGED <<page, asked>>
  BY <1>2 DEF Consumer, Flip, EventCommitted, EventFailed, pageVars,
              Acknowledge, AckRead, AckStamped, AckCommitted, AckFailed
<1>3. ASSUME NEW f \in Filters, Search(f), search' = [NoSearch EXCEPT !.orderly = asked = {}]
      PROVE  SearchInv'
  <2>1. /\ asked' = asked \cup {[filter |-> f, offset |-> 0]}
        /\ page' = [page EXCEPT !.filter = f, !.offset = 0]
    BY <1>3 DEF Search, Load
  <2>2. page'.filter = f /\ page'.offset = 0
    BY <2>1 DEF Inv, Typed, Page
  <2>3. /\ search' = [began |-> FALSE, there |-> {}, seen |-> {}, orderly |-> asked = {}]
    BY <1>3 DEF NoSearch
  <2> QED
    BY <2>1, <2>2, <2>3 DEF SearchInv, PagesSkipNothing
<1>4. ASSUME NextPage, asked = {}, search' = search PROVE SearchInv'
  <2>1. /\ asked' = {[filter |-> page.filter, offset |-> page.offset + Limit]}
        /\ page' = [page EXCEPT !.filter = page.filter, !.offset = page.offset + Limit]
    BY <1>4 DEF NextPage, NextOffset, Load
  <2>2. /\ page'.filter = page.filter /\ page'.offset = page.offset + Limit
        /\ page'.more = page.more
    BY <2>1 DEF Inv, Typed, Page
  <2>3. Reached' = Reached
    BY <1>4, <2>1, <2>2 DEF Reached
  <2>4. search.orderly => search.began
    BY <1>4 DEF SearchInv
  <2> QED
    BY <1>0, <1>4, <2>1, <2>2, <2>3, <2>4, SearchStays
<1>5. ASSUME NEW r \in asked, Answered(r),
             search' =
               IF ~ search.orderly THEN search
               ELSE [search EXCEPT
                 !.began = TRUE,
                 !.there = IF search.began THEN @ ELSE StampsOf(Matching(r.filter)),
                 !.seen = @ \cup StampsOf(Events(r))]
      PROVE  SearchInv'
  <2>1. CASE search.orderly
    BY <1>5, <2>1, AnswerPreserves
  <2>2. CASE ~ search.orderly
    BY <1>5, <2>2 DEF SearchInv
  <2> QED
    BY <2>1, <2>2
<1>6. ASSUME Restart, asked = {} PROVE UNCHANGED <<page, asked>>
  BY <1>6 DEF Restart
<1>7. ASSUME UNCHANGED mcvars PROVE UNCHANGED <<page, asked, search>>
  BY <1>7 DEF mcvars, vars, pageVars
<1>8. CASE (Consumer \/ \E o \in Operators : Acknowledge(o)) /\ UNCHANGED search
  BY <1>1, <1>2, <1>8
<1>9. CASE NextPage /\ IF asked = {} THEN UNCHANGED search ELSE Disordered
  BY <1>4, <1>9, NotOrderly DEF Disordered
<1>10. CASE \/ PreviousPage /\ Disordered
            \/ (\E r \in asked : PageFailed(r)) /\ Disordered
  BY <1>10, NotOrderly DEF Disordered
<1>11. CASE Restart /\ IF asked = {} THEN UNCHANGED search ELSE Disordered
  BY <1>1, <1>6, <1>11, NotOrderly DEF Disordered
<1> QED
  BY <1>1, <1>3, <1>5, <1>7, <1>8, <1>9, <1>10, <1>11 DEF MCNext

\* Turned forwards page by page, a search shows every entry there was when it began, for
\* every size of page and whatever is written meanwhile.
THEOREM SearchesSkipNothing == MCSpec => []PagesSkipNothing
<1>1. MCInit => SearchInv
  BY DEF MCInit, SearchInv, NoSearch
<1>2. Inv /\ Inv' /\ SearchInv /\ [MCNext]_mcvars => SearchInv'
  BY SearchInvStep, JournalAssumption
<1>3. SearchInv => PagesSkipNothing
  BY DEF SearchInv, PagesSkipNothing
<1> QED
  BY <1>1, <1>2, <1>3, UsersKeepInv, PTL DEF MCSpec
=============================================================================
