---------------------------- MODULE MCArchiveProofs ----------------------------
(***************************************************************************)
(* The pruner keeps the retention, neither deleting too much nor leaving   *)
(* too much, for every length of a day, period of the pruner and duration  *)
(* of a DELETE.                                                            *)
(*                                                                         *)
(* Nothing in the program says when a pass must have run: that follows from*)
(* Clock, which bounds how long the pruner can be where it is, and from    *)
(* Bounded, which counts back from there to the beginning of the last pass *)
(* that the present setting governed.                                      *)
(*                                                                         *)
(* A history tells the rows of its range: the theorem at the end is about  *)
(* the answer to any query of any finite set of rows.                      *)
(***************************************************************************)
EXTENDS MCArchive, FiniteSetTheorems, WellFoundedInduction, TLAPS

LEMMA Assumed == ArchiveAssumption
BY ArchiveAssumption

Typed ==
  /\ TypeOK
  /\ inForce \subseteq Days
  /\ calm \in Nat

\* The pruner is where it is for no longer than it may be.
Clock ==
  /\ pc = "new" => now = 0
  /\ pc = "delete" => now <= since + DbTime
  /\ pc = "wait" => now <= since + Interval
  /\ pc = "done" => stop
  /\ calm <= now /\ calm <= TwoPasses + 1

\* The cutoff of a DELETE is that of a setting in force.
CutoffInForce ==
  pc = "delete" => \E d \in inForce : d # 0 /\ cutoff <= now - d * Day

Keep == days * Day

\* What the present setting has seen to, if it was left alone for long enough: the cutoff of
\* the pass under way, and the oldest row left by the pass before.
Bounded ==
  days # 0 =>
    /\ (pc = "delete" /\ calm > now - since) => cutoff = since - Keep
    /\ (pc = "delete" /\ calm > now - since + Interval + DbTime) =>
         \A r \in rows : r.ts >= since - Interval - DbTime - Keep
    /\ (pc = "wait" /\ calm > now - since + DbTime) =>
         \A r \in rows : r.ts >= since - DbTime - Keep

ArchiveInv == Typed /\ Clock /\ CutoffInForce /\ Bounded

-----------------------------------------------------------------------------
LEMMA MaxOfTwo ==
  ASSUME NEW a \in Int, NEW b \in Int
  PROVE  Max({a, b}) \in {a, b} /\ Max({a, b}) >= a /\ Max({a, b}) >= b
<1>1. \E x \in {a, b} : \A y \in {a, b} : x >= y
  <2>1. CASE a >= b
    BY <2>1
  <2>2. CASE b >= a
    BY <2>2
  <2> QED
    BY <2>1, <2>2
<1> QED
  BY <1>1 DEF Max

LEMMA MinOfTwo ==
  ASSUME NEW a \in Int, NEW b \in Int
  PROVE  Min({a, b}) \in {a, b} /\ Min({a, b}) <= a /\ Min({a, b}) <= b
<1>1. \E x \in {a, b} : \A y \in {a, b} : x <= y
  <2>1. CASE a <= b
    BY <2>1
  <2>2. CASE b <= a
    BY <2>2
  <2> QED
    BY <2>1, <2>2
<1> QED
  BY <1>1 DEF Min

\* A retention that is not "keep forever" is a day at least.
LEMMA ADayAtLeast ==
  ASSUME NEW d \in Days
  PROVE  d \in Nat /\ d * Day \in Nat /\ (d # 0 => d * Day >= Day)
<1>1. d \in Nat /\ Day \in Nat
  BY Assumed DEF ArchiveAssumption
<1>2. d * Day \in Nat
  BY <1>1
<1>3. CASE d # 0
  <2>1. PICK e \in Nat : d = e + 1
    BY <1>1, <1>3
  <2>2. d * Day = e * Day + Day /\ e * Day \in Nat
    BY <1>1, <2>1
  <2> QED
    BY <1>1, <1>2, <2>2
<1> QED
  BY <1>1, <1>2, <1>3

LEMMA Durations ==
  /\ Interval \in Nat /\ DbTime \in Nat /\ Day \in Nat /\ Lag \in Nat /\ Lag <= Day
  /\ MaxTime \in Nat /\ MaxRows \in Nat /\ MaxDbFailures \in Nat
  /\ TwoPasses = Interval + 2 * DbTime
BY Assumed DEF ArchiveAssumption, TwoPasses

LEMMA KeepsADay ==
  ASSUME days \in Days
  PROVE  Keep \in Nat /\ (days # 0 => Keep >= Day)
BY ADayAtLeast DEF Keep

LEMMA InitArchiveInv ==
  ASSUME MCInit
  PROVE  ArchiveInv
<1> USE DEF MCInit, Init
<1>1. InitialDays \in Days
  BY Assumed DEF ArchiveAssumption
<1>2. 0 \in 0 .. MaxTime /\ 0 \in 0 .. MaxRows /\ 0 \in 0 .. MaxDbFailures /\ 0 \in 0 .. 0
  BY Durations
<1>3. TypeOK
  <2>1. now \in 0 .. MaxTime /\ written \in 0 .. MaxRows /\ failures \in 0 .. MaxDbFailures
    BY <1>2
  <2>2. cutoff \in Int /\ cutoff <= now /\ since \in 0 .. now
    BY <1>2
  <2>3. rows \subseteq Row /\ (\A r \in rows : r.ts <= now)
    OBVIOUS
  <2>4. days \in Days /\ pc \in {"new", "delete", "wait", "done"} /\ stop \in BOOLEAN
    BY <1>1
  <2> QED
    BY <2>1, <2>2, <2>3, <2>4 DEF TypeOK
<1>4. Typed
  BY <1>3 DEF Typed
<1>5. TwoPasses \in Nat
  BY Durations
<1>6. Clock
  BY <1>5 DEF Clock
<1>7. CutoffInForce /\ Bounded
  BY DEF CutoffInForce, Bounded
<1> QED
  BY <1>4, <1>6, <1>7 DEF ArchiveInv

-----------------------------------------------------------------------------
(* What follows from the types, and how calm and inForce follow a step.      *)

LEMMA Numbers ==
  ASSUME Typed
  PROVE  /\ now \in Nat /\ since \in Nat /\ since <= now /\ calm \in Nat /\ cutoff \in Int
         /\ days \in Days /\ Keep \in Nat /\ (days # 0 => Keep >= Day)
         /\ \A r \in rows : r \in Row /\ r.ts \in Nat /\ r.ts <= now
<1>1. now \in 0 .. MaxTime /\ since \in 0 .. now /\ days \in Days /\ rows \subseteq Row
  BY DEF Typed, TypeOK
<1>2. now \in Nat /\ since \in Nat /\ since <= now
  BY <1>1, Durations
<1>3. \A r \in rows : r \in Row /\ r.ts \in Nat
  BY <1>1, Durations DEF Row
<1> QED
  BY <1>1, <1>2, <1>3, KeepsADay DEF Typed, TypeOK

LEMMA Later ==
  ASSUME NEW c \in Nat, NEW t \in Nat, NEW u \in Nat, c <= t, u >= t
  PROVE  c + (u - t) \in Nat /\ c + (u - t) <= u
OBVIOUS

LEMMA CalmFollows ==
  ASSUME Typed, Clock, Watched, now' \in Nat, now' >= now
  PROVE  /\ calm' \in Nat /\ calm' <= now' /\ calm' <= TwoPasses + 1
         /\ calm' <= calm + (now' - now)
         /\ days' # days \/ failures' # failures => calm' = 0
<1>1. calm \in Nat /\ now \in Nat /\ calm <= now
  BY Numbers DEF Clock
<1>2. PICK most \in Nat : most = TwoPasses + 1
  <2>1. TwoPasses + 1 \in Nat
    BY Durations
  <2> QED
    BY <2>1
<1>3. PICK more \in Nat : more = calm + (now' - now)
  <2>1. calm + (now' - now) \in Nat
    BY <1>1, Later
  <2> QED
    BY <2>1
<1>4. more <= now'
  BY <1>1, <1>3, Later
<1>5. Min({more, most}) \in Nat /\ Min({more, most}) <= more /\ Min({more, most}) <= most
  <2>1. more \in Int /\ most \in Int
    OBVIOUS
  <2>2. Min({more, most}) \in {more, most} /\ Min({more, most}) <= more
        /\ Min({more, most}) <= most
    BY <2>1, MinOfTwo
  <2>3. Min({more, most}) \in Nat
    BY <2>2
  <2> QED
    BY <2>2, <2>3
<1>6. calm' = IF days' # days \/ failures' # failures THEN 0 ELSE Min({more, most})
  BY <1>2, <1>3 DEF Watched
<1>7. calm' \in Nat /\ calm' <= more /\ calm' <= most
  BY <1>5, <1>6
<1> QED
  BY <1>2, <1>3, <1>4, <1>6, <1>7

LEMMA InForceFollows ==
  ASSUME Typed, Watched, days' \in Days
  PROVE  /\ inForce' \subseteq Days
         /\ pc' = "delete" => inForce' = inForce \cup {days'}
BY DEF Typed, Watched

-----------------------------------------------------------------------------
(* Steps keep the types and the clock.                                       *)

LEMMA TimeFollows ==
  ASSUME Typed, Next
  PROVE  /\ now' \in 0 .. MaxTime /\ now' \in Nat /\ now' >= now
         /\ ~ Tick => now' = now
<1>1. now \in 0 .. MaxTime /\ now \in Nat /\ MaxTime \in Nat
  BY Numbers, Durations DEF Typed, TypeOK
<1>2. CASE Tick
  <2>1. now' = now + 1 /\ now < MaxTime
    BY <1>2 DEF Tick
  <2> QED
    BY <1>1, <1>2, <2>1
<1>3. CASE ~ Tick
  <2>1. now' = now
    BY <1>3 DEF Next, RowCommitted, DaysSaved, PassBegins, Pruned, PassFailed, Shutdown
  <2> QED
    BY <1>1, <2>1
<1> QED
  BY <1>2, <1>3

LEMMA TickTyped ==
  ASSUME Typed, Tick
  PROVE  TypeOK'
<1>1. now' \in 0 .. MaxTime /\ now' >= now
  BY TimeFollows DEF Next
<1>2. now \in Nat /\ now' \in Nat
  BY Numbers, <1>1, Durations
<1>3. cutoff <= now' /\ since \in 0 .. now'
  BY <1>1, <1>2, Numbers DEF Typed, TypeOK
<1>4. \A r \in rows : r.ts <= now'
  BY <1>1, <1>2, Numbers
<1> QED
  BY <1>1, <1>3, <1>4 DEF Typed, TypeOK, Tick, prunerVars

LEMMA RowCommittedTyped ==
  ASSUME Typed, RowCommitted
  PROVE  TypeOK'
<1>1. PICK ts \in Max({0, now - Lag}) .. now, x \in Floats :
        rows' = rows \cup {[ts |-> ts, float |-> x]}
  BY DEF RowCommitted
<1>2. now \in 0 .. MaxTime /\ now \in Nat /\ now - Lag \in Int /\ MaxTime \in Nat
  BY Numbers, Durations DEF Typed, TypeOK
<1>3. Max({0, now - Lag}) \in Int /\ Max({0, now - Lag}) >= 0
  BY <1>2, MaxOfTwo
<1>4. ts \in 0 .. MaxTime /\ ts <= now
  BY <1>2, <1>3
<1>5. [ts |-> ts, float |-> x] \in Row
  BY <1>4 DEF Row
<1>6. rows' \subseteq Row /\ \A r \in rows' : r.ts <= now
  BY <1>1, <1>4, <1>5 DEF Typed, TypeOK
<1>7. written' \in 0 .. MaxRows
  <2>1. written \in 0 .. MaxRows /\ written < MaxRows /\ written' = written + 1
    BY DEF RowCommitted, Typed, TypeOK
  <2> QED
    BY <2>1, Durations
<1> QED
  BY <1>6, <1>7 DEF Typed, TypeOK, RowCommitted, prunerVars

LEMMA PassTyped ==
  ASSUME Typed, PassBegins \/ Pruned \/ PassFailed
  PROVE  TypeOK'
<1>1. now \in Nat /\ now \in 0 .. now /\ Keep \in Nat
  BY Numbers
<1>2. since' = now
  BY DEF PassBegins, Pruned, PassFailed, Sleeps
<1>3. rows' \subseteq rows
  BY DEF PassBegins, Pruned, PassFailed, Kept
<1>4. cutoff' \in Int /\ cutoff' <= now
  <2>1. cutoff' = cutoff \/ cutoff' = now - Keep
    BY DEF PassBegins, Pruned, PassFailed, Sleeps, Cutoff, Keep
  <2> QED
    BY <1>1, <2>1 DEF Typed, TypeOK
<1>5. failures' \in 0 .. MaxDbFailures
  <2>1. failures \in 0 .. MaxDbFailures
    BY DEF Typed, TypeOK
  <2>2. failures' = failures \/ (failures < MaxDbFailures /\ failures' = failures + 1)
    BY DEF PassBegins, Pruned, PassFailed
  <2> QED
    BY <2>1, <2>2, Durations
<1>6. /\ now' = now /\ written' = written /\ days' = days /\ stop' = stop
      /\ pc' \in {"wait", "delete"}
  BY DEF PassBegins, Pruned, PassFailed, Sleeps
<1>7. rows' \subseteq Row /\ \A r \in rows' : r.ts <= now
  BY <1>3 DEF Typed, TypeOK
<1> QED
  BY <1>1, <1>2, <1>4, <1>5, <1>6, <1>7 DEF Typed, TypeOK

LEMMA TypeStep ==
  ASSUME Typed, Next
  PROVE  TypeOK'
<1>1. CASE Tick
  BY <1>1, TickTyped
<1>2. CASE RowCommitted
  BY <1>2, RowCommittedTyped
<1>3. CASE \E d \in Days : DaysSaved(d)
  BY <1>3 DEF Typed, TypeOK, DaysSaved, prunerVars
<1>4. CASE PassBegins \/ Pruned \/ PassFailed
  BY <1>4, PassTyped
<1>5. CASE Shutdown
  <2>1. rows' \subseteq rows
    BY <1>5 DEF Shutdown, Kept
  <2>2. rows' \subseteq Row /\ \A r \in rows' : r.ts <= now
    BY <2>1 DEF Typed, TypeOK
  <2> QED
    BY <1>5, <2>2 DEF Typed, TypeOK, Shutdown
<1> QED
  BY <1>1, <1>2, <1>3, <1>4, <1>5 DEF Next

\* All that is needed of a step outside of the rows.
LEMMA StepFacts ==
  ASSUME Typed, Clock, Next, Watched
  PROVE  /\ Typed'
         /\ now' \in Nat /\ now' >= now /\ (~ Tick => now' = now)
         /\ calm' <= now' /\ calm' <= TwoPasses + 1
         /\ calm' <= calm + (now' - now)
         /\ days' # days \/ failures' # failures => calm' = 0
         /\ pc' = "delete" => inForce' = inForce \cup {days'}
<1>1. TypeOK' /\ days' \in Days
  BY TypeStep DEF TypeOK
<1>2. now' \in Nat /\ now' >= now /\ (~ Tick => now' = now)
  BY TimeFollows
<1>3. /\ calm' \in Nat /\ calm' <= now' /\ calm' <= TwoPasses + 1
      /\ calm' <= calm + (now' - now)
      /\ days' # days \/ failures' # failures => calm' = 0
  BY <1>2, CalmFollows
<1>4. inForce' \subseteq Days /\ (pc' = "delete" => inForce' = inForce \cup {days'})
  BY <1>1, InForceFollows
<1> QED
  BY <1>1, <1>2, <1>3, <1>4 DEF Typed

LEMMA ClockStep ==
  ASSUME Typed, Clock, Next, Watched
  PROVE  Clock'
<1>1. now \in Nat /\ now' \in Nat /\ since \in Nat /\ since <= now
  BY Numbers, StepFacts
<1>2. Interval \in Nat /\ DbTime \in Nat
  BY Durations
<1>3. calm' <= now' /\ calm' <= TwoPasses + 1
  BY StepFacts
<1>4. TwoPasses' = TwoPasses
  BY DEF TwoPasses
<1>5. /\ pc' = "new" => now' = 0
      /\ pc' = "delete" => now' <= since' + DbTime
      /\ pc' = "wait" => now' <= since' + Interval
      /\ pc' = "done" => stop'
  <2>1. CASE Tick
    <3>1. /\ now' = now + 1 /\ pc' = pc /\ since' = since /\ stop' = stop
          /\ ~ Due /\ (pc = "delete" => now < since + DbTime)
      BY <2>1 DEF Tick, prunerVars
    <3>2. pc # "new" /\ (pc = "wait" => ~ (now >= since + Interval))
      BY <3>1 DEF Due
    <3> QED
      BY <1>1, <1>2, <3>1, <3>2 DEF Clock
  <2>2. CASE RowCommitted \/ \E d \in Days : DaysSaved(d)
    BY <2>2 DEF RowCommitted, DaysSaved, prunerVars, Clock
  <2>3. CASE PassBegins \/ Pruned \/ PassFailed
    <3>1. now' = now /\ since' = now /\ pc' \in {"wait", "delete"}
      BY <2>3 DEF PassBegins, Pruned, PassFailed, Sleeps
    <3> QED
      BY <1>1, <1>2, <3>1
  <2>4. CASE Shutdown
    BY <2>4 DEF Shutdown
  <2> QED
    BY <2>1, <2>2, <2>3, <2>4 DEF Next
<1> QED
  BY <1>3, <1>4, <1>5 DEF Clock

-----------------------------------------------------------------------------
(* Steps keep what is known of the cutoff and of the rows.                   *)

LEMMA CutoffStep ==
  ASSUME Typed, Clock, CutoffInForce, Next, Watched
  PROVE  CutoffInForce'
<1> SUFFICES ASSUME pc' = "delete"
             PROVE  \E d \in inForce' : d # 0 /\ cutoff' <= now' - d * Day
  BY DEF CutoffInForce
<1>1. inForce' = inForce \cup {days'} /\ now \in Nat /\ now' \in Nat /\ now' >= now
  BY StepFacts, Numbers
<1>2. CASE PassBegins
  <2>1. now' = now /\ days' = days /\ days # 0 /\ cutoff' = now - days * Day
    BY <1>2 DEF PassBegins, Sleeps, Cutoff, KeepsForever
  <2>2. days * Day \in Nat
    BY Numbers, ADayAtLeast
  <2>3. cutoff' <= now' - days * Day
    BY <1>1, <2>1, <2>2
  <2> QED
    BY <1>1, <2>1, <2>3
<1>3. CASE ~ PassBegins
  <2>1. pc = "delete" /\ cutoff' = cutoff
    BY <1>3 DEF Next, Tick, RowCommitted, DaysSaved, Pruned, PassFailed, Shutdown, Sleeps,
                prunerVars
  <2>2. PICK d \in inForce : d # 0 /\ cutoff <= now - d * Day
    BY <2>1 DEF CutoffInForce
  <2>3. d * Day \in Nat /\ cutoff \in Int
    BY ADayAtLeast, Numbers DEF Typed
  <2>4. cutoff' <= now' - d * Day
    BY <1>1, <2>1, <2>2, <2>3
  <2> QED
    BY <1>1, <2>2, <2>4
<1> QED
  BY <1>2, <1>3

\* What was calm for so long after a step was so before it; what is new is not calm.
LEMMA StillCalm ==
  ASSUME NEW c \in Nat, NEW d \in Nat, NEW t \in Nat, NEW u \in Nat, NEW s \in Nat,
         NEW i \in Nat, NEW k \in Nat, d <= c + (u - t)
  PROVE  /\ d > u - s => c > t - s
         /\ d > u - s + i + k => c > t - s + i + k
         /\ d > u - s + k => c > t - s + k
OBVIOUS

LEMMA NotCalm ==
  ASSUME NEW t \in Nat, NEW s \in Nat, NEW i \in Nat, NEW k \in Nat, s <= t
  PROVE  ~ (0 > t - s) /\ ~ (0 > t - s + i + k) /\ ~ (0 > t - s + k)
OBVIOUS

LEMMA TickBounded ==
  ASSUME Typed, Clock, Bounded, Next, Watched, Tick
  PROVE  Bounded'
<1>1. /\ pc' = pc /\ since' = since /\ cutoff' = cutoff /\ rows' = rows /\ days' = days
      /\ Keep' = Keep
  BY DEF Tick, prunerVars, Keep
<1>2. now \in Nat /\ now' \in Nat /\ since \in Nat /\ calm \in Nat /\ calm' \in Nat
      /\ calm' <= calm + (now' - now)
  BY StepFacts, Numbers DEF Typed
<1>3. Interval \in Nat /\ DbTime \in Nat
  BY Durations
<1>4. /\ calm' > now' - since => calm > now - since
      /\ calm' > now' - since + Interval + DbTime => calm > now - since + Interval + DbTime
      /\ calm' > now' - since + DbTime => calm > now - since + DbTime
  BY <1>2, <1>3, StillCalm
<1> QED
  BY <1>1, <1>4 DEF Bounded

\* A new row is no older than a day.
LEMMA RowCommittedBounded ==
  ASSUME Typed, Clock, Bounded, Next, Watched, RowCommitted
  PROVE  Bounded'
<1>1. /\ pc' = pc /\ since' = since /\ cutoff' = cutoff /\ days' = days /\ now' = now
      /\ Keep' = Keep
  BY DEF RowCommitted, prunerVars, Keep
<1>2. now \in Nat /\ since \in Nat /\ since <= now /\ calm \in Nat /\ calm' \in Nat
      /\ calm' <= calm + (now' - now)
  BY StepFacts, Numbers DEF Typed
<1>3. calm' <= calm
  BY <1>1, <1>2
<1>4. PICK ts \in Max({0, now - Lag}) .. now, x \in Floats :
        rows' = rows \cup {[ts |-> ts, float |-> x]}
  BY DEF RowCommitted
<1>5. ts \in Int /\ ts >= now - Lag
  <2>1. Max({0, now - Lag}) \in Int /\ Max({0, now - Lag}) >= now - Lag
    <3>1. now - Lag \in Int
      BY <1>2, Durations
    <3> QED
      BY <3>1, MaxOfTwo
  <2> QED
    BY <1>2, <2>1, Durations
<1>6. ASSUME days # 0
      PROVE  /\ ts >= since - Interval - DbTime - Keep
             /\ ts >= since - DbTime - Keep
  <2>1. Keep \in Nat /\ Keep >= Day
    BY <1>6, Numbers
  <2> QED
    BY <1>2, <1>5, <2>1, Durations
<1>7. Interval \in Nat /\ DbTime \in Nat
  BY Durations
<1>8. /\ calm' > now - since => calm > now - since
      /\ calm' > now - since + Interval + DbTime => calm > now - since + Interval + DbTime
      /\ calm' > now - since + DbTime => calm > now - since + DbTime
  BY <1>2, <1>3, <1>7
<1> QED
  BY <1>1, <1>4, <1>6, <1>8 DEF Bounded

\* Nothing is promised of a retention that has just been changed or a pass that has failed.
LEMMA NotCalmBounded ==
  ASSUME Typed', calm' = 0
  PROVE  Bounded'
<1>1. now' \in Nat /\ since' \in Nat /\ since' <= now'
  <2>1. now' \in 0 .. MaxTime /\ since' \in 0 .. now'
    BY DEF Typed, TypeOK
  <2> QED
    BY <2>1, Durations
<1>2. Interval \in Nat /\ DbTime \in Nat
  BY Durations
<1>3. /\ ~ (calm' > now' - since')
      /\ ~ (calm' > now' - since' + Interval + DbTime)
      /\ ~ (calm' > now' - since' + DbTime)
  BY <1>1, <1>2, NotCalm
<1> QED
  BY <1>3 DEF Bounded

\* What the last pass has left is what this one finds, a period and a DELETE later.
LEMMA PassBeginsBounded ==
  ASSUME Typed, Clock, Bounded, Next, Watched, PassBegins
  PROVE  Bounded'
<1>1. /\ now' = now /\ since' = now /\ days' = days /\ rows' = rows /\ Keep' = Keep /\ Due
      /\ days # 0 => pc' = "delete" /\ cutoff' = now - Keep
  BY DEF PassBegins, Sleeps, Keep, Cutoff, KeepsForever
<1>2. now \in Nat /\ since \in Nat /\ calm \in Nat /\ calm' \in Nat /\ calm' <= calm /\ Keep \in Nat
  <2>1. now \in Nat /\ since \in Nat /\ calm \in Nat /\ calm' \in Nat /\ Keep \in Nat
        /\ calm' <= calm + (now' - now)
    BY StepFacts, Numbers DEF Typed
  <2> QED
    BY <1>1, <2>1
<1>3. Interval \in Nat /\ DbTime \in Nat
  BY Durations
<1>4. ASSUME days # 0, calm' > now - now + Interval + DbTime, NEW r \in rows
      PROVE  r.ts >= now - Interval - DbTime - Keep
  <2>1. calm > Interval + DbTime
    BY <1>2, <1>3, <1>4
  <2>2. pc # "new"
    BY <1>2, <1>3, <2>1 DEF Clock
  <2>3. pc = "wait" /\ now = since + Interval
    BY <1>1, <1>2, <1>3, <2>2 DEF Due, Clock
  <2>4. calm > now - since + DbTime
    BY <1>2, <1>3, <2>1, <2>3
  <2>5. r.ts >= since - DbTime - Keep /\ r.ts \in Nat
    BY <1>4, <2>3, <2>4, Numbers DEF Bounded
  <2> QED
    BY <1>2, <1>3, <2>3, <2>5
<1> QED
  BY <1>1, <1>4 DEF Bounded

\* A DELETE that was calm had the cutoff of the present retention.
LEMMA PrunedBounded ==
  ASSUME Typed, Clock, Bounded, Next, Watched, Pruned
  PROVE  Bounded'
<1>1. /\ now' = now /\ since' = now /\ days' = days /\ rows' = Kept /\ Keep' = Keep
      /\ pc = "delete" /\ pc' = "wait"
  BY DEF Pruned, Sleeps, Keep
<1>2. now \in Nat /\ since \in Nat /\ calm \in Nat /\ calm' \in Nat /\ calm' <= calm /\ Keep \in Nat
  <2>1. now \in Nat /\ since \in Nat /\ calm \in Nat /\ calm' \in Nat /\ Keep \in Nat
        /\ calm' <= calm + (now' - now)
    BY StepFacts, Numbers DEF Typed
  <2> QED
    BY <1>1, <2>1
<1>3. DbTime \in Nat /\ now <= since + DbTime
  BY <1>1, Durations DEF Clock
<1>4. ASSUME days # 0, calm' > now - now + DbTime, NEW r \in Kept
      PROVE  r.ts >= now - DbTime - Keep
  <2>1. calm > now - since
    BY <1>2, <1>3, <1>4
  <2>2. cutoff = since - Keep
    BY <1>1, <1>4, <2>1 DEF Bounded
  <2>3. r.ts \in Nat /\ r.ts >= cutoff
    BY Numbers DEF Kept
  <2> QED
    BY <1>2, <1>3, <2>2, <2>3
<1> QED
  BY <1>1, <1>4 DEF Bounded

LEMMA BoundedStep ==
  ASSUME Typed, Clock, Bounded, Next, Watched
  PROVE  Bounded'
<1>1. CASE Tick
  BY <1>1, TickBounded
<1>2. CASE RowCommitted
  BY <1>2, RowCommittedBounded
<1>3. CASE (\E d \in Days : DaysSaved(d)) \/ PassFailed
  <2>1. days' # days \/ failures' # failures
    <3>1. failures \in 0 .. MaxDbFailures
      BY DEF Typed, TypeOK
    <3>2. failures + 1 # failures
      BY <3>1
    <3> QED
      BY <1>3, <3>2 DEF DaysSaved, PassFailed
  <2>2. calm' = 0 /\ Typed'
    BY <2>1, StepFacts
  <2> QED
    BY <2>2, NotCalmBounded
<1>4. CASE PassBegins
  BY <1>4, PassBeginsBounded
<1>5. CASE Pruned
  BY <1>5, PrunedBounded
<1>6. CASE Shutdown
  BY <1>6 DEF Shutdown, Bounded
<1> QED
  BY <1>1, <1>2, <1>3, <1>4, <1>5, <1>6 DEF Next

-----------------------------------------------------------------------------
LEMMA ArchiveInvariance == MCSpec => []ArchiveInv
<1>1. MCInit => ArchiveInv
  BY InitArchiveInv
<1>2. ArchiveInv /\ [Next /\ Watched]_mcvars => ArchiveInv'
  <2> SUFFICES ASSUME ArchiveInv, [Next /\ Watched]_mcvars
               PROVE  ArchiveInv'
    OBVIOUS
  <2>1. CASE Next /\ Watched
    BY <2>1, StepFacts, ClockStep, CutoffStep, BoundedStep DEF ArchiveInv
  <2>2. CASE UNCHANGED mcvars
    BY <2>2 DEF mcvars, vars, prunerVars, ArchiveInv, Typed, TypeOK, Clock, CutoffInForce, Bounded,
                Keep, Row, TwoPasses
  <2> QED
    BY <2>1, <2>2
<1> QED
  BY <1>1, <1>2, PTL DEF MCSpec

\* Every reachable state is well typed; above all, no cutoff lies in the future, whatever
\* value retention.days is given.
THEOREM TypeCorrect == MCSpec => []TypeOK
<1>1. ArchiveInv => TypeOK
  BY DEF ArchiveInv, Typed
<1> QED
  BY <1>1, ArchiveInvariance, PTL

\* The DELETE of run_retention_pruner takes no row that every retention in force since the
\* pass began would keep, for every period, every duration of the DELETE and every change of
\* the setting meanwhile.
THEOREM OnlyExpiredDeleted == MCSpec => DeletesOnlyExpired
<1>1. ArchiveInv /\ [Next /\ Watched]_mcvars =>
        [\A r \in rows \ rows' : \E d \in inForce : d # 0 /\ r.ts < now - d * Day]_mcvars
  <2> SUFFICES ASSUME ArchiveInv, [Next /\ Watched]_mcvars, NEW r \in rows \ rows'
               PROVE  \E d \in inForce : d # 0 /\ r.ts < now - d * Day
    OBVIOUS
  <2>1. Next
    BY DEF mcvars, vars
  <2>2. pc = "delete" /\ rows' \in {rows, Kept}
    BY <2>1 DEF Next, Tick, RowCommitted, DaysSaved, PassBegins, Pruned, PassFailed, Shutdown
  <2>3. r \in rows /\ ~ (r.ts >= cutoff)
    BY <2>2 DEF Kept
  <2>4. PICK d \in inForce : d # 0 /\ cutoff <= now - d * Day
    BY <2>2 DEF ArchiveInv, CutoffInForce
  <2>5. d * Day \in Nat /\ r.ts \in Nat /\ cutoff \in Int /\ now \in Nat
    BY <2>3, ADayAtLeast, Numbers DEF ArchiveInv, Typed
  <2>6. r.ts < now - d * Day
    BY <2>3, <2>4, <2>5
  <2> QED
    BY <2>4, <2>6
<1> QED
  BY <1>1, ArchiveInvariance, PTL DEF MCSpec, DeletesOnlyExpired

\* With the retention left alone and no pass failing for two passes, run_retention_pruner
\* leaves no row older than the retention by more than that, for every period.
THEOREM RetentionKept == MCSpec => []RetentionIsKept
<1>1. ArchiveInv => RetentionIsKept
  <2> SUFFICES ASSUME ArchiveInv, ~ stop, days # 0, calm > TwoPasses, NEW r \in rows
               PROVE  now - r.ts <= days * Day + TwoPasses
    BY DEF RetentionIsKept
  <2>1. /\ now \in Nat /\ since \in Nat /\ calm \in Nat /\ Keep \in Nat /\ r.ts \in Nat
        /\ since <= now
    BY Numbers DEF ArchiveInv
  <2>2. Interval \in Nat /\ DbTime \in Nat /\ TwoPasses = Interval + 2 * DbTime
    BY Durations
  <2>3. pc # "new" /\ pc # "done"
    BY <2>1, <2>2 DEF ArchiveInv, Clock
  <2>4. now - r.ts <= Keep + TwoPasses
    <3>1. CASE pc = "delete"
      <4>1. now <= since + DbTime
        BY <3>1 DEF ArchiveInv, Clock
      <4>2. calm > now - since + Interval + DbTime
        BY <2>1, <2>2, <4>1
      <4>3. r.ts >= since - Interval - DbTime - Keep
        BY <3>1, <4>2 DEF ArchiveInv, Bounded
      <4> QED
        BY <2>1, <2>2, <4>1, <4>3
    <3>2. CASE pc = "wait"
      <4>1. now <= since + Interval
        BY <3>2 DEF ArchiveInv, Clock
      <4>2. calm > now - since + DbTime
        BY <2>1, <2>2, <4>1
      <4>3. r.ts >= since - DbTime - Keep
        BY <3>2, <4>2 DEF ArchiveInv, Bounded
      <4> QED
        BY <2>1, <2>2, <4>1, <4>3
    <3> QED
      BY <2>3, <3>1, <3>2 DEF ArchiveInv, Typed, TypeOK
  <2> QED
    BY <2>4 DEF Keep
<1> QED
  BY <1>1, ArchiveInvariance, PTL

(***************************************************************************)
(* GET /api/history/{tag}.  That a bucket's minimum, maximum and mean are  *)
(* those of its rows is a fact about finite sets of any size.  Induction   *)
(* over them is replaced by the smallest counterexample: the subsets of a  *)
(* finite set are well founded by inclusion, so were there a set of which  *)
(* the fact is false, one would have none inside it.                       *)
(***************************************************************************)

\* Some member of a non-empty set of subsets of a finite set has no other inside it: the form
\* in which induction over finite sets is used below.
LEMMA SmallestExists ==
  ASSUME NEW S, IsFiniteSet(S), NEW T \in SUBSET (SUBSET S), T # {}
  PROVE  \E m \in T : \A t \in T : t \subseteq m => t = m
<1>1. IsWellFoundedOn(StrictSubsetOrdering(S), SUBSET S)
  BY FS_StrictSubsetOrderingWellFounded, FS_FiniteSubsetsOfFinite
<1>2. PICK m \in T : \A t \in T : <<t, m>> \notin StrictSubsetOrdering(S)
  BY <1>1, WFMin
<1>3. ASSUME NEW t \in T, t \subseteq m, t # m PROVE FALSE
  <2>1. t \in SUBSET S /\ m \in SUBSET S
    OBVIOUS
  <2>2. <<t, m>> \in StrictSubsetOrdering(S)
    BY <1>3, <2>1 DEF StrictSubsetOrdering
  <2> QED
    BY <1>2, <2>2
<1> QED
  BY <1>3

\* A finite set that is not empty has a least element by any number told of its elements.
LEMMA LeastExists ==
  ASSUME NEW S, IsFiniteSet(S), S # {}, NEW f \in [S -> Int]
  PROVE  \E x \in S : \A y \in S : f[x] <= f[y]
<1> DEFINE Has(s) == \E x \in s : \A y \in s : f[x] <= f[y]
           T == {s \in SUBSET S : s # {} /\ ~ Has(s)}
<1>1. ASSUME T # {} PROVE FALSE
  <2>1. T \in SUBSET (SUBSET S)
    OBVIOUS
  <2> HIDE DEF T
  <2>2. PICK m \in T : \A t \in T : t \subseteq m => t = m
    BY <1>1, <2>1, SmallestExists
  <2>3. m \in SUBSET S /\ m # {} /\ ~ Has(m)
    BY <2>2 DEF T
  <2>4. PICK x \in m : TRUE
    BY <2>3
  <2>5. CASE m \ {x} = {}
    BY <2>3, <2>4, <2>5
  <2>6. CASE m \ {x} # {}
    <3>1. m \ {x} \notin T
      BY <2>2, <2>4
    <3>2. Has(m \ {x})
      BY <2>3, <2>6, <3>1 DEF T
    <3>3. PICK z \in m \ {x} : \A y \in m \ {x} : f[z] <= f[y]
      BY <3>2
    <3>4. x \in S /\ z \in S /\ \A y \in m : f[y] \in Int
      BY <2>3, <2>4, <3>3
    <3>5. CASE f[z] <= f[x]
      BY <2>3, <3>3, <3>5
    <3>6. CASE ~ (f[z] <= f[x])
      <4>1. \A y \in m : f[x] <= f[y]
        BY <3>3, <3>4, <3>6
      <4> QED
        BY <2>3, <2>4, <4>1
    <3> QED
      BY <3>5, <3>6
  <2> QED
    BY <2>5, <2>6
<1>2. S \notin T
  BY <1>1
<1> QED
  BY <1>2

LEMMA GreatestExists ==
  ASSUME NEW S, IsFiniteSet(S), S # {}, NEW f \in [S -> Int]
  PROVE  \E x \in S : \A y \in S : f[y] <= f[x]
<1>1. PICK g : g = [x \in S |-> 0 - f[x]]
  OBVIOUS
<1>0. g \in [S -> Int]
  <2>1. \A x \in S : f[x] \in Int
    OBVIOUS
  <2>2. \A x \in S : g[x] \in Int
    BY <1>1, <2>1
  <2> QED
    BY <1>1, <2>2
<1>2. PICK x \in S : \A y \in S : g[x] <= g[y]
  BY <1>0, LeastExists
<1>3. \A y \in S : f[y] <= f[x]
  <2> TAKE y \in S
  <2>1. g[x] <= g[y] /\ g[x] = 0 - f[x] /\ g[y] = 0 - f[y] /\ f[x] \in Int /\ f[y] \in Int
    BY <1>1, <1>2
  <2> QED
    BY <2>1
<1> QED
  BY <1>3

\* Min and Max are what they are called.
LEMMA Extremes ==
  ASSUME NEW V \in SUBSET Int, IsFiniteSet(V), V # {}
  PROVE  /\ Min(V) \in V /\ \A v \in V : Min(V) <= v
         /\ Max(V) \in V /\ \A v \in V : v <= Max(V)
<1>1. PICK f \in [V -> Int] : f = [v \in V |-> v]
  OBVIOUS
<1>2. \E x \in V : \A y \in V : x <= y
  <2>1. PICK x \in V : \A y \in V : f[x] <= f[y]
    BY LeastExists
  <2> QED
    BY <1>1, <2>1
<1>3. \E x \in V : \A y \in V : x >= y
  <2>1. PICK x \in V : \A y \in V : f[y] <= f[x]
    BY GreatestExists
  <2> QED
    BY <1>1, <2>1
<1> QED
  BY <1>2, <1>3 DEF Min, Max

-----------------------------------------------------------------------------
(* The sum of a set of rows.                                                 *)

\* f is the function FoldSet is defined by.
Sums(S, f) ==
  f = [s \in SUBSET S |-> IF s = {} THEN 0
                          ELSE LET x == CHOOSE x \in s : TRUE IN f[s \ {x}] + x.float]

Total(S) == FoldSet(LAMBDA r, s : s + r.float, 0, S)

LEMMA TotalIs ==
  ASSUME NEW S, \E f : Sums(S, f)
  PROVE  \E f : Sums(S, f) /\ f[S] = Total(S)
<1>1. Total(S) = (CHOOSE f : Sums(S, f))[S]
  BY DEF Total, FoldSet, MapThenFoldSet, Sums
<1>2. Sums(S, CHOOSE f : Sums(S, f))
  OBVIOUS
<1> QED
  BY <1>1, <1>2

\* Such a function exists: it is built one size of sets after the other.
Small(S, n) == {s \in SUBSET S : Cardinality(s) <= n}
SumsUpTo(S, n, f) ==
  f = [s \in Small(S, n) |-> IF s = {} THEN 0
                             ELSE LET x == CHOOSE x \in s : TRUE IN f[s \ {x}] + x.float]

LEMMA OneMore ==
  ASSUME NEW S, IsFiniteSet(S), NEW n \in Nat, NEW f, SumsUpTo(S, n, f)
  PROVE  \E g : SumsUpTo(S, n + 1, g)
<1> DEFINE pick(s) == CHOOSE x \in s : TRUE
           g == [s \in Small(S, n + 1) |-> IF s = {} THEN 0 ELSE f[s \ {pick(s)}] + pick(s).float]
<1>1. ASSUME NEW s \in Small(S, n + 1), s # {}
      PROVE  s \ {pick(s)} \in Small(S, n) /\ s \ {pick(s)} \in Small(S, n + 1)
  <2>1. s \in SUBSET S /\ Cardinality(s) <= n + 1 /\ pick(s) \in s
    BY <1>1 DEF Small
  <2>2. IsFiniteSet(s) /\ Cardinality(s) \in Nat
    BY <2>1, FS_Subset, FS_CardinalityType
  <2>3. PICK x : x = pick(s)
    OBVIOUS
  <2>4. Cardinality(s \ {x}) = Cardinality(s) - 1
    BY <2>1, <2>2, <2>3, FS_RemoveElement
  <2>5. s \ {x} \in SUBSET S /\ Cardinality(s \ {x}) <= n /\ Cardinality(s \ {x}) <= n + 1
    BY <2>1, <2>2, <2>4
  <2> QED
    BY <2>3, <2>5 DEF Small
<1>2. ASSUME NEW s \in Small(S, n) PROVE g[s] = f[s]
  <2>1. s \in Small(S, n + 1)
    <3>1. IsFiniteSet(s) /\ Cardinality(s) \in Nat
      BY FS_Subset, FS_CardinalityType DEF Small
    <3> QED
      BY <3>1 DEF Small
  <2>2. g[s] = IF s = {} THEN 0 ELSE f[s \ {pick(s)}] + pick(s).float
    BY <2>1
  <2>3. f[s] = IF s = {} THEN 0 ELSE f[s \ {pick(s)}] + pick(s).float
    BY DEF SumsUpTo
  <2> QED
    BY <2>2, <2>3
<1>3. ASSUME NEW s \in Small(S, n + 1)
      PROVE  g[s] = IF s = {} THEN 0 ELSE g[s \ {pick(s)}] + pick(s).float
  <2>1. CASE s = {}
    BY <2>1
  <2>2. CASE s # {}
    <3>1. g[s] = f[s \ {pick(s)}] + pick(s).float
      BY <2>2
    <3>2. s \ {pick(s)} \in Small(S, n)
      BY <1>1, <2>2
    <3> HIDE DEF g, pick
    <3>3. g[s \ {pick(s)}] = f[s \ {pick(s)}]
      BY <1>2, <3>2
    <3> QED
      BY <2>2, <3>1, <3>3
  <2> QED
    BY <2>1, <2>2
<1>4. DOMAIN g = Small(S, n + 1) /\ g = [s \in Small(S, n + 1) |-> g[s]]
  OBVIOUS
<1>5. g = [s \in Small(S, n + 1) |-> IF s = {} THEN 0 ELSE g[s \ {pick(s)}] + pick(s).float]
  <2> HIDE DEF g, pick
  <2> QED
    BY <1>3, <1>4
<1>6. SumsUpTo(S, n + 1, g)
  <2> HIDE DEF g
  <2> QED
    BY <1>5 DEF SumsUpTo
<1> QED
  BY <1>6

LEMMA LeastNumber ==
  ASSUME NEW T \in SUBSET Nat, T # {}
  PROVE  \E n \in T : \A m \in T : n <= m
<1>1. PICK n \in T : \A m \in T : <<m, n>> \notin OpToRel(<, Nat)
  BY NatLessThanWellFounded, WFMin, Zenon
<1>2. \A m \in T : ~ (m < n)
  BY <1>1 DEF OpToRel
<1>3. \A m \in T : n <= m
  BY <1>2
<1> QED
  BY <1>3

LEMMA SumsExist ==
  ASSUME NEW S, IsFiniteSet(S)
  PROVE  \E f : Sums(S, f)
<1> DEFINE T == {n \in Nat : ~ \E f : SumsUpTo(S, n, f)}
<1>1. ASSUME T # {} PROVE FALSE
  <2>1. T \in SUBSET Nat
    OBVIOUS
  <2> HIDE DEF T
  <2>2. PICK n \in T : \A m \in T : n <= m
    BY <1>1, <2>1, LeastNumber
  <2>3. n \in Nat /\ ~ \E f : SumsUpTo(S, n, f)
    BY <2>2 DEF T
  <2>4. CASE n = 0
    <3>1. \A s \in Small(S, 0) : s = {}
      <4> TAKE s \in Small(S, 0)
      <4>1. IsFiniteSet(s) /\ Cardinality(s) \in Nat /\ Cardinality(s) <= 0
        BY FS_Subset, FS_CardinalityType DEF Small
      <4>2. Cardinality(s) = 0
        BY <4>1
      <4> QED
        BY <4>1, <4>2, FS_EmptySet
    <3>2. PICK f : f = [s \in Small(S, 0) |-> 0]
      OBVIOUS
    <3>3. SumsUpTo(S, 0, f)
      BY <3>1, <3>2 DEF SumsUpTo
    <3> QED
      BY <2>3, <2>4, <3>3
  <2>5. CASE n # 0
    <3>1. n - 1 \in Nat /\ n - 1 \notin T
      BY <2>2, <2>3, <2>5
    <3>2. PICK k \in Nat : k = n - 1 /\ n = k + 1
      BY <2>3, <3>1
    <3>3. \E f : SumsUpTo(S, k, f)
      BY <3>1, <3>2 DEF T
    <3>4. \E f : SumsUpTo(S, k + 1, f)
      BY <3>3, OneMore
    <3> QED
      BY <2>3, <3>2, <3>4
  <2> QED
    BY <2>4, <2>5
<1>2. PICK n \in Nat : n = Cardinality(S)
  BY FS_CardinalityType
<1>3. PICK f : SumsUpTo(S, n, f)
  BY <1>1
<1>4. Small(S, n) = SUBSET S
  BY <1>2, FS_Subset DEF Small
<1>5. Sums(S, f)
  BY <1>3, <1>4 DEF SumsUpTo, Sums
<1> QED
  BY <1>5

LEMMA OneTerm ==
  ASSUME NEW n \in Nat, n # 0, NEW lo \in Int, NEW t \in Int, NEW v \in Int,
         (n - 1) * lo <= t, lo <= v
  PROVE  n * lo <= t + v
<1>1. (n - 1) * lo = n * lo - lo /\ n * lo \in Int
  OBVIOUS
<1> QED
  BY <1>1

LEMMA OneTermLess ==
  ASSUME NEW n \in Nat, n # 0, NEW hi \in Int, NEW t \in Int, NEW v \in Int,
         t <= (n - 1) * hi, v <= hi
  PROVE  t + v <= n * hi
<1>1. (n - 1) * hi = n * hi - hi /\ n * hi \in Int
  OBVIOUS
<1> QED
  BY <1>1

\* The sum of n numbers is no less than n times the least and no more than n times the
\* greatest: the mean of a bucket is within its extremes.
LEMMA TotalBounds ==
  ASSUME NEW S, IsFiniteSet(S), NEW lo \in Int, NEW hi \in Int,
         \A r \in S : r.float \in Int /\ lo <= r.float /\ r.float <= hi
  PROVE  Cardinality(S) * lo <= Total(S) /\ Total(S) <= Cardinality(S) * hi
<1>1. PICK f : Sums(S, f) /\ f[S] = Total(S)
  BY SumsExist, TotalIs
<1> DEFINE Good(s) == f[s] \in Int /\ Cardinality(s) * lo <= f[s] /\ f[s] <= Cardinality(s) * hi
           T == {s \in SUBSET S : ~ Good(s)}
<1>2. ASSUME T # {} PROVE FALSE
  <2>1. T \in SUBSET (SUBSET S)
    OBVIOUS
  <2> HIDE DEF T
  <2>2. PICK m \in T : \A t \in T : t \subseteq m => t = m
    BY <1>2, <2>1, SmallestExists
  <2>3. m \in SUBSET S /\ ~ Good(m)
    BY <2>2 DEF T
  <2>4. CASE m = {}
    <3>1. f[m] = 0 /\ Cardinality(m) = 0
      BY <1>1, <2>3, <2>4, FS_EmptySet DEF Sums
    <3> QED
      BY <2>3, <3>1
  <2>5. CASE m # {}
    <3>1. PICK x : x = CHOOSE y \in m : TRUE
      OBVIOUS
    <3>2. x \in m /\ x \in S
      BY <2>3, <2>5, <3>1
    <3>3. f[m] = f[m \ {x}] + x.float
      BY <1>1, <2>3, <2>5, <3>1 DEF Sums
    <3>4. m \ {x} \in SUBSET S /\ m \ {x} \notin T
      BY <2>2, <2>3, <3>2
    <3>5. PICK t \in Int : t = f[m \ {x}] /\ Good(m \ {x})
      BY <3>4 DEF T
    <3>6. PICK n \in Nat : n = Cardinality(m) /\ n # 0 /\ Cardinality(m \ {x}) = n - 1
      <4>1. IsFiniteSet(m)
        BY <2>3, FS_Subset
      <4>2. Cardinality(m) \in Nat /\ Cardinality(m) # 0
        BY <2>5, <4>1, FS_CardinalityType, FS_EmptySet
      <4>3. Cardinality(m \ {x}) = Cardinality(m) - 1
        BY <3>2, <4>1, FS_RemoveElement
      <4> QED
        BY <4>2, <4>3
    <3>7. PICK v \in Int : v = x.float /\ lo <= v /\ v <= hi
      BY <3>2
    <3>8. n * lo <= t + v
      BY <3>5, <3>6, <3>7, OneTerm
    <3>9. t + v <= n * hi
      BY <3>5, <3>6, <3>7, OneTermLess
    <3> QED
      BY <2>3, <3>3, <3>5, <3>6, <3>7, <3>8, <3>9
  <2> QED
    BY <2>4, <2>5
<1>3. Good(S)
  BY <1>2
<1> QED
  BY <1>1, <1>3

-----------------------------------------------------------------------------
(* The first rows or points of an answer.                                    *)

Stamped(S) ==
  /\ IsFiniteSet(S) /\ \A x \in S : x.ts \in Int
  /\ \A x, y \in S : x.ts = y.ts => x = y

Before(S, t) == {y \in S : y.ts < t}

LEMMA BeforeIs ==
  ASSUME NEW S, Stamped(S), NEW t \in Int
  PROVE  /\ IsFiniteSet(Before(S, t)) /\ Cardinality(Before(S, t)) \in Nat
         /\ \A u \in Int : u <= t => Cardinality(Before(S, u)) <= Cardinality(Before(S, t))
<1>1. Before(S, t) \in SUBSET S
  BY DEF Before
<1>2. IsFiniteSet(Before(S, t)) /\ Cardinality(Before(S, t)) \in Nat
  BY <1>1, FS_Subset, FS_CardinalityType DEF Stamped
<1>3. ASSUME NEW u \in Int, u <= t PROVE Cardinality(Before(S, u)) <= Cardinality(Before(S, t))
  <2>1. Before(S, u) \in SUBSET Before(S, t)
    BY <1>3 DEF Before, Stamped
  <2> QED
    BY <1>2, <2>1, FS_Subset
<1> QED
  BY <1>2, <1>3

LEMMA FirstOfEarlier ==
  ASSUME NEW S, Stamped(S), NEW n \in Nat, NEW A, A = FirstOf(n, S)
  PROVE  /\ A \subseteq S /\ IsFiniteSet(A)
         /\ \A x \in A, y \in S \ A : x.ts < y.ts
<1>1. A = {x \in S : Cardinality(Before(S, x.ts)) < n}
  BY DEF FirstOf, Before
<1>2. IsFiniteSet(A)
  BY <1>1, FS_Subset DEF Stamped
<1>3. ASSUME NEW x \in A, NEW y \in S \ A PROVE x.ts < y.ts
  <2>1. PICK t \in Int, u \in Int : t = x.ts /\ u = y.ts
    BY <1>1 DEF Stamped
  <2>2. PICK a \in Nat, b \in Nat : a = Cardinality(Before(S, t)) /\ b = Cardinality(Before(S, u))
    BY BeforeIs
  <2>3. a < n /\ ~ (b < n)
    BY <1>1, <2>1, <2>2
  <2>4. u <= t => b <= a
    BY <2>2, BeforeIs
  <2>5. ~ (u <= t)
    BY <2>3, <2>4
  <2> QED
    BY <2>1, <2>5
<1> QED
  BY <1>1, <1>2, <1>3

LEMMA FirstOfFull ==
  ASSUME NEW S, Stamped(S), NEW n \in Nat, NEW A, A = FirstOf(n, S), A # S
  PROVE  Cardinality(A) = n
<1>1. A = {x \in S : Cardinality(Before(S, x.ts)) < n}
  BY DEF FirstOf, Before
<1>2. A \subseteq S /\ IsFiniteSet(A) /\ \A x \in A, y \in S \ A : x.ts < y.ts
  BY FirstOfEarlier
<1>3. IsFiniteSet(S \ A) /\ S \ A # {}
  BY <1>2, FS_Subset DEF Stamped
<1>4. PICK y \in S \ A : \A z \in S \ A : y.ts <= z.ts
  <2>1. PICK f : f = [z \in S \ A |-> z.ts]
    OBVIOUS
  <2>2. f \in [S \ A -> Int]
    BY <2>1 DEF Stamped
  <2>3. PICK y \in S \ A : \A z \in S \ A : f[y] <= f[z]
    BY <1>3, <2>2, LeastExists
  <2> QED
    BY <2>1, <2>3
<1>5. A = Before(S, y.ts)
  <2>1. \A z \in S : z.ts \in Int
    BY DEF Stamped
  <2>2. \A z \in S : z \in A <=> z.ts < y.ts
    BY <1>2, <1>4, <2>1
  <2> QED
    BY <1>2, <2>2 DEF Before
<1>6. PICK m \in Nat : m = Cardinality(A)
  BY <1>2, FS_CardinalityType
<1>7. m >= n
  BY <1>1, <1>4, <1>5, <1>6
<1>8. m <= n
  <2>1. CASE A = {}
    BY <1>6, <2>1, FS_EmptySet
  <2>2. CASE A # {}
    <3>1. PICK x \in A : \A z \in A : z.ts <= x.ts
      <4>1. PICK f : f = [z \in A |-> z.ts]
        OBVIOUS
      <4>2. f \in [A -> Int]
        BY <1>2, <4>1 DEF Stamped
      <4>3. PICK x \in A : \A z \in A : f[z] <= f[x]
        BY <1>2, <2>2, <4>2, GreatestExists
      <4> QED
        BY <4>1, <4>3
    <3>2. \A z \in S : z.ts \in Int /\ (z.ts = x.ts => z = x)
      BY <1>2 DEF Stamped
    <3>3. Before(S, x.ts) = A \ {x}
      <4>1. \A z \in S : z.ts < x.ts <=> z \in A /\ z # x
        BY <1>2, <3>1, <3>2
      <4> QED
        BY <1>2, <4>1 DEF Before
    <3>4. Cardinality(A \ {x}) = m - 1
      BY <1>2, <1>6, FS_RemoveElement
    <3>5. Cardinality(Before(S, x.ts)) < n
      BY <1>1
    <3> QED
      BY <1>6, <3>3, <3>4, <3>5
  <2> QED
    BY <2>1, <2>2
<1> QED
  BY <1>6, <1>7, <1>8

-----------------------------------------------------------------------------
(* Buckets.                                                                  *)

LEMMA BucketIs ==
  ASSUME NEW t \in Int, NEW w \in Nat \ {0}
  PROVE  Bucket(t, w) \in Int /\ Bucket(t, w) <= t /\ t < Bucket(t, w) + w
<1>1. PICK i \in Int : i = t \div w
  OBVIOUS
<1>2. i * w \in Int /\ i * w <= t /\ t < i * w + w
  <2>1. t = w * (t \div w) + (t % w) /\ 0 <= t % w /\ t % w < w
    OBVIOUS
  <2>2. PICK m \in Int : m = t % w
    OBVIOUS
  <2>3. t = w * i + m /\ 0 <= m /\ m < w
    BY <1>1, <2>1, <2>2
  <2>4. w * i = i * w /\ i * w \in Int
    OBVIOUS
  <2> QED
    BY <2>3, <2>4
<1> QED
  BY <1>1, <1>2 DEF Bucket

LEMMA Multiples ==
  ASSUME NEW i \in Int, NEW j \in Int, NEW w \in Nat \ {0}, i * w < j * w
  PROVE  i * w + w <= j * w
<1>1. i < j
  <2>1. CASE j <= i
    <3>1. PICK d \in Nat : i = j + d
      BY <2>1
    <3>2. (j + d) * w = j * w + d * w /\ d * w \in Nat /\ j * w \in Int
      OBVIOUS
    <3> QED
      BY <3>1, <3>2
  <2> QED
    BY <2>1
<1>2. PICK d \in Nat : j = i + 1 + d
  BY <1>1
<1>3. (i + 1 + d) * w = i * w + w + d * w /\ d * w \in Nat /\ i * w \in Int
  OBVIOUS
<1> QED
  BY <1>2, <1>3

LEMMA BucketsApart ==
  ASSUME NEW t \in Int, NEW u \in Int, NEW w \in Nat \ {0}, Bucket(t, w) < Bucket(u, w)
  PROVE  Bucket(t, w) + w <= Bucket(u, w)
<1>1. PICK i \in Int, j \in Int : i = t \div w /\ j = u \div w
  OBVIOUS
<1>2. i * w < j * w
  BY <1>1 DEF Bucket
<1>3. i * w + w <= j * w
  BY <1>2, Multiples
<1> QED
  BY <1>1, <1>3 DEF Bucket

\* A time is in one bucket only.
LEMMA OneBucket ==
  ASSUME NEW t \in Int, NEW u \in Int, NEW w \in Nat \ {0},
         Bucket(t, w) <= u, u < Bucket(t, w) + w
  PROVE  Bucket(t, w) = Bucket(u, w)
<1>1. PICK a \in Int, b \in Int : a = Bucket(t, w) /\ b = Bucket(u, w)
  BY BucketIs
<1>2. b <= u /\ u < b + w
  BY <1>1, BucketIs
<1>3. a < b => a + w <= b
  BY <1>1, BucketsApart
<1>4. b < a => b + w <= a
  BY <1>1, BucketsApart
<1> QED
  BY <1>1, <1>2, <1>3, <1>4

-----------------------------------------------------------------------------
(* A bucketed answer.                                                        *)

LEMMA ImageFinite ==
  ASSUME NEW S, IsFiniteSet(S), NEW f
  PROVE  IsFiniteSet({f[x] : x \in S})
<1>1. PICK g : g = [x \in S |-> f[x]]
  OBVIOUS
<1>2. PICK T : T = {f[x] : x \in S}
  OBVIOUS
<1>3. g \in Surjection(S, T)
  BY <1>1, <1>2 DEF Surjection
<1> QED
  BY <1>2, <1>3, FS_Surjection

Numeric(S) ==
  /\ IsFiniteSet(S) /\ Null \notin Int
  /\ \A r \in S : r.ts \in Int /\ r.float \in Int \cup {Null}

NumbersIn(G) == {r \in G : r.float # Null}
ValuesIn(G) == {r.float : r \in NumbersIn(G)}

SummaryTells(p, b, G) ==
  /\ p.ts = b /\ p.count = Cardinality(G)
  /\ p.terms = 0 <=> p.min = Null
  /\ p.terms > 0 => p.terms * p.min <= p.sum /\ p.sum <= p.terms * p.max
  /\ \A r \in G : r.float # Null => p.min <= r.float /\ r.float <= p.max

LEMMA SummaryIs ==
  ASSUME NEW b, NEW G, Numeric(G), NEW p, p = Summary(b, G)
  PROVE  SummaryTells(p, b, G)
<1>1. PICK N, V : N = NumbersIn(G) /\ V = ValuesIn(G)
  OBVIOUS
<1>2. IsFiniteSet(N) /\ V \in SUBSET Int /\ IsFiniteSet(V) /\ V = {r.float : r \in N}
  <2>1. N \in SUBSET G /\ V = {r.float : r \in N} /\ \A r \in N : r.float \in Int
    BY <1>1 DEF NumbersIn, ValuesIn, Numeric
  <2>2. IsFiniteSet(N)
    BY <2>1, FS_Subset DEF Numeric
  <2>3. PICK f : f = [r \in N |-> r.float]
    OBVIOUS
  <2>4. IsFiniteSet({f[r] : r \in N})
    BY <2>2, ImageFinite
  <2>5. {f[r] : r \in N} = V
    BY <2>1, <2>3
  <2> QED
    BY <2>1, <2>2, <2>4, <2>5
<1>3. p = [ts |-> b, count |-> Cardinality(G), terms |-> Cardinality(N), sum |-> Total(N),
           min |-> IF V = {} THEN Null ELSE Min(V), max |-> IF V = {} THEN Null ELSE Max(V)]
  BY <1>1 DEF Summary, Total, NumbersIn, ValuesIn
<1>4. /\ p.ts = b /\ p.count = Cardinality(G) /\ p.terms = Cardinality(N) /\ p.sum = Total(N)
      /\ p.min = IF V = {} THEN Null ELSE Min(V)
      /\ p.max = IF V = {} THEN Null ELSE Max(V)
  BY <1>3
<1>5. CASE N = {}
  <2>1. V = {} /\ p.terms = 0 /\ p.min = Null /\ \A r \in G : r.float = Null
    BY <1>1, <1>2, <1>4, <1>5, FS_EmptySet DEF NumbersIn
  <2> QED
    BY <1>4, <2>1 DEF SummaryTells
<1>6. CASE N # {}
  <2>1. V # {}
    BY <1>2, <1>6
  <2>2. PICK lo \in Int, hi \in Int : lo = Min(V) /\ hi = Max(V)
    BY <1>2, <2>1, Extremes
  <2>3. \A v \in V : lo <= v /\ v <= hi
    BY <1>2, <2>1, <2>2, Extremes
  <2>4. p.min = lo /\ p.max = hi /\ p.min # Null
    BY <1>4, <2>1, <2>2 DEF Numeric
  <2>5. p.terms # 0
    BY <1>2, <1>4, <1>6, FS_EmptySet
  <2>6. \A r \in N : r.float \in Int /\ lo <= r.float /\ r.float <= hi
    BY <1>2, <2>3
  <2>7. p.terms * p.min <= p.sum /\ p.sum <= p.terms * p.max
    BY <1>2, <1>4, <2>2, <2>4, <2>6, TotalBounds
  <2>8. \A r \in G : r.float # Null => p.min <= r.float /\ r.float <= p.max
    BY <1>1, <2>4, <2>6 DEF NumbersIn
  <2> QED
    BY <1>4, <2>4, <2>5, <2>7, <2>8 DEF SummaryTells
<1> QED
  BY <1>5, <1>6

Group(In, w, b) == {r \in In : Bucket(r.ts, w) = b}
Points(In, w) == {Summary(b, Group(In, w, b)) : b \in {Bucket(r.ts, w) : r \in In}}

\* There is a point for each row, and each point is for a row.
LEMMA PointsAre ==
  ASSUME NEW In, Numeric(In), NEW w \in Nat \ {0}
  PROVE  /\ Stamped(Points(In, w))
         /\ \A r \in In : \E p \in Points(In, w) : p.ts = Bucket(r.ts, w)
         /\ \A p \in Points(In, w) :
              /\ SummaryTells(p, p.ts, Group(In, w, p.ts))
              /\ \E r \in In : p.ts = Bucket(r.ts, w)
<1>1. PICK g : g = [r \in In |-> Summary(Bucket(r.ts, w), Group(In, w, Bucket(r.ts, w)))]
  OBVIOUS
<1>2. Points(In, w) = {g[r] : r \in In}
  BY <1>1 DEF Points
<1>3. IsFiniteSet(Points(In, w))
  BY <1>2, ImageFinite DEF Numeric
<1>4. ASSUME NEW r \in In
      PROVE  LET b == Bucket(r.ts, w) IN
             /\ g[r] = Summary(b, Group(In, w, b)) /\ g[r].ts = b /\ b \in Int
             /\ SummaryTells(g[r], b, Group(In, w, b))
  <2>1. r.ts \in Int
    BY DEF Numeric
  <2>2. PICK b \in Int : b = Bucket(r.ts, w)
    BY <2>1, BucketIs
  <2>3. PICK G : G = Group(In, w, b)
    OBVIOUS
  <2>4. Numeric(G)
    <3>1. G \in SUBSET In
      BY <2>3 DEF Group
    <3> QED
      BY <3>1, FS_Subset DEF Numeric
  <2>5. g[r] = Summary(b, G)
    BY <1>1, <2>2, <2>3
  <2>6. SummaryTells(g[r], b, G)
    BY <2>4, <2>5, SummaryIs
  <2>7. g[r].ts = b
    BY <2>6 DEF SummaryTells
  <2> QED
    BY <2>2, <2>3, <2>5, <2>6, <2>7
<1>5. ASSUME NEW p \in Points(In, w), NEW q \in Points(In, w), p.ts = q.ts PROVE p = q
  <2>1. PICK r \in In, s \in In : p = g[r] /\ q = g[s]
    BY <1>2
  <2>2. Bucket(r.ts, w) = Bucket(s.ts, w)
    BY <1>4, <1>5, <2>1
  <2> QED
    BY <1>4, <2>1, <2>2
<1>6. Stamped(Points(In, w))
  BY <1>2, <1>3, <1>4, <1>5 DEF Stamped
<1>7. ASSUME NEW p \in Points(In, w)
      PROVE  /\ SummaryTells(p, p.ts, Group(In, w, p.ts))
             /\ \E r \in In : p.ts = Bucket(r.ts, w)
  <2>1. PICK r \in In : p = g[r]
    BY <1>2
  <2> QED
    BY <1>4, <2>1
<1>8. \A r \in In : \E p \in Points(In, w) : p.ts = Bucket(r.ts, w)
  BY <1>2, <1>4
<1> QED
  BY <1>6, <1>7, <1>8

LEMMA PointsSummarise ==
  ASSUME NEW In, Numeric(In), NEW w \in Nat \ {0}, NEW n \in Nat, NEW P, P = FirstOf(n, Points(In, w))
  PROVE  Summarises(P, In, w, n)
<1>1. PICK S : S = Points(In, w)
  OBVIOUS
<1>2. /\ Stamped(S)
      /\ \A r \in In : \E p \in S : p.ts = Bucket(r.ts, w)
      /\ \A p \in S : SummaryTells(p, p.ts, Group(In, w, p.ts)) /\ \E r \in In : p.ts = Bucket(r.ts, w)
  BY <1>1, PointsAre
<1>3. /\ P \subseteq S
      /\ \A x \in P, y \in S \ P : x.ts < y.ts
      /\ P # S => Cardinality(P) = n
  BY <1>1, <1>2, FirstOfEarlier, FirstOfFull
<1>4. \A r \in In : r.ts \in Int
  BY DEF Numeric
<1>5. ASSUME NEW p \in S, NEW r \in In PROVE Tells(p, r, w) <=> p.ts = Bucket(r.ts, w)
  <2>1. PICK t \in Int, u \in Int : t = r.ts /\ p.ts = Bucket(u, w)
    BY <1>2, <1>4
  <2>2. CASE Tells(p, r, w)
    BY <2>1, <2>2, OneBucket DEF Tells
  <2>3. CASE p.ts = Bucket(t, w)
    BY <2>1, <2>3, BucketIs DEF Tells
  <2> QED
    BY <2>1, <2>2, <2>3
<1>6. ASSUME NEW r \in In
      PROVE  \/ \E p \in P :
                  /\ Tells(p, r, w) /\ \A q \in P \ {p} : ~ Tells(q, r, w)
                  /\ r.float # Null => p.min <= r.float /\ r.float <= p.max
             \/ Cardinality(P) = n /\ \A p \in P : p.ts + w <= r.ts
  <2>1. PICK p \in S : p.ts = Bucket(r.ts, w)
    BY <1>2
  <2>2. CASE p \in P
    <3>1. Tells(p, r, w)
      BY <1>5, <2>1
    <3>2. \A q \in P \ {p} : ~ Tells(q, r, w)
      BY <1>2, <1>3, <1>5, <2>1 DEF Stamped
    <3>3. r.float # Null => p.min <= r.float /\ r.float <= p.max
      BY <1>2, <2>1 DEF SummaryTells, Group
    <3> QED
      BY <2>2, <3>1, <3>2, <3>3
  <2>3. CASE p \notin P
    <3>1. Cardinality(P) = n
      BY <1>3, <2>3
    <3>2. ASSUME NEW q \in P PROVE q.ts + w <= r.ts
      <4>1. q.ts < p.ts
        BY <1>3, <2>3
      <4>2. PICK t \in Int, u \in Int : t = r.ts /\ q.ts = Bucket(u, w)
        BY <1>2, <1>3, <1>4
      <4>3. PICK a \in Int, b \in Int : a = Bucket(u, w) /\ b = Bucket(t, w) /\ b <= t
        BY BucketIs
      <4>4. a + w <= b
        BY <2>1, <4>1, <4>2, <4>3, BucketsApart
      <4> QED
        BY <4>2, <4>3, <4>4
    <3> QED
      BY <3>1, <3>2
  <2> QED
    BY <2>2, <2>3
<1>7. ASSUME NEW p \in P
      PROVE  /\ p.count = Cardinality({r \in In : Tells(p, r, w)})
             /\ p.terms = 0 <=> p.min = Null
             /\ p.terms > 0 => p.terms * p.min <= p.sum /\ p.sum <= p.terms * p.max
  <2>1. {r \in In : Tells(p, r, w)} = Group(In, w, p.ts)
    BY <1>3, <1>5 DEF Group
  <2>2. SummaryTells(p, p.ts, Group(In, w, p.ts))
    BY <1>2, <1>3
  <2> QED
    BY <2>1, <2>2 DEF SummaryTells
<1> QED
  BY <1>6, <1>7 DEF Summarises

\* The table has one row for a time stamp.
RowsApart == IsFiniteSet(rows) /\ \A r, s \in rows : r.ts = s.ts => r = s

LEMMA RowsStayApart ==
  ASSUME RowsApart, Next
  PROVE  RowsApart'
<1>1. CASE RowCommitted
  <2>1. PICK ts \in (Max({0, now - Lag}) .. now) \ {r.ts : r \in rows}, x \in Floats :
          rows' = rows \cup {[ts |-> ts, float |-> x]}
    BY <1>1 DEF RowCommitted
  <2>2. PICK new : new = [ts |-> ts, float |-> x]
    OBVIOUS
  <2>3. new.ts = ts /\ rows' = rows \cup {new} /\ \A r \in rows : r.ts # ts
    BY <2>1, <2>2
  <2>4. IsFiniteSet(rows')
    BY <2>3, FS_AddElement DEF RowsApart
  <2> QED
    BY <2>3, <2>4 DEF RowsApart
<1>2. CASE ~ RowCommitted
  <2>1. rows' \in SUBSET rows
    BY <1>2 DEF Next, Tick, DaysSaved, PassBegins, Pruned, PassFailed, Shutdown, Kept
  <2>2. IsFiniteSet(rows')
    BY <2>1, FS_Subset DEF RowsApart
  <2> QED
    BY <2>1, <2>2 DEF RowsApart
<1> QED
  BY <1>1, <1>2

\* What any query answers.
LEMMA AnswerTells ==
  ASSUME Typed, RowsApart, NEW q, q.interval \in Nat, q.limit \in Nat, Start(q) \in Int, End(q) \in Int
  PROVE  LET In == {r \in rows : r.ts \in Start(q) .. End(q)}
             A == Answer(q)
         IN IF q.interval > 0 THEN Summarises(A, In, q.interval, q.limit)
            ELSE /\ A \subseteq In
                 /\ A # In => Cardinality(A) = q.limit
                 /\ \A r \in A : \A s \in In \ A : r.ts <= s.ts
<1>1. PICK a \in Int, b \in Int : a = Start(q) /\ b = End(q)
  OBVIOUS
<1> DEFINE In == {r \in rows : r.ts \in a .. b}
<1>2. \A r \in rows : r.ts \in Int /\ r.float \in Int \cup {Null}
  <2>1. rows \subseteq Row
    BY DEF Typed, TypeOK
  <2>2. \A r \in Row : r.ts \in 0 .. MaxTime /\ r.float \in Floats
    BY DEF Row
  <2>3. 0 .. MaxTime \subseteq Int /\ Floats \subseteq Int \cup {Null}
    BY Assumed DEF ArchiveAssumption
  <2> QED
    BY <2>1, <2>2, <2>3
<1>3. In = InRange(rows, a, b)
  BY <1>1, <1>2 DEF InRange
<1>4. Numeric(In) /\ Stamped(In)
  <2>1. In \in SUBSET rows
    BY <1>1
  <2>2. IsFiniteSet(In)
    BY <2>1, FS_Subset DEF RowsApart
  <2> QED
    BY <1>2, <2>1, <2>2, Assumed DEF Numeric, Stamped, RowsApart, ArchiveAssumption
<1>5. CASE q.interval > 0
  <2>1. PICK w \in Nat \ {0}, n \in Nat : w = q.interval /\ n = q.limit
    BY <1>5
  <2>2. Answer(q) = FirstOf(n, Points(In, w))
    BY <1>1, <1>3, <1>5, <2>1 DEF Answer, Bucketed, Points, Group
  <2>3. Summarises(Answer(q), In, w, n)
    BY <1>4, <2>2, PointsSummarise
  <2> QED
    BY <1>1, <1>5, <2>1, <2>3
<1>6. CASE ~ (q.interval > 0)
  <2>1. PICK n \in Nat : n = q.limit
    OBVIOUS
  <2>2. PICK A : A = FirstOf(n, In) /\ A = Answer(q)
    BY <1>1, <1>3, <1>6, <2>1 DEF Answer, Raw
  <2>3. A \subseteq In /\ \A r \in A, s \in In \ A : r.ts < s.ts
    BY <1>4, <2>2, FirstOfEarlier
  <2>4. A # In => Cardinality(A) = n
    BY <1>4, <2>2, FirstOfFull
  <2>5. \A r \in A : \A s \in In \ A : r.ts <= s.ts
    <3>1. \A r \in In : r.ts \in Int
      BY <1>4 DEF Numeric
    <3> QED
      BY <2>3, <3>1
  <2> QED
    BY <1>1, <1>6, <2>1, <2>2, <2>3, <2>4, <2>5
<1> QED
  BY <1>5, <1>6

LEMMA RequestsAre ==
  ASSUME Typed, NEW q \in Requests
  PROVE  q.interval \in Nat /\ q.limit \in Nat /\ Start(q) \in Int /\ End(q) \in Int
<1>1. /\ q.start \in {Null, 0, 1} /\ q.end \in {Null, 3}
      /\ q.interval \in {0, 1, 2} /\ q.limit \in {1, 2}
  BY DEF Requests
<1>2. now \in Int /\ Hour \in Int
  BY Assumed DEF Typed, TypeOK, ArchiveAssumption
<1>3. End(q) \in Int
  BY <1>1, <1>2 DEF End
<1>4. Start(q) \in Int
  BY <1>1, <1>2, <1>3 DEF Start
<1> QED
  BY <1>1, <1>3, <1>4

(* GET /api/history/{tag}: for every set of rows the archive can hold, a     *)
(* bucketed answer tells each row of its range by exactly one point, whose   *)
(* extremes and mean are those of its rows, and a raw one is the rows or the *)
(* earliest of them.  AnswerTells proves it of any query, with any interval  *)
(* and limit.                                                                *)
THEOREM HistoriesTell == MCSpec => []HistoryTellsRows
<1>1. MCInit => RowsApart
  BY FS_EmptySet DEF MCInit, Init, RowsApart
<1>2. RowsApart /\ [Next /\ Watched]_mcvars => RowsApart'
  <2> SUFFICES ASSUME RowsApart, [Next /\ Watched]_mcvars PROVE RowsApart'
    OBVIOUS
  <2>1. CASE UNCHANGED mcvars
    BY <2>1 DEF mcvars, vars, RowsApart
  <2> QED
    BY <2>1, RowsStayApart
<1>3. Typed /\ RowsApart => HistoryTellsRows
  BY RequestsAre, AnswerTells DEF HistoryTellsRows
<1>4. ArchiveInv => Typed
  BY DEF ArchiveInv
<1> QED
  BY <1>1, <1>2, <1>3, <1>4, ArchiveInvariance, PTL DEF MCSpec

=============================================================================
