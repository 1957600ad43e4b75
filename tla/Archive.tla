-------------------------------- MODULE Archive --------------------------------
(***************************************************************************)
(* The archive as time passes: the pipeline adds rows to tag_values, the   *)
(* retention pruner (ingest/retention.py) deletes those older than the     *)
(* setting retention.days, which administrators change meanwhile, and the  *)
(* history API reads them.                                                 *)
(*                                                                         *)
(* Time advances in ticks.  A tick waits for what the event loop would not *)
(* delay: a pruner whose sleep is over, and a DELETE that has taken DbTime.*)
(***************************************************************************)
EXTENDS HistoryQueries

CONSTANTS
  Days,           \* the values retention.days is given; 0 keeps everything
  InitialDays,    \* the value at start-up
  Day,            \* ticks in a day
  Hour,           \* ticks in an hour
  Interval,       \* CHECK_INTERVAL_SECONDS, in ticks
  DbTime,         \* bound on the ticks a DELETE takes
  Lag,            \* bound on the ticks between a sample's time stamp and its commit
  Floats,         \* value_float of the rows
  MaxTime,        \* bound on the time
  MaxRows,        \* bound on the rows written
  MaxDbFailures   \* bound on the passes that fail

ASSUME ArchiveAssumption ==
  /\ Days \subseteq Nat /\ InitialDays \in Days
  /\ Day \in Nat \ {0} /\ Hour \in Nat /\ Interval \in Nat \ {0} /\ DbTime \in Nat
  /\ Lag \in 0 .. Day
  /\ Floats \subseteq Int \cup {Null} /\ Null \notin Int
  /\ MaxTime \in Nat /\ MaxRows \in Nat /\ MaxDbFailures \in Nat

VARIABLES
  now,
  rows, written,   \* tag_values, and how many rows were ever written
  days,            \* runtime_settings.get("retention.days")
  pc,              \* the pruner: "new", "delete", "wait" or "done"
  cutoff,          \* the DELETE under way removes rows before it
  since,           \* when it began, or when the sleep began
  failures, stop

prunerVars == <<pc, cutoff, since>>
vars == <<now, rows, written, days, prunerVars, failures, stop>>

Init ==
  /\ now = 0 /\ rows = {} /\ written = 0
  /\ days = InitialDays
  /\ pc = "new" /\ cutoff = 0 /\ since = 0
  /\ failures = 0 /\ stop = FALSE

-----------------------------------------------------------------------------
Due == pc = "new" \/ (pc = "wait" /\ now >= since + Interval)

Tick ==
  /\ now < MaxTime /\ now' = now + 1
  /\ ~ Due /\ (pc = "delete" => now < since + DbTime)
  /\ UNCHANGED <<rows, written, days, prunerVars, failures, stop>>

\* The pipeline commits a row some time after its sample was stamped.  A stamp the table
\* has already is refused (what becomes of the batch then is in IngestPipeline).
RowCommitted ==
  /\ written < MaxRows /\ written' = written + 1
  /\ \E ts \in (Max({0, now - Lag}) .. now) \ {r.ts : r \in rows}, x \in Floats :
       rows' = rows \cup {[ts |-> ts, float |-> x]}
  /\ UNCHANGED <<now, days, prunerVars, failures, stop>>

\* PUT /api/settings; the pruner is not told.
DaysSaved(d) ==
  /\ ~ stop /\ d # days /\ days' = d
  /\ UNCHANGED <<now, rows, written, prunerVars, failures, stop>>

-----------------------------------------------------------------------------
(* The pruner: from one await to the next.                                   *)

Sleeps == pc' = "wait" /\ since' = now /\ UNCHANGED cutoff

\* not days or days <= 0
NothingExpires == FALSE
KeepsForever == days = 0

CutoffAhead == now + days * Day
Cutoff == now - days * Day

PassBegins ==
  /\ Due
  /\ IF KeepsForever THEN Sleeps
     ELSE pc' = "delete" /\ since' = now /\ cutoff' = Cutoff
  /\ UNCHANGED <<now, rows, written, days, failures, stop>>

Kept == {r \in rows : r.ts >= cutoff}

Pruned ==
  /\ pc = "delete"
  /\ rows' = Kept
  /\ Sleeps
  /\ UNCHANGED <<now, written, days, failures, stop>>

PassFailedForGood ==
  /\ pc = "delete"
  /\ failures < MaxDbFailures /\ failures' = failures + 1
  /\ pc' = "done"
  /\ UNCHANGED <<now, rows, written, days, cutoff, since, stop>>

\* run_retention_pruner logs the exception and sleeps as after any pass.
PassFailed ==
  /\ pc = "delete"
  /\ failures < MaxDbFailures /\ failures' = failures + 1
  /\ Sleeps
  /\ UNCHANGED <<now, rows, written, days, stop>>

\* lifespan sets the event and cancels the task at its await.  A sleep that the event
\* ends before the cancellation arrives (CPython 3.11) leaves the loop at its head.
Shutdown ==
  /\ ~ stop /\ stop' = TRUE
  /\ pc' = "done"
  /\ rows' \in IF pc = "delete" THEN {rows, Kept} ELSE {rows}
  /\ UNCHANGED <<now, written, days, cutoff, since, failures>>

Next ==
  \/ Tick \/ RowCommitted
  \/ \E d \in Days : DaysSaved(d)
  \/ PassBegins \/ Pruned \/ PassFailed
  \/ Shutdown

Spec == Init /\ [][Next]_vars

-----------------------------------------------------------------------------
(* GET /api/history/{tag}: what is left out of a request is filled in.       *)

End(q) == IF q.end = Null THEN now ELSE q.end
Start(q) == IF q.start = Null THEN End(q) - Hour ELSE q.start

Answer(q) ==
  IF q.interval > 0 THEN Bucketed(rows, Start(q), End(q), q.interval, q.limit)
  ELSE Raw(rows, Start(q), End(q), q.limit)

-----------------------------------------------------------------------------
(* Properties.                                                               *)

Row == [ts : 0 .. MaxTime, float : Floats]

\* Every variable stays in its domain; neither a row nor a cutoff lies in the future.
TypeOK ==
  /\ now \in 0 .. MaxTime
  /\ rows \subseteq Row /\ written \in 0 .. MaxRows
  /\ \A r \in rows : r.ts <= now
  /\ days \in Days
  /\ pc \in {"new", "delete", "wait", "done"}
  /\ cutoff \in Int /\ cutoff <= now /\ since \in 0 .. now
  /\ failures \in 0 .. MaxDbFailures /\ stop \in BOOLEAN
=============================================================================
