---------------------------- MODULE IngestPipeline ----------------------------
(***************************************************************************)
(* The ingest pipeline (app/ingest/pipeline.py): connectors put samples on *)
(* one bounded queue; one consumer task takes them, publishes the live     *)
(* value, evaluates alarms, applies the deadband and archives in batches;  *)
(* a second task flushes the buffer periodically; load_metadata, run at    *)
(* start-up and by POST /api/config/reload, replaces the tag and alarm     *)
(* definitions underneath them.                                            *)
(*                                                                         *)
(* asyncio runs one task at a time and switches only at an await, so an    *)
(* action is the code between two awaits that can suspend.  A database     *)
(* operation is two actions where its effect and the resumption of the     *)
(* caller can be told apart.  Raising out of the consumer's loop is part   *)
(* of the action that raises: the finally block starts without an await.   *)
(***************************************************************************)
EXTENDS SampleRules, Sequences, FiniteSets

CONSTANTS
  Tags,            \* tag names
  Alarms,          \* ids of alarm definitions, in the order the database returns them
  Inputs,          \* the samples connectors emit: [tag, value, quality]
  Configs,         \* contents of config/tags.yaml: [tags, alarms], two functions
  InitialConfig,   \* the one load_and_sync put in the database at start-up
  Reloads,         \* reload requests that may be made
  QueueMax,        \* ingest_queue_maxsize
  BatchSize,       \* ingest_batch_size
  MaxSamples,      \* bound on the samples emitted
  MaxDbFailures    \* bound on the database operations that fail

\* f is a partial function from S to T, as a Python dict is.
Partial(f, S, T) == DOMAIN f \subseteq S /\ f \in [DOMAIN f -> T]

\* The files list the alarms of a tag with the tag.
IsConfig(c) ==
  /\ c = [tags |-> c.tags, alarms |-> c.alarms]
  /\ Partial(c.tags, Tags, TagMeta)
  /\ Partial(c.alarms, Alarms, AlarmDef)
  /\ \A a \in DOMAIN c.alarms : c.alarms[a].tag \in DOMAIN c.tags

\* The sync knows an alarm by its tag and its condition, whatever file it is in.
SameAlarms(c, d) ==
  \A a \in DOMAIN c.alarms \cap DOMAIN d.alarms :
    c.alarms[a].tag = d.alarms[a].tag /\ c.alarms[a].condition = d.alarms[a].condition

ASSUME PipelineAssumption ==
  /\ Tags \subseteq STRING
  /\ Alarms \subseteq Nat /\ IsFiniteSet(Alarms)
  /\ Inputs \subseteq [tag : STRING, value : Value, quality : Quality]
  /\ QueueMax \in Nat \ {0}
  /\ BatchSize \in Nat \ {0}
  /\ MaxSamples \in Nat
  /\ MaxDbFailures \in Nat
  /\ Reloads \cap {"run", "lifespan"} = {}
  /\ \A c, d \in Configs \cup {InitialConfig} : IsConfig(c) /\ SameAlarms(c, d)

Override(f, g) == [x \in DOMAIN f \cup DOMAIN g |->
                     IF x \in DOMAIN g THEN g[x] ELSE f[x]]

Loaders == {"run", "lifespan"} \cup Reloads
SampleIds == 1 .. MaxSamples
NoSample == [id |-> 0]
Sample == [id : SampleIds, tag : STRING, value : Value, quality : Quality]
Row == [id : SampleIds, tag : STRING, float : Value]
Runtime == [def : AlarmDef, active : BOOLEAN]     \* AlarmRuntimeState
Event == [alarm : Alarms, state : {"active", "cleared"}]
NoWork == [detached |-> TRUE]

VARIABLES
  \* connectors and queue
  queue, emitted,
  \* the consumer task
  pc,        \* the await it is suspended in: "load", "get", "journal", "flush", "final", or "done"
  work,      \* _handle_sample's locals while it writes an alarm event
  batch,     \* the batch it is committing
  buffer,    \* self._buffer
  last,      \* self._last_value
  live,      \* live_bus: the sample last published for a tag
  \* the periodic flusher
  flusher, flBatch,
  \* definitions in memory and in the database
  meta, alarms, dbTags, dbAlarms,
  loader,    \* state of each call of load_metadata
  \* database tables
  rows, journal,
  \* why a sample was not archived, failures so far, shutdown under way
  dropped, failures, stop

connVars == <<queue, emitted>>
taskVars == <<pc, work, batch, buffer, last, live>>
flushVars == <<flusher, flBatch>>
defVars == <<meta, alarms>>
dbVars == <<dbTags, dbAlarms>>
vars == <<connVars, taskVars, flushVars, defVars, dbVars, loader, rows, journal,
          dropped, failures, stop>>

-----------------------------------------------------------------------------
\* A call of load_metadata: where it is suspended, the files a reload request read, the
\* alarms that were active when it began, and the rows of its two queries.
Call(where, config, active, tags, defs) ==
  [pc |-> where, config |-> config, active |-> active, tags |-> tags, alarms |-> defs]
NoCall(where) == Call(where, InitialConfig, {}, <<>>, <<>>)

Init ==
  /\ queue = <<>> /\ emitted = 0
  /\ pc = "load" /\ work = NoWork
  /\ batch = {} /\ buffer = {}
  /\ last = [t \in Tags |-> Null]
  /\ live = [t \in Tags |-> NoSample]
  /\ flusher = "none" /\ flBatch = {}
  /\ meta = <<>> /\ alarms = <<>>
  /\ dbTags = InitialConfig.tags /\ dbAlarms = InitialConfig.alarms
  /\ loader = [l \in Loaders |-> NoCall(IF l \in Reloads THEN "idle" ELSE "begin")]
  /\ rows = {} /\ journal = <<>>
  /\ dropped = {} /\ failures = 0 /\ stop = FALSE

Started == loader["lifespan"].pc = "done"   \* supervisor.start_all has run

Fails == failures < MaxDbFailures /\ failures' = failures + 1

Without(ids, why) == {[id |-> i, why |-> why] : i \in ids}
Lost(R, why) == Without({r.id : r \in R}, why)

-----------------------------------------------------------------------------
(* Connectors.                                                               *)

\* put_nowait succeeds.
RoomForOneTooMany == Len(queue) <= QueueMax
HasRoom == Len(queue) < QueueMax

\* BaseConnector.emit: put_nowait, or drop the new sample when the queue is full.
EmitAfterStop ==
  /\ Started
  /\ emitted < MaxSamples
  /\ emitted' = emitted + 1
  /\ dropped' = dropped \cup (IF HasRoom THEN {} ELSE Without({emitted + 1}, "full"))
  /\ \E in \in Inputs :
       queue' = IF HasRoom THEN Append(queue, [id |-> emitted + 1, tag |-> in.tag,
                                               value |-> in.value, quality |-> in.quality])
                ELSE queue
  /\ UNCHANGED <<taskVars, flushVars, defVars, dbVars, loader, rows, journal, failures, stop>>

Emit ==
  /\ Started /\ ~ stop
  /\ emitted < MaxSamples
  /\ emitted' = emitted + 1
  /\ \E in \in Inputs :
       IF HasRoom
       THEN /\ queue' = Append(queue, [id |-> emitted + 1, tag |-> in.tag,
                                       value |-> in.value, quality |-> in.quality])
            /\ UNCHANGED dropped
       ELSE /\ dropped' = dropped \cup Without({emitted + 1}, "full")
            /\ UNCHANGED queue
  /\ UNCHANGED <<taskVars, flushVars, defVars, dbVars, loader, rows, journal, failures, stop>>

-----------------------------------------------------------------------------
(* The consumer.                                                             *)

\* The finally block of run: cancel the flusher, whose commit under way may or may
\* not reach the database, then flush what is left in the buffer b.
Unwind(b, r, d) ==
  /\ flusher' = IF flusher = "dead" THEN "dead" ELSE "cancelled"
  /\ flBatch' = {}
  /\ \/ rows' = r \cup flBatch /\ dropped' = d
     \/ rows' = r /\ dropped' = d \cup Lost(flBatch, "interrupted")
  /\ work' = NoWork
  /\ batch' = b /\ buffer' = {}
  /\ pc' = IF b = {} THEN "done" ELSE "final"

\* The head of the loop: leave it once stop is set, else wait for a sample.
LoopHead(b, r, d) ==
  \/ stop /\ Unwind(b, r, d)
  \/ /\ ~ stop
     /\ pc' = "get" /\ work' = NoWork
     /\ batch' = {} /\ buffer' = b
     /\ rows' = r /\ dropped' = d
     /\ UNCHANGED flushVars

\* len(self._buffer) >= ingest_batch_size
FullWhenOver(b) == Cardinality(b) > BatchSize
Full(b) == Cardinality(b) >= BatchSize

\* The tail of the loop: commit the buffer once it holds a batch.
AfterHandling(b, d) ==
  \/ /\ Full(b)
     /\ pc' = "flush" /\ work' = NoWork
     /\ batch' = b /\ buffer' = {}
     /\ dropped' = d
     /\ UNCHANGED <<flushVars, rows>>
  \/ ~ Full(b) /\ LoopHead(b, rows, d)

\* _handle_sample after the alarms: not archived because the tag is not, ...
Unarchived(s, m) ==
  /\ ~ m.archive
  /\ AfterHandling(buffer, dropped \cup Without({s.id}, "disabled"))
  /\ UNCHANGED last

\* ... because the deadband check raises, ...
DeadbandCheckRaises(s, m) ==
  /\ m.archive
  /\ DeadbandRaises(m, FloatOf(s.value, m.type), last[s.tag])
  /\ Unwind(buffer, rows, dropped \cup Without({s.id}, "raised"))
  /\ UNCHANGED last

\* ... because the value is within the deadband of the last archived one, ...
FilteredButRemembered(s, m) ==
  /\ m.archive
  /\ WithinDeadband(m, FloatOf(s.value, m.type), last[s.tag])
  /\ AfterHandling(buffer, dropped \cup Without({s.id}, "deadband"))
  /\ last' = [last EXCEPT ![s.tag] = Remembered(s.value, FloatOf(s.value, m.type))]

Filtered(s, m) ==
  /\ m.archive
  /\ WithinDeadband(m, FloatOf(s.value, m.type), last[s.tag])
  /\ AfterHandling(buffer, dropped \cup Without({s.id}, "deadband"))
  /\ UNCHANGED last

\* ... or archived: remembered before its row is committed.
Stored(s, m) ==
  LET float == FloatOf(s.value, m.type) IN
  /\ m.archive
  /\ ~ DeadbandRaises(m, float, last[s.tag])
  /\ ~ WithinDeadband(m, float, last[s.tag])
  /\ last' = [last EXCEPT ![s.tag] = Remembered(s.value, float)]
  /\ AfterHandling(buffer \cup {[id |-> s.id, tag |-> s.tag, float |-> float]}, dropped)

Archive(s, m) ==
  Unarchived(s, m) \/ DeadbandCheckRaises(s, m) \/ Filtered(s, m) \/ Stored(s, m)

\* Alarms of the tag, after the cursor, whose condition has changed.
Changed(w) ==
  {a \in DOMAIN w.states :
     /\ a > w.cursor
     /\ w.states[a].active # AlarmConditionMet(w.states[a].def,
                               FloatOf(w.sample.value, w.meta.type), w.sample.quality)}

\* state.active = the condition
NeverReset(w, a) == [w.states EXCEPT ![a].active = TRUE]
Flipped(w, a) == [w.states EXCEPT ![a].active = ~ @]

\* _evaluate_alarms from the cursor on: flip the first alarm that changes and start to
\* write its event.  The states are the objects in self._alarms_by_tag unless a reload
\* has replaced those.
Flip(w) ==
  /\ \E a \in Changed(w) :
     /\ \A b \in Changed(w) : a <= b
     /\ work' = [w EXCEPT !.states = Flipped(w, a), !.cursor = a]
     /\ alarms' = IF w.detached THEN alarms ELSE Override(alarms, Flipped(w, a))
  /\ pc' = "journal"
  /\ UNCHANGED <<batch, buffer, last, flushVars, rows, dropped>>

Evaluate(w) ==
  \/ Flip(w)
  \/ Changed(w) = {} /\ Archive(w.sample, w.meta) /\ UNCHANGED alarms

\* AlarmRuntimeStates of a tag.
StatesOf(tag) ==
  [a \in {a \in DOMAIN alarms : alarms[a].def.tag = tag} |-> alarms[a]]

TakeUnknown(s) ==
  /\ s.tag \notin DOMAIN meta
  /\ AfterHandling(buffer, dropped \cup Without({s.id}, "unknown"))
  /\ UNCHANGED <<live, last, alarms>>

TakeUncoercible(s) ==
  /\ s.tag \in DOMAIN meta
  /\ CoerceRaises(s.value, meta[s.tag].type)
  /\ Unwind(buffer, rows, dropped \cup Without({s.id}, "raised"))
  /\ UNCHANGED <<live, last, alarms>>

TakeKnown(s) ==
  /\ s.tag \in DOMAIN meta
  /\ ~ CoerceRaises(s.value, meta[s.tag].type)
  /\ live' = [live EXCEPT ![s.tag] = s]
  /\ Evaluate([sample |-> s, meta |-> meta[s.tag], states |-> StatesOf(s.tag),
               cursor |-> 0, detached |-> FALSE])

\* queue.get returns, and _handle_sample runs to its first alarm event or its end.
Take ==
  /\ pc = "get" /\ queue # <<>>
  /\ queue' = Tail(queue)
  /\ LET s == Head(queue) IN TakeUnknown(s) \/ TakeUncoercible(s) \/ TakeKnown(s)
  /\ UNCHANGED <<emitted, meta, dbVars, loader, journal, failures, stop>>

\* The entry an alarm event writes: the state after the flip.
AlwaysActivation(w) == [alarm |-> w.cursor, state |-> "active"]
EventOf(w) ==
  [alarm |-> w.cursor,
   state |-> IF w.states[w.cursor].active THEN "active" ELSE "cleared"]

\* The commit in _write_alarm_event returns, and the evaluation goes on.
JournalWritten ==
  /\ pc = "journal"
  /\ journal' = Append(journal, EventOf(work))
  /\ Evaluate(work)
  /\ UNCHANGED <<connVars, live, meta, dbVars, loader, failures, stop>>

\* It raises: nothing catches it before run's finally block.
JournalFailed ==
  /\ pc = "journal" /\ Fails
  /\ Unwind(buffer, rows, dropped \cup Without({work.sample.id}, "failed"))
  /\ UNCHANGED <<connVars, last, live, defVars, dbVars, loader, journal, stop>>

\* _flush from the loop.
FlushCommitted ==
  /\ pc = "flush"
  /\ LoopHead(buffer, rows \cup batch, dropped)
  /\ UNCHANGED <<connVars, last, live, defVars, dbVars, loader, journal, failures, stop>>

FlushFailed ==
  /\ pc = "flush" /\ Fails
  /\ Unwind(buffer, rows, dropped \cup Lost(batch, "failed"))
  /\ UNCHANGED <<connVars, last, live, defVars, dbVars, loader, journal, stop>>

\* _flush from the finally block.
FinalCommitted ==
  /\ pc = "final"
  /\ rows' = rows \cup batch /\ batch' = {} /\ pc' = "done"
  /\ UNCHANGED <<connVars, work, buffer, last, live, flushVars, defVars, dbVars, loader,
                 journal, dropped, failures, stop>>

FinalFailed ==
  /\ pc = "final" /\ Fails
  /\ dropped' = dropped \cup Lost(batch, "failed") /\ batch' = {} /\ pc' = "done"
  /\ UNCHANGED <<connVars, work, buffer, last, live, flushVars, defVars, dbVars, loader,
                 rows, journal, stop>>

-----------------------------------------------------------------------------
(* The periodic flusher.  A wake-up with an empty buffer changes nothing.   *)

FlusherWakesKeepingBuffer ==
  /\ flusher = "sleep" /\ buffer # {}
  /\ flusher' = "commit" /\ flBatch' = buffer
  /\ UNCHANGED <<connVars, taskVars, defVars, dbVars, loader, rows, journal, dropped,
                 failures, stop>>

FlusherWakes ==
  /\ flusher = "sleep" /\ buffer # {}
  /\ flusher' = "commit" /\ flBatch' = buffer /\ buffer' = {}
  /\ UNCHANGED <<connVars, pc, work, batch, last, live, defVars, dbVars, loader, rows,
                 journal, dropped, failures, stop>>

FlusherRunsOnce ==
  /\ flusher = "commit"
  /\ flusher' = "dead" /\ rows' = rows \cup flBatch /\ flBatch' = {}
  /\ UNCHANGED <<connVars, taskVars, defVars, dbVars, loader, journal, dropped, failures, stop>>

FlusherCommitted ==
  /\ flusher = "commit"
  /\ flusher' = "sleep" /\ rows' = rows \cup flBatch /\ flBatch' = {}
  /\ UNCHANGED <<connVars, taskVars, defVars, dbVars, loader, journal, dropped, failures, stop>>

\* The exception ends the task; nothing awaits it.
FlusherFailed ==
  /\ flusher = "commit" /\ Fails
  /\ flusher' = "dead" /\ dropped' = dropped \cup Lost(flBatch, "failed") /\ flBatch' = {}
  /\ UNCHANGED <<connVars, taskVars, defVars, dbVars, loader, rows, journal, stop>>

-----------------------------------------------------------------------------
(* load_metadata, and the reload request that calls it.                      *)

At(l, where) == loader[l].pc = where
Goes(l, rec) == loader' = [loader EXCEPT ![l] = rec]

ActiveAlarms == {a \in DOMAIN alarms : alarms[a].active}

\* POST /api/config/reload: load_config reads the edited files, then the sync awaits.
ReloadRequested(l) ==
  /\ At(l, "idle") /\ Started /\ ~ stop
  /\ \E c \in Configs : Goes(l, Call("sync", c, {}, <<>>, <<>>))
  /\ UNCHANGED <<connVars, taskVars, flushVars, defVars, dbVars, rows, journal, dropped,
                 failures, stop>>

\* _sync_tags_to_db: one transaction of upserts; what the files no longer name stays.
SyncInserts(l) ==
  /\ At(l, "sync")
  /\ dbTags' = Override(loader[l].config.tags, dbTags)
  /\ dbAlarms' = Override(loader[l].config.alarms, dbAlarms)
  /\ Goes(l, NoCall("begin"))
  /\ UNCHANGED <<connVars, taskVars, flushVars, defVars, rows, journal, dropped, failures, stop>>

SyncCommitted(l) ==
  /\ At(l, "sync")
  /\ dbTags' = Override(dbTags, loader[l].config.tags)
  /\ dbAlarms' = Override(dbAlarms, loader[l].config.alarms)
  /\ Goes(l, NoCall("begin"))
  /\ UNCHANGED <<connVars, taskVars, flushVars, defVars, rows, journal, dropped, failures, stop>>

\* load_metadata up to its first await: which alarms are active now?
LoadBegins(l) ==
  /\ At(l, "begin")
  /\ Goes(l, Call("tagsQuery", InitialConfig, ActiveAlarms, <<>>, <<>>))
  /\ UNCHANGED <<connVars, taskVars, flushVars, defVars, dbVars, rows, journal, dropped,
                 failures, stop>>

TagsRead(l) ==
  /\ At(l, "tagsQuery")
  /\ Goes(l, Call("tagsRead", InitialConfig, loader[l].active, dbTags, <<>>))
  /\ UNCHANGED <<connVars, taskVars, flushVars, defVars, dbVars, rows, journal, dropped,
                 failures, stop>>

TagsApplied(l) ==
  /\ At(l, "tagsRead")
  /\ meta' = loader[l].tags
  /\ Goes(l, Call("alarmsQuery", InitialConfig, loader[l].active, loader[l].tags, <<>>))
  /\ UNCHANGED <<connVars, taskVars, flushVars, alarms, dbVars, rows, journal, dropped,
                 failures, stop>>

AlarmsRead(l) ==
  /\ At(l, "alarmsQuery")
  /\ Goes(l, Call("alarmsRead", InitialConfig, loader[l].active, loader[l].tags, dbAlarms))
  /\ UNCHANGED <<connVars, taskVars, flushVars, defVars, dbVars, rows, journal, dropped,
                 failures, stop>>

\* The AlarmRuntimeStates built from the rows read.  An alarm of a tag missing from the
\* first query is skipped.
Known(l) == {a \in DOMAIN loader[l].alarms : loader[l].alarms[a].tag \in DOMAIN loader[l].tags}
RebuiltInactive(l) ==
  [a \in Known(l) |-> [def |-> loader[l].alarms[a], active |-> FALSE]]
Rebuilt(l) ==
  [a \in Known(l) |-> [def |-> loader[l].alarms[a], active |-> a \in loader[l].active]]

\* They replace the dict; the list the consumer is iterating over is no longer in it.
AlarmsApplied(l) ==
  /\ At(l, "alarmsRead")
  /\ alarms' = Rebuilt(l)
  /\ Goes(l, NoCall("done"))
  /\ work' = [work EXCEPT !.detached = TRUE]
  /\ IF l = "run" THEN pc' = "get" /\ flusher' = "sleep" ELSE UNCHANGED <<pc, flusher>>
  /\ UNCHANGED <<connVars, batch, buffer, last, live, flBatch, meta, dbVars, rows, journal,
                 dropped, failures, stop>>

\* A query or the sync raises: the request answers 500; run ends before its try.
LoadFailed(l) ==
  /\ loader[l].pc \in {"sync", "tagsQuery", "alarmsQuery"} /\ Fails
  /\ Goes(l, NoCall("failed"))
  /\ pc' = IF l = "run" THEN "done" ELSE pc
  /\ UNCHANGED <<connVars, work, batch, buffer, last, live, flushVars, defVars, dbVars, rows,
                 journal, dropped, stop>>

-----------------------------------------------------------------------------
(* Shutdown, after the connectors are stopped: set stop and cancel the       *)
(* consumer at the await it is suspended in.                                 *)

ShutdownLoading ==
  /\ pc = "load"
  /\ pc' = "done" /\ Goes("run", NoCall("failed"))
  /\ UNCHANGED <<work, batch, buffer, flushVars, rows, journal, dropped>>

\* wait_for may swallow the cancellation when a sample is ready (CPython 3.11);
\* stop then ends the loop after that sample.
ShutdownWaiting ==
  /\ pc = "get"
  /\ \/ Unwind(buffer, rows, dropped)
     \/ queue # <<>> /\ UNCHANGED <<pc, work, batch, buffer, flushVars, rows, dropped>>
  /\ UNCHANGED <<journal, loader>>

\* A commit under way may or may not have reached the database.
ShutdownJournalling ==
  /\ pc = "journal"
  /\ journal' \in {journal, Append(journal, EventOf(work))}
  /\ Unwind(buffer, rows, dropped \cup Without({work.sample.id}, "interrupted"))
  /\ UNCHANGED loader

ShutdownFlushing ==
  /\ pc \in {"flush", "final"}
  /\ \/ Unwind(buffer, rows \cup batch, dropped)
     \/ Unwind(buffer, rows, dropped \cup Lost(batch, "interrupted"))
  /\ UNCHANGED <<journal, loader>>

ShutdownDead ==
  /\ pc = "done"
  /\ UNCHANGED <<pc, work, batch, buffer, flushVars, rows, journal, dropped, loader>>

Shutdown ==
  /\ Started /\ ~ stop /\ stop' = TRUE
  /\ \/ ShutdownLoading \/ ShutdownWaiting \/ ShutdownJournalling
     \/ ShutdownFlushing \/ ShutdownDead
  /\ UNCHANGED <<connVars, last, live, defVars, dbVars, failures>>

-----------------------------------------------------------------------------
Consumer == Take \/ JournalWritten \/ JournalFailed \/ FlushCommitted \/ FlushFailed
            \/ FinalCommitted \/ FinalFailed

Flusher == FlusherWakes \/ FlusherCommitted \/ FlusherFailed

Load(l) == LoadBegins(l) \/ TagsRead(l) \/ TagsApplied(l) \/ AlarmsRead(l) \/ AlarmsApplied(l)

Next ==
  \/ Emit \/ Consumer \/ Flusher
  \/ \E l \in Loaders : Load(l) \/ LoadFailed(l)
  \/ \E l \in Reloads : ReloadRequested(l) \/ SyncCommitted(l)
  \/ Shutdown

\* Every task that is ready is run by the event loop, a sleep ends, and every
\* database call returns.
Fairness ==
  /\ WF_vars(Consumer) /\ WF_vars(Flusher)
  /\ \A l \in Loaders : WF_vars(Load(l) \/ SyncCommitted(l))

Spec == Init /\ [][Next]_vars
FairSpec == Spec /\ Fairness

-----------------------------------------------------------------------------
(* Properties.                                                               *)

Ids(R) == {r.id : r \in R}
Queued == {queue[i].id : i \in DOMAIN queue}
InHand == IF pc = "journal" THEN {work.sample.id} ELSE {}

Reason == {"full", "unknown", "disabled", "deadband", "raised", "failed", "interrupted"}
LoaderPc == {"idle", "sync", "begin", "tagsQuery", "tagsRead", "alarmsQuery", "alarmsRead",
             "done", "failed"}

LoaderOK(l) ==
  /\ l = Call(l.pc, l.config, l.active, l.tags, l.alarms)
  /\ l.pc \in LoaderPc /\ IsConfig(l.config) /\ l.active \subseteq Alarms
  /\ Partial(l.tags, Tags, TagMeta) /\ Partial(l.alarms, Alarms, AlarmDef)

WorkOK(w) ==
  /\ w = [sample |-> w.sample, meta |-> w.meta, states |-> w.states, cursor |-> w.cursor,
          detached |-> w.detached]
  /\ w.sample \in Sample /\ w.sample.tag \in Tags /\ w.meta \in TagMeta
  /\ Partial(w.states, Alarms, Runtime) /\ w.cursor \in DOMAIN w.states
  /\ w.detached \in BOOLEAN

\* Every variable stays in its domain, and work holds a sample exactly while an
\* alarm event is written.
TypeOK ==
  /\ queue \in Seq(Sample) /\ Len(queue) <= QueueMax
  /\ emitted \in 0 .. MaxSamples
  /\ pc \in {"load", "get", "journal", "flush", "final", "done"}
  /\ IF pc = "journal" THEN WorkOK(work) ELSE work = NoWork
  /\ batch \subseteq Row /\ buffer \subseteq Row /\ flBatch \subseteq Row /\ rows \subseteq Row
  /\ last \in [Tags -> Value]
  /\ live \in [Tags -> Sample \cup {NoSample}]
  /\ flusher \in {"none", "sleep", "commit", "cancelled", "dead"}
  /\ Partial(meta, Tags, TagMeta) /\ Partial(dbTags, Tags, TagMeta)
  /\ Partial(alarms, Alarms, Runtime) /\ Partial(dbAlarms, Alarms, AlarmDef)
  /\ DOMAIN loader = Loaders /\ \A l \in Loaders : LoaderOK(loader[l])
  /\ journal \in Seq(Event)
  /\ dropped \subseteq [id : SampleIds, why : Reason]
  /\ failures \in 0 .. MaxDbFailures
  /\ stop \in BOOLEAN

\* The database only ever sees batches of at most BatchSize rows, whichever of the
\* two tasks commits them ("batched, size-bounded writes").
BatchesBounded ==
  /\ Cardinality(buffer) < BatchSize
  /\ Cardinality(flBatch) < BatchSize
  /\ Cardinality(batch) <= BatchSize

\* The seven places a sample can be in: the queue, the consumer's hands, the buffer, the
\* batches of the consumer and of the flusher, the table, or dropped.  They make up all
\* of 1 .. n, and no two of them share a sample.
Partition(Q, H, B, C, F, R, D, n) ==
  /\ Q \cup H \cup B \cup C \cup F \cup R \cup D = 1 .. n
  /\ Q \cap (H \cup B \cup C \cup F \cup R \cup D) = {}
  /\ H \cap (B \cup C \cup F \cup R \cup D) = {}
  /\ B \cap (C \cup F \cup R \cup D) = {}
  /\ C \cap (F \cup R \cup D) = {}
  /\ F \cap (R \cup D) = {}
  /\ R \cap D = {}

Ordered(q) == \A i, j \in DOMAIN q : i < j => q[i].id < q[j].id

\* A sample is in exactly one place from emit on: it is never archived twice, never in
\* the batches of both tasks, never overtaken in the queue, and never vanishes without a
\* reason.
EachSampleInOnePlace ==
  /\ Partition(Queued, InHand, Ids(buffer), Ids(batch), Ids(flBatch), Ids(rows), Ids(dropped),
               emitted)
  /\ Ordered(queue)

\* The journal of an alarm begins with an activation and then alternates.
Repeats(i, j) ==
  /\ i < j
  /\ journal[i] = journal[j]
  /\ \A k \in i + 1 .. j - 1 : journal[k].alarm # journal[i].alarm

FirstOfItsAlarm(i) == \A k \in 1 .. i - 1 : journal[k].alarm # journal[i].alarm

JournalAlternates ==
  /\ \A i, j \in DOMAIN journal : ~ Repeats(i, j)
  /\ \A i \in DOMAIN journal : FirstOfItsAlarm(i) => journal[i].state = "active"

\* The state of an alarm in memory is the one its last journal entry shows, except
\* the one whose entry is being written; a consumer that died may have lost an entry.
JournalledActive(a) ==
  \E i \in DOMAIN journal :
    /\ journal[i] = [alarm |-> a, state |-> "active"]
    /\ \A k \in i + 1 .. Len(journal) : journal[k].alarm # a

JournalMatchesMemory ==
  pc \in {"get", "journal", "flush"} =>
    \A a \in DOMAIN alarms :
      (pc = "journal" /\ work.cursor = a) \/ (alarms[a].active <=> JournalledActive(a))

\* While nothing was lost, the value on the live display is within the deadband of a
\* value that is archived or about to be: a slow drift cannot hide from the archive.
Archived == rows \cup buffer \cup batch \cup flBatch
Near(m, x, y) ==
  x = y \/ (x.kind = y.kind /\ 100 * Distance(x.n, y.n) < m.span * Percent(m))

TrendTracksLive ==
  (pc \in {"get", "flush"} /\ failures = 0) =>
    \A t \in DOMAIN meta :
      (live[t] # NoSample /\ meta[t].archive) =>
        LET float == FloatOf(live[t].value, meta[t].type)
        IN \E r \in Archived : r.tag = t /\ Near(meta[t], float, r.float)

\* Without a database failure the consumer keeps draining the queue until it is shut down.
ConsumerSurvivesData == (failures = 0 /\ ~ stop) => pc \notin {"final", "done"}

\* Every sample a connector emits is eventually archived or dropped for a reason,
\* unless the database fails or the program is shut down.
Settled(id) == id \in Ids(rows) \cup Ids(dropped)

EverySampleSettles ==
  \A id \in SampleIds : (emitted >= id) ~> (Settled(id) \/ stop \/ failures > 0)

-----------------------------------------------------------------------------
(* The pipeline implements the historian it promises to be.                  *)

Promised == INSTANCE Historian WITH
       accepted <- emitted, archived <- Ids(rows), discarded <- Ids(dropped), open <- ~ stop

\* Whatever the two tasks, the reloads, the failures and the shutdown do, every step is one
\* of the abstract historian's: a sample is settled once and for good, whoever commits it;
\* the journal grows by one event; nothing is accepted after the shutdown, because lifespan
\* stops the connectors before the pipeline.
ImplementsHistorian == Promised!Spec
=============================================================================
