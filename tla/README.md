# A TLA+ model of the Ackiologs historian

Ackiologs collects values from industrial devices, evaluates alarms, archives the values in
a SQL database and serves them to a dashboard and to other systems. It is one Python process
on one asyncio event loop: nothing runs in parallel, but every `await` that suspends lets
another task in, and almost every hard property of the program is about what other tasks do
across those awaits, about a database operation that fails there, or about a task that ends
there and is never restarted.

The modules below model that: one action is the code between two awaits that can suspend.

## Inventory

| Component | State | Operations | Talks to | What is hard | What makes it correct |
|---|---|---|---|---|---|
| **Ingest pipeline** `app/ingest/pipeline.py` | sample queue, buffer, last archived values, tag and alarm definitions, `_stop` | `run`, `_handle_sample`, `_flush`, `_periodic_flush`, `load_metadata`, `stop` | connectors (queue), live bus, database, reload requests | two tasks share the buffer; reloads replace definitions during an evaluation; a failure ends a task for good | every sample in one place; bounded batches; the alarm journal alternates and agrees with memory; the archive follows the live values within the deadband |
| **Live bus** `app/ingest/live.py`, `app/api/routes_live_ws.py` | latest values, subscribers' queues | `update`, `snapshot`, `subscribe`, `unsubscribe` | pipeline, sockets, embedded servers | snapshot against subscription; slow subscribers are dropped | a subscriber misses nothing, sees nothing out of order |
| **Runtime settings** `app/core/runtime_settings.py`, `settings_registry.py` | cache, `app_settings` table | `load`, `set_many` | settings requests, servers | cache changed before the commit; requests interleave; text round trip | cache and table agree; only accepted values are in force |
| **Embedded OPC UA server** `app/core/opcua_server.py` | `_running`, instance, nodes, forward task | `start`, `stop`, `restart`, `ensure_tag` | lifespan, settings and reload requests, live bus | flag checked before awaits; bind failures | one instance, the configured one |
| **Embedded Modbus server** `app/core/modbus_server.py` | the same, and a register map | `start`, `stop`, `restart`, `_write_value` | the same | binds in a background task; addresses shifted by one | the same; a master reads the value of the tag it asks for |
| **Connector supervisor** `app/core/supervisor.py` | configuration, connectors, tasks | `load_and_sync`, `start_all`, `_supervise`, `stop_all`, `write_tag`, `health` | connectors, database, lifespan | failures while handling failures; cancellation anywhere; stale configuration | crashed connectors run again; the status log is true; `stop_all` returns |
| **Protocol connectors** `app/connectors/*.py` | `connected`, a client | `run`, `write`, `emit` | devices, queue | lost connections, partial polls, cancellation mid-cycle | flag and quality tell the truth, and recover |
| **Alarm journal API** `app/api/routes_alarms.py`, history page of `app.js` | `alarm_events`; offset, filter and rows of the page | `ack`, `events`, `history` | pipeline (same table) | reads, then inserts; offset pages; restarts | the journal tells the alarms' states; an acknowledgement tells the entry it follows; paging skips nothing |
| **Retention** `app/ingest/retention.py` | a cutoff, a timer | `_prune_once`, the hourly loop | settings, table | settings change under it; a pass fails | only expired rows go, and all of them |
| **History and tag queries** `app/api/routes_history.py`, `routes_tags.py` | none | reads | database, live bus | bucketing | buckets partition the range |
| **Configuration loader**, **database layer**, **dashboard** | - | - | - | input handling, transactions, presentation | modelled where others meet them |
| **Authentication**, **packaging**, **vendored scripts** | - | - | - | external libraries, build scripts | not modelled, see below |

`PROJECT.json` lists every hazard at its line, with the properties that would catch it or
the reason why none does yet.

## Modules

| Module | Stands for |
|---|---|
| `SampleRules` | the pure rules for one sample: `_coerce`, `_alarm_condition_met`, `_within_deadband` |
| `Historian` | abstract: what the pipeline promises about samples and the journal, without its queue, tasks and batches |
| `IngestPipeline` | the queue, the consumer, the flusher, `load_metadata` and reload requests, the database tables, shutdown; implements `Historian` |
| `RegisterMap` | the Modbus server's registers: addresses, writes, what a master reads |
| `LiveBus` | extends `RegisterMap`: the bus with sockets, OPC UA forwarders and Modbus forwarders |
| `SettingsRegistry` | the registered settings as data |
| `RuntimeSettings` | extends `SettingsRegistry`: the registry's rules, `load` with its seeds, `set_many`, one action per await |
| `EmbeddedServers` | extends `RuntimeSettings` with both embedded servers, their callers (lifespan, settings requests, reloads) and restarts of the program |
| `TagSync` | `load_and_sync`: the configuration and the upsert of tags and alarms as a transaction others overlap |
| `Supervisor` | extends `TagSync`: the supervise tasks, their status log, `write_tag`, `stop_all` |
| `Connectors` | the run loop of each of the ten connectors, against a device that fails, returns and refuses tags |
| `AlarmJournal` | the table `alarm_events`, the consumer that writes it, acknowledgements, the history page, restarts |
| `HistoryQueries` | raw and bucketed queries over a set of rows, and what a bucketed answer promises |
| `Archive` | extends `HistoryQueries`: rows, the retention setting and the pruner, in discrete time |
| `IngestPipelineProofs`, `LiveBusProofs`, `ConnectorsProofs` | theorems about the modules of those names |
| `MCReloadProofs`, `MCSettingsProofs`, `MCSupervisorProofs`, `MCJournalProofs`, `MCArchiveProofs` | theorems about the components, and those whose statements need the history variables of the `MC` modules; the constants stay arbitrary |
| `MCIngest`, `MCReload`, `MCLive`, `MCSettings`, `MCSupervisor`, `MCConnectors`, `MCJournal`, `MCArchive` | values of the constants; all but `MCIngest`, `MCLive` and `MCConnectors` add history variables |

### IngestPipeline

`pc` is the await the consumer is suspended in: the load at its start, `queue.get`, the
commit of an alarm event (`journal`), the commit of a batch from the loop (`flush`) or from
the `finally` block (`final`). `work` holds the locals of `_handle_sample` while an event is
written, among them the list of alarm states being iterated over, which a reload may have
detached from the pipeline. `Take` is `_handle_sample` up to its first await; when nothing
suspends, that is the whole of it with the check of the batch size behind it. An exception
runs to the `finally` block without suspending, so `Unwind` is part of the action that
raises. `loader` is the state of each call of `load_metadata`: the consumer's own, the one of
`lifespan`, and those of reload requests. `rows` and `journal` are the tables, `dropped`
says of each sample that is not archived why.

A value is a kind and a number of tenths. The kinds are what the rules tell apart: numbers,
`nan`, `inf`, text that parses, text that does not, `None`.

### Historian

Samples are numbered as they are accepted. The abstract historian has the accepted number, the
set of archived ones, the set of discarded ones, the journal and whether it is open. Settling
moves pending samples to one of the two sets, some at a time; nothing moves back. The refinement
mapping takes `emitted`, the ids in `rows`, the ids in `dropped`, `journal` and `~ stop`. A
commit of either task settles its batch, `Unwind` settles what an exception loses, and the
shutdown settles what the consumer had in its hands.

### LiveBus and RegisterMap

A subscriber's `hand` is the value it is sending or writing, `todo` the rest of its snapshot,
`view` what its client sees. `Connect` is the socket, which sends first and subscribes
afterwards; the forwarders subscribe first. A write to an OPC UA node awaits, a write to a
Modbus register does not; a send that does not suspend is the behaviour in which nothing
happens between two steps.

A Modbus master sees registers, not values: `blocks` holds, for each element of the two lists,
which word of which value was written there. `Address` is the mapping `start` makes; `Words` are
the list elements that stand for a tag, one further than its address because both
`_write_value` and pymodbus add one; a write beyond the end of a list makes it longer, as
Python's slice assignment does, and until then a read of the last tag is answered with an
exception. `Holds` says that a master which reads the tag's registers gets all words of one
value and of that tag.

### RuntimeSettings and EmbeddedServers

A request is a program counter over `set_many`: `get` and `got` around the await on a key's
row, `commit`, and how it was answered. The cache changes at `got`, the table at `commit`. A
row holds the text of a value; `ReadsBack` and `Coerced` say what `coerce` makes of it. `Starts`
is `load`: what the table says over the defaults, and the environment's seeds for the keys that
have no row, which are saved.

The two servers have the same life: `srv` is `_running`, the instance, the forward task and
the tags it was made from, per server. A call of `start`, `stop` or `restart` is a record in
`call`: which await it is in, whether `restart` goes on to `start`, whether its caller turns to
the Modbus server next, and what it read before. The OPC UA server binds in `start`; the Modbus
server's instance is a task that binds later or ends unnoticed, and pymodbus' `ServerAsyncStop`
ends the newest one, whichever was meant. A reload changes the tags in `TagsSynced` and turns to
the servers in `ReloadReached`; between the two it awaits `load_metadata`, which may raise
(`MetadataFailed`), and then leaves both servers with the nodes of the old tags. `ProgramRestarts` kills the program at any point and
runs `lifespan` again on the table that is there.

### TagSync

A call of `load_and_sync` replaces `config` at once, then selects the tags, flushes what
differs, selects the alarms and commits. The flush takes the database's lock if it writes
anything; two calls that have found the same tag missing collide on its unique name; nothing
keeps two calls from inserting the same alarm.

### Supervisor

`task` is where each `_supervise` is; `lastRow` is the status in the last row it logged.
`Cancelled` is the arrival of `CancelledError`: in the `try` it leads to the row `stopped`,
in the `except` clause it ends the task there. `CleanupRaises` is the other way it can go: what is
awaited to close a client, a session or an engine on the way out raises in place of
`CancelledError`, and an `except Exception` takes it for a crash, that of `run` for the
connections in `CatchesCleanup`, that of `_supervise` for those in `RaisesCleanup` and for its own
sessions. The cancellation is then consumed: the task goes on as if nothing had been asked of it,
and `stop_all` waits for it. `polled` is what each connector was made with,
which reloads do not change; `WriteTag` looks the connection up in `config` and the address in
`polled`, as `write_tag` and the connectors' `write` do.

### Connectors

A behaviour is one connector of one protocol. The ten loops have the same skeleton: open a
connection, ask for the tags, sleep, and after an exception sleep and begin again. They differ
in when they open one, in what a lost connection and a refused tag do to a cycle, in what
`connected` means and in whether a `finally` block resets it. Each connector is a record of
those answers, read off its file, and the actions are the skeleton. `session` is the client
object: after the device failed it is `stale` until the loop drops it or the client library
notices. `shown` is the quality of the last sample of each tag. `misaddressed` are the tags whose
address the connector cannot read by itself, whether or not there is a device: `Ask`, the turn to
a request, then raises out of a Modbus or an SNMP cycle (`int(parts[1])`, an OID that does not
parse), and OPC UA never gets to its subscription. The tags from there on are not in `Reached`.
For the other protocols a wrong address is one of the `faulty` tags, or ends the run before its
loop. `Supervised`, `Cancelled` and `CleanupRaises` are what `Supervisor` does to the loop; the two modules are not composed, because a loop's
state does not outlive its run but for the flag. After `CleanupRaises` of a loop that catches it,
here as in `Supervisor`, the loop retries.

### AlarmJournal

An entry is stamped before it is committed, by the consumer in `_write_alarm_event` and by an
acknowledgement at its flush, so the table can fill in another order than the stamps, by which
every query sorts. `tells` names the change an entry is about, which an acknowledgement copies
from the entry it read. A restart keeps any part of the commits under way and clears the
consumer's memory. The history page is `historyState`: its offset moves with the click, its rows
with the answer, and requests overlap.

### Archive

Time is a number of ticks. A tick does not pass a sleep that is over, nor a `DELETE` that has
taken `DbTime`. The pruner reads the setting and computes the cutoff in one step and deletes in
a later one; a failed pass sleeps like any other. A row may be committed up to `Lag` ticks after
its stamp. The history queries are evaluated on every state, with and without start, end,
buckets and a limit that cuts.

## Runs

| Run | Bounds | Shows |
|---|---|---|
| `ingest` | one tag, two alarms, queue of 2, batch of 2, 3 samples, one database failure, shutdown | the pipeline's safety properties, that every sample settles, and that it implements `Historian` |
| `reload` | two tags, three alarms, one edited configuration of two, queue of 1, 3 samples, one failure | a reload that nothing overlaps keeps alarm states and takes effect |
| `livebus` | one subscriber of each kind, queues of 2, 3 updates of two tags that share a table of registers | forwarders miss nothing, show nothing older, keep up, and write no tag over another |
| `settings` | two requests, a reload, a busy port, one failure, one restart, an environment edited meanwhile | both servers match the settings and know the tags, but for those of a reload that failed; the settings survive a restart |
| `supervisor` | two connections, one of each kind of cleanup, 6 crashes each, one failure, two reloads of an edited configuration, writes | status log, retries, `stop_all`, tables that agree with the files, writes that reach the polled point |
| `connectors` | ten protocols, three tags, two of them on one HTTP path, any of the tags misaddressed, 4 changes of the device, one run that raises at once or one cleanup that raises | the flag agrees with the samples, falls with the device and on cancellation, and recovers |
| `journal` | two alarms, two operators, pages of 1, 3 entries, one restart, two page requests under way, offsets up to 3, two filters | the journal tells alarm states, acknowledgements tell the entry they follow, pages skip nothing |
| `archive` | retentions of 0, 1 and 2 days of one tick, 6 ticks, 3 rows, a period, a `DELETE` and a lag of 1 tick each, one failure | the pruner deletes only what expired, in time; histories tell the rows |
| `reload_race` | as `ingest`, with a reload | **violated**: an alarm is reported twice |
| `ingest_text` | as `ingest`, a device that answers text | **violated**: the consumer ends |
| `settings_fraction` | one fractional setting, one restart | **violated**: the saved value is gone |
| `opcua_outage` | as `connectors`, OPC UA only | **violated**: a lost connection is never noticed |

The bounds are enough for the cases that matter: a queue and a buffer that fill, a batch of
the consumer and one of the flusher at once, a value inside and one outside the deadband, an
alarm that activates, clears and activates again, two alarms that change on one sample, a
failure at any one database operation (two failures add nothing but a second dead task), a
value on its way in each of the places a subscriber keeps one, two calls of the servers'
operations crossing at any await, and six crashes because the fifth doubling of the backoff
is the one its limit cuts. Four changes of a device are two outages, or an outage and two
changes of the tags it refuses, at any await of a cycle of up to three requests. Three entries
of the journal are an activation, what crosses its acknowledgement, and the acknowledgement, or
three pages; an offset of 3 is beyond the last of them. In six ticks a row is written, expires
under each retention, and the pruner passes twice after a change or a failure.

`supervisor` splits its behaviours by `scene`: those in which connectors crash and those in which
reloads run. No action of a supervise task reads or writes a variable of the sync, nor the other
way round, but for the count of failures, which is a bound; so a behaviour with both is an
interleaving of two that are checked. Writes, the start and the stop are in both.

The passing properties that begin with `Quiet`, and `ReloadTakesEffect`, have the overlaps
that break them in a history variable. What breaks them is in the hazards: two settings
requests, or a settings request and a reload, that cross at a server leave a disabled one
running or an enabled one on the old port; a reload during an alarm change repeats an event; two
reloads that overlap insert an alarm twice; an acknowledgement that an activation crosses
acknowledges what nobody has seen. `PagesSkipNothing` asks the reader to wait for each page: one
who clicks ahead, or whose page fails, may skip entries.

Two more exceptions are in history variables. `missed` are the servers that a reload which failed
after its commit has left with the old tags, until they load the tags again; of those
`QuietServerMatchesSettings` still asks for the right flag, port, instance and forward task.
`lost` are the tasks whose cancellation was consumed by `CleanupRaises`: `StopCompletes` says
that every other task ends, and that `stop_all` returns unless there is such a one. What it says
is not that the exception is harmless: with a lost task `gather` waits for as long as the
connector runs, and only a second cancellation ends it.

`OutageIsNoticed`, `OutageMarksTags` and `StoppedIsDisconnected` name the protocols they are
stated for; the others break them: OPC UA never notices an outage, S7, EtherNet/IP, SQL and
SNMP may leave the last good value on a tag, Modbus and MQTT keep the flag when cancelled.
`OutageMarksTags` and `Recovers` speak of the tags in `Reached`. Modbus polls no tag from the
first misaddressed one on, in an outage or without one, and leaves its last sample as it was;
when such a tag is there, `Recovers` asks for the samples and not for the flag, which every cycle
sets and clears.
One hazard has a step in the model and no property: a dashboard socket is sent the snapshot
before it subscribes, and misses what is published in between.

Deadlock checking is off: with all bounds used up, or after a shutdown, the models stop, as
the program does.

### Fairness

`IngestPipeline`: weak fairness of the consumer, of the flusher and of each load. The event
loop runs every task that is ready, `sleep` ends and the database answers or raises. Nothing
is assumed of the connectors, of reload requests or of the shutdown. `LiveBus`: weak fairness
of each subscriber's own steps, not of updates or of clients leaving. `Supervisor`: weak
fairness of each task's steps, of `start_all` and of the end of `stop_all`; none of crashes,
reloads or the request to stop. `Connectors`: weak fairness of the loop's own steps, since
sleeps end and every request is answered, refused or timed out, and of what the client
libraries do by themselves (pymodbus closing a dead connection, paho noticing and connecting
again); none of the device, of notifications or of the cancellation. `AlarmJournal` and
`Archive` need none: that the pruner keeps its promise in time follows from the guard of `Tick`,
which says that a timer that is due and a statement that has taken its time come before the
next tick.

## Proofs

Every safety property of a passing run, invariant or action property, is a theorem: what TLC
checks on the bounds of the run holds for every value of the constants. The constants are those
of the modules, among them the bounds (`MaxSamples`, `MaxDbFailures` and so on), which may be any
number. Three theorems assume that there are no reloads and one assumes two facts about the
values that are saved; their statements say so, and below is why.

| Module | Theorems | State |
|---|---|---|
| `IngestPipelineProofs` | `TypeCorrect`, `BatchesAreBounded`, `SamplesAreConserved`, `PipelineRefinesHistorian` | `TypeOK`, `BatchesBounded`, `EachSampleInOnePlace`, `ImplementsHistorian` |
| `MCReloadProofs` | `ReloadKeepsAlarms`, `ReloadApplies`, `AlarmsAlternate`, `MemoryAgrees`, `TrendFollows` | `QuietReloadKeepsAlarms`, `ReloadTakesEffect`, `JournalAlternates`, `JournalMatchesMemory`, `TrendTracksLive` |
| `LiveBusProofs` | `TypeCorrect`, `ServersMissNothing`, `NeverShowsOlder` | `TypeOK`, `ServersCatchUp`, `NeverBackwards` |
| `MCSettingsProofs` | `TypeCorrect`, `ServersMatchSettings`, `RestartKeepsSettings` | `TypeOK`, `QuietServerMatchesSettings`, `QuietRestartKeepsSettings` |
| `MCSupervisorProofs` | `TypeCorrect`, `RowsTell`, `WritesArrive`, `QuietReloadsAgree` | `TypeOK`, `LastRowTells`, `WriteReachesPolledPoint`, `QuietSyncAgrees` |
| `ConnectorsProofs` | `TypeCorrect`, `FlagIsTrue`, `CancelledIsDisconnected` | `TypeOK`, `FlagAgreesWithSamples`, `StoppedIsDisconnected` |
| `MCJournalProofs` | `TypeCorrect`, `JournalIsTold`, `QuietAcksTellLatest`, `SearchesSkipNothing` | `TypeOK`, `JournalTellsState`, `QuietAckTellsLatest`, `PagesSkipNothing` |
| `MCArchiveProofs` | `TypeCorrect`, `OnlyExpiredDeleted`, `RetentionKept`, `HistoriesTell` | `TypeOK`, `DeletesOnlyExpired`, `RetentionIsKept`, `HistoryTellsRows` |

### The pipeline (`PipelineAssumption`, `DefaultDeadbandAssumption`)

- `TypeCorrect`. `TypeOK` is inductive: it says enough about the records in `loader` and `work`
  for each action to rebuild them.
- `BatchesAreBounded`. The bound on the batch being committed follows from the check that
  precedes the swap; the bound on the buffer needs that no action leaves the loop's tail with a
  full one.
- `SamplesAreConserved`. The property is a partition of the ids `1 .. emitted` over seven places
  and the order of the queue. It is not inductive: a row written by the consumer must come from
  a batch only one of the two tasks holds. The strengthening adds `Aside`, which says that
  `batch` is empty unless a flush of the consumer is under way and `flBatch` unless one of the
  flusher is, and `RunLoads`, that the consumer has its own call of `load_metadata` under way
  exactly while it waits for it, so that no later call can send it back to `queue.get` with a
  sample in hand. Each action moves ids between two places; lemmas about `Partition` and sets
  of ids carry each kind of move.
- `PipelineRefinesHistorian`. Initial states map to initial states, and each action to `Accept`,
  `Proceed`, `Close` or a stutter. The step lemmas need of the invariant that rows and dropped
  samples have ids up to `emitted` and are disjoint, which is the partition of
  `EachSampleInOnePlace`.

### Alarms and reloads (the same assumptions)

`MCReloadProofs` has four invariants, each of them inductive under a condition of its own.

- `Definitions` always holds: an alarm keeps its tag from one configuration, table or load to
  the next, and what a load has read contains the alarms that were active when it began.
- `InStep` says that the alarms active in memory are those the journal reports, but for the one
  whose entry is being written, and that every load under way remembers the same ones. It holds
  until `Race`: an alarm flips while a load is under way, or in the list that a load has
  replaced. `ReloadKeepsAlarms` is that invariant with the history variable `raced`.
- `Effect` says that a load which nobody overlaps has read what the tables hold, and that the
  tables hold what the last request read from the files. It holds until `overlapped`;
  `ReloadApplies` follows.
- `Tracking` says that a live value is within the deadband of a value archived or on its way,
  and what the one sample in hand has to do with it.

`JournalAlternates`, `JournalMatchesMemory` and `TrendTracksLive` are checked by the run
`ingest`, which has no reload requests, and proved for `Reloads = {}`. That is not for want of a
stronger invariant: with reloads they are false, as the run `reload_race` shows of the first,
and what is left of them is `QuietReloadKeepsAlarms`. The two loads of the start-up still
overlap with each other; `AfterStart` says that no sample is handled before both are over.

### The live bus (`RegisterMapAssumption`, `LiveBusAssumption`)

`LiveBusProofs` is in three parts. The first is about registers: the words of two tags never
overlap and a table has its length or one more, so a master sees of a tag one value and all of
it, or none. From there on `Sight` is that value for every kind of subscriber. The second is
about one client: its queue, the values its subscriber holds and what it sees, each with the
lemma for one operation on it (`Ahead`: all that is on its way is newer than what is seen, in
the order of publication; `Kept`: what is seen is the latest value, or the latest one is on its
way). The third takes each action to one of those operations. `ServersCatchUp` needs that a
forwarder subscribes before it takes the snapshot; a socket does not, so `Kept` is claimed of
servers alone.

### Settings and servers (`SettingsAssumption`)

- `TypeCorrect` includes that every setting in force is one its registry entry accepts. The
  strengthening is that rows of the table are values that were accepted (`RowsOK`) and so is
  what a request has pending.
- `RestartKeepsSettings` has two hypotheses. `ValuesReadBack`: the text of every value that is
  saved reads back as that value. The run `settings_fraction` is what happens without it.
  `SameSeedKeys`: every start gives `load` the same keys, as `main.py` does. `Lasting` says that
  the cache is what `load` would make of the table; while the one request at work is half way
  through its body, that the two will agree once it commits (`Midway`).
- `ServersMatchSettings` has no hypotheses. Its invariant `ServersInv` says of each server that
  the place its call is in, or its rest, fits its flag, its instance and its forward task
  (`InOrder`), and that it is as the settings and the tags say or somebody is still on the way
  to see to it: a request that has cached a setting of it (`Due`), or a caller that is at the
  other server first (`Owing`, `OwingTags`). It holds of a server until a caller meets another's
  call there. `Apart` says that the two servers' instances have different numbers, so that
  ending the one never takes the other's forward task. `Clean`, under which the invariant tells of
the tags, leaves out the servers in `missed`; a load of the tags takes a server out of it, and from
there on it is told of again.

### Supervisor, connectors, journal

`MCSupervisorProofs`, for every set of configurations, connections and reloads
(`SyncAssumption`, `SupervisorAssumption`): `TaskInv` says of each place of a task which row is
the last and what has happened before, also after a cancellation that was consumed
(`CleanupPreserves`); `PollInv`, that no tag is polled by two connections;
`QuietSync`, that the one call at work knows the tables as they are, since nobody else writes
them, and that no alarm has two rows.

`ConnectorsProofs`, for every set of protocols, every list of distinct tags and every partition
of them into HTTP paths (`ConnectorsAssumption`). `FlagAgreesWithSamples` speaks of the end of a
cycle; the inductive invariant adds `AnyOkTells`, the same of the tags asked for so far in the
cycle under way, `ListenersSubscribe`, without which a notification might bring a refusal
that is no quality, and `ConnectsFirst`, that a cycle connects before its first request.
`AskFacts` is what the proof needs of the turn to a request, which may end the cycle. That the
last request completes the tags is `RequestsPartition`.

`MCJournalProofs`, for every number of alarms, operators and restarts, every page size and all
filters (`JournalAssumption`):

- `JournalIsTold`. The invariant `Inv` adds `Stamped`, that entries in the table and entries
  under way have distinct stamps, all of them given already, and `Told`, that the entry the
  consumer is committing is newer than every change it wrote since the start and tells what its
  memory holds, while an operator commits acknowledgements only, which the query for the state
  leaves out.
- `QuietAcksTellLatest`. Of an acknowledgement that nobody met, the row that was read is still
  the latest when it commits (`Unmet`); afterwards nothing comes between the two any more,
  because all that is under way for the alarm is newer (`Settled`).
- `SearchesSkipNothing`. Entries only move down the list, since the table loses none
  (`EntriesMoveDown`); `SearchInv` says that what has not been seen lies beyond the places
  reached. That the entries in places `offset` to `offset + Limit` are those of the page needs
  that places have no gaps, proved by well-founded minima.

### The archive (`ArchiveAssumption`)

- `OnlyExpiredDeleted` and `RetentionKept`, for every set of retentions, length of a day, period
  of the pruner, duration of a `DELETE` and lag up to a day. `CutoffInForce` says that a cutoff
  is that of a setting in force since the pass began. `Clock` bounds how long the pruner can be
  where it is, and `Bounded` counts back: calm for longer than the present pass has run, its
  cutoff is that of the present retention; calm since before the last pass ended, the rows left
  are younger than that retention at that time. A new row is younger because `Lag` is at most a
  day.
- `HistoriesTell`. `AnswerTells` proves it of the answer to any query, whatever its interval and
  limit, over any finite set of rows with distinct stamps. Sums, numbers and extremes of a
  bucket's rows are facts about finite sets of any size, and the library's induction theorems
  cannot be used here. `SmallestExists` takes their place: the subsets of a finite set are well
  founded by inclusion, so a fact that fails of some set fails of one with no counterexample
  inside it. That the fold of the community modules is a sum is such a fact: its recursive
  function is shown to exist (`SumsExist`), and to be determined by what it does with one
  element more (`OneMore`).

### What the proofs said about the model

Some attempts failed because the model was wrong or said too little:

- `PipelineAssumption` allowed a configuration with an alarm on a tag it does not have, and two
  configurations that give one alarm to two tags. An alarm is written inside its tag, and
  `load_and_sync` knows it by that tag and its condition (`IsConfig`, `SameAlarms`).
- `TrendTracksLive` measured the deadband against the tag's percentage where `_within_deadband`
  falls back on the default (`Near` now uses `Percent`).
- `SettingsAssumption` did not say that the defaults, and the rows earlier runs left in the
  table, are values the registry accepts (`RowOK`), nor that a request's body names no key twice.
- `ArchiveAssumption` did not say that `value_float` is a number or `NULL`.

### Only model-checked

The seven liveness properties, `EverySampleSettles`, `ServersKeepUp`, `CrashIsRetried`,
`StopCompletes`, `OutageIsNoticed`, `OutageMarksTags` and `Recovers`: they need fairness, hence
`ENABLED`, which the prover does not treat. That the pruner keeps its retention in time is a
safety property here, because the clock is in the model, and is proved.

## Not modelled

- Wire protocols, TLS, YAML parsing, token checks and password hashing: external libraries
  and pure input handling.
- Removal of tags and alarms: `_sync_tags_to_db` never deletes a row, and the model does the
  same. `archive_enabled` and `AlarmDefinition.enabled` are only set in the database; the
  second is always true here.
- A change of the default deadband while the program runs: `DefaultDeadband` is a constant.
- Two alarms of one condition on one tag in the same file: `_sync_tags_to_db` finds neither row
  and inserts both (`supervisor.py:130-136`), where `TagSync` knows an alarm by its tag and
  condition. A tag named twice in the files is left out too; `WriteReachesPolledPoint` rests on
  that.
- A second cancellation: `stop_all` cancels each task once. What a forced exit does afterwards
  is outside the program.
- Primary key collisions in `tag_values` (two samples of a tag with one timestamp): they make
  a commit fail, which the model's database failures cover.
- The queue left at shutdown: the model stops with samples in it, as the program does.
- `ensure_tag`, which adds a node for a tag that is not in the database: no connector emits
  one. The OPC UA server's user manager, a copy of the users made at its start, and the server's
  name, which follows `general.site_name` only at the next start.
- Two journal entries with one stamp: which of them a query takes for the latest is the
  database's choice.
- Authentication: tokens are checked without state. `GET /api/alarms/events` and the tag list
  read without writing and make no promise the other queries do not.
- Connectors without tags, and the exact samples of one request: HTTP may emit a good and then
  a bad one, of which `Connectors` keeps the second.

## Plan

1. Abstract specifications like `Historian` for other components, and the refinements proved: of
   the live bus, a register per tag and subscriber that only moves forward; of the journal API,
   a set of numbered changes with at most one acknowledgement each.
2. The hazards that still have no property: what an archive silent after a lost batch may miss;
   the socket that misses what is published between its snapshot and its subscription; values of
   `None`, which leave the embedded servers' last value as it was and pass the bad-quality alarm.
3. The safety part of the liveness properties: that a task which is due has a step to take, at
   every await, is an invariant and in reach of the prover, though that it is taken is not.
