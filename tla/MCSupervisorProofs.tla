-------------------------- MODULE MCSupervisorProofs --------------------------
(***************************************************************************)
(* The supervisor, for every set of configurations, connections and reload *)
(* requests: the types, what the last row of a connection tells, where an  *)
(* accepted write arrives, and what reloads leave in the tables.           *)
(*                                                                         *)
(* A task is never told to cancel before StopAll nor twice, hence it       *)
(* reaches "stopping" only while the program stops; without a crash or a   *)
(* failure no task reaches the except clause.  These are TaskInv.          *)
(***************************************************************************)
EXTENDS MCSupervisor, FiniteSetTheorems, SequenceTheorems, TLAPS

LEMMA Assumed == SyncAssumption /\ SupervisorAssumption
BY SyncAssumption, SupervisorAssumption

-----------------------------------------------------------------------------
(* The sync.                                                                 *)

At == {"idle", "tags", "flush", "alarms", "commit", "done", "failed"}

SyncRecord(s) ==
  /\ s = SyncCall(s.pc, s.config, s.tags, s.alarms)
  /\ s.pc \in At /\ s.config \in Configs
  /\ s.pc = "commit" => s.alarms \in [Alarms -> Seq(Nat)]

SyncInv ==
  /\ config \in Configs
  /\ sync = [r \in Reloads |-> sync[r]] /\ \A r \in Reloads : SyncRecord(sync[r])
  /\ lock = {} \/ \E r \in Reloads : lock = {r} /\ InProgress(r)
  /\ alarmRows \in [Alarms -> Seq(Nat)]

LEMMA SyncInvTypes ==
  ASSUME SyncInv
  PROVE  SyncTypeOK
<1>1. lock \subseteq {r \in Reloads : InProgress(r)} /\ Cardinality(lock) <= 1
  <2>1. CASE lock = {}
    BY <2>1, FS_EmptySet
  <2>2. ASSUME NEW r \in Reloads, lock = {r}, InProgress(r)
        PROVE  lock \subseteq {q \in Reloads : InProgress(q)} /\ Cardinality(lock) <= 1
    <3>1. Cardinality(lock) = 1
      BY <2>2, FS_Singleton
    <3> QED
      BY <2>2, <3>1
  <2> QED
    BY <2>1, <2>2 DEF SyncInv
<1> QED
  BY <1>1 DEF SyncInv, SyncTypeOK, SyncRecord, At

LEMMA NoSyncRecord ==
  ASSUME NEW where \in At, where # "commit"
  PROVE  SyncRecord(NoSync(where)) /\ NoSync(where).pc = where
BY Assumed DEF NoSync, SyncRecord, SyncCall, SyncAssumption

LEMMA InitSyncInv ==
  ASSUME SyncInit
  PROVE  SyncInv
<1>1. \A r \in Reloads : SyncRecord(sync[r])
  BY NoSyncRecord DEF SyncInit, At
<1>2. alarmRows \in [Alarms -> Seq(Nat)]
  <2>1. \A a \in DOMAIN FirstConfig.alarms : FirstConfig.alarms[a] \in Nat
    BY Assumed DEF SyncAssumption, IsConfig
  <2> QED
    BY <2>1 DEF SyncInit
<1> QED
  BY <1>1, <1>2, Assumed DEF SyncInit, SyncInv, SyncAssumption

\* One call moves, to a record that is typed; the lock is free or that of a call at work.
LEMMA SyncMoves ==
  ASSUME SyncInv, NEW r \in Reloads, NEW s, SyncRecord(s), SyncGoes(r, s),
         config' \in Configs, alarmRows' \in [Alarms -> Seq(Nat)],
         \/ lock' = {}
         \/ lock' = {r} /\ s.pc \notin {"idle", "done", "failed"}
         \/ lock' = lock /\ (r \in lock => s.pc \notin {"idle", "done", "failed"})
         \/ lock' = lock \ {r}
  PROVE  SyncInv'
<1>1. sync' = [q \in Reloads |-> IF q = r THEN s ELSE sync[q]]
  BY DEF SyncGoes, SyncInv
<1>2. \A q \in Reloads : SyncRecord(sync'[q])
  BY <1>1 DEF SyncInv
<1>3. lock' = {} \/ \E q \in Reloads : lock' = {q} /\ InProgress(q)'
  BY <1>1 DEF SyncInv, InProgress
<1> QED
  BY <1>1, <1>2, <1>3 DEF SyncInv

LEMMA SequenceExcept ==
  ASSUME NEW s \in Seq(Nat), NEW i, NEW v \in Nat
  PROVE  [s EXCEPT ![i] = v] \in Seq(Nat)
<1>1. CASE i \in 1 .. Len(s)
  BY <1>1, ExceptSeq
<1>2. CASE i \notin 1 .. Len(s)
  <2>1. [s EXCEPT ![i] = v] = s
    BY <1>2
  <2> QED
    BY <2>1
<1> QED
  BY <1>1, <1>2

\* A call as it goes on.
LEMMA CallGoesOn ==
  ASSUME NEW s, SyncRecord(s), NEW where \in At, NEW tags, NEW alarms,
         where = "commit" => alarms \in [Alarms -> Seq(Nat)]
  PROVE  SyncRecord(SyncCall(where, s.config, tags, alarms))
BY DEF SyncRecord, SyncCall

\* An upsert appends one setpoint, or changes one.
LEMMA UpsertedIsRows ==
  ASSUME SyncInv, NEW r \in Reloads, sync[r].pc = "commit",
         NEW a \in DOMAIN sync[r].config.alarms
  PROVE  Upserted(r, a) \in Seq(Nat)
<1> DEFINE setpoint == sync[r].config.alarms[a]
<1> DEFINE read == sync[r].alarms[a]
<1>1. a \in Alarms /\ setpoint \in Nat
  BY Assumed DEF SyncInv, SyncRecord, SyncAssumption, IsConfig, Alarms
<1>2. alarmRows[a] \in Seq(Nat) /\ read \in Seq(Nat)
  BY <1>1 DEF SyncInv, SyncRecord
<1>3. Append(alarmRows[a], setpoint) \in Seq(Nat)
  BY <1>1, <1>2
<1>4. [alarmRows[a] EXCEPT ![Len(read)] = setpoint] \in Seq(Nat)
  BY <1>1, <1>2, SequenceExcept
<1> HIDE DEF setpoint, read
<1>5. Upserted(r, a) \in {Append(alarmRows[a], setpoint), alarmRows[a],
                          [alarmRows[a] EXCEPT ![Len(read)] = setpoint]}
  BY DEF Upserted, setpoint, read
<1> QED
  BY <1>2, <1>3, <1>4, <1>5

LEMMA SyncStepPreserves ==
  ASSUME SyncInv, NEW r \in Reloads, ConfigRead(r) \/ SyncStep(r) \/ SyncFailed(r)
  PROVE  SyncInv'
<1>0. SyncRecord(sync[r]) /\ config \in Configs /\ alarmRows \in [Alarms -> Seq(Nat)]
  BY DEF SyncInv
<1>1. CASE ConfigRead(r)
  <2>1. SyncRecord(SyncCall("tags", config', <<>>, <<>>))
    BY <1>1 DEF ConfigRead, SyncRecord, SyncCall, At
  <2>2. SyncCall("tags", config', <<>>, <<>>).pc = "tags"
    BY DEF SyncCall
  <2> QED
    BY <1>0, <1>1, <2>1, <2>2, SyncMoves DEF ConfigRead
<1>2. CASE TagsSelected(r)
  <2> DEFINE s == SyncCall("flush", sync[r].config, tagRows, <<>>)
  <2>1. SyncRecord(s) /\ s.pc = "flush"
    BY <1>0, CallGoesOn DEF At, SyncCall
  <2> HIDE DEF s
  <2> QED
    BY <1>0, <1>2, <2>1, SyncMoves DEF TagsSelected, s
<1>3. CASE Flushed(r)
  <2> DEFINE s == [sync[r] EXCEPT !.pc = "alarms"]
  <2>0. s = SyncCall("alarms", sync[r].config, sync[r].tags, sync[r].alarms)
    BY <1>0 DEF SyncRecord, SyncCall
  <2>1. SyncRecord(s) /\ s.pc = "alarms"
    BY <1>0, <2>0, CallGoesOn DEF At, SyncCall
  <2>2. SyncGoes(r, s) /\ lock' \in {lock, {r}} /\ UNCHANGED <<config, alarmRows>>
    BY <1>3 DEF Flushed
  <2> HIDE DEF s
  <2> QED
    BY <1>0, <2>1, <2>2, SyncMoves
<1>4. CASE AlarmsSelected(r)
  <2> DEFINE s == SyncCall("commit", sync[r].config, sync[r].tags, alarmRows)
  <2>1. SyncRecord(s) /\ s.pc = "commit"
    BY <1>0, CallGoesOn DEF At, SyncCall
  <2>2. SyncGoes(r, s) /\ UNCHANGED <<config, alarmRows, lock>>
    BY <1>4 DEF AlarmsSelected
  <2> HIDE DEF s
  <2> QED
    BY <1>0, <2>1, <2>2, SyncMoves
<1>5. CASE SyncCommitted(r)
  <2>1. SyncGoes(r, NoSync("done")) /\ lock' = {} /\ config' = config /\ sync[r].pc = "commit"
    BY <1>5 DEF SyncCommitted, SyncAt
  <2>2. alarmRows' \in [Alarms -> Seq(Nat)]
    BY <1>0, <1>5, <2>1, UpsertedIsRows DEF SyncCommitted
  <2>3. SyncRecord(NoSync("done"))
    BY NoSyncRecord DEF At
  <2> QED
    BY <1>0, <2>1, <2>2, <2>3, SyncMoves
<1>6. CASE SyncFailed(r)
  <2>1. SyncRecord(NoSync("failed"))
    BY NoSyncRecord DEF At
  <2> QED
    BY <1>0, <1>6, <2>1, SyncMoves DEF SyncFailed
<1> QED
  BY <1>1, <1>2, <1>3, <1>4, <1>5, <1>6 DEF SyncStep

-----------------------------------------------------------------------------
(* The tasks.                                                                *)

Places == {"none", "created", "starting", "running", "failing", "sleeping", "stopping",
           "ended", "dead"}
Statuses == {"none", "starting", "error", "stopped"}

\* The domains of what the sync leaves alone.
TaskTypes ==
  /\ task \in [Connections -> Places]
  /\ backoff \in [Connections -> {2, 4, 8, 16, 32, 60}]
  /\ cancelled \subseteq Connections
  /\ lastRow \in [Connections -> Statuses]
  /\ phase \in {"boot", "up", "stopping", "stopped"}
  /\ crashes \in [Connections -> 0 .. MaxCrashes]
  /\ failures \in 0 .. MaxDbFailures

\* Where a task can be in each phase, and what its last row tells there.
TaskInv ==
  \A c \in Connections :
    /\ phase = "boot" => task[c] = "none"
    /\ phase = "stopped" => ~ Alive(c)
    /\ task[c] = "stopping" => phase \in {"stopping", "stopped"}
    /\ c \in cancelled =>
         phase = "stopping"
           /\ task[c] \in {"created", "starting", "running", "failing", "sleeping"}
    /\ task[c] = "running" => lastRow[c] = "starting"
    /\ task[c] = "sleeping" => lastRow[c] = "error"
    /\ task[c] \in {"none", "created"} => lastRow[c] = "none"
    /\ (failures = 0 /\ crashes[c] = 0) =>
         /\ task[c] \notin {"failing", "sleeping", "dead"}
         /\ task[c] = "ended" => lastRow[c] \in {"none", "stopped"}

\* No tag is polled by two connectors, and none before start_all.
PollInv ==
  /\ DOMAIN polled \subseteq Connections
  /\ phase = "boot" => written = NoWrite
  /\ \A c, d \in DOMAIN polled : \A t \in DOMAIN polled[c] \cap DOMAIN polled[d] : c = d
  /\ written.tag \in Tags \cup {"none"}
  /\ WriteReachesPolledPoint

SupervisorInv == SyncInv /\ TaskTypes /\ TaskInv /\ PollInv

LEMMA InitSupervisorInv ==
  ASSUME Init
  PROVE  SupervisorInv
<1> USE DEF Init
<1>1. SyncInv
  BY InitSyncInv
<1>2. TaskTypes
  BY Assumed DEF TaskTypes, Places, Statuses, SupervisorAssumption
<1>3. TaskInv
  BY DEF TaskInv
<1>4. PollInv
  BY DEF PollInv, WriteReachesPolledPoint, NoWrite
<1> QED
  BY <1>1, <1>2, <1>3, <1>4 DEF SupervisorInv

\* A task resumes, no longer told to cancel, at a place that its row and the past allow.
LEMMA TaskMoves ==
  ASSUME TaskTypes, TaskInv, NEW c \in Connections, NEW to \in Places, NEW row \in Statuses,
         Alive(c), phase # "boot",
         task' = [task EXCEPT ![c] = to], lastRow' = [lastRow EXCEPT ![c] = row],
         \/ cancelled' = cancelled /\ c \notin cancelled
         \/ cancelled' = cancelled \ {c},
         phase' = phase,
         crashes' = crashes \/ (crashes[c] < MaxCrashes /\ crashes' = [crashes EXCEPT ![c] = @ + 1]),
         failures' = failures \/ (failures < MaxDbFailures /\ failures' = failures + 1),
         backoff' = backoff \/ backoff' = [backoff EXCEPT ![c] = Capped(@)],
         to = "stopping" => phase = "stopping",
         to = "running" => row = "starting",
         to = "sleeping" => row = "error",
         to \notin {"none", "created"},
         (failures' = 0 /\ crashes'[c] = 0) =>
           to \notin {"failing", "sleeping", "dead"} /\ (to = "ended" => row \in {"none", "stopped"})
  PROVE  TaskTypes' /\ TaskInv'
<1>1. failures' \in 0 .. MaxDbFailures /\ (failures' = 0 => failures = 0)
  BY Assumed DEF TaskTypes, SupervisorAssumption
<1>2. /\ crashes' \in [Connections -> 0 .. MaxCrashes]
      /\ \A d \in Connections : d # c => crashes'[d] = crashes[d]
  BY Assumed DEF TaskTypes, SupervisorAssumption
<1>3. backoff' \in [Connections -> {2, 4, 8, 16, 32, 60}]
  BY DEF TaskTypes, Capped
<1>4. /\ task' \in [Connections -> Places] /\ lastRow' \in [Connections -> Statuses]
      /\ task'[c] = to /\ lastRow'[c] = row
      /\ \A d \in Connections : d # c => task'[d] = task[d] /\ lastRow'[d] = lastRow[d]
  BY DEF TaskTypes
<1>5. /\ cancelled' \subseteq Connections /\ c \notin cancelled'
      /\ \A d \in Connections : d \in cancelled' => d \in cancelled
  BY DEF TaskTypes
<1>6. phase # "stopped"
  BY DEF TaskInv
<1>7. TaskTypes'
  BY <1>1, <1>2, <1>3, <1>4, <1>5 DEF TaskTypes
<1>8. ASSUME NEW d \in Connections, d # c
      PROVE  /\ phase' = "boot" => task'[d] = "none"
             /\ phase' = "stopped" => ~ Alive(d)'
             /\ task'[d] = "stopping" => phase' \in {"stopping", "stopped"}
             /\ d \in cancelled' =>
                  phase' = "stopping"
                    /\ task'[d] \in {"created", "starting", "running", "failing", "sleeping"}
             /\ task'[d] = "running" => lastRow'[d] = "starting"
             /\ task'[d] = "sleeping" => lastRow'[d] = "error"
             /\ task'[d] \in {"none", "created"} => lastRow'[d] = "none"
             /\ (failures' = 0 /\ crashes'[d] = 0) =>
                  /\ task'[d] \notin {"failing", "sleeping", "dead"}
                  /\ task'[d] = "ended" => lastRow'[d] \in {"none", "stopped"}
  BY <1>1, <1>2, <1>4, <1>5, <1>6, <1>8 DEF TaskInv
<1>9. TaskInv'
  BY <1>4, <1>5, <1>6, <1>8 DEF TaskInv
<1> QED
  BY <1>7, <1>9

LEMMA SameRow ==
  ASSUME TaskTypes, NEW c \in Connections, lastRow' = lastRow
  PROVE  lastRow' = [lastRow EXCEPT ![c] = lastRow[c]] /\ lastRow[c] \in Statuses
BY DEF TaskTypes

\* A task whose await ends, and which nobody has told to cancel.
LEMMA GoesPreserves ==
  ASSUME TaskTypes, TaskInv, NEW c \in Connections,
         \/ Begin(c) \/ Starting(c) \/ StartingFailed(c) \/ Error(c) \/ ErrorFailed(c)
         \/ Wake(c) \/ Stopped(c) \/ StoppedFailed(c) \/ Crash(c)
  PROVE  TaskTypes' /\ TaskInv'
<1> USE DEF Goes
<1>0. phase \in {"boot", "up", "stopping", "stopped"} /\ failures \in Nat /\ crashes[c] \in Nat
  BY Assumed DEF TaskTypes, SupervisorAssumption
<1>1. CASE Begin(c)
  <2>1. task[c] = "created"
    BY <1>1 DEF Begin
  <2>2. Alive(c) /\ phase # "boot" /\ lastRow[c] = "none"
    BY <2>1 DEF TaskInv, Alive
  <2> QED
    BY <1>1, <2>1, <2>2, SameRow, TaskMoves DEF Begin, Places
<1>2. CASE Starting(c)
  <2>1. task[c] = "starting"
    BY <1>2 DEF Starting
  <2>2. Alive(c) /\ phase # "boot"
    BY <2>1 DEF TaskInv, Alive
  <2> QED
    BY <1>2, <2>1, <2>2, TaskMoves DEF Starting, Row, Places, Statuses
<1>3. CASE StartingFailed(c)
  <2>1. task[c] = "starting" /\ failures' # 0
    BY <1>0, <1>3 DEF StartingFailed, DbFails
  <2>2. Alive(c) /\ phase # "boot"
    BY <2>1 DEF TaskInv, Alive
  <2> QED
    BY <1>3, <2>1, <2>2, SameRow, TaskMoves DEF StartingFailed, DbFails, Places
<1>4. CASE Error(c)
  <2>1. task[c] = "failing"
    BY <1>4 DEF Error
  <2>2. Alive(c) /\ phase # "boot" /\ ~ (failures = 0 /\ crashes[c] = 0)
    BY <2>1 DEF TaskInv, Alive
  <2> QED
    BY <1>4, <2>1, <2>2, TaskMoves DEF Error, Row, Places, Statuses
<1>5. CASE ErrorFailed(c)
  <2>1. task[c] = "failing" /\ failures' # 0
    BY <1>0, <1>5 DEF ErrorFailed, DbFails
  <2>2. Alive(c) /\ phase # "boot"
    BY <2>1 DEF TaskInv, Alive
  <2> QED
    BY <1>5, <2>1, <2>2, SameRow, TaskMoves DEF ErrorFailed, DbFails, Places
<1>6. CASE Wake(c)
  <2>1. task[c] = "sleeping"
    BY <1>6 DEF Wake
  <2>2. Alive(c) /\ phase # "boot"
    BY <2>1 DEF TaskInv, Alive
  <2> QED
    BY <1>6, <2>1, <2>2, SameRow, TaskMoves DEF Wake, Places
<1>7. CASE Stopped(c)
  <2>1. task[c] = "stopping"
    BY <1>7 DEF Stopped
  <2>2. Alive(c) /\ phase # "boot"
    BY <2>1 DEF TaskInv, Alive
  <2> QED
    BY <1>7, <2>1, <2>2, TaskMoves DEF Stopped, Row, Places, Statuses
<1>8. CASE StoppedFailed(c)
  <2>1. task[c] = "stopping" /\ failures' # 0
    BY <1>0, <1>8 DEF StoppedFailed, DbFails
  <2>2. Alive(c) /\ phase # "boot"
    BY <2>1 DEF TaskInv, Alive
  <2> QED
    BY <1>8, <2>1, <2>2, SameRow, TaskMoves DEF StoppedFailed, DbFails, Places
<1>9. CASE Crash(c)
  <2>1. task[c] = "running" /\ crashes' = [crashes EXCEPT ![c] = @ + 1]
    BY <1>9 DEF Crash
  <2>2. Alive(c) /\ phase # "boot" /\ crashes'[c] # 0
    BY <1>0, <2>1 DEF TaskInv, Alive, TaskTypes
  <2> QED
    BY <1>9, <2>1, <2>2, SameRow, TaskMoves DEF Crash, Places
<1> QED
  BY <1>1, <1>2, <1>3, <1>4, <1>5, <1>6, <1>7, <1>8, <1>9

LEMMA CancelledPreserves ==
  ASSUME TaskTypes, TaskInv, NEW c \in Connections, Cancelled(c)
  PROVE  TaskTypes' /\ TaskInv'
<1> DEFINE to == IF task[c] \in {"starting", "running"} THEN "stopping" ELSE "ended"
<1> DEFINE row == lastRow'[c]
<1>1. /\ c \in cancelled /\ cancelled' = cancelled \ {c}
      /\ task' = [task EXCEPT ![c] = to]
      /\ UNCHANGED <<backoff, phase, crashes, failures>>
  BY DEF Cancelled
<1>2. /\ phase = "stopping"
      /\ task[c] \in {"created", "starting", "running", "failing", "sleeping"}
  BY <1>1 DEF TaskInv
<1>3. Alive(c) /\ to \in {"stopping", "ended"}
  BY <1>2 DEF Alive
<1>4. /\ lastRow' = [lastRow EXCEPT ![c] = row] /\ row \in Statuses
      /\ task[c] \in {"created", "starting", "running"} =>
           row = lastRow[c] \/ (task[c] = "starting" /\ row = "starting")
  BY DEF Cancelled, Row, TaskTypes, Statuses
<1>5. (failures = 0 /\ crashes[c] = 0) => (to = "ended" => row = "none")
  BY <1>2, <1>4 DEF TaskInv
<1> HIDE DEF to, row
<1> QED
  BY <1>1, <1>2, <1>3, <1>4, <1>5, TaskMoves DEF Places

\* A task that is told to cancel and goes on, or ends with the exception of its cleanup.
LEMMA CleanupPreserves ==
  ASSUME TaskTypes, TaskInv, NEW c \in Connections, CleanupRaises(c)
  PROVE  TaskTypes' /\ TaskInv'
<1>1. c \in cancelled /\ cancelled' = cancelled \ {c} /\ UNCHANGED <<backoff, phase>>
  BY DEF CleanupRaises
<1>2. /\ phase = "stopping" /\ failures \in Nat /\ crashes[c] \in Nat /\ lastRow[c] \in Statuses
  BY <1>1, Assumed DEF TaskInv, TaskTypes, SupervisorAssumption
<1>3. CASE /\ task[c] = "running" /\ c \in CatchesCleanup
           /\ UNCHANGED <<task, lastRow, crashes, failures>>
  <2>1. /\ task' = [task EXCEPT ![c] = "running"] /\ Alive(c) /\ lastRow[c] = "starting"
        /\ lastRow' = [lastRow EXCEPT ![c] = lastRow[c]]
    BY <1>3 DEF TaskTypes, TaskInv, Alive
  <2> QED
    BY <1>1, <1>2, <1>3, <2>1, TaskMoves DEF Places
<1>4. CASE /\ task[c] = "running" /\ c \in RaisesCleanup
           /\ crashes[c] < MaxCrashes /\ crashes' = [crashes EXCEPT ![c] = @ + 1]
           /\ task' = [task EXCEPT ![c] = "failing"] /\ UNCHANGED <<lastRow, failures>>
  <2>1. Alive(c) /\ crashes'[c] # 0 /\ lastRow' = [lastRow EXCEPT ![c] = lastRow[c]]
    BY <1>2, <1>4 DEF TaskTypes, Alive
  <2> QED
    BY <1>1, <1>2, <1>4, <2>1, TaskMoves DEF Places
<1>5. ASSUME NEW to \in {"failing", "dead"}, NEW row \in {"starting", "error"},
             task[c] \in {"starting", "failing"}, DbFails, task' = [task EXCEPT ![c] = to],
             Row(c, row) \/ UNCHANGED lastRow, UNCHANGED crashes
      PROVE  TaskTypes' /\ TaskInv'
  <2>1. /\ Alive(c) /\ failures' # 0
        /\ failures < MaxDbFailures /\ failures' = failures + 1
    BY <1>2, <1>5 DEF DbFails, Alive
  <2>2. PICK status \in Statuses : lastRow' = [lastRow EXCEPT ![c] = status]
    BY <1>2, <1>5 DEF Row, TaskTypes, Statuses
  <2> QED
    BY <1>1, <1>2, <1>5, <2>1, <2>2, TaskMoves DEF Places
<1> QED
  BY <1>3, <1>4, <1>5 DEF CleanupRaises

\* start_all, stop_all and its end move the phase, and the tasks all at once.
LEMMA PhasePreserves ==
  ASSUME TaskTypes, TaskInv, StartAll \/ StopAll \/ StopAllReturns
  PROVE  TaskTypes' /\ TaskInv'
<1>1. CASE StartAll
  <2>1. /\ phase = "boot" /\ phase' = "up" /\ UNCHANGED <<lastRow, failures, crashes, backoff, cancelled>>
        /\ task' \in [Connections -> {"none", "created"}]
    BY <1>1 DEF StartAll
  <2>2. \A c \in Connections : task[c] = "none" /\ c \notin cancelled /\ lastRow[c] = "none"
    BY <2>1 DEF TaskInv
  <2>3. \A c \in Connections : task'[c] \in {"none", "created"} /\ c \notin cancelled'
                                 /\ lastRow'[c] = "none"
    BY <2>1, <2>2
  <2> QED
    BY <2>1, <2>3 DEF TaskTypes, TaskInv, Places
<1>2. CASE StopAll
  <2>1. /\ phase = "up" /\ phase' = "stopping" /\ UNCHANGED <<task, lastRow, failures, crashes, backoff>>
        /\ cancelled' = {c \in Connections : Alive(c)}
    BY <1>2 DEF StopAll
  <2>2. \A c \in cancelled' : task[c] \in {"created", "starting", "running", "failing", "sleeping"}
    BY <2>1 DEF TaskTypes, TaskInv, Alive, Places
  <2> QED
    BY <2>1, <2>2 DEF TaskTypes, TaskInv
<1>3. CASE StopAllReturns
  <2>1. /\ phase = "stopping" /\ phase' = "stopped" /\ UNCHANGED taskVars
        /\ UNCHANGED <<failures, crashes>> /\ \A c \in Connections : ~ Alive(c)
    BY <1>3 DEF StopAllReturns
  <2>2. \A c \in Connections : c \notin cancelled
    BY <2>1 DEF TaskInv, Alive
  <2> QED
    BY <2>1, <2>2 DEF TaskTypes, TaskInv, taskVars, Alive
<1> QED
  BY <1>1, <1>2, <1>3

-----------------------------------------------------------------------------
(* The writes.                                                               *)

LEMMA StartAllPolls ==
  ASSUME SyncInv, PollInv, StartAll
  PROVE  PollInv'
<1>1. /\ phase = "boot" /\ phase' = "up" /\ written' = written
      /\ polled' = [c \in config.connections |->
                      [t \in TagsBy(c, config) |-> config.tags[t].address]]
  BY DEF StartAll
<1>2. config.connections \subseteq Connections
  BY DEF SyncInv, Connections
<1>3. \A c, d \in DOMAIN polled' : \A t \in DOMAIN polled'[c] \cap DOMAIN polled'[d] : c = d
  BY <1>1 DEF TagsBy
<1>4. written' = NoWrite
  BY <1>1 DEF PollInv
<1> QED
  BY <1>1, <1>2, <1>3, <1>4 DEF PollInv, WriteReachesPolledPoint

LEMMA WriteTagPolled ==
  ASSUME SyncInv, PollInv, NEW c \in Connections, NEW t \in Tags, WriteTag(c, t)
  PROVE  PollInv'
<1>1. /\ phase' = phase /\ phase # "boot" /\ polled' = polled
      /\ c \in DOMAIN polled /\ t \in DOMAIN polled[c]
      /\ written' = [tag |-> t, connection |-> c, address |-> polled[c][t]]
  BY DEF WriteTag, AddressKnown
<1>2. /\ written'.tag = t /\ written'.connection = c /\ written'.address = polled[c][t]
  BY <1>1
<1>3. ASSUME NEW d \in DOMAIN polled, t \in DOMAIN polled[d]
      PROVE  d = c /\ polled[d][t] = polled[c][t]
  BY <1>1, <1>3 DEF PollInv
<1> QED
  BY <1>1, <1>2, <1>3 DEF PollInv, WriteReachesPolledPoint

LEMMA PollStays ==
  ASSUME PollInv, UNCHANGED <<polled, written>>, phase = "boot" \/ phase' # "boot"
  PROVE  PollInv'
BY DEF PollInv, WriteReachesPolledPoint

-----------------------------------------------------------------------------

LEMMA NextPreservesSupervisorInv ==
  ASSUME SupervisorInv, [Next]_vars
  PROVE  SupervisorInv'
<1>0. SyncInv /\ TaskTypes /\ TaskInv /\ PollInv
  BY DEF SupervisorInv
<1>1. ASSUME UNCHANGED syncVars PROVE SyncInv'
  BY <1>0, <1>1 DEF syncVars, SyncInv, InProgress
<1>2. CASE StartAll
  BY <1>0, <1>1, <1>2, PhasePreserves, StartAllPolls DEF StartAll, SupervisorInv
<1>3. CASE StopAll \/ StopAllReturns
  <2>1. UNCHANGED <<syncVars, polled, written>> /\ phase' # "boot"
    BY <1>3 DEF StopAll, StopAllReturns
  <2> QED
    BY <1>0, <1>1, <1>3, <2>1, PhasePreserves, PollStays DEF SupervisorInv
<1>4. ASSUME NEW r \in Reloads, Reload(r) \/ ReloadFailed(r) PROVE SupervisorInv'
  <2>1. SyncInv'
    BY <1>0, <1>4, SyncStepPreserves DEF Reload, ReloadFailed
  <2>2. /\ UNCHANGED <<polled, written, taskVars, phase, crashes>>
        /\ failures' = failures \/ (failures < MaxDbFailures /\ failures' = failures + 1)
    BY <1>4 DEF Reload, ReloadFailed
  <2>3. failures' \in 0 .. MaxDbFailures /\ (failures' = 0 => failures = 0)
    BY <1>0, <2>2, Assumed DEF TaskTypes, SupervisorAssumption
  <2>4. TaskTypes'
    BY <1>0, <2>2, <2>3 DEF TaskTypes, taskVars
  <2>5. TaskInv'
    BY <1>0, <2>2, <2>3 DEF TaskInv, taskVars, Alive
  <2>6. PollInv'
    BY <1>0, <2>2, PollStays
  <2> QED
    BY <2>1, <2>4, <2>5, <2>6 DEF SupervisorInv
<1>5. ASSUME NEW c \in Connections, NEW t \in Tags, WriteTag(c, t) PROVE SupervisorInv'
  <2>1. UNCHANGED <<syncVars, taskVars, phase, crashes, failures>>
    BY <1>5 DEF WriteTag
  <2>2. TaskTypes' /\ TaskInv'
    BY <1>0, <2>1 DEF TaskTypes, TaskInv, taskVars, Alive
  <2> QED
    BY <1>0, <1>1, <1>5, <2>1, <2>2, WriteTagPolled DEF SupervisorInv
<1>6. ASSUME NEW c \in Connections, Resumes(c) \/ Crash(c) PROVE SupervisorInv'
  <2>1. UNCHANGED <<syncVars, polled, written, phase>>
    BY <1>6 DEF Resumes, Begin, Starting, StartingFailed, Error, ErrorFailed, Wake, Cancelled,
                CleanupRaises, Stopped, StoppedFailed, Crash, Goes
  <2>2. TaskTypes' /\ TaskInv'
    BY <1>0, <1>6, GoesPreserves, CancelledPreserves, CleanupPreserves DEF Resumes
  <2> QED
    BY <1>0, <1>1, <2>1, <2>2, PollStays DEF SupervisorInv
<1>7. CASE UNCHANGED vars
  <2>1. UNCHANGED <<syncVars, polled, written, taskVars, phase, crashes, failures>>
    BY <1>7 DEF vars
  <2>2. TaskTypes' /\ TaskInv'
    BY <1>0, <2>1 DEF TaskTypes, TaskInv, taskVars, Alive
  <2> QED
    BY <1>0, <1>1, <2>1, <2>2, PollStays DEF SupervisorInv
<1> QED
  BY <1>2, <1>3, <1>4, <1>5, <1>6, <1>7 DEF Next

THEOREM SupervisorInvariance == Spec => []SupervisorInv
<1>1. Init => SupervisorInv
  BY InitSupervisorInv
<1>2. SupervisorInv /\ [Next]_vars => SupervisorInv'
  BY NextPreservesSupervisorInv
<1> QED
  BY <1>1, <1>2, PTL DEF Spec

\* Every variable of the supervisor stays in its domain, with one holder of the database lock
\* at most, which is at work, and rows of numbers for every alarm.
THEOREM TypeCorrect == Spec => []TypeOK
<1>1. SupervisorInv => TypeOK
  BY SyncInvTypes DEF SupervisorInv, TaskTypes, PollInv, TypeOK, Places, Statuses
<1> QED
  BY <1>1, SupervisorInvariance, PTL

\* The last row of a connection tells what its task does, for any number of connections,
\* crashes and failures of the database.
THEOREM RowsTell == Spec => []LastRowTells
<1>1. SupervisorInv => LastRowTells
  <2> SUFFICES ASSUME SupervisorInv, NEW c \in Connections
               PROVE  /\ task[c] = "running" => lastRow[c] = "starting"
                      /\ task[c] = "sleeping" => lastRow[c] = "error"
                      /\ (phase = "stopped" /\ failures = 0 /\ crashes[c] = 0) =>
                           lastRow[c] \in {"none", "stopped"}
    BY DEF LastRowTells
  <2> QED
    BY DEF SupervisorInv, TaskTypes, TaskInv, Alive, Places
<1> QED
  BY <1>1, SupervisorInvariance, PTL

\* An accepted write reaches the point that is polled under the name of the tag, whatever
\* configurations the reloads read.
THEOREM WritesArrive == Spec => []WriteReachesPolledPoint
<1>1. SupervisorInv => WriteReachesPolledPoint
  BY DEF SupervisorInv, PollInv
<1> QED
  BY <1>1, SupervisorInvariance, PTL

-----------------------------------------------------------------------------
(* Reloads that neither overlap nor fail leave the tables in agreement with*)
(* the configuration: such a reload works on tables that nobody else writes,*)
(* hence what it has read is what they hold, and no alarm ever has a second*)
(* row.                                                                    *)

Agree ==
  /\ \A t \in DOMAIN config.tags : t \in DOMAIN tagRows /\ tagRows[t] = config.tags[t]
  /\ \A a \in DOMAIN config.alarms : alarmRows[a] = <<config.alarms[a]>>

OneRowEach == \A a \in Alarms : alarmRows[a] = <<>> \/ \E v \in Nat : alarmRows[a] = <<v>>

\* What the call r knows of the tables and of the configuration is true.
Informed(r) ==
  /\ config = sync[r].config
  /\ sync[r].pc \in {"flush", "alarms", "commit"} => sync[r].tags = tagRows
  /\ sync[r].pc = "commit" => sync[r].alarms = alarmRows

QuietSync ==
  /\ \A r, s \in Reloads : InProgress(r) /\ InProgress(s) => r = s
  /\ OneRowEach
  /\ \A r \in Reloads : InProgress(r) => Informed(r)
  /\ (\A r \in Reloads : ~ InProgress(r)) => Agree

LEMMA InitQuietSync ==
  ASSUME SyncInit
  PROVE  QuietSync
<1>1. \A r \in Reloads : ~ InProgress(r)
  BY DEF SyncInit, InProgress, NoSync, SyncCall
<1>2. FirstConfig \in Configs /\ IsConfig(FirstConfig)
  BY Assumed DEF SyncAssumption
<1>3. OneRowEach
  BY <1>2 DEF SyncInit, OneRowEach, IsConfig
<1>4. DOMAIN FirstConfig.alarms \subseteq Alarms
  BY <1>2 DEF Alarms
<1>5. Agree
  BY <1>4 DEF SyncInit, Agree
<1> QED
  BY <1>1, <1>3, <1>5 DEF QuietSync

\* The commit of the only call at work: every table row of its configuration is as it says,
\* written now or found so.
LEMMA CommitAgrees ==
  ASSUME SyncInv, QuietSync, NEW r \in Reloads, SyncCommitted(r)
  PROVE  Agree' /\ OneRowEach'
<1> PICK conf : conf = sync[r].config
  OBVIOUS
<1>1. /\ sync[r].pc = "commit" /\ config' = conf /\ conf \in Configs
      /\ sync[r].tags = tagRows /\ sync[r].alarms = alarmRows
  BY DEF SyncCommitted, SyncAt, QuietSync, InProgress, Informed, SyncInv, SyncRecord
<1>2. /\ tagRows' = [t \in DOMAIN tagRows \cup Changed(r) |->
                       IF t \in Changed(r) THEN conf.tags[t] ELSE tagRows[t]]
      /\ alarmRows' = [a \in Alarms |->
                         IF a \in DOMAIN conf.alarms THEN Upserted(r, a) ELSE alarmRows[a]]
  BY DEF SyncCommitted
<1>3. \A t \in DOMAIN conf.tags : t \in DOMAIN tagRows' /\ tagRows'[t] = conf.tags[t]
  <2>1. Changed(r) = {t \in DOMAIN conf.tags :
                        t \notin DOMAIN tagRows \/ tagRows[t] # conf.tags[t]}
    BY <1>1 DEF Changed
  <2> QED
    BY <1>2, <2>1
<1>4. DOMAIN conf.alarms \subseteq Alarms /\ \A a \in DOMAIN conf.alarms : conf.alarms[a] \in Nat
  BY <1>1, Assumed DEF SyncAssumption, IsConfig, Alarms
<1>5. ASSUME NEW a \in DOMAIN conf.alarms PROVE Upserted(r, a) = <<conf.alarms[a]>>
  <2> PICK v \in Nat : v = conf.alarms[a]
    BY <1>4
  <2>1. Upserted(r, a) = IF alarmRows[a] = <<>> THEN Append(alarmRows[a], v)
                         ELSE IF alarmRows[a][Len(alarmRows[a])] = v THEN alarmRows[a]
                         ELSE [alarmRows[a] EXCEPT ![Len(alarmRows[a])] = v]
    BY <1>1 DEF Upserted
  <2>2. CASE alarmRows[a] = <<>>
    BY <2>1, <2>2
  <2>3. ASSUME NEW w \in Nat, alarmRows[a] = <<w>> PROVE Upserted(r, a) = <<v>>
    <3>1. Len(<<w>>) = 1 /\ <<w>>[1] = w /\ <<w>> # <<>>
      OBVIOUS
    <3>2. [<<w>> EXCEPT ![1] = v] = <<v>>
      OBVIOUS
    <3> QED
      BY <2>1, <2>3, <3>1, <3>2
  <2> QED
    BY <1>4, <2>2, <2>3 DEF QuietSync, OneRowEach
<1>6. \A a \in DOMAIN conf.alarms : alarmRows'[a] = <<conf.alarms[a]>>
  BY <1>2, <1>4, <1>5
<1>7. ASSUME NEW a \in Alarms PROVE alarmRows'[a] = <<>> \/ \E v \in Nat : alarmRows'[a] = <<v>>
  <2>1. CASE a \in DOMAIN conf.alarms
    BY <1>4, <1>6, <2>1
  <2>2. CASE a \notin DOMAIN conf.alarms
    BY <1>2, <2>2 DEF QuietSync, OneRowEach
  <2> QED
    BY <2>1, <2>2
<1> QED
  BY <1>1, <1>3, <1>6, <1>7 DEF Agree, OneRowEach

\* One call goes on to s, and the others are not at work.
LEMMA CallMoves ==
  ASSUME SyncInv, QuietSync, NEW r \in Reloads, NEW s, SyncGoes(r, s),
         \A q \in Reloads \ {r} : ~ InProgress(q),
         OneRowEach',
         s.pc \notin {"idle", "done", "failed"} =>
           /\ config' = s.config
           /\ s.pc \in {"flush", "alarms", "commit"} => s.tags = tagRows'
           /\ s.pc = "commit" => s.alarms = alarmRows',
         s.pc \in {"idle", "done", "failed"} => Agree'
  PROVE  QuietSync'
<1>1. sync'[r] = s /\ \A q \in Reloads \ {r} : sync'[q] = sync[q]
  BY DEF SyncGoes, SyncInv
<1>2. \A q \in Reloads \ {r} : ~ InProgress(q)'
  BY <1>1 DEF InProgress
<1>3. InProgress(r)' <=> s.pc \notin {"idle", "done", "failed"}
  BY <1>1 DEF InProgress
<1>4. InProgress(r)' => Informed(r)'
  BY <1>1, <1>3 DEF Informed
<1> QED
  BY <1>2, <1>3, <1>4 DEF QuietSync

LEMMA QuietSyncStep ==
  ASSUME SyncInv, QuietSync, NEW r \in Reloads, ConfigRead(r) \/ SyncStep(r), ~ Overlap'
  PROVE  QuietSync'
<1>1. \A q \in Reloads \ {r} : sync'[q] = sync[q]
  BY DEF ConfigRead, SyncStep, TagsSelected, Flushed, AlarmsSelected, SyncCommitted,
         SyncGoes, SyncInv
<1>2. CASE ConfigRead(r)
  <2> DEFINE s == SyncCall("tags", config', <<>>, <<>>)
  <2>1. SyncGoes(r, s) /\ s.pc = "tags" /\ s.config = config' /\ alarmRows' = alarmRows
    BY <1>2 DEF ConfigRead, SyncCall
  <2>2. InProgress(r)'
    BY <2>1 DEF SyncGoes, SyncInv, InProgress
  <2>3. \A q \in Reloads \ {r} : ~ InProgress(q)
    BY <1>1, <2>2 DEF Overlap, InProgress
  <2>4. OneRowEach'
    BY <2>1 DEF QuietSync, OneRowEach
  <2> HIDE DEF s
  <2> QED
    BY <2>1, <2>3, <2>4, CallMoves
<1>3. CASE SyncStep(r)
  <2>1. /\ InProgress(r) /\ Informed(r)
        /\ \A q \in Reloads \ {r} : ~ InProgress(q)
    <3>1. InProgress(r)
      BY <1>3 DEF SyncStep, TagsSelected, Flushed, AlarmsSelected, SyncCommitted, SyncAt,
                  InProgress
    <3> QED
      BY <3>1 DEF QuietSync
  <2>2. ASSUME UNCHANGED alarmRows PROVE OneRowEach'
    BY <2>2 DEF QuietSync, OneRowEach
  <2>3. CASE TagsSelected(r)
    <3> DEFINE s == SyncCall("flush", sync[r].config, tagRows, <<>>)
    <3>1. /\ SyncGoes(r, s) /\ s.pc = "flush" /\ s.config = sync[r].config /\ s.tags = tagRows
          /\ UNCHANGED <<config, tagRows, alarmRows>>
      BY <2>3 DEF TagsSelected, SyncCall
    <3> HIDE DEF s
    <3> QED
      BY <2>1, <2>2, <3>1, CallMoves DEF Informed
  <2>4. CASE Flushed(r)
    <3> DEFINE s == [sync[r] EXCEPT !.pc = "alarms"]
    <3>1. SyncGoes(r, s) /\ sync[r].pc = "flush" /\ UNCHANGED <<config, tagRows, alarmRows>>
      BY <2>4 DEF Flushed, SyncAt
    <3>2. s.pc = "alarms" /\ s.config = sync[r].config /\ s.tags = sync[r].tags
      BY DEF SyncInv, SyncRecord, SyncCall
    <3> HIDE DEF s
    <3> QED
      BY <2>1, <2>2, <3>1, <3>2, CallMoves DEF Informed
  <2>5. CASE AlarmsSelected(r)
    <3> DEFINE s == SyncCall("commit", sync[r].config, sync[r].tags, alarmRows)
    <3>1. /\ SyncGoes(r, s) /\ sync[r].pc = "alarms" /\ s.pc = "commit"
          /\ s.config = sync[r].config /\ s.tags = sync[r].tags /\ s.alarms = alarmRows
          /\ UNCHANGED <<config, tagRows, alarmRows>>
      BY <2>5 DEF AlarmsSelected, SyncCall, SyncAt
    <3> HIDE DEF s
    <3> QED
      BY <2>1, <2>2, <3>1, CallMoves DEF Informed
  <2>6. CASE SyncCommitted(r)
    <3>1. SyncGoes(r, NoSync("done")) /\ NoSync("done").pc = "done"
      BY <2>6 DEF SyncCommitted, NoSync, SyncCall
    <3> QED
      BY <2>1, <2>6, <3>1, CommitAgrees, CallMoves
  <2> QED
    BY <1>3, <2>3, <2>4, <2>5, <2>6 DEF SyncStep
<1> QED
  BY <1>2, <1>3

LEMMA QuietNext ==
  ASSUME SupervisorInv, ~ careless => QuietSync, [MCNext]_mcvars
  PROVE  ~ careless' => QuietSync'
<1> SUFFICES ASSUME ~ careless' PROVE QuietSync'
  OBVIOUS
<1>0. SyncInv
  BY DEF SupervisorInv
<1>1. ASSUME UNCHANGED syncVars, QuietSync PROVE QuietSync'
  BY <1>1 DEF syncVars, QuietSync, InProgress, Informed, Agree, OneRowEach
<1>2. CASE UNCHANGED mcvars
  BY <1>1, <1>2 DEF mcvars, vars
<1>3. CASE MCNext
  <2>1. QuietSync /\ ~ Overlap' /\ \A r \in Reloads : sync'[r].pc # "failed"
    BY <1>3 DEF MCNext
  <2>2. ASSUME NEW r \in Reloads, Reload(r) PROVE QuietSync'
    BY <1>0, <2>1, <2>2, QuietSyncStep DEF Reload
  <2>3. ASSUME NEW r \in Reloads, ReloadFailed(r) PROVE FALSE
    <3>1. sync'[r] = NoSync("failed")
      BY <1>0, <2>3 DEF ReloadFailed, SyncFailed, SyncGoes, SyncInv
    <3> QED
      BY <2>1, <3>1 DEF NoSync, SyncCall
  <2>4. ASSUME StartAll \/ StopAll \/ StopAllReturns PROVE UNCHANGED syncVars
    BY <2>4 DEF StartAll, StopAll, StopAllReturns
  <2>5. ASSUME NEW c \in Connections, NEW t \in Tags, WriteTag(c, t) PROVE UNCHANGED syncVars
    BY <2>5 DEF WriteTag
  <2>6. ASSUME NEW c \in Connections, Resumes(c) \/ Crash(c) PROVE UNCHANGED syncVars
    BY <2>6 DEF Resumes, Begin, Starting, StartingFailed, Error, ErrorFailed, Wake, Cancelled,
                CleanupRaises, Stopped, StoppedFailed, Crash, Goes
  <2> QED
    BY <1>1, <1>3, <2>1, <2>2, <2>3, <2>4, <2>5, <2>6 DEF MCNext, Next
<1> QED
  BY <1>2, <1>3

\* After reloads that neither overlap nor fail the tables agree with the configuration in
\* memory, and no alarm has two rows, for all configurations and any number of reloads.
THEOREM QuietReloadsAgree == MCSpec => []QuietSyncAgrees
<1>1. MCInit => SupervisorInv /\ (~ careless => QuietSync)
  BY InitSupervisorInv, InitQuietSync DEF MCInit, Init
<1>2. SupervisorInv /\ [MCNext]_mcvars => SupervisorInv'
  BY NextPreservesSupervisorInv DEF MCNext, mcvars
<1>3. SupervisorInv /\ (~ careless => QuietSync) /\ [MCNext]_mcvars
        => (~ careless' => QuietSync')
  BY QuietNext
<1>4. (~ careless => QuietSync) => QuietSyncAgrees
  BY DEF QuietSync, Agree, QuietSyncAgrees
<1> QED
  BY <1>1, <1>2, <1>3, <1>4, PTL DEF MCSpec
=============================================================================
