-------------------------------- MODULE TagSync --------------------------------
(***************************************************************************)
(* ConnectorSupervisor.load_and_sync (core/supervisor.py): read the two    *)
(* files of config/, make them self.config, and upsert the tables tags and *)
(* alarm_definitions in one transaction.  Reload requests can overlap.     *)
(*                                                                         *)
(* A transaction writes what differs from what it has read, and its writes *)
(* appear when it commits.  The first write takes the lock of the database *)
(* (SQLite; on Postgres, those of the rows).  alarm_definitions has no key *)
(* besides its id.                                                         *)
(***************************************************************************)
EXTENDS Integers, FiniteSets, Sequences

CONSTANTS
  Configs,       \* what load_config can return
  FirstConfig,   \* what it returned at start-up
  Reloads        \* the reload requests that may be made

\* A configuration: its connections, the connection and address of each tag (TagSpec), and
\* the setpoint of each alarm, named <<tag, condition>>.
IsConfig(c) ==
  /\ c = [connections |-> c.connections, tags |-> c.tags, alarms |-> c.alarms]
  /\ \A t \in DOMAIN c.tags : DOMAIN c.tags[t] = {"connection", "address"}
  /\ \A a \in DOMAIN c.alarms : a[1] \in DOMAIN c.tags /\ c.alarms[a] \in Nat

ASSUME SyncAssumption ==
  /\ FirstConfig \in Configs
  /\ \A c \in Configs : IsConfig(c)

VARIABLES
  config,      \* self.config
  tagRows,     \* the table tags, by name
  alarmRows,   \* the table alarm_definitions: of each alarm, the setpoints of its rows, oldest first
  sync,        \* each call of load_and_sync: its pc, its config and what it has read
  lock         \* the calls that hold the lock: none or one

syncVars == <<config, tagRows, alarmRows, sync, lock>>

Alarms == UNION {DOMAIN c.alarms : c \in Configs}

SyncCall(where, c, tags, alarms) ==
  [pc |-> where, config |-> c, tags |-> tags, alarms |-> alarms]
NoSync(where) == SyncCall(where, FirstConfig, <<>>, <<>>)

\* The rows load_and_sync has made of FirstConfig when lifespan goes on.
SyncInit ==
  /\ config = FirstConfig
  /\ tagRows = FirstConfig.tags
  /\ alarmRows = [a \in Alarms |->
                    IF a \in DOMAIN FirstConfig.alarms THEN <<FirstConfig.alarms[a]>> ELSE <<>>]
  /\ sync = [r \in Reloads |-> NoSync("idle")]
  /\ lock = {}

SyncAt(r, where) == sync[r].pc = where
SyncGoes(r, rec) == sync' = [sync EXCEPT ![r] = rec]

\* POST /api/config/reload: load_config, and self.config before anything is written.
ConfigRead(r) ==
  /\ SyncAt(r, "idle")
  /\ config' \in Configs
  /\ SyncGoes(r, SyncCall("tags", config', <<>>, <<>>))
  /\ UNCHANGED <<tagRows, alarmRows, lock>>

TagsSelected(r) ==
  /\ SyncAt(r, "tags")
  /\ SyncGoes(r, SyncCall("flush", sync[r].config, tagRows, <<>>))
  /\ UNCHANGED <<config, tagRows, alarmRows, lock>>

\* The tags to insert or update.
Changed(r) ==
  {t \in DOMAIN sync[r].config.tags :
     t \notin DOMAIN sync[r].tags \/ sync[r].tags[t] # sync[r].config.tags[t]}

\* Tags it has found missing that another call has inserted since: their name is unique.
Collides(r) == Changed(r) \cap (DOMAIN tagRows \ DOMAIN sync[r].tags) # {}

\* session.flush
Flushed(r) ==
  /\ SyncAt(r, "flush")
  /\ \/ Changed(r) = {} /\ UNCHANGED lock
     \/ Changed(r) # {} /\ lock = {} /\ ~ Collides(r) /\ lock' = {r}
  /\ SyncGoes(r, [sync[r] EXCEPT !.pc = "alarms"])
  /\ UNCHANGED <<config, tagRows, alarmRows>>

\* The queries for the alarms of each tag.
AlarmsSelected(r) ==
  /\ SyncAt(r, "alarms")
  /\ SyncGoes(r, SyncCall("commit", sync[r].config, sync[r].tags, alarmRows))
  /\ UNCHANGED <<config, tagRows, alarmRows, lock>>

\* The rows of an alarm after its upsert: existing_by_condition holds the last of the rows
\* that were read, which is written if its setpoint differs.
AlwaysInserted(r, a) == Append(alarmRows[a], sync[r].config.alarms[a])
Upserted(r, a) ==
  LET setpoint == sync[r].config.alarms[a]
      read == sync[r].alarms[a]
  IN IF read = <<>> THEN Append(alarmRows[a], setpoint)
     ELSE IF read[Len(read)] = setpoint THEN alarmRows[a]
     ELSE [alarmRows[a] EXCEPT ![Len(read)] = setpoint]

\* session.commit
SyncCommitted(r) ==
  /\ SyncAt(r, "commit") /\ lock \subseteq {r}
  /\ tagRows' = [t \in DOMAIN tagRows \cup Changed(r) |->
                   IF t \in Changed(r) THEN sync[r].config.tags[t] ELSE tagRows[t]]
  /\ alarmRows' = [a \in Alarms |->
                     IF a \in DOMAIN sync[r].config.alarms THEN Upserted(r, a) ELSE alarmRows[a]]
  /\ SyncGoes(r, NoSync("done"))
  /\ lock' = {}
  /\ UNCHANGED config

\* An error, or a lock waited for too long: 500, and nothing is written.
SyncFailed(r) ==
  /\ sync[r].pc \in {"tags", "flush", "alarms", "commit"}
  /\ SyncGoes(r, NoSync("failed"))
  /\ lock' = lock \ {r}
  /\ UNCHANGED <<config, tagRows, alarmRows>>

SyncStep(r) == TagsSelected(r) \/ Flushed(r) \/ AlarmsSelected(r) \/ SyncCommitted(r)

InProgress(r) == sync[r].pc \notin {"idle", "done", "failed"}

-----------------------------------------------------------------------------
\* Every variable of the sync stays in its domain, and only a call at work holds the lock.
SyncTypeOK ==
  /\ config \in Configs
  /\ \A r \in Reloads :
       /\ sync[r].pc \in {"idle", "tags", "flush", "alarms", "commit", "done", "failed"}
       /\ sync[r].config \in Configs
  /\ lock \subseteq {r \in Reloads : InProgress(r)} /\ Cardinality(lock) <= 1
  /\ alarmRows \in [Alarms -> Seq(Nat)]
=============================================================================
