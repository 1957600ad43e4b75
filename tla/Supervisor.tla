------------------------------ MODULE Supervisor ------------------------------
(***************************************************************************)
(* ConnectorSupervisor (app/core/supervisor.py): one task per connection   *)
(* runs its connector, logs its status in the database and restarts it     *)
(* after a crash; reloads replace the configuration under them (TagSync);  *)
(* operators write tags; stop_all cancels the tasks and waits for them.    *)
(***************************************************************************)
EXTENDS TagSync

CONSTANTS
  MaxCrashes,      \* bound on the crashes of a connector
  MaxDbFailures,   \* bound on the database operations that fail
  ReadOnly,        \* the connections whose protocol cannot write
  CatchesCleanup,  \* those whose run catches what its own cleanup raises (OPC UA, SQL)
  RaisesCleanup    \* those whose cleanup may raise out of run (SQL, HTTP, BACnet, SNMP)

Connections == UNION {c.connections : c \in Configs}
Tags == UNION {DOMAIN c.tags : c \in Configs}

ASSUME SupervisorAssumption == {MaxCrashes, MaxDbFailures} \subseteq Nat

VARIABLES
  polled,     \* the tags each connector was made with, and their addresses
  written,    \* the last write that was accepted: a tag, a connection and an address
  task,       \* where each supervise task is
  backoff,    \* its local variable
  cancelled,  \* tasks told to cancel that have not resumed yet
  lastRow,    \* status of the last row of connection_status_log of each connection
  phase,      \* "boot", "up", "stopping" or "stopped"
  crashes, failures

NoWrite == [tag |-> "none"]

taskVars == <<task, backoff, cancelled, lastRow>>
vars == <<syncVars, polled, written, taskVars, phase, crashes, failures>>

-----------------------------------------------------------------------------
(* task: "none"; "created"; "starting" (awaiting the row of that name);     *)
(* "running" (in run); "failing" (handling an exception, awaiting the row   *)
(* "error"); "sleeping"; "stopping" (awaiting the row "stopped"); "ended"   *)
(* (cancelled); "dead" (an exception escaped).                              *)

Init ==
  /\ SyncInit
  /\ polled = <<>> /\ written = NoWrite
  /\ task = [c \in Connections |-> "none"]
  /\ backoff = [c \in Connections |-> 2]
  /\ cancelled = {} /\ lastRow = [c \in Connections |-> "none"]
  /\ phase = "boot"
  /\ crashes = [c \in Connections |-> 0] /\ failures = 0

\* tags_by_connection
TagsBy(c, conf) == {t \in DOMAIN conf.tags : conf.tags[t].connection = c}

\* start_all
StartAll ==
  /\ phase = "boot" /\ phase' = "up"
  /\ polled' = [c \in config.connections |->
                  [t \in TagsBy(c, config) |-> config.tags[t].address]]
  /\ task' = [c \in Connections |-> IF c \in config.connections THEN "created" ELSE "none"]
  /\ UNCHANGED <<syncVars, written, backoff, cancelled, lastRow, crashes, failures>>

\* A reload request: the connectors keep the tags they have.
Reload(r) ==
  /\ phase = "up"
  /\ ConfigRead(r) \/ SyncStep(r)
  /\ UNCHANGED <<polled, written, taskVars, phase, crashes, failures>>

ReloadFailed(r) ==
  /\ phase = "up" /\ SyncFailed(r)
  /\ failures < MaxDbFailures /\ failures' = failures + 1
  /\ UNCHANGED <<polled, written, taskVars, phase, crashes>>

\* write_tag finds the connection of the tag in the new configuration, and the connector its
\* address among the tags it was made with; a connector without the tag, or one that cannot
\* write, refuses.
AddressConfigured(c, t) == config.tags[t].address
AddressKnown(c, t) == polled[c][t]

WriteTag(c, t) ==
  /\ phase = "up" /\ c \in DOMAIN polled \ ReadOnly
  /\ t \in TagsBy(c, config) \cap DOMAIN polled[c]
  /\ written' = [tag |-> t, connection |-> c, address |-> AddressKnown(c, t)]
  /\ UNCHANGED <<syncVars, polled, taskVars, phase, crashes, failures>>

-----------------------------------------------------------------------------
(* _supervise.                                                               *)

Goes(c, from, to) ==
  /\ task[c] = from /\ c \notin cancelled
  /\ task' = [task EXCEPT ![c] = to]
  /\ UNCHANGED <<syncVars, polled, written, cancelled, phase>>

Row(c, status) == lastRow' = [lastRow EXCEPT ![c] = status]
DbFails == failures < MaxDbFailures /\ failures' = failures + 1

Begin(c) == Goes(c, "created", "starting") /\ UNCHANGED <<backoff, lastRow, crashes, failures>>

Starting(c) ==
  /\ Goes(c, "starting", "running") /\ Row(c, "starting")
  /\ UNCHANGED <<backoff, crashes, failures>>

StartingFailed(c) ==
  Goes(c, "starting", "failing") /\ DbFails /\ UNCHANGED <<backoff, lastRow, crashes>>

Crash(c) ==
  /\ crashes[c] < MaxCrashes /\ crashes' = [crashes EXCEPT ![c] = @ + 1]
  /\ Goes(c, "running", "failing")
  /\ UNCHANGED <<backoff, lastRow, failures>>

ErrorNotLogged(c) ==
  Goes(c, "failing", "sleeping") /\ UNCHANGED <<backoff, lastRow, crashes, failures>>

ErrorAndEnd(c) ==
  /\ Goes(c, "failing", "ended") /\ Row(c, "error")
  /\ UNCHANGED <<backoff, crashes, failures>>

Error(c) ==
  /\ Goes(c, "failing", "sleeping") /\ Row(c, "error")
  /\ UNCHANGED <<backoff, crashes, failures>>

\* The row "error" is logged inside the except clause: nothing catches its failure.
ErrorFailed(c) ==
  Goes(c, "failing", "dead") /\ DbFails /\ UNCHANGED <<backoff, lastRow, crashes>>

Doubled(b) == 2 * b
Capped(b) == IF 2 * b > 60 THEN 60 ELSE 2 * b

Wake(c) ==
  /\ Goes(c, "sleeping", "starting")
  /\ backoff' = [backoff EXCEPT ![c] = Capped(@)]
  /\ UNCHANGED <<lastRow, crashes, failures>>

-----------------------------------------------------------------------------
(* stop_all.                                                                 *)

Alive(c) == task[c] \notin {"none", "ended", "dead"}

StopAll ==
  /\ phase = "up" /\ phase' = "stopping"
  /\ cancelled' = {c \in Connections : Alive(c)}
  /\ UNCHANGED <<syncVars, polled, written, task, backoff, lastRow, crashes, failures>>

\* The task resumes with CancelledError.  A row it was waiting for may be there or not;
\* outside the try, in the except clause or before the first step, nothing more is logged.
Cancelled(c) ==
  /\ c \in cancelled /\ cancelled' = cancelled \ {c}
  /\ \/ task[c] = "starting" /\ Row(c, "starting")
     \/ task[c] = "failing" /\ Row(c, "error")
     \/ UNCHANGED lastRow
  /\ task' = [task EXCEPT ![c] = IF @ \in {"starting", "running"} THEN "stopping" ELSE "ended"]
  /\ UNCHANGED <<syncVars, polled, written, backoff, phase, crashes, failures>>

\* What is awaited to close a client or a session on the way out raises, and takes the place of
\* CancelledError: the cancellation is consumed.  run itself catches it and goes on, or the
\* except clause of _supervise does; in that clause nothing catches it.
CleanupRaises(c) ==
  /\ c \in cancelled /\ cancelled' = cancelled \ {c}
  /\ \/ /\ task[c] = "running" /\ c \in CatchesCleanup
        /\ UNCHANGED <<task, lastRow, crashes, failures>>
     \/ /\ task[c] = "running" /\ c \in RaisesCleanup
        /\ crashes[c] < MaxCrashes /\ crashes' = [crashes EXCEPT ![c] = @ + 1]
        /\ task' = [task EXCEPT ![c] = "failing"]
        /\ UNCHANGED <<lastRow, failures>>
     \/ /\ task[c] = "starting" /\ DbFails
        /\ task' = [task EXCEPT ![c] = "failing"]
        /\ Row(c, "starting") \/ UNCHANGED lastRow
        /\ UNCHANGED crashes
     \/ /\ task[c] = "failing" /\ DbFails
        /\ task' = [task EXCEPT ![c] = "dead"]
        /\ Row(c, "error") \/ UNCHANGED lastRow
        /\ UNCHANGED crashes
  /\ UNCHANGED <<syncVars, polled, written, backoff, phase>>

StoppedAndLoop(c) ==
  Goes(c, "stopping", "starting") /\ Row(c, "stopped") /\ UNCHANGED <<backoff, crashes, failures>>

Stopped(c) ==
  Goes(c, "stopping", "ended") /\ Row(c, "stopped") /\ UNCHANGED <<backoff, crashes, failures>>

StoppedFailed(c) ==
  Goes(c, "stopping", "dead") /\ DbFails /\ UNCHANGED <<backoff, lastRow, crashes>>

\* gather returns.
StopAllReturns ==
  /\ phase = "stopping" /\ \A c \in Connections : ~ Alive(c)
  /\ phase' = "stopped"
  /\ UNCHANGED <<syncVars, polled, written, taskVars, crashes, failures>>

-----------------------------------------------------------------------------

Resumes(c) ==
  \/ Begin(c) \/ Starting(c) \/ StartingFailed(c) \/ Error(c) \/ ErrorFailed(c) \/ Wake(c)
  \/ Cancelled(c) \/ CleanupRaises(c) \/ Stopped(c) \/ StoppedFailed(c)

Next ==
  \/ StartAll \/ StopAll \/ StopAllReturns
  \/ \E r \in Reloads : Reload(r) \/ ReloadFailed(r)
  \/ \E c \in Connections, t \in Tags : WriteTag(c, t)
  \/ \E c \in Connections : Resumes(c) \/ Crash(c)

Spec == Init /\ [][Next]_vars

\* The event loop resumes every task whose await ends, and the database answers, with a
\* result or an error; connectors need not crash, nor anyone reload or stop the program.
Fairness ==
  /\ WF_vars(StartAll) /\ WF_vars(StopAllReturns)
  /\ \A c \in Connections : WF_vars(Resumes(c))

FairSpec == Spec /\ Fairness

-----------------------------------------------------------------------------
(* Properties.                                                               *)

\* The variables stay in their domains; the backoff doubles from 2 s up to 60 s.
TypeOK ==
  /\ SyncTypeOK
  /\ DOMAIN polled \subseteq Connections /\ written.tag \in Tags \cup {"none"}
  /\ task \in [Connections -> {"none", "created", "starting", "running", "failing",
                               "sleeping", "stopping", "ended", "dead"}]
  /\ backoff \in [Connections -> {2, 4, 8, 16, 32, 60}]
  /\ cancelled \subseteq Connections
  /\ lastRow \in [Connections -> {"none", "starting", "error", "stopped"}]
  /\ phase \in {"boot", "up", "stopping", "stopped"}
  /\ crashes \in [Connections -> 0 .. MaxCrashes]
  /\ failures \in 0 .. MaxDbFailures

\* The last row of a connection tells what its task does: "starting" while it runs, "error"
\* while it waits to start again, and, if nothing ever failed, "stopped" once the program
\* has stopped, unless its task was cancelled before its first step.
LastRowTells ==
  \A c \in Connections :
    /\ task[c] = "running" => lastRow[c] = "starting"
    /\ task[c] = "sleeping" => lastRow[c] = "error"
    /\ (phase = "stopped" /\ failures = 0 /\ crashes[c] = 0) =>
         lastRow[c] \in {"none", "stopped"}

\* A crashed connector runs again ("restarts crashed connectors with backoff",
\* supervisor.py:2-3), unless the program stops or the database fails under the except
\* clause, whatever it does before.
CrashIsRetried ==
  \A c \in Connections :
    task[c] = "failing" ~> (task[c] \in {"running", "dead"} \/ phase # "up")

\* A write that is accepted reaches the one point whose samples bear the name of the tag,
\* also after reloads that gave the tag another address or moved it to another connection:
\* write_tag looks the connection up in the new configuration, the connector the address in
\* the old one, and no other connector goes on polling a tag of that name.
WriteReachesPolledPoint ==
  written # NoWrite =>
    \A c \in DOMAIN polled : written.tag \in DOMAIN polled[c] =>
      c = written.connection /\ polled[c][written.tag] = written.address
=============================================================================
