----------------------------- MODULE MCSupervisor -----------------------------
(* Two connections, two reloads that may overlap, and what tells a careful           *)
(* administrator's reloads from those that crossed or failed.                        *)
EXTENDS Supervisor, TLC

Tag(c, address) == [connection |-> c, address |-> address]

First ==
  [connections |-> {"plc", "broker"},
   tags |-> ("t1" :> Tag("plc", 10)) @@ ("t2" :> Tag("broker", 20)),
   alarms |-> <<"t1", "high">> :> 5]
\* t1 at another address and with another setpoint; t2 moved to the other connection, with a
\* new alarm; a new tag t3.
Edited ==
  [connections |-> {"plc", "broker"},
   tags |-> ("t1" :> Tag("plc", 11)) @@ ("t2" :> Tag("plc", 30)) @@ ("t3" :> Tag("broker", 1)),
   alarms |-> (<<"t1", "high">> :> 6) @@ (<<"t2", "low">> :> 1)]

SomeConfigs == {First, Edited}

VARIABLES
  careless,   \* two reloads have overlapped, or one has failed
  lost,       \* tasks that went on although stop_all cancelled them
  scene       \* "crashes" or "reloads": the actions of a task and those of a sync share no
              \* variable but the count of failures, so one behaviour need not have both

mcvars == <<vars, careless, lost, scene>>

Overlap == \E r, s \in Reloads : r # s /\ InProgress(r) /\ InProgress(s)

MCInit == Init /\ careless = FALSE /\ lost = {} /\ scene \in {"crashes", "reloads"}
MCNext ==
  /\ Next
  /\ scene = "crashes" => UNCHANGED sync
  /\ scene = "reloads" => UNCHANGED crashes
  /\ careless' = (careless \/ Overlap' \/ \E r \in Reloads : sync'[r].pc = "failed")
  /\ lost' = lost \cup {c \in cancelled \ cancelled' : task'[c] \in {"running", "failing"}}
  /\ UNCHANGED scene
MCSpec == MCInit /\ [][MCNext]_mcvars

MCFairSpec == MCSpec /\ Fairness

\* stop_all ends every task, whatever it was doing and even if the database fails, and returns;
\* unless what a task closes on the way out raises, which makes the task go on and stop_all
\* wait for it ("emit() samples forever until cancelled", base.py's docstring of run).
StopCompletes ==
  /\ \A c \in Connections : phase = "stopping" ~> (~ Alive(c) \/ c \in lost)
  /\ phase = "stopping" ~> (phase = "stopped" \/ lost # {})

\* Between reloads that neither overlap nor fail, the tables agree with the configuration in
\* memory: every tag it names has its row, and every alarm exactly one, with its setpoint.
QuietSyncAgrees ==
  (~ careless /\ \A r \in Reloads : ~ InProgress(r)) =>
    /\ \A t \in DOMAIN config.tags : t \in DOMAIN tagRows /\ tagRows[t] = config.tags[t]
    /\ \A a \in DOMAIN config.alarms : alarmRows[a] = <<config.alarms[a]>>
=============================================================================
