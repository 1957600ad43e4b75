------------------------------ MODULE MCSettings ------------------------------
(***************************************************************************)
(* EmbeddedServers with two requests that switch a server or move it to    *)
(* another port, a reload and a restart of the program, and history        *)
(* variables that say whether something went wrong that only a restart     *)
(* puts right.                                                             *)
(***************************************************************************)
EXTENDS EmbeddedServers

Days == "retention.days"

ServersOn == (Enabled("opcua") :> Flag(TRUE)) @@ (Enabled("modbus") :> Flag(TRUE))
NothingSaved == <<>>

\* The environment gives the retention, and somebody edits it between two starts.
MCSeeds == {Days :> Whole(7), Days :> Whole(30)}
NoSeeds == {<<>>}

Item(k, v) == [key |-> k, value |-> v]
Switched(k, on) == Item(Enabled(k), Flag(on))
Moved(k, port) == Item(Port(k), Whole(port))

\* A server is switched off; the Modbus server moves to the port of the other; the OPC UA
\* server to a busy one while the Modbus server is switched off; a port is out of range
\* after a good value.
WholeBodies ==
  {<<Switched("opcua", FALSE)>>, <<Moved("modbus", 4841)>>,
   <<Moved("opcua", 502), Switched("modbus", FALSE)>>,
   <<Item(Days, Whole(1)), Moved("modbus", 0)>>}
MCBusyPorts == {Whole(502).n}

\* The days of retention set to two and a half.
FractionalBodies == {<<Item(Days, Half(5))>>, <<Item(Days, Whole(1))>>}

-----------------------------------------------------------------------------

VARIABLES
  mixed,      \* two requests were saving at once, or one failed after it changed the cache
  disturbed,  \* servers that a caller reached during another's call, or a call of which
              \* failed; both servers if settings were mixed
  missed      \* servers that have not loaded the tags since a reload that put other tags in
              \* the database failed before it reached them

\* The servers a step of p turns to.
Reaches(p) ==
  IF p \in Requests /\ req[p].pc = "commit" /\ req'[p].pc = "saved"
  THEN {k \in Kinds : req[p].changed \cap ServerKeys(k) # {}}
  ELSE IF InCall(p, "synced") /\ call'[p].pc \notin {"synced", "failed"} THEN Kinds ELSE {}

Meeting ==
  (UNION {Reaches(p) : p \in Callers}) \cap (UNION {Concerns(call[q]) : q \in Serving})

Failing ==
  UNION {Concerns(call[p]) : p \in {p \in Serving : call'[p].pc = "failed"}}

Passed ==
  IF \E l \in Reloads : InCall(l, "synced") /\ call'[l].pc = "failed" THEN Kinds ELSE {}

Loading ==
  {call[p].kind : p \in {p \in Callers : InCall(p, "loading") /\ call'[p].pc \in {"starting", "started"}}}

MCInit ==
  Init /\ cache[Days] # Whole(30) /\ mixed = FALSE /\ disturbed = {} /\ missed = {}

MCNext ==
  /\ Next
  /\ mixed' = (restarts' = restarts /\ (mixed \/ Cardinality(Writing') > 1 \/ HalfSaved'))
  /\ disturbed' =
       IF restarts' # restarts THEN {}
       ELSE IF mixed' THEN Kinds ELSE disturbed \cup Meeting \cup Failing
  /\ missed' = IF restarts' # restarts THEN {} ELSE (missed \cup Passed) \ Loading

mcvars == <<vars, mixed, disturbed, missed>>
MCSpec == MCInit /\ [][MCNext]_mcvars

Quiet ==
  /\ Open /\ Writing = {} /\ Serving = {}
  /\ \A i \in instances : i.state # "binding"
  /\ \A l \in Reloads : ~ InCall(l, "synced")

\* update_settings and reload_config, in any order and with restarts in between, leave each
\* server as the settings say (update_settings' docstring, routes_settings.py:48-49), unless two
\* requests were saved at once, one reached the server while another was starting or stopping
\* it, or one failed half way; and with the nodes of the tags in the database, unless a reload
\* failed after it had changed the tags and the server has not started since.  Calls that are at
\* different servers do not disturb each other.
QuietServerMatchesSettings ==
  Quiet => /\ \A k \in Kinds \ disturbed :
                MatchesSettings(k) /\ (k \notin missed => KnowsTags(k))
           /\ disturbed = {} => NoStrayForwarder

\* "Once a setting has been saved via the Settings page, its DB row takes over and the env
\* var is ignored on subsequent restarts" (load's docstring, runtime_settings.py:24-26),
\* unless two requests were saved at once or one failed half way.
QuietRestartKeepsSettings == (Quiet /\ ~ mixed) => SurvivesRestart
=============================================================================
