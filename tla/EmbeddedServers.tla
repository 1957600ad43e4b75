---------------------------- MODULE EmbeddedServers ----------------------------
(***************************************************************************)
(* The embedded OPC UA and Modbus servers (app/core/opcua_server.py,       *)
(* modbus_server.py) and their callers: the start-up of the program,       *)
(* settings requests that changed one of their settings                    *)
(* (app/api/routes_settings.py) and configuration reloads                  *)
(* (app/api/routes_connections.py).  Each caller turns to the OPC UA       *)
(* server first and to the Modbus server when that is done.                *)
(*                                                                         *)
(* start and stop await several times between the check of _running and    *)
(* the last assignment.  The OPC UA server binds its port in start; the    *)
(* Modbus server in a task that start leaves behind.                       *)
(***************************************************************************)
EXTENDS RuntimeSettings, FiniteSets

CONSTANTS
  Reloads,       \* configuration reloads that may be made
  BusyPorts,     \* ports another program listens on
  MaxRestarts    \* bound on the restarts of the program

Kinds == {"opcua", "modbus"}
Enabled(k) == IF k = "opcua" THEN "opcua_server.enabled" ELSE "modbus_server.enabled"
Port(k) == IF k = "opcua" THEN "opcua_server.port" ELSE "modbus_server.port"

ASSUME ServerAssumption ==
  /\ \A k \in Kinds : {Enabled(k), Port(k)} \subseteq Keys
  /\ Reloads \cap Requests = {} /\ "lifespan" \notin Reloads \cup Requests
  /\ MaxRestarts \in Nat

Callers == {"lifespan"} \cup Requests \cup Reloads
None == 0
Truthy(v) == v.n # 0

VARIABLES
  srv,          \* the state of each server
  instances,    \* asyncua servers and Modbus server tasks: [id, kind, port, state]
  forwarders,   \* forward tasks that are alive
  call,         \* the call of start, stop or restart each caller is in
  tags,         \* version of the tags in the database
  lastId, restarts

serverVars == <<srv, instances, forwarders>>
vars == <<settingsVars, serverVars, call, tags, lastId, restarts>>

\* _running; _server or _server_task, and _forward_task, by the instance they belong to;
\* _nodes or _mapping, by the version of the tags they were made from.
Server(running, server, forward, nodes) ==
  [running |-> running, server |-> server, forward |-> forward, nodes |-> nodes]
Off == Server(FALSE, None, None, None)

-----------------------------------------------------------------------------
(* Calls.  pc: "none" yet; "synced" (a reload); "joining" the forward task; *)
(* "stopping" the instance; "loading" the tags; "starting" the instance;    *)
(* "started"; "done"; "failed".  then says that the caller goes on with the *)
(* Modbus server, again that restart goes on to start.                      *)

Call(pc, kind, then, again, id, port, version) ==
  [pc |-> pc, kind |-> kind, then |-> then, again |-> again, id |-> id, port |-> port,
   version |-> version]
NoCall(pc) == Call(pc, "opcua", FALSE, FALSE, None, None, None)

InCall(p, where) == call[p].pc = where

\* What an operation of server k comes to without suspending: the server's state s, and the
\* await the caller is in, if there is one.
Outcome(s, c) == [server |-> s, call |-> c]
Finished(s) == Outcome(s, NoCall("done"))

Starting(k, then, s) ==
  IF s.running THEN Finished(s)
  ELSE Outcome(s, Call("loading", k, then, FALSE, None, cache'[Port(k)].n, None))

\* The end of stop, and what restart does next.
AfterStop(k, then, again, s) == IF again THEN Starting(k, then, s) ELSE Finished(s)

AfterJoin(k, then, again, s) ==
  IF s.server # None
  THEN Outcome(s, Call("stopping", k, then, again, s.server, None, None))
  ELSE AfterStop(k, then, again, [s EXCEPT !.nodes = None])

Stopping(k, then, again, s) ==
  LET off == [s EXCEPT !.running = FALSE] IN
  IF s.forward # None
  THEN Outcome(off, Call("joining", k, then, again, s.forward, None, None))
  ELSE AfterJoin(k, then, again, off)

Restarting(k, then, s) ==
  IF s.running THEN Stopping(k, then, TRUE, s) ELSE Starting(k, then, s)

\* What a caller asks of server k: lifespan starts it if it is enabled, a settings request
\* restarts or stops it (_apply_opcua_server_state), a reload restarts it if it runs.
Asked(p, k, then) ==
  LET s == srv[k]
      on == Truthy(cache'[Enabled(k)]) IN
  IF p \in Reloads THEN IF s.running THEN Restarting(k, then, s) ELSE Finished(s)
  ELSE IF on THEN Restarting(k, then, s)
  ELSE IF s.running THEN Stopping(k, then, FALSE, s)
  ELSE Finished(s)

\* p goes on with what an operation of server k came to; when it is finished and p has the
\* Modbus server to see to, it does.
GoesOn(p, k, then, outcome) ==
  LET next == Asked(p, "modbus", FALSE) IN
  IF outcome.call.pc = "done" /\ then
  THEN /\ srv' = [srv EXCEPT ![k] = outcome.server, !["modbus"] = next.server]
       /\ call' = [call EXCEPT ![p] = next.call]
  ELSE /\ srv' = [srv EXCEPT ![k] = outcome.server]
       /\ call' = [call EXCEPT ![p] = outcome.call]

\* p turns to the servers in ks.
Turns(p, ks) ==
  \/ /\ "opcua" \in ks
     /\ GoesOn(p, "opcua", "modbus" \in ks, Asked(p, "opcua", "modbus" \in ks))
  \/ /\ ks = {"modbus"}
     /\ GoesOn(p, "modbus", FALSE, Asked(p, "modbus", FALSE))
  \/ /\ ks = {}
     /\ call' = [call EXCEPT ![p] = NoCall("done")] /\ UNCHANGED srv

-----------------------------------------------------------------------------

\* The forward task has ended.
Joined(p) ==
  /\ InCall(p, "joining")
  /\ UNCHANGED settingsVars
  /\ forwarders' = forwarders \ {call[p].id}
  /\ LET c == call[p] IN
     GoesOn(p, c.kind, c.then,
            AfterJoin(c.kind, c.then, c.again, [srv[c.kind] EXCEPT !.forward = None]))
  /\ UNCHANGED <<instances, tags, lastId, restarts>>

\* The instance is gone, and with it its port.  pymodbus' ServerAsyncStop ends the Modbus
\* server that was started last, whichever that is.
Newest(k) ==
  {i \in instances : i.kind = k /\ \A j \in instances : j.kind = k => j.id <= i.id}
Ended(c) == {i \in instances : i.id = c.id}
            \cup (IF c.kind = "modbus" THEN Newest("modbus") ELSE {})

Stopped(p) ==
  /\ InCall(p, "stopping")
  /\ UNCHANGED settingsVars
  /\ instances' = instances \ Ended(call[p])
  /\ LET c == call[p] IN
     GoesOn(p, c.kind, c.then,
            AfterStop(c.kind, c.then, c.again,
                      [srv[c.kind] EXCEPT !.server = None, !.nodes = None]))
  /\ UNCHANGED <<forwarders, tags, lastId, restarts>>

Instance(id, kind, port, state) == [id |-> id, kind |-> kind, port |-> port, state |-> state]

\* load_tag_data_types returns.  The Modbus server's task is created.
TagsLoaded(p) ==
  /\ InCall(p, "loading")
  /\ \/ /\ call[p].kind = "opcua"
        /\ call' = [call EXCEPT ![p].pc = "starting", ![p].version = tags]
        /\ UNCHANGED <<instances, lastId>>
     \/ /\ call[p].kind = "modbus"
        /\ lastId' = lastId + 1
        /\ instances' = instances \cup {Instance(lastId', "modbus", call[p].port, "binding")}
        /\ call' = [call EXCEPT ![p].pc = "started", ![p].version = tags, ![p].id = lastId']
  /\ UNCHANGED <<settingsVars, srv, forwarders, tags, restarts>>

\* The OPC UA server binds its port ...
Taken(port) ==
  port \in BusyPorts \/ \E i \in instances : i.port = port /\ i.state = "listening"

Bound(p) ==
  /\ InCall(p, "starting") /\ ~ Taken(call[p].port)
  /\ lastId' = lastId + 1
  /\ instances' = instances \cup {Instance(lastId', "opcua", call[p].port, "listening")}
  /\ call' = [call EXCEPT ![p].pc = "started", ![p].id = lastId']
  /\ UNCHANGED <<settingsVars, srv, forwarders, tags, restarts>>

\* ... and either start returns from its last await.
Started(p) ==
  /\ InCall(p, "started")
  /\ UNCHANGED settingsVars
  /\ LET c == call[p] IN
     /\ forwarders' = forwarders \cup {c.id}
     /\ GoesOn(p, c.kind, c.then, Finished(Server(TRUE, c.id, c.id, c.version)))
  /\ UNCHANGED <<instances, tags, lastId, restarts>>

\* A query or the OPC UA server's bind raises: the request is answered 500, whatever it had
\* left to do, or the program does not start.
StartFailed(p) ==
  /\ \/ InCall(p, "loading") /\ DbFails
     \/ InCall(p, "starting") /\ Taken(call[p].port) /\ UNCHANGED failures
  /\ call' = [call EXCEPT ![p] = NoCall("failed")]
  /\ UNCHANGED <<cache, table, req, serverVars, tags, lastId, restarts>>

\* The Modbus server's task binds its port, or ends with an exception nobody looks at.
ModbusBinds ==
  /\ \E i \in instances :
       /\ i.state = "binding"
       /\ instances' = (instances \ {i}) \cup
            {[i EXCEPT !.state = IF Taken(i.port) THEN "refused" ELSE "listening"]}
  /\ UNCHANGED <<settingsVars, srv, forwarders, call, tags, lastId, restarts>>

-----------------------------------------------------------------------------
(* The callers.                                                              *)

\* lifespan starts the servers that are enabled before it lets any request in.
Open == InCall("lifespan", "done")

FirstCall(c) ==
  LET starts(k, then) == Call("loading", k, then, FALSE, None, c[Port(k)].n, None) IN
  IF Truthy(c[Enabled("opcua")]) THEN starts("opcua", TRUE)
  ELSE IF Truthy(c[Enabled("modbus")]) THEN starts("modbus", FALSE)
  ELSE NoCall("done")

Init ==
  /\ SettingsInit
  /\ srv = [k \in Kinds |-> Off] /\ instances = {} /\ forwarders = {}
  /\ call = [p \in Callers |-> IF p = "lifespan" THEN FirstCall(cache) ELSE NoCall("none")]
  /\ tags = 1 /\ lastId = 0 /\ restarts = 0

\* The settings update_settings applies a server for.
ServerKeysWithoutPort(k) == Keys \cap {Enabled(k), "opcua_server.require_auth"}
ServerKeys(k) ==
  {Enabled(k), Port(k)} \cup (IF k = "opcua" THEN Keys \cap {"opcua_server.require_auth"} ELSE {})

\* set_many returns; its caller applies the servers whose settings changed.
Saved(r) ==
  /\ Committed(r)
  /\ Turns(r, {k \in Kinds : req[r].changed \cap ServerKeys(k) # {}})
  /\ UNCHANGED <<instances, forwarders>>

Requested(r) ==
  /\ Open
  /\ \/ (Put(r) \/ RowRead(r) \/ KeyCached(r) \/ CallFailed(r)) /\ UNCHANGED <<serverVars, call>>
     \/ Saved(r)
  /\ UNCHANGED <<tags, lastId, restarts>>

\* reload_config has put other tags in the database ...
TagsSynced(l) ==
  /\ Open /\ InCall(l, "none")
  /\ tags' = tags + 1
  /\ call' = [call EXCEPT ![l] = NoCall("synced")]
  /\ UNCHANGED <<settingsVars, serverVars, lastId, restarts>>

\* ... load_metadata may raise, and the servers are left as they were with the tags changed ...
MetadataFailed(l) ==
  /\ InCall(l, "synced") /\ DbFails
  /\ call' = [call EXCEPT ![l] = NoCall("failed")]
  /\ UNCHANGED <<cache, table, req, serverVars, tags, lastId, restarts>>

\* ... or returns, and the servers that are running are restarted.
ReloadReached(l) ==
  /\ InCall(l, "synced")
  /\ UNCHANGED settingsVars
  /\ Turns(l, Kinds)
  /\ UNCHANGED <<instances, forwarders, tags, lastId, restarts>>

\* The program is killed, at any await, and started again: load reads the settings, and
\* the requests in progress get no answer.
ProgramRestarts ==
  /\ restarts < MaxRestarts /\ restarts' = restarts + 1
  /\ \E seed \in Seeds : Starts(seed, table, cache', table')
  /\ req' = [r \in Requests |-> IF Saving(r) THEN [Idle EXCEPT !.pc = "failed"] ELSE req[r]]
  /\ srv' = [k \in Kinds |-> Off] /\ instances' = {} /\ forwarders' = {}
  /\ call' = [p \in Callers |->
                IF p = "lifespan" THEN FirstCall(cache')
                ELSE IF call[p].pc = "none" THEN call[p] ELSE NoCall("done")]
  /\ UNCHANGED <<failures, tags, lastId>>

Next ==
  \/ \E r \in Requests : Requested(r)
  \/ \E l \in Reloads : TagsSynced(l) \/ MetadataFailed(l) \/ ReloadReached(l)
  \/ \E p \in Callers : \/ Joined(p) \/ Stopped(p) \/ TagsLoaded(p)
                        \/ Bound(p) \/ Started(p) \/ StartFailed(p)
  \/ ModbusBinds
  \/ ProgramRestarts

Spec == Init /\ [][Next]_vars

-----------------------------------------------------------------------------
(* Properties.                                                               *)

Ids == 0 .. lastId

\* The variables stay in their domains; among them, every setting in force is one its
\* registry entry accepts, whatever the requests carry (SettingDef.validate).
TypeOK ==
  /\ SettingsTypeOK
  /\ \A k \in Keys : Accepts(k, cache[k])
  /\ srv \in [Kinds -> [running : BOOLEAN, server : Ids, forward : Ids, nodes : 0 .. tags]]
  /\ forwarders \subseteq Ids \ {None}
  /\ \A i \in instances :
       /\ i.id \in Ids \ {None} /\ i.kind \in Kinds
       /\ i.state \in {"binding", "listening", "refused"}
       /\ i.state # "listening" => i.kind = "modbus"
  /\ \A p \in Callers :
       /\ call[p].pc \in {"none", "synced", "joining", "stopping", "loading", "starting",
                          "started", "done", "failed"}
       /\ call[p].kind \in Kinds /\ call[p].id \in Ids /\ call[p].version \in 0 .. tags
       /\ call[p].then => call[p].kind = "opcua"
  /\ restarts \in 0 .. MaxRestarts

Writing == {r \in Requests : Saving(r)}
Serving == {p \in Callers : call[p].pc \notin {"none", "synced", "done", "failed"}}

\* The servers a caller is at or has still to see to.
Concerns(c) == {c.kind} \cup (IF c.then THEN {"modbus"} ELSE {})

\* A request failed after it had changed the cache.
HalfSaved == \E r \in Requests : Rejected(r) /\ req[r].i > 1

\* Server k is what the settings say: it runs if it is enabled, its one instance listens on
\* the configured port, its forward task alone is alive.  A Modbus server whose port was taken
\* runs all the same.
MatchesSettings(k) ==
  LET s == srv[k]
      mine == {i \in instances : i.kind = k} IN
  /\ s.running = Truthy(cache[Enabled(k)])
  /\ IF s.running
     THEN /\ \E state \in IF k = "modbus" THEN {"listening", "refused"} ELSE {"listening"} :
               mine = {Instance(s.server, k, cache[Port(k)].n, state)}
          /\ s.forward = s.server /\ s.forward \in forwarders
     ELSE mine = {} /\ s = Off

\* Its nodes or registers are those of the tags in the database.
KnowsTags(k) == srv[k].running => srv[k].nodes = tags

\* No forward task outlives its server.
NoStrayForwarder == forwarders \subseteq {srv[k].forward : k \in Kinds}

\* What the program would work with if it were started again, whatever the environment says
\* then, is what it works with now.
SurvivesRestart ==
  \A seed \in Seeds :
    \A k \in Keys : Same(Over(Loaded(table), Seeded(seed, table))[k], cache[k])
=============================================================================
