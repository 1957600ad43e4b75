------------------------------ MODULE Connectors ------------------------------
(***************************************************************************)
(* The run loops of the protocol connectors (app/connectors/), each against *)
(* a device that fails, returns, and refuses some of the tags.  A behaviour *)
(* is one connector of one protocol.  It keeps a flag, connected, which the *)
(* dashboard shows, and emits samples, of which shown keeps the last.  The  *)
(* queue they go to is in IngestPipeline, the task that calls run and       *)
(* cancels it in Supervisor.                                                *)
(*                                                                         *)
(* An action is the code between two awaits that can suspend; emit never   *)
(* does.  A call in an executor thread is an await like the others.        *)
(***************************************************************************)
EXTENDS Integers, Sequences

CONSTANTS
  Protocols,   \* those to consider, of the keys of CONNECTOR_CLASSES
  Order,       \* the tags of the connection, as configured
  Paths,       \* HTTP: the tags of each path, in the order of the requests
  MaxChanges,  \* bound on the changes of the device
  MaxCrashes   \* bound on the runs that raise before their loop, and on the cleanups that raise

CONNECTOR_CLASSES == {"simulator", "opcua", "modbus", "mqtt", "ethernetip", "s7", "bacnet",
                      "snmp", "http", "sql"}
Tags == {Order[i] : i \in DOMAIN Order}

\* A connection without tags asks its device nothing; it is left out.  A tag is configured
\* once, and over HTTP it has one path.
ASSUME ConnectorsAssumption ==
  /\ Protocols \subseteq CONNECTOR_CLASSES
  /\ Order \in Seq(STRING) /\ Order # <<>>
  /\ \A i, j \in DOMAIN Order : Order[i] = Order[j] => i = j
  /\ Paths \in Seq(SUBSET Tags)
  /\ \A t \in Tags : \E i \in DOMAIN Paths : t \in Paths[i]
  /\ \A i, j \in DOMAIN Paths : Paths[i] \cap Paths[j] # {} => i = j
  /\ {MaxChanges, MaxCrashes} \subseteq Nat

VARIABLES
  protocol,
  up,         \* the device answers
  faulty,     \* tags it refuses, or whose configuration does not suit its answer
  misaddressed,   \* tags whose address the connector itself cannot read
  changes,
  pc,         \* "begin", the await run is suspended in, "crashed" or "done"
  next,       \* the request of the cycle it waits for
  anyOk,      \* a local variable of the loop
  session,    \* its client or driver: "none", "open", or "stale" once the device has failed
  connected,
  shown,      \* quality of the last sample emitted for a tag; "null" is None called good
  crashes

device == <<protocol, up, faulty, misaddressed, changes>>
vars == <<device, pc, next, anyOk, session, connected, shown, crashes>>

-----------------------------------------------------------------------------
(* What the loops have in common, as a record:                               *)
(*   opens        when run awaits a connection: "never", in every "cycle",   *)
(*                "once", or never because the client connects by "itself"   *)
(*   session      whether a connection outlives a request                    *)
(*   unreachable  what an attempt to open one does when the device is down:  *)
(*                it "raises", or the loop "polls" all the same              *)
(*   lost         what a request does when the connection is lost            *)
(*   refused      what it does when the device refuses one of its tags       *)
(*   counts       whether connected is what the cycle found                  *)
(*   clears       whether a finally block resets connected                   *)

Loop(opens, hasSession, unreachable, lost, refused, counts, clears) ==
  [opens |-> opens, session |-> hasSession, unreachable |-> unreachable, lost |-> lost,
   refused |-> refused, counts |-> counts, clears |-> clears]

SimulatorConnector  == Loop("never", FALSE, {}, "bad", {}, FALSE, TRUE)
OpcUaConnector      == Loop("once", TRUE, {"raises"}, "bad", {"bad"}, FALSE, TRUE)
ModbusConnector     == Loop("once", TRUE, {"polls"}, "bad", {"bad", "raises"}, FALSE, FALSE)
MqttConnector       == Loop("itself", TRUE, {}, "bad", {"bad", "null"}, FALSE, FALSE)
EtherNetIpConnector == Loop("once", TRUE, {"raises"}, "raises", {"bad"}, FALSE, TRUE)
S7Connector         == Loop("once", TRUE, {"raises"}, "raises", {"raises"}, FALSE, TRUE)
BacnetConnector     == Loop("never", FALSE, {}, "bad", {"bad"}, TRUE, TRUE)
SnmpConnector       == Loop("cycle", FALSE, {"raises", "polls"}, "bad", {"bad"}, TRUE, TRUE)
HttpConnector       == Loop("never", FALSE, {}, "bad", {"bad"}, TRUE, TRUE)
SqlConnector        == Loop("cycle", TRUE, {"raises"}, "bad", {"bad"}, TRUE, TRUE)

Loops ==
  [simulator |-> SimulatorConnector, opcua |-> OpcUaConnector, modbus |-> ModbusConnector,
   mqtt |-> MqttConnector, ethernetip |-> EtherNetIpConnector, s7 |-> S7Connector,
   bacnet |-> BacnetConnector, snmp |-> SnmpConnector, http |-> HttpConnector,
   sql |-> SqlConnector]

loop == Loops[protocol]
Polls == protocol \notin {"simulator", "opcua", "mqtt"}

\* A wrong address is BACnet's and SQL's device to refuse, ends HTTP's run before its loop, and
\* is one fault among others to S7 and EtherNet/IP.
Init ==
  /\ protocol \in Protocols
  /\ misaddressed \in SUBSET Tags
  /\ protocol \notin {"opcua", "modbus", "snmp"} => misaddressed = {}
  /\ up \in BOOLEAN /\ faulty \in SUBSET Tags /\ changes = 0
  /\ pc = "begin" /\ next = 1 /\ anyOk = FALSE /\ session = "none"
  /\ connected = FALSE /\ shown = [t \in Tags |-> "none"]
  /\ crashes = 0

-----------------------------------------------------------------------------
(* The device.                                                               *)

Changes == changes < MaxChanges /\ changes' = changes + 1

DeviceFails ==
  /\ up /\ Changes /\ up' = FALSE
  /\ session' = IF session = "open" THEN "stale" ELSE session
  /\ UNCHANGED <<protocol, faulty, misaddressed, pc, next, anyOk, connected, shown, crashes>>

DeviceReturns ==
  /\ ~ up /\ Changes /\ up' = TRUE
  /\ UNCHANGED <<protocol, faulty, misaddressed>>
  /\ UNCHANGED <<pc, next, anyOk, session, connected, shown, crashes>>

FaultsChange ==
  /\ Changes /\ faulty' \in SUBSET Tags \ {faulty}
  /\ UNCHANGED <<protocol, up, misaddressed, pc, next, anyOk, session, connected, shown, crashes>>

Answers == up /\ (loop.session => session = "open")

-----------------------------------------------------------------------------
(* The loops.                                                                *)

\* The tags of each request of a cycle, in order.
Requests == CASE protocol \in {"ethernetip", "s7"} -> <<Tags>>
              [] protocol = "http" -> Paths
              [] OTHER -> [i \in DOMAIN Order |-> {Order[i]}]

\* The first await of a cycle.
FirstAwait ==
  CASE protocol = "mqtt" -> "listen"
    [] protocol = "simulator" -> "sleep"
    [] loop.opens = "cycle" \/ (loop.opens = "once" /\ session = "none") -> "connect"
    [] OTHER -> "read"

\* Modbus' int(parts[1]) is outside the try of _poll_tag, and pysnmp resolves the OID before it
\* awaits: the request raises out of the cycle without asking the device.
Unparsed(n) == protocol \in {"modbus", "snmp"} /\ Requests[n] \cap misaddressed # {}

\* The loop turns to request n with the flag at c, without an await in between.
Ask(n, c) ==
  /\ next' = n
  /\ IF Unparsed(n) THEN pc' = "retry" /\ connected' = FALSE
     ELSE pc' = "read" /\ connected' = c

\* The head of the while loop.
LoopHead(c) ==
  IF FirstAwait = "read" THEN Ask(1, c) ELSE pc' = FirstAwait /\ next' = 1 /\ connected' = c

CycleCounting(c) ==
  /\ LoopHead(c) /\ UNCHANGED anyOk
  /\ shown' = IF protocol = "simulator" THEN [t \in Tags |-> "good"] ELSE shown
  /\ UNCHANGED <<device, session, crashes>>

Cycle(c) ==
  /\ LoopHead(c) /\ anyOk' = FALSE
  /\ shown' = IF protocol = "simulator" THEN [t \in Tags |-> "good"] ELSE shown
  /\ UNCHANGED <<device, session, crashes>>

Begin == pc = "begin" /\ Cycle(protocol \in {"simulator", "bacnet"})

\* A port in use, a library or a key of the configuration that is missing.
BeginRaises ==
  /\ pc = "begin" /\ crashes < MaxCrashes
  /\ crashes' = crashes + 1 /\ pc' = "crashed"
  /\ UNCHANGED <<device, next, anyOk, session, connected, shown>>

\* _supervise calls run again.
Supervised ==
  /\ pc = "crashed" /\ pc' = "begin"
  /\ UNCHANGED <<device, next, anyOk, session, connected, shown, crashes>>

\* sleep(poll_interval) or sleep(5) returns.
Wakes ==
  /\ pc \in {"sleep", "retry"}
  /\ Cycle(connected \/ (protocol = "modbus" /\ session # "none"))

\* The except clause around a cycle: the client is closed, but for Modbus, which keeps it.
RetryWithClient ==
  pc' = "retry" /\ connected' = FALSE /\ UNCHANGED session
RetryConnected ==
  /\ pc' = "retry" /\ UNCHANGED connected
  /\ session' = IF protocol = "modbus" THEN session ELSE "none"
Retry ==
  /\ pc' = "retry" /\ connected' = FALSE
  /\ session' = IF protocol = "modbus" THEN session ELSE "none"

\* A client that is kept is connected from here on.
Opened ==
  /\ pc = "connect" /\ up
  /\ session' = IF loop.session THEN "open" ELSE session
  /\ IF protocol = "opcua"
     THEN misaddressed = {} /\ pc' = "listen" /\ connected' = TRUE /\ UNCHANGED next
     ELSE Ask(1, connected \/ loop.opens = "once")
  /\ UNCHANGED <<device, anyOk, shown, crashes>>

\* OPC UA's get_node raises, too, on the way to the subscription.
OpeningRaises ==
  /\ pc = "connect"
  /\ IF up THEN protocol = "opcua" /\ misaddressed # {} ELSE "raises" \in loop.unreachable
  /\ Retry
  /\ UNCHANGED <<device, next, anyOk, shown, crashes>>

\* Modbus: connect returns False.  SNMP: there is nothing to connect to.
NotOpened ==
  /\ pc = "connect" /\ ~ up /\ "polls" \in loop.unreachable
  /\ Ask(1, connected /\ loop.opens # "once")
  /\ UNCHANGED <<device, anyOk, session, shown, crashes>>

\* The quality of the last sample a request emits for tag t; group is the tags it reads.
\* One value that cannot be extracted makes HTTP emit bad samples for the whole path.
SilentOnError(t, group) ==
  CASE ~ Answers -> shown[t]
    [] t \in faulty \/ (protocol = "http" /\ group \cap faulty # {}) -> "bad"
    [] OTHER -> "good"
Verdict(t, group) ==
  IF Answers /\ t \notin faulty /\ (protocol = "http" => group \cap faulty = {})
  THEN "good" ELSE "bad"

LastRequestButOne == next = Len(Requests) + 1
LastRequest == next = Len(Requests)

Finish(ok) ==
  /\ pc' = "sleep" /\ next' = 1
  /\ connected' = IF loop.counts THEN ok ELSE connected
  /\ session' = IF loop.opens = "cycle" THEN "none" ELSE session

Continue == Ask(next + 1, connected) /\ UNCHANGED session

\* A request ends, with a value or with an error the loop turns into quality.
RequestAnswered ==
  LET group == Requests[next]
      ok == anyOk \/ \E t \in group : Verdict(t, group) = "good"
  IN /\ pc = "read"
     /\ IF ~ Answers THEN loop.lost = "bad"
        ELSE group \cap faulty = {} \/ "bad" \in loop.refused
     /\ shown' = [t \in Tags |-> IF t \in group THEN Verdict(t, group) ELSE shown[t]]
     /\ anyOk' = ok
     /\ IF LastRequest THEN Finish(ok) ELSE Continue
     /\ UNCHANGED <<device, crashes>>

\* It raises out of the cycle once the device was asked: a lost session; for S7 any faulty tag;
\* for Modbus a register encoding that _decode cannot unpack.
RequestRaises ==
  /\ pc = "read"
  /\ IF ~ Answers THEN loop.lost = "raises"
     ELSE Requests[next] \cap faulty # {} /\ "raises" \in loop.refused
  /\ Retry
  /\ UNCHANGED <<device, next, anyOk, shown, crashes>>

-----------------------------------------------------------------------------
(* Clients with a life of their own, and the subscriptions.                  *)

\* pymodbus closes a connection that is gone; paho calls on_disconnect.
ClientNotices ==
  /\ session = "stale" /\ protocol \in {"modbus", "mqtt"}
  /\ session' = "none" /\ connected' = (connected /\ protocol # "mqtt")
  /\ UNCHANGED <<device, pc, next, anyOk, shown, crashes>>

\* paho connects, at first or again, and calls on_connect with rc = 0.
OnConnect ==
  /\ protocol = "mqtt" /\ pc = "listen" /\ up /\ session = "none"
  /\ session' = "open" /\ connected' = TRUE
  /\ UNCHANGED <<device, pc, next, anyOk, shown, crashes>>

\* datachange_notification, or on_message and _handle_message.  A message that is no JSON
\* is bad; one that is no number is None, with quality good.
Notified(t) ==
  /\ pc = "listen" /\ Answers
  /\ \E quality \in IF t \in faulty THEN loop.refused ELSE {"good"} :
       shown' = [shown EXCEPT ![t] = quality]
  /\ UNCHANGED <<device, pc, next, anyOk, session, connected, crashes>>

-----------------------------------------------------------------------------
\* The finally blocks.  Modbus has none; that of MQTT leaves the flag as it is.
FlagKept == connected
FlagAfter == connected /\ ~ loop.clears

\* CancelledError, at any await.
Cancelled ==
  /\ pc # "done" /\ pc' = "done"
  /\ connected' = FlagAfter /\ session' = "none"
  /\ UNCHANGED <<device, next, anyOk, shown, crashes>>

\* What run closes on the way out raises in place of CancelledError.  The exit of OPC UA's
\* Client and of SQL's connection is within the loop's try, which goes on; that of SQL's engine,
\* of HTTP's client and of the BACnet and SNMP stacks is not, and run ends as in a crash.
CleanupRaises ==
  /\ crashes < MaxCrashes /\ crashes' = crashes + 1
  /\ \/ /\ \/ protocol = "opcua" /\ pc \in {"connect", "listen"}
           \/ protocol = "sql" /\ pc = "read"
        /\ Retry
     \/ /\ protocol \in {"bacnet", "snmp", "http", "sql"}
        /\ pc \in {"connect", "read", "sleep", "retry"}
        /\ pc' = "crashed" /\ connected' = FlagAfter /\ session' = "none"
  /\ UNCHANGED <<device, next, anyOk, shown>>

Resumes ==
  \/ Begin \/ Supervised \/ Wakes
  \/ Opened \/ OpeningRaises \/ NotOpened \/ RequestAnswered \/ RequestRaises

Next ==
  \/ DeviceFails \/ DeviceReturns \/ FaultsChange
  \/ Resumes \/ BeginRaises \/ ClientNotices \/ OnConnect \/ Cancelled \/ CleanupRaises
  \/ \E t \in Tags : Notified(t)

\* Timeouts end every request, sleeps end, and the client libraries notice and reconnect.
\* The device, the cancellation and the arrival of notifications are not fair.
Spec ==
  Init /\ [][Next]_vars /\ WF_vars(Resumes) /\ WF_vars(ClientNotices) /\ WF_vars(OnConnect)

-----------------------------------------------------------------------------
(* Properties.                                                               *)

\* The variables stay in their domains, and a request waited for is one of the cycle's.
TypeOK ==
  /\ protocol \in Protocols /\ up \in BOOLEAN
  /\ faulty \subseteq Tags /\ misaddressed \subseteq Tags
  /\ changes \in 0 .. MaxChanges /\ crashes \in 0 .. MaxCrashes
  /\ pc \in {"begin", "connect", "read", "sleep", "retry", "listen", "crashed", "done"}
  /\ next \in 1 .. Len(Requests)
  /\ anyOk \in BOOLEAN /\ connected \in BOOLEAN
  /\ session \in {"none", "open", "stale"}
  /\ shown \in [Tags -> {"none", "good", "bad", "null"}]

\* Between two cycles a connector that counts says that it is connected exactly when the
\* cycle left a good value on some tag, whatever failed or came back during the cycle.
FlagAgreesWithSamples ==
  (pc = "sleep" /\ loop.counts) =>
    (connected <=> \E t \in Tags : shown[t] = "good")

\* Cancelled anywhere, a connector does not leave the flag set; Modbus and MQTT may.
StoppedIsDisconnected ==
  (pc = "done" /\ protocol \notin {"modbus", "mqtt"}) => ~ connected

Stopped == pc = "done"

\* A lasting outage clears the flag.  The OPC UA loop only sleeps once it is subscribed and
\* never notices; the simulator has no device.
OutageIsNoticed ==
  (protocol \notin {"opcua", "simulator"} /\ <>[](~ up)) => <>[](Stopped \/ ~ connected)

\* The same of OPC UA: a loop that handles "connection lost / server unreachable"
\* (opcua_connector.py:67) notices that the connection is lost.
OpcUaOutageIsNoticed ==
  (protocol = "opcua" /\ <>[](~ up)) => <>[](Stopped \/ ~ connected)

\* The tags of the requests that a cycle gets to: those before the first that is unparsed.
Reached ==
  {t \in Tags : \E i \in DOMAIN Requests : t \in Requests[i] /\ \A j \in 1 .. i : ~ Unparsed(j)}

\* A lasting outage turns every tag bad that the cycles get to, for the protocols that emit a
\* sample per failed request.  The others leave the last good value in place, and so does Modbus
\* for the tags from a wrong address on.
OutageMarksTags ==
  (protocol \in {"bacnet", "http", "modbus"} /\ <>[](~ up)) =>
    <>[](Stopped \/ \A t \in Reached : shown[t] = "bad")

\* What a poller is to come to.
Polling == (\A t \in Reached : shown[t] = "good") /\ (misaddressed = {} => connected)

\* Once the device answers every tag for good, whatever happened before, a poller shows good
\* values for the tags it gets to, and is connected unless an address is wrong; the MQTT client
\* is connected.
Recovers ==
  <>[](up /\ faulty = {}) =>
    /\ Polls => <>[](Stopped \/ Polling)
    /\ protocol = "mqtt" => <>[](Stopped \/ connected)
=============================================================================
