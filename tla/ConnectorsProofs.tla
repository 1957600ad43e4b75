--------------------------- MODULE ConnectorsProofs ---------------------------
(***************************************************************************)
(* What holds of every connector, whatever tags it has, in whatever paths,  *)
(* and however often its device changes.                                    *)
(***************************************************************************)
EXTENDS Connectors, TLAPS

Refusals == {"bad", "raises", "null"}

\* What each record says, protocol by protocol.
LEMMA LoopFacts ==
  ASSUME protocol \in Protocols
  PROVE  /\ loop.counts <=> protocol \in {"bacnet", "snmp", "http", "sql"}
         /\ loop.clears <=> protocol \notin {"modbus", "mqtt"}
         /\ loop.session \in BOOLEAN
         /\ protocol = "opcua" => loop.refused = {"bad"}
         /\ protocol = "mqtt" => loop.refused = {"bad", "null"}
<1>1. protocol \in CONNECTOR_CLASSES
  BY ConnectorsAssumption
<1>2. CASE protocol = "simulator"
  <2>1. loop = SimulatorConnector
    BY <1>2 DEF loop, Loops
  <2> QED
    BY <1>2, <2>1 DEF SimulatorConnector, Loop
<1>3. CASE protocol = "opcua"
  <2>1. loop = OpcUaConnector
    BY <1>3 DEF loop, Loops
  <2> QED
    BY <1>3, <2>1 DEF OpcUaConnector, Loop
<1>4. CASE protocol = "modbus"
  <2>1. loop = ModbusConnector
    BY <1>4 DEF loop, Loops
  <2> QED
    BY <1>4, <2>1 DEF ModbusConnector, Loop
<1>5. CASE protocol = "mqtt"
  <2>1. loop = MqttConnector
    BY <1>5 DEF loop, Loops
  <2> QED
    BY <1>5, <2>1 DEF MqttConnector, Loop
<1>6. CASE protocol = "ethernetip"
  <2>1. loop = EtherNetIpConnector
    BY <1>6 DEF loop, Loops
  <2> QED
    BY <1>6, <2>1 DEF EtherNetIpConnector, Loop
<1>7. CASE protocol = "s7"
  <2>1. loop = S7Connector
    BY <1>7 DEF loop, Loops
  <2> QED
    BY <1>7, <2>1 DEF S7Connector, Loop
<1>8. CASE protocol = "bacnet"
  <2>1. loop = BacnetConnector
    BY <1>8 DEF loop, Loops
  <2> QED
    BY <1>8, <2>1 DEF BacnetConnector, Loop
<1>9. CASE protocol = "snmp"
  <2>1. loop = SnmpConnector
    BY <1>9 DEF loop, Loops
  <2> QED
    BY <1>9, <2>1 DEF SnmpConnector, Loop
<1>10. CASE protocol = "http"
  <2>1. loop = HttpConnector
    BY <1>10 DEF loop, Loops
  <2> QED
    BY <1>10, <2>1 DEF HttpConnector, Loop
<1>11. CASE protocol = "sql"
  <2>1. loop = SqlConnector
    BY <1>11 DEF loop, Loops
  <2> QED
    BY <1>11, <2>1 DEF SqlConnector, Loop
<1> QED
  BY <1>1, <1>2, <1>3, <1>4, <1>5, <1>6, <1>7, <1>8, <1>9, <1>10, <1>11 DEF CONNECTOR_CLASSES

\* The requests of a cycle partition the tags, and there is at least one.
LEMMA RequestsPartition ==
  /\ Requests \in Seq(SUBSET Tags) /\ Len(Requests) \in Nat \ {0}
  /\ \A t \in Tags : \E i \in 1 .. Len(Requests) : t \in Requests[i]
  /\ \A i, j \in 1 .. Len(Requests), t \in Tags :
       t \in Requests[i] /\ t \in Requests[j] => i = j
<1>1. Order \in Seq(STRING) /\ Len(Order) \in Nat \ {0} /\ DOMAIN Order = 1 .. Len(Order)
  BY ConnectorsAssumption
<1>2. Order[1] \in Tags
  BY <1>1 DEF Tags
<1>3. CASE protocol \in {"ethernetip", "s7"}
  <2>1. Requests = <<Tags>>
    BY <1>3 DEF Requests
  <2> QED
    BY <2>1
<1>4. CASE protocol = "http"
  <2>1. Requests = Paths
    BY <1>4 DEF Requests
  <2>2. Paths \in Seq(SUBSET Tags) /\ DOMAIN Paths = 1 .. Len(Paths)
    BY ConnectorsAssumption
  <2>3. \A t \in Tags : \E i \in 1 .. Len(Paths) : t \in Paths[i]
    BY <2>2, ConnectorsAssumption
  <2>4. \A i, j \in 1 .. Len(Paths), t \in Tags : t \in Paths[i] /\ t \in Paths[j] => i = j
    BY <2>2, ConnectorsAssumption
  <2>5. Len(Paths) \in Nat \ {0}
    BY <1>2, <2>2, <2>3
  <2> QED
    BY <2>1, <2>2, <2>3, <2>4, <2>5
<1>5. CASE protocol \notin {"ethernetip", "s7", "http"}
  <2>1. Requests = [i \in 1 .. Len(Order) |-> {Order[i]}]
    BY <1>1, <1>5 DEF Requests
  <2>2. Requests \in Seq(SUBSET Tags) /\ Len(Requests) = Len(Order)
    <3>1. \A i \in 1 .. Len(Order) : {Order[i]} \in SUBSET Tags
      BY <1>1 DEF Tags
    <3> QED
      BY <1>1, <2>1, <3>1
  <2>3. \A t \in Tags : \E i \in 1 .. Len(Order) : t \in Requests[i]
    BY <1>1, <2>1 DEF Tags
  <2>4. \A i, j \in 1 .. Len(Order) : Order[i] = Order[j] => i = j
    BY <1>1, ConnectorsAssumption
  <2> QED
    BY <1>1, <2>1, <2>2, <2>3, <2>4
<1> QED
  BY <1>3, <1>4, <1>5

LEMMA Bounds == MaxChanges \in Nat /\ MaxCrashes \in Nat /\ Protocols \subseteq CONNECTOR_CLASSES
BY ConnectorsAssumption

-----------------------------------------------------------------------------
(* The inductive invariant.                                                  *)

\* Only the subscriptions listen: a loop that polls may meet a refusal that raises.
ListenersSubscribe == pc = "listen" => protocol \in {"opcua", "mqtt"}

\* The await for a connection is before the first request of a cycle.
ConnectsFirst == pc = "connect" => next = 1

\* The request that reads t has been answered in this cycle.
Asked(t) == \E i \in 1 .. next - 1 : t \in Requests[i]

\* During a cycle any_ok tells what the cycle itself has found.
AnyOkTells ==
  (pc \in {"connect", "read"} /\ protocol \in {"bacnet", "snmp", "http", "sql"}) =>
    (anyOk <=> \E t \in Tags : Asked(t) /\ shown[t] = "good")

IInv ==
  /\ TypeOK
  /\ ListenersSubscribe
  /\ ConnectsFirst
  /\ AnyOkTells
  /\ FlagAgreesWithSamples
  /\ StoppedIsDisconnected

LEMMA InitIInv == Init => IInv
<1> SUFFICES ASSUME Init PROVE IInv
  OBVIOUS
<1>1. 1 \in 1 .. Len(Requests)
  BY RequestsPartition
<1>2. TypeOK
  <2>1. 0 \in 0 .. MaxChanges /\ 0 \in 0 .. MaxCrashes
    BY Bounds
  <2>2. shown \in [Tags -> {"none", "good", "bad", "null"}]
    BY DEF Init
  <2> QED
    BY <1>1, <2>1, <2>2 DEF Init, TypeOK
<1> QED
  BY <1>2 DEF Init, IInv, ListenersSubscribe, ConnectsFirst, AnyOkTells, FlagAgreesWithSamples,
    StoppedIsDisconnected

\* The steps that leave the cycle alone: only the device, the session or the flag of a
\* client with a life of its own changes.
LEMMA OutsideIInv ==
  ASSUME IInv,
         \/ DeviceFails \/ DeviceReturns \/ FaultsChange \/ ClientNotices \/ OnConnect
         \/ UNCHANGED vars
  PROVE  IInv'
<1> USE DEF IInv
<1>1. /\ UNCHANGED <<protocol, misaddressed, pc, next, anyOk, shown, crashes>>
      /\ up' \in BOOLEAN /\ faulty' \subseteq Tags
      /\ changes' \in 0 .. MaxChanges
      /\ session' \in {"none", "open", "stale"} /\ connected' \in BOOLEAN
  <2>1. CASE DeviceFails
    <3>1. changes' \in 0 .. MaxChanges
      BY <2>1, Bounds DEF TypeOK, DeviceFails, Changes
    <3>2. session' \in {"none", "open", "stale"}
      BY <2>1 DEF TypeOK, DeviceFails
    <3> QED
      BY <2>1, <3>1, <3>2 DEF TypeOK, DeviceFails
  <2>2. CASE DeviceReturns
    BY <2>2, Bounds DEF TypeOK, DeviceReturns, Changes
  <2>3. CASE FaultsChange
    BY <2>3, Bounds DEF TypeOK, FaultsChange, Changes
  <2>4. CASE ClientNotices
    BY <2>4 DEF TypeOK, ClientNotices, device
  <2>5. CASE OnConnect
    BY <2>5 DEF TypeOK, OnConnect, device
  <2>6. CASE UNCHANGED vars
    BY <2>6 DEF TypeOK, device, vars
  <2> QED
    BY <2>1, <2>2, <2>3, <2>4, <2>5, <2>6
<1>2. connected' = connected \/ protocol \in {"modbus", "mqtt"}
  BY DEF DeviceFails, DeviceReturns, FaultsChange, ClientNotices, OnConnect, device, vars
<1>3. loop' = loop /\ Requests' = Requests
  BY <1>1 DEF loop, Requests
<1>4. protocol \in Protocols /\ (loop.counts <=> protocol \in {"bacnet", "snmp", "http", "sql"})
  BY LoopFacts DEF TypeOK
<1>5. TypeOK'
  BY <1>1, <1>3 DEF TypeOK
<1>6. ListenersSubscribe' /\ ConnectsFirst' /\ AnyOkTells'
  BY <1>1, <1>3 DEF ListenersSubscribe, ConnectsFirst, AnyOkTells, Asked
<1>7. FlagAgreesWithSamples' /\ StoppedIsDisconnected'
  BY <1>1, <1>2, <1>3, <1>4 DEF FlagAgreesWithSamples, StoppedIsDisconnected
<1> QED
  BY <1>5, <1>6, <1>7

-----------------------------------------------------------------------------
(* The steps of a cycle.                                                     *)

\* Where a loop turns to a request: it asks, or raises before it has.
LEMMA AskFacts ==
  ASSUME NEW n, NEW c \in BOOLEAN, Ask(n, c)
  PROVE  /\ next' = n /\ connected' \in BOOLEAN
         /\ (pc' = "read" /\ connected' = c) \/ (pc' = "retry" /\ connected' = FALSE)
BY DEF Ask

\* What a cycle may set connected to without breaking the invariant: anything, unless the
\* connector sleeps after counting.
LEMMA CycleIInv ==
  ASSUME IInv, pc # "done", NEW c \in BOOLEAN, Cycle(c)
  PROVE  IInv'
<1> USE DEF IInv
<1>1. UNCHANGED <<protocol, up, faulty, misaddressed, changes, session, crashes>>
  BY DEF Cycle, device
<1>2. loop' = loop /\ Requests' = Requests
  BY <1>1 DEF loop, Requests
<1>3. /\ anyOk' = FALSE /\ shown' \in [Tags -> {"none", "good", "bad", "null"}]
  BY DEF Cycle, TypeOK
<1>4. /\ next' = 1 /\ connected' \in BOOLEAN
      /\ pc' \in {"listen", "sleep", "connect", "read", "retry"}
      /\ pc' = "listen" => protocol = "mqtt"
      /\ pc' = "sleep" => protocol = "simulator"
  <2>1. /\ FirstAwait \in {"listen", "sleep", "connect", "read"}
        /\ FirstAwait = "listen" => protocol = "mqtt"
        /\ FirstAwait = "sleep" => protocol = "simulator"
    BY DEF FirstAwait
  <2>2. CASE FirstAwait = "read"
    <3>1. Ask(1, c)
      BY <2>2 DEF Cycle, LoopHead
    <3> QED
      BY <3>1, AskFacts
  <2>3. CASE FirstAwait # "read"
    BY <2>1, <2>3 DEF Cycle, LoopHead
  <2> QED
    BY <2>2, <2>3
<1>5. loop.counts <=> protocol \in {"bacnet", "snmp", "http", "sql"}
  BY LoopFacts DEF TypeOK
<1>6. TypeOK'
  <2>1. 1 \in 1 .. Len(Requests)
    BY RequestsPartition
  <2> QED
    BY <1>1, <1>2, <1>3, <1>4, <2>1 DEF TypeOK
<1>7. ListenersSubscribe' /\ ConnectsFirst' /\ FlagAgreesWithSamples' /\ StoppedIsDisconnected'
  BY <1>1, <1>2, <1>3, <1>4, <1>5 DEF ListenersSubscribe, ConnectsFirst, FlagAgreesWithSamples,
    StoppedIsDisconnected
<1>8. AnyOkTells'
  BY <1>1, <1>2, <1>3, <1>4 DEF AnyOkTells, Asked
<1> QED
  BY <1>6, <1>7, <1>8

\* A run starts, raises or ends; what it closes on the way out may bring it back to its loop.
LEMMA SupervisionIInv ==
  ASSUME IInv, BeginRaises \/ Supervised \/ Cancelled \/ CleanupRaises
  PROVE  IInv'
<1> USE DEF IInv
<1>1. UNCHANGED <<protocol, up, faulty, misaddressed, changes, next, anyOk, shown>>
  BY DEF BeginRaises, Supervised, Cancelled, CleanupRaises, device
<1>2. loop' = loop /\ Requests' = Requests
  BY <1>1 DEF loop, Requests
<1>3. /\ pc' \in {"crashed", "begin", "done", "retry"} /\ crashes' \in 0 .. MaxCrashes
      /\ session' \in {"none", "open", "stale"} /\ connected' \in BOOLEAN
  <2>1. CASE BeginRaises
    BY <2>1, Bounds DEF BeginRaises, TypeOK
  <2>2. CASE Supervised
    BY <2>2 DEF Supervised, TypeOK
  <2>3. CASE Cancelled
    BY <2>3 DEF Cancelled, TypeOK, FlagAfter
  <2>4. CASE CleanupRaises
    <3>1. crashes' \in 0 .. MaxCrashes
      BY <2>4, Bounds DEF CleanupRaises, TypeOK
    <3>2. connected' \in BOOLEAN
      BY <2>4, Zenon DEF CleanupRaises, Retry, TypeOK, FlagAfter
    <3>3. pc' \in {"crashed", "retry"} /\ session' \in {"none", "open", "stale"}
      BY <2>4 DEF CleanupRaises, Retry, TypeOK
    <3> QED
      BY <3>1, <3>2, <3>3
  <2> QED
    BY <2>1, <2>2, <2>3, <2>4
<1>4. pc' = "done" => connected' = FlagAfter
  BY DEF BeginRaises, Supervised, Cancelled, CleanupRaises, Retry
<1>5. loop.clears <=> protocol \notin {"modbus", "mqtt"}
  BY LoopFacts DEF TypeOK
<1>6. TypeOK'
  BY <1>1, <1>2, <1>3 DEF TypeOK
<1>7. StoppedIsDisconnected'
  BY <1>1, <1>4, <1>5 DEF StoppedIsDisconnected, FlagAfter
<1>8. ListenersSubscribe' /\ ConnectsFirst' /\ AnyOkTells' /\ FlagAgreesWithSamples'
  BY <1>1, <1>3 DEF ListenersSubscribe, ConnectsFirst, AnyOkTells, FlagAgreesWithSamples
<1> QED
  BY <1>6, <1>7, <1>8

\* A connection opens or does not, or the cycle ends with an exception.
LEMMA OpeningIInv ==
  ASSUME IInv, Opened \/ NotOpened \/ OpeningRaises \/ RequestRaises
  PROVE  IInv'
<1> USE DEF IInv
<1>1. UNCHANGED <<protocol, up, faulty, misaddressed, changes, anyOk, shown, crashes>>
  BY DEF Opened, NotOpened, OpeningRaises, RequestRaises, device
<1>2. loop' = loop /\ Requests' = Requests
  BY <1>1 DEF loop, Requests
<1>3. /\ pc' \in {"listen", "read", "retry"}
      /\ pc' = "listen" => protocol = "opcua"
      /\ pc' = "read" => pc = "connect" /\ next' = 1
      /\ next' = next \/ next' = 1
      /\ session' \in {"none", "open", "stale"} /\ connected' \in BOOLEAN
  <2>1. CASE Opened
    <3>1. CASE protocol = "opcua"
      BY <2>1, <3>1 DEF Opened, TypeOK
    <3>2. CASE protocol # "opcua"
      <4>1. Ask(1, connected \/ loop.opens = "once") /\ pc = "connect"
        BY <2>1, <3>2 DEF Opened
      <4>2. PICK c \in BOOLEAN : c = (connected \/ loop.opens = "once")
        OBVIOUS
      <4>3. session' \in {"none", "open", "stale"}
        BY <2>1 DEF Opened, TypeOK
      <4> QED
        BY <4>1, <4>2, <4>3, AskFacts
    <3> QED
      BY <3>1, <3>2
  <2>2. CASE NotOpened
    <3>1. Ask(1, connected /\ loop.opens # "once") /\ pc = "connect" /\ session' = session
      BY <2>2 DEF NotOpened
    <3>2. PICK c \in BOOLEAN : c = (connected /\ loop.opens # "once")
      OBVIOUS
    <3> QED
      BY <3>1, <3>2, AskFacts DEF TypeOK
  <2>3. CASE OpeningRaises \/ RequestRaises
    BY <2>3 DEF OpeningRaises, RequestRaises, Retry, TypeOK
  <2> QED
    BY <2>1, <2>2, <2>3
<1>4. TypeOK'
  <2>1. next' \in 1 .. Len(Requests)
    BY <1>3, RequestsPartition DEF TypeOK
  <2> QED
    BY <1>1, <1>2, <1>3, <2>1 DEF TypeOK
<1>5. ListenersSubscribe' /\ ConnectsFirst' /\ FlagAgreesWithSamples' /\ StoppedIsDisconnected'
  BY <1>1, <1>2, <1>3 DEF ListenersSubscribe, ConnectsFirst, FlagAgreesWithSamples,
    StoppedIsDisconnected
<1>6. AnyOkTells'
  BY <1>1, <1>2, <1>3 DEF AnyOkTells, Asked, ConnectsFirst
<1> QED
  BY <1>4, <1>5, <1>6

LEMMA NotifiedIInv ==
  ASSUME IInv, NEW t \in Tags, Notified(t)
  PROVE  IInv'
<1> USE DEF IInv
<1>1. /\ UNCHANGED <<protocol, up, faulty, misaddressed, changes, pc, next, anyOk, session,
                    connected, crashes>>
      /\ pc = "listen"
  BY DEF Notified, device
<1>2. loop' = loop /\ Requests' = Requests
  BY <1>1 DEF loop, Requests
<1>3. loop.refused \subseteq {"bad", "null"}
  BY <1>1, LoopFacts DEF TypeOK, ListenersSubscribe
<1>4. shown' \in [Tags -> {"none", "good", "bad", "null"}]
  BY <1>3 DEF Notified, TypeOK
<1>5. TypeOK'
  BY <1>1, <1>2, <1>4 DEF TypeOK
<1>6. /\ ListenersSubscribe' /\ ConnectsFirst' /\ AnyOkTells'
      /\ FlagAgreesWithSamples' /\ StoppedIsDisconnected'
  BY <1>1 DEF ListenersSubscribe, ConnectsFirst, AnyOkTells, FlagAgreesWithSamples,
    StoppedIsDisconnected
<1> QED
  BY <1>5, <1>6

\* A request that ends moves its tags among those asked for; with the last one these are
\* all the tags, and the flag is what any_ok has become.
LEMMA AnsweredIInv ==
  ASSUME IInv, RequestAnswered
  PROVE  IInv'
<1> USE DEF IInv
<1> DEFINE group == Requests[next]
           ok == anyOk \/ \E t \in group : Verdict(t, group) = "good"
           counting == protocol \in {"bacnet", "snmp", "http", "sql"}
<1>1. /\ UNCHANGED <<protocol, up, faulty, misaddressed, changes, crashes>> /\ pc = "read"
      /\ shown' = [t \in Tags |-> IF t \in group THEN Verdict(t, group) ELSE shown[t]]
      /\ anyOk' = ok
      /\ IF LastRequest THEN Finish(ok) ELSE Continue
  BY DEF RequestAnswered, device
<1>2. loop' = loop /\ Requests' = Requests
  BY <1>1 DEF loop, Requests
<1>3. loop.counts <=> counting
  BY LoopFacts DEF TypeOK
<1>4. /\ next \in 1 .. Len(Requests) /\ Len(Requests) \in Nat \ {0} /\ group \subseteq Tags
      /\ \A i \in 1 .. Len(Requests), t \in Tags : t \in Requests[i] /\ t \in group => i = next
      /\ \A t \in Tags : \E i \in 1 .. Len(Requests) : t \in Requests[i]
  BY RequestsPartition DEF TypeOK
<1>5. /\ shown' \in [Tags -> {"none", "good", "bad", "null"}] /\ ok \in BOOLEAN
      /\ \A t \in Tags : shown'[t] = IF t \in group THEN Verdict(t, group) ELSE shown[t]
  BY <1>1 DEF TypeOK, Verdict
<1>6. ASSUME counting
      PROVE  ok <=> \E t \in Tags : (Asked(t) \/ t \in group) /\ shown'[t] = "good"
  <2>1. anyOk <=> \E t \in Tags : Asked(t) /\ shown[t] = "good"
    BY <1>1, <1>6 DEF AnyOkTells
  <2>2. \A t \in Tags : ~ (Asked(t) /\ t \in group)
    BY <1>4 DEF Asked
  <2> QED
    BY <1>4, <1>5, <2>1, <2>2
<1>7. CASE LastRequest
  <2>1. /\ pc' = "sleep" /\ next' = 1 /\ connected' = IF counting THEN ok ELSE connected
        /\ session' \in {"none", "open", "stale"}
    BY <1>1, <1>3, <1>7 DEF Finish, TypeOK
  <2>2. next = Len(Requests) /\ \A t \in Tags : Asked(t) \/ t \in group
    BY <1>4, <1>7 DEF Asked, LastRequest
  <2>3. TypeOK'
    <3>1. next' \in 1 .. Len(Requests)'
      BY <1>2, <1>4, <2>1
    <3>2. connected' \in BOOLEAN
      <4> HIDE DEF ok, counting
      <4> QED
        BY <1>5, <2>1 DEF TypeOK
    <3>3. anyOk' \in BOOLEAN
      BY <1>1, <1>5
    <3> QED
      BY <1>1, <1>5, <2>1, <3>1, <3>2, <3>3 DEF TypeOK
  <2>4. FlagAgreesWithSamples'
    BY <1>1, <1>2, <1>3, <1>6, <2>1, <2>2 DEF FlagAgreesWithSamples
  <2>5. ListenersSubscribe' /\ ConnectsFirst' /\ AnyOkTells' /\ StoppedIsDisconnected'
    BY <2>1 DEF ListenersSubscribe, ConnectsFirst, AnyOkTells, StoppedIsDisconnected
  <2> QED
    BY <2>3, <2>4, <2>5
<1>8. CASE ~ LastRequest
  <2>1. /\ next' = next + 1 /\ session' = session /\ connected' \in BOOLEAN
        /\ pc' \in {"read", "retry"}
    <3>1. Ask(next + 1, connected) /\ session' = session /\ connected \in BOOLEAN
      BY <1>1, <1>8 DEF Continue, TypeOK
    <3>2. PICK n : n = next + 1
      OBVIOUS
    <3> QED
      BY <3>1, <3>2, AskFacts
  <2>2. next + 1 \in 1 .. Len(Requests)
    BY <1>4, <1>8 DEF LastRequest
  <2>3. TypeOK'
    BY <1>1, <1>2, <1>5, <2>1, <2>2 DEF TypeOK
  <2>4. \A t \in Tags : Asked(t)' <=> Asked(t) \/ t \in group
    BY <1>2, <1>4, <2>1 DEF Asked
  <2>5. AnyOkTells'
    BY <1>1, <1>6, <2>1, <2>4 DEF AnyOkTells
  <2>6. ListenersSubscribe' /\ ConnectsFirst' /\ FlagAgreesWithSamples' /\ StoppedIsDisconnected'
    BY <2>1 DEF ListenersSubscribe, ConnectsFirst, FlagAgreesWithSamples,
    StoppedIsDisconnected
  <2> QED
    BY <2>3, <2>5, <2>6
<1> QED
  BY <1>7, <1>8

LEMMA NextIInv == IInv /\ [Next]_vars => IInv'
<1> SUFFICES ASSUME IInv, [Next]_vars PROVE IInv'
  OBVIOUS
<1>1. CASE \/ DeviceFails \/ DeviceReturns \/ FaultsChange \/ ClientNotices \/ OnConnect
           \/ UNCHANGED vars
  BY <1>1, OutsideIInv
<1>2. CASE Begin
  <2>1. pc # "done" /\ Cycle(protocol \in {"simulator", "bacnet"})
    BY <1>2 DEF Begin
  <2>2. (protocol \in {"simulator", "bacnet"}) \in BOOLEAN
    OBVIOUS
  <2> QED
    BY <2>1, <2>2, CycleIInv
<1>3. CASE Wakes
  <2>1. pc # "done" /\ Cycle(connected \/ (protocol = "modbus" /\ session # "none"))
    BY <1>3 DEF Wakes
  <2>2. (connected \/ (protocol = "modbus" /\ session # "none")) \in BOOLEAN
    OBVIOUS
  <2> QED
    BY <2>1, <2>2, CycleIInv
<1>4. CASE BeginRaises \/ Supervised \/ Cancelled \/ CleanupRaises
  BY <1>4, SupervisionIInv
<1>5. CASE Opened \/ NotOpened \/ OpeningRaises \/ RequestRaises
  BY <1>5, OpeningIInv
<1>6. CASE RequestAnswered
  BY <1>6, AnsweredIInv
<1>7. CASE \E t \in Tags : Notified(t)
  BY <1>7, NotifiedIInv
<1> QED
  BY <1>1, <1>2, <1>3, <1>4, <1>5, <1>6, <1>7 DEF Next, Resumes

-----------------------------------------------------------------------------
(* The theorems.                                                             *)

LEMMA AlwaysIInv == Spec => []IInv
BY InitIInv, NextIInv, PTL DEF Spec

\* The variables of every connector stay in their domains, whatever its protocol and tags.
THEOREM TypeCorrect == Spec => []TypeOK
BY AlwaysIInv, PTL DEF IInv

\* A counting connector's flag agrees with the samples of the cycle it has finished, for
\* any number of tags and paths, and whatever the device did between two requests.
THEOREM FlagIsTrue == Spec => []FlagAgreesWithSamples
BY AlwaysIInv, PTL DEF IInv

\* Wherever it is cancelled, a connector with a finally block is not connected afterwards.
THEOREM CancelledIsDisconnected == Spec => []StoppedIsDisconnected
BY AlwaysIInv, PTL DEF IInv
=============================================================================
