-------------------------------- MODULE LiveBus --------------------------------
(***************************************************************************)
(* The live bus (app/ingest/live.py) and the three kinds of subscriber:    *)
(*   sockets   dashboard clients of /ws/live, which send the snapshot and  *)
(*             then subscribe (app/api/routes_live_ws.py)                  *)
(*   opcua     forwarders of the embedded OPC UA server, which subscribe,  *)
(*             then write the snapshot, awaiting each write                *)
(*   modbus    forwarders of the embedded Modbus server, which do the same *)
(*             without an await, into the registers of RegisterMap         *)
(* An update is synchronous.  A subscriber can be overtaken by updates     *)
(* only while it awaits a send, a write or its queue.                      *)
(***************************************************************************)
EXTENDS RegisterMap

CONSTANTS
  Sockets, OpcUa, Modbus,   \* the subscribers of each kind
  Capacity,                 \* maxsize of a subscriber's queue
  MaxUpdates                \* bound on the updates published

ASSUME LiveBusAssumption ==
  /\ Capacity \in Nat \ {0}
  /\ MaxUpdates \in Nat
  /\ Sockets \cap OpcUa = {} /\ Sockets \cap Modbus = {} /\ OpcUa \cap Modbus = {}

Servers == OpcUa \cup Modbus
Subscribers == Sockets \cup Servers

\* The n-th update; fit says the value is one the embedded servers can represent in the
\* tag's type (None and what does not coerce are not).
LiveValue == [tag : Tags, n : 1 .. MaxUpdates, fit : BOOLEAN]
Nothing == [n |-> 0]

VARIABLES
  latest,     \* live_bus._latest
  subs,       \* live_bus._subscribers
  queue,      \* the queue of each subscriber
  pc,         \* where it is: "off", "snapshot" or "stream"
  todo,       \* what is left of its snapshot
  hand,       \* the value it is sending or writing
  view,       \* the value its client sees of each tag; a Modbus master reads registers
  blocks,     \* the registers of each Modbus server
  published

vars == <<latest, subs, queue, pc, todo, hand, view, blocks, published>>
clientVars == <<view, blocks>>

Unseen == [t \in Tags |-> Nothing]

Init ==
  /\ latest = Unseen /\ published = 0
  /\ subs = {}
  /\ queue = [s \in Subscribers |-> <<>>]
  /\ pc = [s \in Subscribers |-> "off"]
  /\ todo = [s \in Subscribers |-> {}]
  /\ hand = [s \in Subscribers |-> Nothing]
  /\ view = [s \in Sockets \cup OpcUa |-> Unseen]
  /\ blocks = [s \in Modbus |-> NewBlocks]

-----------------------------------------------------------------------------
(* The bus.                                                                  *)

Snapshot == {latest[t] : t \in {t \in Tags : latest[t] # Nothing}}

HasRoomForOneMore(s) == Len(queue[s]) <= Capacity
HasRoom(s) == Len(queue[s]) < Capacity

\* Who is still subscribed after an update.
Reached == {s \in subs : HasRoom(s)}

\* update: the value goes on every queue with room; a full queue is discarded, and its
\* reader is not told.
Update ==
  /\ published < MaxUpdates /\ published' = published + 1
  /\ \E t \in Tags, fit \in BOOLEAN :
       LET lv == [tag |-> t, n |-> published + 1, fit |-> fit] IN
       /\ latest' = [latest EXCEPT ![t] = lv]
       /\ queue' = [s \in Subscribers |->
                      IF s \in subs /\ HasRoom(s) THEN Append(queue[s], lv) ELSE queue[s]]
       /\ subs' = Reached
  /\ UNCHANGED <<pc, todo, hand, clientVars>>

-----------------------------------------------------------------------------
(* Subscribers.                                                              *)

\* The values that are written to the registers.
Fit(values) == {lv \in values : lv.fit}

\* What the client of s sees of a tag once s has handled lv.
Shown(s, lv, old) == IF s \in Sockets \/ lv.fit THEN lv ELSE old

Shows(s, lv) ==
  IF s \in Modbus
  THEN blocks' = [blocks EXCEPT ![s] = Write(@, Fit({lv}))] /\ UNCHANGED view
  ELSE view' = [view EXCEPT ![s][lv.tag] = Shown(s, lv, @)] /\ UNCHANGED blocks

\* s starts with the values in its snapshot.
Sends(s, values) ==
  \E lv \in values :
    /\ hand' = [hand EXCEPT ![s] = lv]
    /\ todo' = [todo EXCEPT ![s] = values \ {lv}]

Subscribed(s) == subs' = subs \cup {s}

Connect(s) ==
  /\ s \in Sockets /\ pc[s] = "off"
  /\ \/ /\ Snapshot # {}
        /\ Sends(s, Snapshot)
        /\ pc' = [pc EXCEPT ![s] = "snapshot"]
        /\ UNCHANGED subs
     \/ /\ Snapshot = {}
        /\ pc' = [pc EXCEPT ![s] = "stream"]
        /\ Subscribed(s)
        /\ UNCHANGED <<hand, todo>>
  /\ UNCHANGED <<latest, queue, clientVars, published>>

ForwardOpcUa(s) ==
  /\ s \in OpcUa /\ pc[s] = "off"
  /\ Subscribed(s)
  /\ \/ /\ Snapshot # {}
        /\ Sends(s, Snapshot)
        /\ pc' = [pc EXCEPT ![s] = "snapshot"]
     \/ /\ Snapshot = {}
        /\ pc' = [pc EXCEPT ![s] = "stream"]
        /\ UNCHANGED <<hand, todo>>
  /\ UNCHANGED <<latest, queue, clientVars, published>>

ForwardModbus(s) ==
  /\ s \in Modbus /\ pc[s] = "off"
  /\ Subscribed(s)
  /\ blocks' = [blocks EXCEPT ![s] = Write(@, Fit(Snapshot))]
  /\ pc' = [pc EXCEPT ![s] = "stream"]
  /\ UNCHANGED <<latest, queue, todo, hand, view, published>>

\* The send or write of a snapshot value returns.
FreshInHand(s) == latest[hand[s].tag]
InHand(s) == hand[s]

SnapshotSent(s) ==
  /\ pc[s] = "snapshot"
  /\ Shows(s, InHand(s))
  /\ \/ todo[s] # {} /\ Sends(s, todo[s]) /\ UNCHANGED <<pc, subs>>
     \/ /\ todo[s] = {}
        /\ hand' = [hand EXCEPT ![s] = Nothing]
        /\ pc' = [pc EXCEPT ![s] = "stream"]
        /\ IF s \in Sockets THEN Subscribed(s) ELSE UNCHANGED subs
        /\ UNCHANGED todo
  /\ UNCHANGED <<latest, queue, published>>

\* queue.get returns.
ReadyForTwo(s) == Len(queue[s]) > 1
Ready(s) == queue[s] # <<>>

Take(s) ==
  /\ pc[s] = "stream" /\ hand[s] = Nothing /\ Ready(s)
  /\ queue' = [queue EXCEPT ![s] = Tail(@)]
  /\ IF s \in Modbus
     THEN Shows(s, Head(queue[s])) /\ UNCHANGED hand
     ELSE hand' = [hand EXCEPT ![s] = Head(queue[s])] /\ UNCHANGED clientVars
  /\ UNCHANGED <<latest, subs, pc, todo, published>>

Sent(s) ==
  /\ pc[s] = "stream" /\ hand[s] # Nothing
  /\ Shows(s, hand[s])
  /\ hand' = [hand EXCEPT ![s] = Nothing]
  /\ UNCHANGED <<latest, subs, queue, pc, todo, published>>

\* A forwarder is cancelled with its server, whose nodes or registers go with it.  A
\* socket that is gone is noticed by the send that fails.
Leave(s) ==
  /\ pc[s] # "off"
  /\ s \in Sockets => hand[s] # Nothing
  /\ subs' = subs \ {s}
  /\ queue' = [queue EXCEPT ![s] = <<>>]
  /\ pc' = [pc EXCEPT ![s] = "off"]
  /\ todo' = [todo EXCEPT ![s] = {}]
  /\ hand' = [hand EXCEPT ![s] = Nothing]
  /\ view' = [c \in DOMAIN view |-> IF c = s THEN Unseen ELSE view[c]]
  /\ blocks' = [c \in Modbus |-> IF c = s THEN NewBlocks ELSE blocks[c]]
  /\ UNCHANGED <<latest, published>>

Works(s) == SnapshotSent(s) \/ Take(s) \/ Sent(s)

Next ==
  \/ Update
  \/ \E s \in Subscribers :
       Connect(s) \/ ForwardOpcUa(s) \/ ForwardModbus(s) \/ Works(s) \/ Leave(s)

Spec == Init /\ [][Next]_vars

\* A task whose send, write or queue is ready is run.
FairSpec == Spec /\ \A s \in Subscribers : WF_vars(Works(s))

-----------------------------------------------------------------------------
(* Properties.                                                               *)

\* Every variable stays in its domain; only a subscriber that is on has values on its way.
TypeOK ==
  /\ latest \in [Tags -> LiveValue \cup {Nothing}]
  /\ subs \subseteq Subscribers
  /\ DOMAIN queue = Subscribers
  /\ \A s \in Subscribers : queue[s] \in Seq(LiveValue) /\ Len(queue[s]) <= Capacity
  /\ pc \in [Subscribers -> {"off", "snapshot", "stream"}]
  /\ todo \in [Subscribers -> SUBSET LiveValue]
  /\ hand \in [Subscribers -> LiveValue \cup {Nothing}]
  /\ view \in [Sockets \cup OpcUa -> [Tags -> LiveValue \cup {Nothing}]]
  /\ \A s \in Modbus, table \in Tables :
       /\ DOMAIN blocks[s][table] \in {1 .. Size(table), 1 .. Size(table) + 1}
       /\ \A i \in DOMAIN blocks[s][table] :
            blocks[s][table][i] \in [value : LiveValue, part : 1 .. 2] \cup {Zero}
  /\ published \in 0 .. MaxUpdates
  /\ \A s \in Subscribers : pc[s] = "snapshot" => hand[s] # Nothing
  /\ \A s \in Subscribers : pc[s] = "off" => s \notin subs /\ queue[s] = <<>>

\* v is on its way to the client of s, with nothing newer of the tag behind it.
LastQueued(s, v) ==
  \E i \in DOMAIN queue[s] :
    /\ queue[s][i] = v
    /\ \A j \in i + 1 .. Len(queue[s]) : queue[s][j].tag # v.tag

QueuedOf(s, t) == \E i \in DOMAIN queue[s] : queue[s][i].tag = t

OnItsWay(s, v) ==
  \/ LastQueued(s, v)
  \/ ~ QueuedOf(s, v.tag) /\ (hand[s] = v \/ v \in todo[s])

\* The client of s has the value v of a tag: a Modbus master finds its words, and no other,
\* at the address the tag was given.
Has(s, v) == IF s \in Modbus THEN Holds(blocks[s], v.tag, v) ELSE view[s][v.tag] = v

\* v can be shown by s at all.
Representable(s, v) == s \in Sockets \/ (v.fit /\ (s \in Modbus => v.tag \in Mapped))

\* What a client sees of a tag is the latest value, or will be when what is on its way
\* has arrived.
CaughtUp(s, t) ==
  (latest[t] # Nothing /\ Representable(s, latest[t])) => (OnItsWay(s, latest[t]) \/ Has(s, latest[t]))

\* A forwarder that is subscribed misses no value, whatever is published while it starts,
\* writes the snapshot or lags behind, and no tag's registers are overwritten by another's.
ServersCatchUp == \A s \in Servers \cap subs, t \in Tags : CaughtUp(s, t)

\* The number of the value a client sees of a tag.
Registered(b, t) ==
  IF ~ Readable(b, t) THEN Nothing
  ELSE LET word == b[Table(t)][Address[t] + 2] IN
       IF word # Zero /\ Holds(b, t, word.value) THEN word.value ELSE Nothing

Seen(s, t) == IF s \in Modbus THEN Registered(blocks[s], t).n ELSE view[s][t].n

\* What a client sees of a tag never goes back to an older value.
Forward(s) ==
  (pc[s] # "off" /\ pc'[s] # "off") => \A t \in Tags : Seen(s, t)' >= Seen(s, t)

NeverBackwards == [][\A s \in Subscribers : Forward(s)]_vars

\* A forwarder keeps showing the latest values unless its queue overflows or it is stopped.
Fresh(s) ==
  \A t \in Tags : latest[t] # Nothing /\ Representable(s, latest[t]) => Has(s, latest[t])

ServersKeepUp == \A s \in Servers : []<>(s \notin subs \/ Fresh(s))
=============================================================================
