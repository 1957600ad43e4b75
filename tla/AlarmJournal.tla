------------------------------ MODULE AlarmJournal ------------------------------
(***************************************************************************)
(* The alarm & event journal (table alarm_events) and those that share it: *)
(* the consumer that writes activations and clearings (ingest/pipeline.py),*)
(* operators who acknowledge an alarm and a dashboard that pages through   *)
(* the history (api/routes_alarms.py, web/static/app.js), and restarts of  *)
(* the program, which forget what memory held and keep what was committed. *)
(*                                                                         *)
(* An entry is stamped before it is committed, so entries can appear in    *)
(* the table in another order than their time stamps, by which every       *)
(* query orders them.  The time stamps of two entries are distinct.        *)
(***************************************************************************)
EXTENDS Naturals, FiniteSets

CONSTANTS
  Alarms,       \* ids of alarm definitions
  Operators,    \* those who acknowledge
  Filters,      \* what the history page searches for
  Limit,        \* historyState.limit, entries per page
  MaxEvents,    \* bound on the entries stamped
  MaxRestarts,  \* bound on the restarts
  MaxAsked,     \* bound on the page requests under way
  MaxOffset     \* bound on the offset, which failed requests let grow beyond the table

Stamps == 1 .. MaxEvents
State == {"active", "cleared", "acked"}

\* What an entry says (value, message, tag) is the change it tells, named by its stamp.
Row == [ts : Stamps, alarm : Alarms, state : State, tells : Stamps]
NoRow == [ts |-> 0]

\* A filter: the alarms of the tag and priority asked for, the states, the time range.
Filter == [alarms : SUBSET Alarms, states : SUBSET State, start : Nat, end : Nat]

ASSUME JournalAssumption ==
  /\ IsFiniteSet(Alarms)
  /\ Filters # {} /\ Filters \subseteq Filter
  /\ Limit \in Nat \ {0}
  /\ MaxEvents \in Nat /\ MaxRestarts \in Nat /\ MaxAsked \in Nat
  /\ MaxOffset \in Nat

VARIABLES
  clock,      \* entries stamped so far
  rows,       \* the table
  active,     \* state.active of each alarm, in the consumer's memory
  writing,    \* the entry the consumer is committing
  alive,      \* the consumer runs
  ack,        \* for each operator, the request: its pc, the alarm, the entry read or stamped
  page,       \* historyState and the table of the history page
  asked,      \* the page requests under way
  restarts, bootedAt   \* how often the program was restarted, and after which stamp

consumerVars == <<active, writing, alive>>
pageVars == <<page, asked>>
bootVars == <<restarts, bootedAt>>
vars == <<clock, rows, consumerVars, ack, pageVars, bootVars>>

Idle == [pc |-> "idle", alarm |-> 0, row |-> NoRow]

Init ==
  /\ clock = 0 /\ rows = {}
  /\ active = [a \in Alarms |-> FALSE] /\ writing = NoRow /\ alive = TRUE
  /\ ack = [o \in Operators |-> Idle]
  /\ page = [offset |-> 0, filter |-> CHOOSE f \in Filters : TRUE, more |-> FALSE,
             shown |-> {}]
  /\ asked = {}
  /\ restarts = 0 /\ bootedAt = 0

-----------------------------------------------------------------------------
(* The consumer.                                                             *)

\* _evaluate_alarms finds that the condition of a has changed: it sets state.active, and
\* _write_alarm_event stamps the entry and begins to commit it.
Flip(a) ==
  /\ alive /\ writing = NoRow /\ clock < MaxEvents
  /\ clock' = clock + 1
  /\ active' = [active EXCEPT ![a] = ~ @]
  /\ writing' = [ts |-> clock + 1, alarm |-> a,
                 state |-> IF active[a] THEN "cleared" ELSE "active",
                 tells |-> clock + 1]
  /\ UNCHANGED <<rows, alive, ack, pageVars, bootVars>>

EventCommitted ==
  /\ writing # NoRow
  /\ rows' = rows \cup {writing} /\ writing' = NoRow
  /\ UNCHANGED <<clock, active, alive, ack, pageVars, bootVars>>

\* The exception ends the consumer.
EventFailed ==
  /\ writing # NoRow
  /\ writing' = NoRow /\ alive' = FALSE
  /\ UNCHANGED <<clock, rows, active, ack, pageVars, bootVars>>

-----------------------------------------------------------------------------
(* Acknowledgement: POST /api/alarms/events/{alarm_id}/ack.                  *)

EntriesOf(a) == {e \in rows : e.alarm = a}

\* order_by(AlarmEvent.ts.desc()).limit(1)
Earliest(a) == CHOOSE e \in EntriesOf(a) : \A x \in EntriesOf(a) : e.ts <= x.ts
Latest(a) == CHOOSE e \in EntriesOf(a) : \A x \in EntriesOf(a) : x.ts <= e.ts

AckRead(o, a) ==
  /\ ack[o].pc = "idle" /\ EntriesOf(a) # {}       \* else 404
  /\ ack' = [ack EXCEPT ![o] = [pc |-> "read", alarm |-> a, row |-> Latest(a)]]
  /\ UNCHANGED <<clock, rows, consumerVars, pageVars, bootVars>>

\* The new entry copies the one that was read, whatever has been written since.
CopyWithState(row) == [row EXCEPT !.ts = clock + 1]
AckEntry(row) == [row EXCEPT !.ts = clock + 1, !.state = "acked"]

\* session.add, and the commit begins: the flush evaluates the default of ts.
AckStamped(o) ==
  /\ ack[o].pc = "read" /\ clock < MaxEvents
  /\ clock' = clock + 1
  /\ ack' = [ack EXCEPT ![o].pc = "commit", ![o].row = AckEntry(@)]
  /\ UNCHANGED <<rows, consumerVars, pageVars, bootVars>>

AckCommitted(o) ==
  /\ ack[o].pc = "commit"
  /\ rows' = rows \cup {ack[o].row}
  /\ ack' = [ack EXCEPT ![o] = Idle]
  /\ UNCHANGED <<clock, consumerVars, pageVars, bootVars>>

AckFailed(o) ==
  /\ ack[o].pc # "idle"
  /\ ack' = [ack EXCEPT ![o] = Idle]
  /\ UNCHANGED <<clock, rows, consumerVars, pageVars, bootVars>>

-----------------------------------------------------------------------------
(* The history page: GET /api/alarms/history.                                *)

Matches(e, f) ==
  /\ e.alarm \in f.alarms /\ e.state \in f.states
  /\ f.start <= e.ts /\ e.ts <= f.end
Matching(f) == {e \in rows : Matches(e, f)}

\* How many entries come before e when the newest comes first.
Newer(e, f) == Cardinality({x \in Matching(f) : x.ts > e.ts})

\* offset(offset).limit(limit + 1), of which the answer has at most limit.
Fetched(r) ==
  {e \in Matching(r.filter) :
     r.offset <= Newer(e, r.filter) /\ Newer(e, r.filter) <= r.offset + Limit}
HasMore(r) == Cardinality(Fetched(r)) > Limit
EventsUntrimmed(r) == Fetched(r)
Events(r) == {e \in Fetched(r) : Newer(e, r.filter) < r.offset + Limit}

\* loadHistory sends the request; nothing keeps the operator from clicking meanwhile.
Load(f, offset) ==
  /\ Cardinality(asked) < MaxAsked /\ offset <= MaxOffset
  /\ page' = [page EXCEPT !.filter = f, !.offset = offset]
  /\ asked' = asked \cup {[filter |-> f, offset |-> offset]}
  /\ UNCHANGED <<clock, rows, consumerVars, ack, bootVars>>

Search(f) == Load(f, 0)

NextOffsetPastTheExtraRow == page.offset + Limit + 1
NextOffset == page.offset + Limit
NextPage == page.more /\ Load(page.filter, NextOffset)

PreviousPage ==
  /\ page.offset # 0
  /\ Load(page.filter, IF page.offset > Limit THEN page.offset - Limit ELSE 0)

\* The answer to request r.  Its label tells the offset the page has by now.
Answered(r) ==
  /\ page' = [page EXCEPT !.more = HasMore(r), !.shown = Events(r)]
  /\ asked' = asked \ {r}
  /\ UNCHANGED <<clock, rows, consumerVars, ack, bootVars>>

\* The rows are cleared; historyState stays as the click left it.
PageFailed(r) ==
  /\ page' = [page EXCEPT !.shown = {}]
  /\ asked' = asked \ {r}
  /\ UNCHANGED <<clock, rows, consumerVars, ack, bootVars>>

-----------------------------------------------------------------------------
(* The program stops at any moment and is started again: a commit under way  *)
(* may or may not have reached the table, and every alarm begins inactive.   *)

UnderWay ==
  (IF writing = NoRow THEN {} ELSE {writing})
  \cup {ack[o].row : o \in {o \in Operators : ack[o].pc = "commit"}}

Restart ==
  /\ restarts < MaxRestarts /\ restarts' = restarts + 1
  /\ \E R \in SUBSET UnderWay : rows' = rows \cup R
  /\ active' = [a \in Alarms |-> FALSE] /\ writing' = NoRow /\ alive' = TRUE
  /\ ack' = [o \in Operators |-> Idle]
  /\ page' = IF asked = {} THEN page ELSE [page EXCEPT !.shown = {}]
  /\ asked' = {}
  /\ bootedAt' = clock
  /\ UNCHANGED clock

-----------------------------------------------------------------------------
Consumer == (\E a \in Alarms : Flip(a)) \/ EventCommitted \/ EventFailed

Acknowledge(o) ==
  (\E a \in Alarms : AckRead(o, a)) \/ AckStamped(o) \/ AckCommitted(o) \/ AckFailed(o)

Next ==
  \/ Consumer
  \/ \E o \in Operators : Acknowledge(o)
  \/ (\E f \in Filters : Search(f)) \/ NextPage \/ PreviousPage
  \/ \E r \in asked : Answered(r) \/ PageFailed(r)
  \/ Restart

Spec == Init /\ [][Next]_vars

-----------------------------------------------------------------------------
(* Properties.                                                               *)

Request == [filter : Filters, offset : Nat]

\* Every variable stays in its domain, and no entry bears a stamp not yet given.
TypeOK ==
  /\ clock \in 0 .. MaxEvents
  /\ rows \subseteq Row /\ \A e \in rows : e.ts <= clock
  /\ active \in [Alarms -> BOOLEAN] /\ alive \in BOOLEAN
  /\ writing \in Row \cup {NoRow} /\ writing.ts <= clock
  /\ \A o \in Operators :
       /\ ack[o].pc \in {"idle", "read", "commit"}
       /\ ack[o].pc # "idle" => ack[o].row \in Row /\ ack[o].row.ts <= clock
  /\ page.filter \in Filters /\ page.offset \in Nat
  /\ page.shown \subseteq Row /\ Cardinality(page.shown) <= Limit
  /\ asked \subseteq Request /\ Cardinality(asked) <= MaxAsked
  /\ restarts \in 0 .. MaxRestarts /\ bootedAt \in 0 .. clock

\* Entries of this run of the program that tell a change of a.
Changes(a) == {e \in EntriesOf(a) : e.state # "acked" /\ e.ts > bootedAt}

BeingWritten(a) == writing # NoRow /\ writing.alarm = a

\* The last change of a, by time stamp, is an activation.
LastIsActivation(a) ==
  \E e \in Changes(a) : e.state = "active" /\ \A x \in Changes(a) : x.ts <= e.ts

\* While the consumer runs, an alarm is active in its memory exactly when the last change
\* it wrote since the program started is an activation, but for the alarm whose entry is
\* being committed: neither a restart, nor an acknowledgement that crosses a clearing, nor
\* the order of the commits breaks it.
JournalTellsState ==
  alive => \A a \in Alarms : BeingWritten(a) \/ (active[a] <=> LastIsActivation(a))
=============================================================================
