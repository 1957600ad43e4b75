-------------------------------- MODULE MCJournal --------------------------------
(* A small instance of AlarmJournal, with what its users can tell: which            *)
(* acknowledgements no other entry of their alarm crossed, and what the history     *)
(* page has shown since a search.                                                   *)
EXTENDS AlarmJournal, TLC

All == [alarms |-> Alarms, states |-> State, start |-> 0, end |-> MaxEvents]
OfOneAlarm ==
  [alarms |-> {CHOOSE a \in Alarms : TRUE}, states |-> State \ {"cleared"},
   start |-> 2, end |-> MaxEvents]
MCFilters == {All, OfOneAlarm}
MCSymmetry == Permutations(Operators)

VARIABLES
  crossed,   \* operators whose request met another writer of its alarm
  quiet,     \* stamps of the acknowledgements that met none
  search     \* since the last search: whether its first page has come, the entries there
             \* were then and those shown, and whether every page was waited for and the
             \* next one asked for

mcvars == <<vars, crossed, quiet, search>>

NoSearch == [began |-> FALSE, there |-> {}, seen |-> {}, orderly |-> FALSE]

MCInit ==
  /\ Init
  /\ crossed = {} /\ quiet = {}
  /\ search = NoSearch

StampsOf(R) == {e.ts : e \in R}

\* Operator o has a request under way for an alarm another writer is at.
Meets(o) ==
  /\ ack[o].pc # "idle"
  /\ \/ writing # NoRow /\ writing.alarm = ack[o].alarm
     \/ \E p \in Operators \ {o} : ack[p].pc # "idle" /\ ack[p].alarm = ack[o].alarm

Watched ==
  /\ crossed' = {o \in Operators : Meets(o)' \/ (o \in crossed /\ ack'[o].pc # "idle")}
  /\ quiet' = quiet \cup {ack[o].row.ts : o \in {o \in Operators \ crossed : AckCommitted(o)}}

Disordered == search' = NoSearch

MCNext ==
  /\ \/ (Consumer \/ \E o \in Operators : Acknowledge(o)) /\ UNCHANGED search
     \/ /\ \E f \in Filters : Search(f)
        /\ search' = [NoSearch EXCEPT !.orderly = asked = {}]
     \/ NextPage /\ IF asked = {} THEN UNCHANGED search ELSE Disordered
     \/ PreviousPage /\ Disordered
     \/ \E r \in asked :
          /\ Answered(r)
          /\ search' =
               IF ~ search.orderly THEN search
               ELSE [search EXCEPT
                 !.began = TRUE,
                 !.there = IF search.began THEN @ ELSE StampsOf(Matching(r.filter)),
                 !.seen = @ \cup StampsOf(Events(r))]
     \/ (\E r \in asked : PageFailed(r)) /\ Disordered
     \/ Restart /\ IF asked = {} THEN UNCHANGED search ELSE Disordered
  /\ Watched

MCSpec == MCInit /\ [][MCNext]_mcvars

-----------------------------------------------------------------------------
\* An acknowledgement tells what the entry it follows by time stamp tells, unless another
\* writer of the alarm was at work between its read and its commit ("its most recent event",
\* acknowledge_alarm's docstring, routes_alarms.py:121-122).
QuietAckTellsLatest ==
  \A t \in quiet :
    LET e == CHOOSE e \in rows : e.ts = t
        Before == {x \in EntriesOf(e.alarm) : x.ts < t}
    IN \E x \in Before : (\A y \in Before : y.ts <= x.ts) /\ x.tells = e.tells

\* Turned forwards page by page, a search shows every entry there was when it began,
\* whatever is written meanwhile, once the last page has come.
PagesSkipNothing ==
  (search.orderly /\ search.began /\ asked = {} /\ ~ page.more)
    => search.there \subseteq search.seen
=============================================================================
