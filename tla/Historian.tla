------------------------------- MODULE Historian -------------------------------
(***************************************************************************)
(* What the ingest pipeline promises whoever emits samples and whoever     *)
(* reads its tables, without its queue, tasks, batches and transactions.   *)
(*                                                                         *)
(* Samples are numbered as they are accepted.  Each is archived once, or   *)
(* discarded, and stays what it became; several may be settled by one      *)
(* commit, in any order.  The alarm journal only grows, an event at a      *)
(* time.  A historian that was closed accepts no more.                     *)
(***************************************************************************)
EXTENDS Naturals, Sequences

CONSTANT Event

VARIABLES
  accepted,    \* number of samples accepted
  archived,    \* those whose row is committed
  discarded,   \* those that will never have one
  journal,     \* alarm events committed
  open

vars == <<accepted, archived, discarded, journal, open>>

Init ==
  /\ accepted = 0 /\ archived = {} /\ discarded = {}
  /\ journal = <<>> /\ open = TRUE

\* A new sample may be discarded at once.
Accept ==
  /\ open
  /\ accepted' = accepted + 1
  /\ discarded' \in {discarded, discarded \cup {accepted + 1}}
  /\ UNCHANGED <<archived, journal, open>>

Pending == (1 .. accepted) \ (archived \cup discarded)

Settle ==
  \E A \in SUBSET Pending : \E D \in SUBSET (Pending \ A) :
    /\ archived' = archived \cup A
    /\ discarded' = discarded \cup D

Record == journal' = journal \/ \E e \in Event : journal' = Append(journal, e)

Proceed == Settle /\ Record /\ UNCHANGED <<accepted, open>>

Close == open /\ open' = FALSE /\ Settle /\ Record /\ UNCHANGED accepted

Next == Accept \/ Proceed \/ Close

Spec == Init /\ [][Next]_vars
=============================================================================
