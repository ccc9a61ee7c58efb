---------------------------- MODULE AtomicIntake ----------------------------
(***************************************************************************)
(* What an intake promises its clients, however its requests overlap, are  *)
(* retried or die: each of them takes effect at one instant or not at all. *)
(* A turn reaches the end of the conversation, which loses nothing; an     *)
(* open intake is finalized into one task, made of the whole conversation, *)
(* or abandoned; and the answers to a finalize name that task.             *)
(*                                                                         *)
(* Two crossings the code does not arbitrate are part of the promise, each *)
(* with all it can do: turns whose writes overlap may lose turns, and an   *)
(* abandon that crosses a finalize may take effect after it.               *)
(***************************************************************************)
EXTENDS Naturals, Sequences, SequencesExt

CONSTANT Turns

VARIABLES
  status,   \* "none", "open", "finalized" or "abandoned"
  talk,     \* the conversation, a sequence of turns
  made,     \* the tasks made, each the set of turns it was made of
  named,    \* the numbers of the tasks that finalize has answered with
  torn,     \* the writes of two turns have overlapped
  raced     \* an abandon and a finalize have crossed
vars == <<status, talk, made, named, torn, raced>>

Init ==
  /\ status = "none" /\ talk = <<>> /\ made = <<>> /\ named = {}
  /\ torn = FALSE /\ raced = FALSE

Start ==
  /\ status = "none" /\ status' = "open"
  /\ \E t \in Turns : talk' = <<t>>
  /\ UNCHANGED <<made, named, torn, raced>>

\* A turn that lands on a closed intake is kept, and no task tells of it.
Say ==
  /\ status # "none"
  /\ torn \/ \E t \in Turns \ ToSet(talk) : talk' = Append(talk, t)
  /\ UNCHANGED <<status, made, named, torn, raced>>

Finalize ==
  /\ status = "open" /\ status' = "finalized"
  /\ made' = <<ToSet(talk)>>
  /\ UNCHANGED <<talk, named, torn, raced>>

Answer ==
  /\ made # <<>>
  /\ named' = named \cup {1}
  /\ UNCHANGED <<status, talk, made, torn, raced>>

Abandon ==
  /\ status = "open" \/ (raced /\ status = "finalized")
  /\ status' = "abandoned"
  /\ UNCHANGED <<talk, made, named, torn, raced>>

Cross ==
  /\ torn' \/ raced'
  /\ torn => torn'
  /\ raced => raced'
  /\ UNCHANGED <<status, talk, made, named>>

Next == Start \/ Say \/ Finalize \/ Answer \/ Abandon \/ Cross

Spec == Init /\ [][Next]_vars
=============================================================================
