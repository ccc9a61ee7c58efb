----------------------------- MODULE TaskStates -----------------------------
(***************************************************************************)
(* The task status machine of tasks/state-machine.ts: the transition table *)
(* and the check every status write through updateTaskStatus passes first. *)
(***************************************************************************)
EXTENDS Naturals

Status == {"todo", "in_progress", "waiting", "done", "failed"}

\* The table 'allowed': from each status, the statuses a write may set.
Allowed ==
  [ todo        |-> {"in_progress", "failed"},
    in_progress |-> {"waiting", "done", "failed", "todo"},
    waiting     |-> {"todo", "in_progress", "done", "failed"},
    done        |-> {},
    failed      |-> {"todo"} ]

\* Mutant: a table that lets a finished task be re-queued ("retry anything").
CanTransition_RetryDone(from, to) ==
  to \in Allowed[from] \cup (IF from = "done" THEN {"todo"} ELSE {})

\* canTransition; assertTransition throws exactly when it is FALSE.
CanTransition(from, to) == to \in Allowed[from]
=============================================================================
