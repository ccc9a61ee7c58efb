----------------------------- MODULE AgentTurn -----------------------------
(***************************************************************************)
(* What the turns of an agent promise to the task that runs them, whatever *)
(* the model answers: on terms fixed when a turn begins, a bounded number  *)
(* of model calls, no deliverable before the required research, and in the *)
(* end one draft, asking for no worker the tenant lacks, or an error.  A   *)
(* new turn begins only on a draft, and an error is final.                 *)
(***************************************************************************)
EXTENDS Naturals

VARIABLES
  phase,     \* "idle", "working", "drafted" or "failed"
  terms,     \* of the turn: its budget of model calls, the tool calls it
             \* needs before a deliverable, the workers it may spawn for
  turns,     \* model calls made
  looked,    \* tool calls made
  spawns     \* the workers the draft asks for
vars == <<phase, terms, turns, looked, spawns>>

Init ==
  /\ phase = "idle"
  /\ turns = 0 /\ looked = 0 /\ spawns = {}

Begin ==
  /\ phase = "idle"
  /\ phase' = "working"
  /\ UNCHANGED <<turns, looked, spawns>>

Ask ==
  /\ phase = "working" /\ turns < terms.budget
  /\ turns' = turns + 1
  /\ UNCHANGED <<phase, terms, looked, spawns>>

Look ==
  /\ phase = "working" /\ turns > 0
  /\ looked' = looked + 1
  /\ UNCHANGED <<phase, terms, turns, spawns>>

Deliver ==
  /\ phase = "working" /\ looked >= terms.need
  /\ turns > 0 \/ terms.budget = 0
  /\ phase' = "drafted"
  /\ spawns' \in SUBSET terms.workers
  /\ UNCHANGED <<terms, turns, looked>>

Fail ==
  /\ phase \in {"idle", "working"}
  /\ phase' = "failed"
  /\ UNCHANGED <<turns, looked, spawns>>

Again ==
  /\ phase = "drafted"
  /\ phase' = "idle"
  /\ turns' = 0 /\ looked' = 0 /\ spawns' = {}

Next == Begin \/ Ask \/ Look \/ Deliver \/ Fail \/ Again

Spec == Init /\ [][Next]_vars
=============================================================================
