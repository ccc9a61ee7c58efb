------------------------------- MODULE Intake -------------------------------
(***************************************************************************)
(* One intake: the conversation before a task, under requests that add a   *)
(* turn, finalize it into a task or abandon it.                            *)
(*                                                                         *)
(* A turn stands for the user's message, the pictures with it and the      *)
(* assistant's reply, which one UPDATE stores; a draft of title and brief  *)
(* is the set of turns its author had heard, {} for one that trims to      *)
(* nothing.  The task.ready signal after the commit is WorkerPool's.       *)
(***************************************************************************)
EXTENDS Naturals, FiniteSets, Sequences, SequencesExt

CONSTANTS
  Requests,   \* API requests that may be open at once
  Nobody,     \* no request
  MaxTurns,   \* bound: turns started
  MaxFaults   \* bound: requests that die or whose model throws

ASSUME IntakeBounds == MaxTurns \in Nat \ {0} /\ MaxFaults \in Nat
ASSUME IntakeNames == Nobody \notin Requests

VARIABLES
  status,     \* task_intakes.status, "none" before the row exists
  messages,   \* the turns of the messages column
  draft,      \* draft_title and draft_brief
  taskId,     \* finalized_task_id, 0 for NULL
  tasks,      \* the tasks made of this intake
  lock,       \* the transaction that holds the row
  req,        \* the API requests
  turns, faults,   \* counters of the bounds
  acked,      \* history: turns whose request has been answered
  answers,    \* history: tasks that finalize has answered with
  raced,      \* history: an abandon and a finalize have been open at once
  crossed,    \* history: two turns have been open at once
  torn        \* history: two turns have been between re-read and UPDATE at once
intake  == <<status, messages, draft, taskId>>
history == <<acked, answers, raced, crossed, torn>>
vars == <<intake, tasks, lock, req, turns, faults, history>>

Turns == 1..MaxTurns

\* The task's description and first message.  due: history, the turns that
\* had been answered when the request to finalize came.
Task == [by : {"draft", "user"}, heard : SUBSET Turns, pictures : SUBSET Turns,
         due : SUBSET Turns]

\* turn: the turn it adds.  seen: the conversation it read, for the model and
\* again for the UPDATE.  heard: the draft.  own: finalize with a brief of the
\* user's own.  due: as in Task.
Request == [pc : {"free", "start", "think", "append", "update",
                  "lock", "insert", "answer", "abandon"},
            turn : 0..MaxTurns, seen : Seq(Turns), heard : SUBSET Turns,
            own : BOOLEAN, due : SUBSET Turns]
NoReq == [pc |-> "free", turn |-> 0, seen |-> <<>>, heard |-> {},
          own |-> FALSE, due |-> {}]

TypeOK ==
  /\ status \in {"none", "open", "finalized", "abandoned"}
  /\ messages \in Seq(Turns) /\ draft \in SUBSET Turns
  /\ tasks \in Seq(Task) /\ taskId \in 0..Len(tasks)
  /\ req \in [Requests -> Request]
  /\ lock \in Requests \cup {Nobody}
  /\ lock # Nobody => req[lock].pc = "insert"
  /\ turns \in 0..MaxTurns /\ faults \in Nat
  /\ acked \in SUBSET Turns /\ answers \in SUBSET Nat
  /\ raced \in BOOLEAN /\ crossed \in BOOLEAN /\ torn \in BOOLEAN

Init ==
  /\ status = "none" /\ messages = <<>> /\ draft = {} /\ taskId = 0
  /\ tasks = <<>> /\ lock = Nobody
  /\ req = [q \in Requests |-> NoReq]
  /\ turns = 0 /\ faults = 0
  /\ acked = {} /\ answers = {}
  /\ raced = FALSE /\ crossed = FALSE /\ torn = FALSE

-----------------------------------------------------------------------------
(* Turns.                                                                  *)

Open(q, pcs) == \E p \in Requests \ {q} : req[p].pc \in pcs
Speaks(q, r) ==
  /\ req[q].pc = "free" /\ turns < MaxTurns /\ turns' = turns + 1
  /\ req' = [req EXCEPT ![q] = [r EXCEPT !.turn = turns + 1]]
  /\ crossed' = (crossed \/ Open(q, {"think", "append", "update"}))

\* POST /intakes: the model first, the row after it.
StartOpens(q) ==
  /\ status = "none" /\ turns = 0
  /\ Speaks(q, [NoReq EXCEPT !.pc = "start"])
  /\ UNCHANGED <<intake, tasks, lock, faults, acked, answers, raced, torn>>

\* What the model drafts: of all it heard, or blanks only.
Drafts(q) == {{}, ToSet(req[q].seen) \cup {req[q].turn}}

\* createIntake: row, first turn and draft in one INSERT.
StartCreates(q) ==
  /\ req[q].pc = "start"
  /\ status' = "open" /\ messages' = <<req[q].turn>>
  /\ draft' \in Drafts(q)
  /\ req' = [req EXCEPT ![q] = NoReq]
  /\ acked' = acked \cup {req[q].turn}
  /\ UNCHANGED <<taskId, tasks, lock, turns, faults, answers, raced, crossed,
                 torn>>

\* POST /intakes/:id/messages: the route reads an open intake, whose
\* conversation the model is given.
TurnOpens(q) ==
  /\ status = "open"
  /\ Speaks(q, [NoReq EXCEPT !.pc = "think", !.seen = messages])
  /\ UNCHANGED <<intake, tasks, lock, faults, acked, answers, raced, torn>>

\* The model answers.
TurnThinks(q) ==
  /\ req[q].pc = "think"
  /\ \E d \in Drafts(q) :
       req' = [req EXCEPT ![q].pc = "append", ![q].heard = d]
  /\ UNCHANGED <<intake, tasks, lock, turns, faults, history>>

\* Mutant: the conversation the route has read is appended to.
Conversation_Stale(q) == req[q].seen

\* What appendTurn appends to: it reads the row again.
Conversation(q) == messages

\* appendTurn's read, and its check that the intake is open still.
AppendReads(q) ==
  /\ req[q].pc = "append"
  /\ req' = [req EXCEPT ![q] =
       IF status = "open" THEN [@ EXCEPT !.pc = "update", !.seen = Conversation(q)]
                          ELSE NoReq]
  /\ torn' = (torn \/ (status = "open" /\ Open(q, {"update"})))
  /\ UNCHANGED <<intake, tasks, lock, turns, faults, acked, answers, raced,
                 crossed>>

\* Mutant: a draft is made once.
NewDraft_Once(q) == IF draft = {} THEN req[q].heard ELSE draft

\* The draft after a turn is that turn's.
NewDraft(q) == req[q].heard

\* appendTurn's UPDATE by id, whatever the status is now.
AppendWrites(q) ==
  /\ req[q].pc = "update" /\ lock = Nobody
  /\ messages' = Append(req[q].seen, req[q].turn)
  /\ draft' = NewDraft(q)
  /\ acked' = acked \cup {req[q].turn}
  /\ req' = [req EXCEPT ![q] = NoReq]
  /\ UNCHANGED <<status, taskId, tasks, lock, turns, faults, answers, raced,
                 crossed, torn>>

-----------------------------------------------------------------------------
(* Finalize and abandon.                                                   *)

Closing == {"lock", "insert"}

\* POST /intakes/:id/finalize.
FinalizeOpens(q) ==
  /\ status # "none" /\ req[q].pc = "free"
  /\ \E own \in BOOLEAN :
       req' = [req EXCEPT ![q] =
                 [NoReq EXCEPT !.pc = "lock", !.own = own, !.due = acked]]
  /\ raced' = (raced \/ Open(q, {"abandon"}))
  /\ UNCHANGED <<intake, tasks, lock, turns, faults, acked, answers, crossed,
                 torn>>

\* Mutant: SELECT without FOR UPDATE.
Locks_Plainly(q) == lock' = lock

\* SELECT ... FOR UPDATE, held to the end of the transaction.
Locks(q) == lock = Nobody /\ lock' = q

\* Mutant: any intake that is not finalized will do.
MayFinalize_NotFinalized(q) == status # "finalized" /\ (req[q].own \/ draft # {})

\* An open intake with a title and a brief, of the draft or the user's own.
MayFinalize(q) == status = "open" /\ (req[q].own \/ draft # {})

\* The transaction has the row of an intake it may make a task of.
FinalizeLocks(q) ==
  /\ req[q].pc = "lock" /\ MayFinalize(q)
  /\ Locks(q)
  /\ req' = [req EXCEPT ![q].pc = "insert"]
  /\ UNCHANGED <<intake, tasks, turns, faults, history>>

\* A finalized intake has its task already, and nothing is written.
FinalizeRepeats(q) ==
  /\ req[q].pc = "lock" /\ lock = Nobody
  /\ status = "finalized" /\ taskId # 0
  /\ req' = [req EXCEPT ![q].pc = "answer"]
  /\ UNCHANGED <<intake, tasks, lock, turns, faults, history>>

\* Abandoned, or without a draft: 422.
FinalizeRefuses(q) ==
  /\ req[q].pc = "lock" /\ lock = Nobody
  /\ ~MayFinalize(q) /\ ~(status = "finalized" /\ taskId # 0)
  /\ req' = [req EXCEPT ![q] = NoReq]
  /\ UNCHANGED <<intake, tasks, lock, turns, faults, history>>

\* The pictures of every turn of the conversation.
Pictures == ToSet(messages)

\* Task, first message and the intake's row, all or nothing.
FinalizeCommits(q) ==
  /\ req[q].pc = "insert"
  /\ tasks' = Append(tasks,
       [by |-> IF req[q].own THEN "user" ELSE "draft", heard |-> draft,
        pictures |-> Pictures, due |-> req[q].due])
  /\ status' = "finalized" /\ taskId' = Len(tasks) + 1
  /\ lock' = Nobody
  /\ req' = [req EXCEPT ![q].pc = "answer"]
  /\ UNCHANGED <<messages, draft, turns, faults, history>>

FinalizeAnswers(q) ==
  /\ req[q].pc = "answer"
  /\ answers' = answers \cup {taskId}
  /\ req' = [req EXCEPT ![q] = NoReq]
  /\ UNCHANGED <<intake, tasks, lock, turns, faults, acked, raced, crossed, torn>>

\* abandonIntake has read an open intake.
AbandonReads(q) ==
  /\ status = "open" /\ req[q].pc = "free"
  /\ req' = [req EXCEPT ![q] = [NoReq EXCEPT !.pc = "abandon"]]
  /\ raced' = (raced \/ Open(q, Closing))
  /\ UNCHANGED <<intake, tasks, lock, turns, faults, acked, answers, crossed,
                 torn>>

\* Its UPDATE by id, whatever the status is now.
AbandonWrites(q) ==
  /\ req[q].pc = "abandon" /\ lock = Nobody
  /\ status' = "abandoned"
  /\ req' = [req EXCEPT ![q] = NoReq]
  /\ UNCHANGED <<messages, draft, taskId, tasks, lock, turns, faults, history>>

\* Mutant: a failed transaction keeps its lock.
LockAfter_Kept(q) == lock

\* A transaction that fails is rolled back.
LockAfter(q) == IF lock = q THEN Nobody ELSE lock

\* The model, the registry or the database throws, or the process dies before
\* the answer is sent.
RequestDies(q) ==
  /\ req[q].pc # "free" /\ faults < MaxFaults /\ faults' = faults + 1
  /\ lock' = LockAfter(q)
  /\ req' = [req EXCEPT ![q] = NoReq]
  /\ UNCHANGED <<intake, tasks, turns, history>>

Next ==
  \E q \in Requests :
    \/ StartOpens(q) \/ StartCreates(q)
    \/ TurnOpens(q) \/ TurnThinks(q) \/ AppendReads(q) \/ AppendWrites(q)
    \/ FinalizeOpens(q) \/ FinalizeLocks(q) \/ FinalizeRepeats(q)
    \/ FinalizeRefuses(q) \/ FinalizeCommits(q) \/ FinalizeAnswers(q)
    \/ AbandonReads(q) \/ AbandonWrites(q) \/ RequestDies(q)

Spec == Init /\ [][Next]_vars

-----------------------------------------------------------------------------
\* However often finalize is called, whatever fails and whatever it races,
\* one task is made and every answer names it: "calling twice returns the
\* same task" (routes/intakes.ts:160), "Callers can therefore retry safely on
\* network jitter" (intakes/repository.ts:136).
AnswersNameOneTask == Len(tasks) <= 1 /\ answers \subseteq 1..Len(tasks)

\* finalizeIntake: "Atomically transition `open -> finalized` and create a
\* backing task" (intakes/repository.ts:134); appendTurn: "the conversation
\* reads atomically" (:87).  Every request acts at one instant or not at all,
\* though each is several statements and may die between any two of them; the
\* two crossings the code leaves open do no more than AtomicIntake says.
Atomic == INSTANCE AtomicIntake WITH
  talk <- messages, made <- [n \in DOMAIN tasks |-> tasks[n].pictures],
  named <- answers

ActsAtOnce == Atomic!Spec

\* Every turn that was answered is in the conversation, once, and every turn
\* answered before finalize was called has its pictures in the task's first
\* message ("Carry any image IDs that were attached to user turns",
\* intakes/repository.ts:206), as long as no two turns were between appendTurn's
\* read and its UPDATE at once; that they overlap before that, while the model
\* answers, does no harm.
TurnsAreKept ==
  ~torn => /\ acked \subseteq ToSet(messages) /\ IsInjective(messages)
           /\ \A t \in ToSet(tasks) : t.due \subseteq t.pictures

\* A task described by the draft tells of every turn that was answered before
\* finalize was called, unless two turns were open at once: then the draft of
\* the slower replaces the other's, of which it has heard nothing.
BriefHasHeardTheTalk ==
  ~crossed => \A t \in ToSet(tasks) : t.by = "draft" => t.due \subseteq t.heard

\* "open -> finalized (task spawned), open -> abandoned (without committing)"
\* (db/schema/intakes.ts:28): an intake is closed one way and for good, and no
\* task is made of it later, unless an abandon and a finalize were open at
\* once.  It follows from ActsAtOnce, and no run checks it again.
ClosedForGood ==
  [][(status \in {"finalized", "abandoned"} /\ ~raced)
       => UNCHANGED <<status, taskId, tasks>>]_vars

\* "state must be open, else 422" (docs/API_GUIDE.md:918): a finalized intake
\* is not abandoned.
FinalizedIsFinal == [][status = "finalized" => status' = "finalized"]_vars
=============================================================================
