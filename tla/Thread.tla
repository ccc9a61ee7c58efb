------------------------------- MODULE Thread -------------------------------
(***************************************************************************)
(* The conversation of one task: the user's messages in the messages       *)
(* table, the LangGraph thread that the runs checkpoint, and the graph     *)
(* (supervisor, agents, report-writer) that a run drives until the human   *)
(* gate.                                                                   *)
(*                                                                         *)
(* A text stands for a message of the user; what agents say is abstracted  *)
(* to who said it in which run.  The lease is TaskQueue's subject and the  *)
(* effects of an approval ApprovalGate's: here one run is open at a time   *)
(* and an approval only closes the task.                                   *)
(***************************************************************************)
EXTENDS Naturals, Sequences, SequencesExt, TaskStates

CONSTANTS
  Agents,          \* registered agents
  Interviewers,    \* those whose drafts are questions with a report of their own
  Requests,        \* API requests that may be open at once
  Replies,         \* texts a user may send as feedback
  Brief,           \* the text of the task's brief
  Synthesized,     \* the text /continue makes of the brief and a prior report
  Nobody,          \* no agent
  RecursionLimit,  \* supersteps a graph may take in one run; LangGraph's 25,
                   \* or any number beyond the four of the longest run
  MaxReplies,      \* bound: feedback sent
  MaxRuns,         \* bound: runs of the task
  MaxFaults        \* bound: calls that throw, runs that die, agents disabled

ASSUME ThreadBounds ==
  /\ RecursionLimit \in Nat /\ MaxReplies \in Nat
  /\ MaxRuns \in Nat /\ MaxFaults \in Nat
ASSUME ThreadNames ==
  /\ Interviewers \subseteq Agents
  /\ Nobody \notin Agents /\ "supervisor" \notin Agents /\ Nobody # "supervisor"
  /\ Brief # Synthesized /\ Nobody \notin Replies

VARIABLES
  status,    \* tasks.status
  assigned,  \* tasks.assigned_agent
  output,    \* tasks.output: whose, and which run its report tells of
  stored,    \* the user's rows of the messages table, oldest first
  thread,    \* the checkpoint
  enabled,   \* agents the tenant has enabled
  posting,   \* the message the request that made the task has still to store
  req,       \* the API requests
  run,       \* the run of the task
  replies, runs, faults,   \* counters of the bounds
  author,    \* history: the agent whose draft the user was shown last
  acked,     \* history: feedback whose request has been answered
  overlap,   \* history: two requests have been open at once
  stuck      \* history: a run has used up its supersteps
row    == <<status, assigned, output>>
bounds == <<replies, runs, faults>>
history == <<author, acked, overlap, stuck>>
vars == <<row, stored, thread, enabled, posting, req, run, bounds, history>>

Speakers == Agents \cup {"supervisor", Nobody}
Texts == Replies \cup {Brief, Synthesized}

\* lastOutput, and what the row keeps of it.  run, report: the runs that made
\* the output and that its artifact.report tells of, 0 for none.
Output == [by : Speakers, run : 0..MaxRuns, report : 0..MaxRuns]
NoOutput == [by |-> Nobody, run |-> 0, report |-> 0]

\* seeded: a checkpoint exists.  structured: lastStructuredOutput.
Thread == [seeded : BOOLEAN, humans : Seq(Texts), pinned : Speakers,
           last : Output, structured : Output, awaiting : BOOLEAN]
NoThread == [seeded |-> FALSE, humans |-> <<>>, pinned |-> Nobody,
             last |-> NoOutput, structured |-> NoOutput, awaiting |-> FALSE]

\* nodes: the agents of the graph it built.  task: the row's assigned agent
\* when it was claimed.  due: history, what the user had sent by then.
\* drafted: history, an agent has left a draft in this run.
Run == [pc : {"free", "seed", "supervisor", "agent", "report", "read", "write",
              "error", "fail"},
        nodes : SUBSET Agents, task : Speakers, next : Speakers,
        steps : 0..RecursionLimit, due : SUBSET Texts, drafted : BOOLEAN]
NoRun == [pc |-> "free", nodes |-> {}, task |-> Nobody, next |-> Nobody,
          steps |-> 0, due |-> {}, drafted |-> FALSE]

Request == [pc : {"free", "append", "read", "write"},
            to : {"todo", "done", "failed"}, text : Replies \cup {Nobody}]
NoReq == [pc |-> "free", to |-> "todo", text |-> Nobody]

TypeOK ==
  /\ status \in Status /\ assigned \in Speakers /\ output \in Output
  /\ stored \in Seq(Texts) /\ thread \in Thread
  /\ enabled \in SUBSET Agents /\ posting \in Seq(Texts)
  /\ req \in [Requests -> Request] /\ run \in Run
  /\ run.pc = "agent" => run.next \in run.nodes
  /\ replies \in Nat /\ runs \in 0..MaxRuns /\ faults \in Nat
  /\ author \in Speakers /\ acked \in SUBSET Texts
  /\ overlap \in BOOLEAN /\ stuck \in BOOLEAN

\* The row is inserted.  A spawned child has an agent and no message; an
\* intake's message came in the same transaction; a post or a continuation
\* stores its message next.
Init ==
  /\ status = "todo"
  /\ assigned \in Agents \cup {Nobody}
  /\ \/ assigned # Nobody /\ stored = <<>> /\ posting = <<>>
     \/ stored = <<Brief>> /\ posting = <<>>
     \/ stored = <<>> /\ posting \in {<<Brief>>, <<Synthesized>>}
  /\ output = NoOutput
  /\ thread = NoThread
  /\ enabled = Agents
  /\ req = [q \in Requests |-> NoReq]
  /\ run = NoRun
  /\ replies = 0 /\ runs = 0 /\ faults = 0
  /\ author = Nobody /\ acked = {} /\ overlap = FALSE /\ stuck = FALSE

Fault == faults < MaxFaults /\ faults' = faults + 1

-----------------------------------------------------------------------------
(* The routes.                                                             *)

\* POST /tasks and /continue: the message follows the row and its signal.
PostAppends ==
  /\ posting # <<>>
  /\ stored' = stored \o posting
  /\ posting' = <<>>
  /\ UNCHANGED <<row, thread, enabled, req, run, bounds, history>>

PostDies ==
  /\ posting # <<>> /\ Fault
  /\ posting' = <<>>
  /\ UNCHANGED <<row, stored, thread, enabled, req, run, replies, runs,
                 history>>

Opens(q, r) ==
  /\ req[q].pc = "free"
  /\ req' = [req EXCEPT ![q] = r]
  /\ overlap' = (overlap \/ \E p \in Requests \ {q} : req[p].pc # "free")

\* feedback: the route has seen 'waiting'.
FeedbackOpens(q, t) ==
  /\ status = "waiting" /\ replies < MaxReplies /\ replies' = replies + 1
  /\ Opens(q, [NoReq EXCEPT !.pc = "append", !.text = t])
  /\ UNCHANGED <<row, stored, thread, enabled, posting, run, runs, faults,
                 author, acked, stuck>>

\* Mutant: appendMessage not awaited.
FeedbackAppends_Unawaited(q) ==
  /\ req[q].pc = "append"
  /\ posting' = Append(posting, req[q].text)
  /\ req' = [req EXCEPT ![q].pc = "read"]
  /\ UNCHANGED <<row, stored, thread, enabled, run, bounds, history>>

\* appendMessage, before the status changes.
FeedbackAppends(q) ==
  /\ req[q].pc = "append"
  /\ stored' = Append(stored, req[q].text)
  /\ req' = [req EXCEPT ![q].pc = "read"]
  /\ UNCHANGED <<row, thread, enabled, posting, run, bounds, history>>

\* approve, with finalize or without, having seen 'waiting'; discard, which
\* looks at nothing before updateTaskStatus does.
Decides(q) ==
  /\ \E to \in {"todo", "done", "failed"} :
       /\ to # "failed" => status = "waiting"
       /\ CanTransition(status, to)
       /\ Opens(q, [NoReq EXCEPT !.pc = "write", !.to = to])
  /\ UNCHANGED <<row, stored, thread, enabled, posting, run, bounds,
                 author, acked, stuck>>

\* updateTaskStatus for feedback: the read and the check of the transition.
RequestReads(q) ==
  /\ req[q].pc = "read"
  /\ req' = [req EXCEPT ![q] =
       IF CanTransition(status, @.to) THEN [@ EXCEPT !.pc = "write"] ELSE NoReq]
  /\ UNCHANGED <<row, stored, thread, enabled, posting, run, bounds, history>>

\* updateTaskStatus for a request: the UPDATE.  Feedback is answered with it.
RequestWrites(q) ==
  /\ req[q].pc = "write"
  /\ status' = req[q].to
  /\ acked' = acked \cup ({req[q].text} \cap Replies)
  /\ req' = [req EXCEPT ![q] = NoReq]
  /\ UNCHANGED <<assigned, output, stored, thread, enabled, posting, run,
                 bounds, author, overlap, stuck>>

\* The tenant deactivates an agent.
Disable(a) ==
  /\ a \in enabled /\ Fault
  /\ enabled' = enabled \ {a}
  /\ UNCHANGED <<row, stored, thread, posting, req, run, replies, runs,
                 history>>

-----------------------------------------------------------------------------
(* A run takes the task up.                                                *)

Rest == UNCHANGED <<stored, enabled, posting, req, replies>>

\* claimNextTask, and buildGraph with the agents enabled now.
RunClaims ==
  /\ status = "todo" /\ run.pc = "free" /\ runs < MaxRuns
  /\ status' = "in_progress" /\ runs' = runs + 1
  /\ run' = [NoRun EXCEPT !.pc = "seed", !.nodes = enabled, !.task = assigned,
                          !.due = ToSet(stored)]
  /\ UNCHANGED <<assigned, output, thread, faults, history>> /\ Rest

\* Mutant: as many of the newest messages as the thread is short of.
NewTexts_CountDiff ==
  IF Len(stored) <= Len(thread.humans) THEN <<>>
  ELSE SubSeq(stored, Len(thread.humans) + 1, Len(stored))

\* What of s is not in `seen`, in order.
Unseen(s, seen) ==
  LET upTo[n \in 0..Len(s)] ==
        IF n = 0 THEN <<>>
        ELSE IF s[n] \in seen THEN upTo[n - 1] ELSE Append(upTo[n - 1], s[n])
  IN upTo[Len(s)]

\* The user messages whose content the thread does not hold yet.
NewTexts == Unseen(stored, ToSet(thread.humans))

\* A thread without a checkpoint starts with the first message of the user,
\* or with the brief on the row; the agent of the row is pinned.
Seeded ==
  [NoThread EXCEPT !.seeded = TRUE, !.pinned = run.task,
                   !.humans = <<IF stored = <<>> THEN Brief ELSE Head(stored)>>]

\* A thread that exists gets what it has not seen, an open gate and, if the
\* row has an agent, that agent pinned and no last output.
Resumed ==
  [thread EXCEPT !.humans = @ \o NewTexts, !.awaiting = FALSE,
                 !.pinned = IF run.task = Nobody THEN @ ELSE run.task,
                 !.last   = IF run.task = Nobody THEN @ ELSE NoOutput]

RunSeeds ==
  /\ run.pc = "seed"
  /\ thread' = IF thread.seeded THEN Resumed ELSE Seeded
  /\ run' = [run EXCEPT !.pc = "supervisor"]
  /\ UNCHANGED <<row, runs, faults, history>> /\ Rest

-----------------------------------------------------------------------------
(* The graph.                                                              *)

\* Mutant: no limit on the supersteps.
Step_Unlimited(r) == run' = r

\* One superstep; beyond the limit the graph throws.
Step(r) ==
  run' = IF run.steps = RecursionLimit THEN [run EXCEPT !.pc = "error"]
         ELSE [r EXCEPT !.steps = @ + 1]

\* Mutant: the chosen agent taken for a node.
GoTo_Unchecked(a) ==
  Step([run EXCEPT !.next = a,
          !.pc = IF a = "supervisor" THEN "supervisor" ELSE "agent"])

\* The conditional edge after the supervisor: a name that is no node throws,
\* and the supervisor is a node.
GoTo(a) ==
  Step([run EXCEPT !.next = a,
          !.pc = CASE a \in run.nodes -> "agent"
                   [] a = "supervisor" -> "supervisor"
                   [] OTHER -> "error"])

Supervises == run.pc = "supervisor"
Exhausted == stuck' = (stuck \/ run.steps = RecursionLimit)
InGraph == UNCHANGED <<row, runs, author, acked, overlap>> /\ Rest

\* Mutant: a draft at the gate does not stop the supervisor.
AtGate_Ignored == FALSE

AtGate == thread.awaiting

SupervisorStops ==
  /\ Supervises /\ AtGate
  /\ Step([run EXCEPT !.pc = "report"])
  /\ Exhausted
  /\ UNCHANGED <<thread, faults>> /\ InGraph

Pinned == ~AtGate /\ thread.pinned # Nobody /\ thread.last.by = Nobody

SupervisorFollowsPin ==
  /\ Supervises /\ Pinned
  /\ GoTo(thread.pinned)
  /\ Exhausted
  /\ UNCHANGED <<thread, faults>> /\ InGraph

Asks == Supervises /\ ~AtGate /\ ~Pinned

\* The model routes, to an agent enabled now or to a name it made up.
SupervisorRoutes ==
  /\ Asks
  /\ \/ \E a \in enabled : GoTo(a) /\ faults' = faults
     \/ GoTo(Nobody) /\ Fault
  /\ Exhausted
  /\ UNCHANGED thread /\ InGraph

\* It asks the user: an output of its own, with a report, waits at the gate.
SupervisorClarifies ==
  /\ Asks
  /\ thread' = [thread EXCEPT !.awaiting = TRUE,
                  !.last = [by |-> "supervisor", run |-> runs, report |-> runs]]
  /\ Step([run EXCEPT !.pc = "report"])
  /\ Exhausted
  /\ UNCHANGED faults /\ InGraph

\* It finds nothing left to do.
SupervisorFinishes ==
  /\ Asks
  /\ thread' = [thread EXCEPT !.awaiting = FALSE]
  /\ Step([run EXCEPT !.pc = "report"])
  /\ Exhausted
  /\ UNCHANGED faults /\ InGraph

Draft(a) ==
  [by |-> a, run |-> runs, report |-> IF a \in Interviewers THEN runs ELSE 0]

\* Mutant: an agent that returns no structured output.
AgentDrafts_Unstructured ==
  /\ run.pc = "agent"
  /\ thread' = [thread EXCEPT !.awaiting = TRUE, !.last = Draft(run.next)]
  /\ Step([run EXCEPT !.pc = "supervisor", !.drafted = TRUE])
  /\ Exhausted
  /\ UNCHANGED faults /\ InGraph

\* Every registered agent waits for approval and channels what it drafted.
AgentDrafts ==
  /\ run.pc = "agent"
  /\ thread' = [thread EXCEPT !.awaiting = TRUE, !.last = Draft(run.next),
                              !.structured = Draft(run.next)]
  /\ Step([run EXCEPT !.pc = "supervisor", !.drafted = TRUE])
  /\ Exhausted
  /\ UNCHANGED faults /\ InGraph

\* A report is written of the structured output the thread holds, whoever
\* the last output is by, except of an interviewer's questions.
Reports ==
  /\ run.pc = "report"
  /\ thread' =
       IF \/ thread.structured.by \in Interviewers \cup {Nobody}
          \/ thread.last.by = Nobody
       THEN thread
       ELSE [thread EXCEPT !.last.report = thread.structured.run]
  /\ Step([run EXCEPT !.pc = "read"])
  /\ Exhausted
  /\ UNCHANGED faults /\ InGraph

\* A node throws: the model, the registry, the database or the agent itself.
GraphThrows ==
  /\ run.pc \in {"supervisor", "agent"} /\ Fault
  /\ run' = [run EXCEPT !.pc = "error"]
  /\ UNCHANGED <<thread, stuck>> /\ InGraph

-----------------------------------------------------------------------------
(* The run writes its outcome.                                             *)

To == IF thread.awaiting THEN "waiting" ELSE "done"

\* updateTaskStatus for the run: the read and the check.
RunReads ==
  /\ run.pc = "read"
  /\ run' = [run EXCEPT !.pc = IF CanTransition(status, To) THEN "write" ELSE "error"]
  /\ UNCHANGED <<row, thread, runs, faults, history>> /\ Rest

\* Mutant: the row keeps the agent it was created with.
Stamped_AsCreated == assigned

\* The agent the row names after the run: the one whose output it stores, the
\* supervisor included.
Stamped == IF thread.last.by = Nobody THEN assigned ELSE thread.last.by

\* updateTaskStatus for the run: the UPDATE.
RunWrites ==
  /\ run.pc = "write"
  /\ status' = To
  /\ output' = thread.last
  /\ assigned' = Stamped
  /\ author' = IF To = "waiting" THEN thread.last.by ELSE author
  /\ run' = NoRun
  /\ UNCHANGED <<thread, runs, faults, acked, overlap, stuck>> /\ Rest

\* The catch block: read, check and UPDATE to 'failed'.
RunErrs ==
  /\ run.pc = "error"
  /\ run' = IF CanTransition(status, "failed") THEN [run EXCEPT !.pc = "fail"]
                                               ELSE NoRun
  /\ UNCHANGED <<row, thread, runs, faults, history>> /\ Rest

RunFails ==
  /\ run.pc = "fail"
  /\ status' = "failed"
  /\ run' = NoRun
  /\ UNCHANGED <<assigned, output, thread, runs, faults, history>> /\ Rest

\* The process dies; what it checkpointed stays.
RunDies ==
  /\ run.pc # "free" /\ Fault
  /\ run' = NoRun
  /\ UNCHANGED <<row, thread, runs, history>> /\ Rest

\* reclaimExpiredLocks finds the row such a run left in_progress.
RowReclaimed ==
  /\ status = "in_progress" /\ run.pc = "free"
  /\ status' = "todo"
  /\ UNCHANGED <<assigned, output, thread, run, runs, faults, history>> /\ Rest

Route ==
  \/ PostAppends \/ PostDies
  \/ \E q \in Requests :
       \/ \E t \in Replies : FeedbackOpens(q, t)
       \/ FeedbackAppends(q) \/ Decides(q)
       \/ RequestReads(q) \/ RequestWrites(q)
  \/ \E a \in Agents : Disable(a)

GraphStep ==
  \/ SupervisorStops \/ SupervisorFollowsPin \/ SupervisorRoutes
  \/ SupervisorClarifies \/ SupervisorFinishes
  \/ AgentDrafts \/ Reports \/ GraphThrows

RunStep ==
  \/ RunSeeds \/ GraphStep
  \/ RunReads \/ RunWrites \/ RunErrs \/ RunFails

Next == Route \/ RunClaims \/ RunStep \/ RunDies \/ RowReclaimed

Spec == Init /\ [][Next]_vars

\* The promises a run awaits are settled.
FairSpec == Spec /\ WF_vars(RunStep)

-----------------------------------------------------------------------------
(* Properties.                                                             *)

\* An agent drafts with everything in its thread that the user had sent when
\* the run was claimed: the diff "robust across both cases" (runner.ts:134),
\* a task whose brief is a message and a child whose brief is on the row.
AgentHasReadTheUser ==
  run.pc = "agent" => run.due \subseteq ToSet(thread.humans)

\* Feedback that was answered with success is in the thread of the draft the
\* user is shown next, when requests do not overlap.
FeedbackIsHeard ==
  status = "waiting" /\ run.pc = "free" /\ ~overlap
    => acked \subseteq ToSet(thread.humans)

\* A draft that is sent back comes back to the agent that wrote it, whoever
\* the supervisor would choose, while nothing fails.
FeedbackReturnsToAuthor ==
  run.pc = "agent" /\ faults = 0 /\ author \in Agents => run.next = author

\* The report the boss reads tells of the output it comes with, while nothing
\* fails: not of an older draft whose structured output the thread still holds.
ReportTellsOfOutput ==
  faults = 0 /\ output.by # Nobody => output.report = output.run

\* The same whatever fails.
ReportIsCurrent == output.by # Nobody => output.report = output.run

\* A run in which an agent drafted does not finish the task: it stops at the
\* gate ("otherwise the HITL pause never reaches the runner and the task
\* races straight to done", supervisor.ts).
DraftStopsAtGate ==
  [][status # "done" /\ status' = "done" /\ run.pc = "write" /\ run'.pc = "free"
       => ~run.drafted]_vars

\* A run ends, whatever the supervisor chooses.
RunComesToRest == []<>(run.pc = "free")

\* "that conversation happens *inside* the task (use /feedback to reply)"
\* (routes/tasks.ts:62): a task whose user has replied never circles until the
\* graph gives up.
ReplyIsTakenUp == acked # {} => ~stuck
=============================================================================
