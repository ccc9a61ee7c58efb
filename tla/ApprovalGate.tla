---------------------------- MODULE ApprovalGate ----------------------------
(***************************************************************************)
(* The human gate of one task: runs that leave a draft in tasks.output and *)
(* wait, users who approve, send feedback or discard, the effects that an  *)
(* approval sets off (spawned children, a deferred tool call), and the     *)
(* watcher that mails a task left waiting.                                 *)
(*                                                                         *)
(* One action is one database statement, transaction or external call with *)
(* the code around it up to the next await.  Requests are processes: each  *)
(* reads the row, and acts on what it read in later steps.  The lease is   *)
(* TaskQueue's subject: here one run is open at a time and keeps its lock. *)
(***************************************************************************)
EXTENDS Naturals, TaskStates

CONSTANTS
  Requests,     \* API requests that may be open at once
  Watchers,     \* waiting-watcher loops, one per process with a mailer
  MaxDrafts,    \* bound: drafts the task's runs ever produce
  MaxRequests,  \* bound: requests ever opened
  MaxFaults     \* bound: statements that fail, calls that are cut off midway

ASSUME BoundsAreNaturals ==
  MaxDrafts \in Nat /\ MaxRequests \in Nat /\ MaxFaults \in Nat

VARIABLES
  status,     \* tasks.status
  kind,       \* tasks.kind
  output,     \* tasks.output, its framework keys
  assigned,   \* tasks.assigned_agent is set
  saved,      \* lastOutput in the thread's checkpoint
  runner,     \* the run of the task: where it is, what it is about to write
  req,        \* the API requests
  mailing,    \* of each watcher: the draft it is mailing about, 0 for none
  drafts, asked, faults,   \* counters of the bounds
  overlap,    \* history: two requests have been open at once
  crowded,    \* history: three requests have been open at once
  fired,      \* history: of each draft, how often its tool was invoked
  spawned,    \* history: of each draft, how often its children were inserted
  noticed,    \* history: of each draft, how often a watcher took it up
  announced   \* history: task.completed events published

resume  == <<assigned, saved>>
bounds  == <<drafts, asked, faults>>
crowd   == <<overlap, crowded>>
history == <<crowd, fired, spawned, noticed, announced>>
vars == <<status, kind, resume, output, runner, req, mailing, bounds, history>>

Drafts == 1..MaxDrafts

\* output = NULL is draft 0.  'tool' is pendingToolCall, 'plan' a non-empty
\* spawnTasks, 'spawnedAt' that stamp with a non-empty spawnedTaskIds,
\* 'notified' is notifiedWaitingAt.
Output == [draft : 0..MaxDrafts, tool : BOOLEAN, plan : BOOLEAN,
           spawnedAt : BOOLEAN, executedAt : BOOLEAN, notified : BOOLEAN]

Null == [draft |-> 0, tool |-> FALSE, plan |-> FALSE,
         spawnedAt |-> FALSE, executedAt |-> FALSE, notified |-> FALSE]

NoRun  == [pc |-> "free", to |-> "failed", patch |-> Null, writes |-> FALSE]
NoReq  == NoRun

\* pc: where the call is.  to, patch, writes: the status it is about to set,
\* the output it read or is about to write, and whether it writes an output.
Call(pcs) == [pc : pcs, to : {"todo", "waiting", "done", "failed"},
              patch : Output, writes : BOOLEAN]

RequestPcs == {"free", "status", "update", "spawn", "log",
               "executor", "invoke", "invoked"}
RunnerPcs  == {"free", "graph", "draft", "update", "log", "error"}

\* A stamp replaces what it records; only a drafted task waits or has intents.
OutputOK(o) ==
  /\ o \in Output
  /\ ~(o.plan /\ o.spawnedAt) /\ ~(o.tool /\ o.executedAt)
  /\ o.tool \/ o.plan => o.draft # 0

\* What a call carries: a request never asks for 'waiting', and the executor
\* holds an output with a tool call; a run that goes for 'waiting' has a draft.
RequestOK(c) ==
  /\ OutputOK(c.patch)
  /\ c.to # "waiting"
  /\ c.pc \in {"invoke", "invoked"} => c.patch.tool

RunOK(c) ==
  /\ c \in Call(RunnerPcs)
  /\ c.to # "todo"
  /\ OutputOK(c.patch)
  /\ c.to = "waiting" => c.writes /\ c.patch.draft # 0

RequestsOK ==
  /\ req \in [Requests -> Call(RequestPcs)]
  /\ \A q \in Requests : RequestOK(req[q])

TypeOK ==
  /\ status \in Status
  /\ kind \in {"execution", "strategy"}
  /\ OutputOK(output)
  /\ assigned \in BOOLEAN /\ OutputOK(saved)
  /\ status = "waiting" => output.draft # 0
  /\ RunOK(runner)
  /\ RequestsOK
  /\ mailing \in [Watchers -> 0..MaxDrafts]
  /\ drafts \in 0..MaxDrafts /\ asked \in Nat /\ faults \in Nat
  /\ overlap \in BOOLEAN /\ crowded \in BOOLEAN
  /\ fired \in [Drafts -> Nat] /\ spawned \in [Drafts -> Nat]
  /\ noticed \in [Drafts -> Nat] /\ announced \in Nat

Init ==
  /\ status = "todo"
  /\ kind \in {"execution", "strategy"}
  /\ output = Null
  /\ assigned \in BOOLEAN /\ saved = Null
  /\ runner = NoRun
  /\ req = [q \in Requests |-> NoReq]
  /\ mailing = [w \in Watchers |-> 0]
  /\ drafts = 0 /\ asked = 0 /\ faults = 0
  /\ overlap = FALSE /\ crowded = FALSE
  /\ fired = [n \in Drafts |-> 0]
  /\ spawned = [n \in Drafts |-> 0]
  /\ noticed = [n \in Drafts |-> 0]
  /\ announced = 0

Fault == faults < MaxFaults /\ faults' = faults + 1

\* publishTaskCompleted, on the writes that set 'done' and say so.
Publish(to) == announced' = IF to = "done" THEN announced + 1 ELSE announced

-----------------------------------------------------------------------------
(* updateTaskStatus, shared by requests and the run: a read, then an       *)
(* UPDATE that trusts it.                                                  *)

Unstamped(o) == [o EXCEPT !.notified = FALSE]

\* The output the UPDATE will carry: the caller's, if any; else, on a way out
\* of 'waiting' that drops a notifiedWaitingAt stamp, the output just read.
Patched(c, to) ==
  LET leaves == status = "waiting" /\ to # "waiting"
      strips == leaves /\ output.notified
  IN [pc |-> "update", to |-> to, writes |-> c.writes \/ strips,
      patch |-> IF c.writes THEN IF leaves THEN Unstamped(c.patch) ELSE c.patch
                ELSE IF strips THEN Unstamped(output) ELSE c.patch]

\* The UPDATE's SET for the call c.
SetStatus(c) ==
  /\ status' = c.to
  /\ output' = IF c.writes THEN c.patch ELSE output
  /\ Publish(c.to)

-----------------------------------------------------------------------------
(* The routes.                                                             *)

Opens(q) ==
  /\ req[q].pc = "free" /\ asked < MaxRequests /\ asked' = asked + 1
  /\ LET others == {p \in Requests \ {q} : req[p].pc # "free"}
     IN /\ overlap' = (overlap \/ others # {})
        /\ crowded' = (crowded \/ \E p, r \in others : p # r)

\* approve(finalize): the task read here picks the path, for good.
RouteFinalizes(q) ==
  /\ Opens(q)
  /\ status = "waiting"
  /\ req' = [req EXCEPT ![q] =
       IF kind = "strategy" THEN [NoReq EXCEPT !.pc = "spawn"]
       ELSE IF output.tool THEN [NoReq EXCEPT !.pc = "executor"]
       ELSE [NoReq EXCEPT !.pc = "status", !.to = "done"]]
  /\ UNCHANGED <<status, kind, resume, output, runner, mailing, drafts, faults,
                 fired, spawned, noticed, announced>>

\* approve without finalize, and feedback once its message is stored.
RouteRequeues(q) ==
  /\ Opens(q)
  /\ status = "waiting"
  /\ req' = [req EXCEPT ![q] = [NoReq EXCEPT !.pc = "status", !.to = "todo"]]
  /\ UNCHANGED <<status, kind, resume, output, runner, mailing, drafts, faults,
                 fired, spawned, noticed, announced>>

\* discard: no look at the task of its own.
RouteDiscards(q) ==
  /\ Opens(q)
  /\ req' = [req EXCEPT ![q] = [NoReq EXCEPT !.pc = "status", !.to = "failed"]]
  /\ UNCHANGED <<status, kind, resume, output, runner, mailing, drafts, faults,
                 fired, spawned, noticed, announced>>

\* updateTaskStatus for a request: getTask, assertTransition, the patch.
RequestReads(q) ==
  /\ req[q].pc = "status"
  /\ req' = [req EXCEPT ![q] =
       IF CanTransition(status, @.to) THEN Patched(@, @.to) ELSE NoReq]
  /\ UNCHANGED <<status, kind, resume, output, runner, mailing, bounds, history>>

\* updateTaskStatus for a request: the UPDATE, with no look at the status.
RequestWrites(q) ==
  /\ req[q].pc = "update"
  /\ SetStatus(req[q])
  /\ req' = [req EXCEPT ![q] = NoReq]
  /\ UNCHANGED <<kind, resume, runner, mailing, bounds, crowd, fired, spawned, noticed>>

\* The process serving a request dies, or the client's call is cut off.
RequestDies(q) ==
  /\ req[q].pc # "free" /\ Fault
  /\ req' = [req EXCEPT ![q] = NoReq]
  /\ UNCHANGED <<status, kind, resume, output, runner, mailing, drafts, asked, history>>

-----------------------------------------------------------------------------
(* finalizeStrategyTask.                                                   *)

\* The children exist: the call returns them.
AlreadySpawned == output.spawnedAt

\* A refusal of the transaction: not a strategy task any more (a stale route
\* read), an illegal transition, or an assignee no longer registered.
SpawnRefused(q) ==
  /\ req[q].pc = "spawn"
  /\ \/ kind # "strategy"
     \/ ~AlreadySpawned /\ ~CanTransition(status, "done")
     \/ ~AlreadySpawned /\ output.plan
  /\ req' = [req EXCEPT ![q] = NoReq]
  /\ UNCHANGED <<status, kind, resume, output, runner, mailing, bounds, history>>

\* The transaction finds the stamp: nothing to do.
SpawnRetried(q) ==
  /\ req[q].pc = "spawn" /\ kind = "strategy" /\ AlreadySpawned
  /\ req' = [req EXCEPT ![q] = NoReq]
  /\ UNCHANGED <<status, kind, resume, output, runner, mailing, bounds, history>>

\* Mutant: spawnTasks left in the output next to the stamp.
Spawns_KeepsPlan(q) ==
  /\ req[q].pc = "spawn" /\ kind = "strategy"
  /\ ~AlreadySpawned /\ CanTransition(status, "done")
  /\ status' = "done"
  /\ output' = [output EXCEPT !.spawnedAt = output.plan]
  /\ spawned' = IF output.plan THEN [spawned EXCEPT ![output.draft] = @ + 1]
                               ELSE spawned
  /\ req' = [req EXCEPT ![q] = [NoReq EXCEPT !.pc = "log", !.patch = output]]
  /\ UNCHANGED <<kind, resume, runner, mailing, bounds, crowd, fired, noticed, announced>>

\* Mutant: the children committed first, the parent's row updated afterwards.
Spawns_ParentLater(q) ==
  /\ req[q].pc = "spawn" /\ kind = "strategy"
  /\ ~AlreadySpawned /\ CanTransition(status, "done")
  /\ spawned' = IF output.plan THEN [spawned EXCEPT ![output.draft] = @ + 1]
                               ELSE spawned
  /\ req' = [req EXCEPT ![q] = [pc |-> "update", to |-> "done", writes |-> TRUE,
       patch |-> [output EXCEPT !.plan = FALSE, !.spawnedAt = output.plan]]]
  /\ UNCHANGED <<status, kind, resume, output, runner, mailing, bounds, crowd, fired,
                 noticed, announced>>

\* The transaction, under SELECT ... FOR UPDATE: children, stamp and status
\* commit together.  An empty plan leaves an empty spawnedTaskIds.
Spawns(q) ==
  /\ req[q].pc = "spawn" /\ kind = "strategy"
  /\ ~AlreadySpawned /\ CanTransition(status, "done")
  /\ status' = "done"
  /\ output' = [output EXCEPT !.plan = FALSE, !.spawnedAt = output.plan]
  /\ spawned' = IF output.plan THEN [spawned EXCEPT ![output.draft] = @ + 1]
                               ELSE spawned
  /\ req' = [req EXCEPT ![q] = [NoReq EXCEPT !.pc = "log", !.patch = output]]
  /\ UNCHANGED <<kind, resume, runner, mailing, bounds, crowd, fired, noticed, announced>>

\* The timeline entry after the commit, if there are children; its failure
\* skips the event.
SpawnLogs(q) ==
  /\ req[q].pc = "log"
  /\ req' = [req EXCEPT ![q] = NoReq]
  /\ \/ Publish("done") /\ faults' = faults
     \/ req[q].patch.plan /\ announced' = announced /\ Fault
  /\ UNCHANGED <<status, kind, resume, output, runner, mailing, drafts, asked,
                 crowd, fired, spawned, noticed>>

-----------------------------------------------------------------------------
(* executeApprovedToolCall.                                                *)

\* Its own getTask: the tool call and 'waiting' must still be there.
ExecutorReads(q) ==
  /\ req[q].pc = "executor"
  /\ req' = [req EXCEPT ![q] =
       IF output.tool /\ status = "waiting"
         THEN [NoReq EXCEPT !.pc = "invoke", !.patch = output] ELSE NoReq]
  /\ UNCHANGED <<status, kind, resume, output, runner, mailing, bounds, history>>

\* The agent cannot be built any more, or no longer exposes the tool.
ToolMissing(q) ==
  /\ req[q].pc = "invoke"
  /\ req' = [req EXCEPT ![q] = NoReq]
  /\ UNCHANGED <<status, kind, resume, output, runner, mailing, bounds, history>>

\* The external call: it succeeds, or throws and the task is to fail.
ToolInvoked(q) ==
  /\ req[q].pc = "invoke"
  /\ fired' = [fired EXCEPT ![req[q].patch.draft] = @ + 1]
  /\ \/ req' = [req EXCEPT ![q].pc = "invoked"]
     \/ req' = [req EXCEPT ![q] = [NoReq EXCEPT !.pc = "status", !.to = "failed"]]
  /\ UNCHANGED <<status, kind, resume, output, runner, mailing, bounds,
                 crowd, spawned, noticed, announced>>

\* Mutant: the output stamped and the status left to another step.
ToolRecorded_NoStatus(q) ==
  /\ req[q].pc = "invoked"
  /\ output' = [req[q].patch EXCEPT !.executedAt = TRUE]
  /\ req' = [req EXCEPT ![q] = NoReq]
  /\ UNCHANGED <<status, kind, resume, runner, mailing, bounds, history>>

\* The UPDATE by id alone, of the output as read before the call; no event.
ToolRecorded(q) ==
  /\ req[q].pc = "invoked"
  /\ status' = "done"
  /\ output' = [req[q].patch EXCEPT !.tool = FALSE, !.executedAt = TRUE]
  /\ req' = [req EXCEPT ![q] = NoReq]
  /\ UNCHANGED <<kind, resume, runner, mailing, bounds, history>>

-----------------------------------------------------------------------------
(* The run of the task.                                                    *)

\* A worker claims the row.  A run that is still open holds the lease.  With
\* an assigned agent the run drops the checkpoint's lastOutput and pins it.
RunClaims ==
  /\ status = "todo" /\ runner.pc = "free"
  /\ status' = "in_progress"
  /\ runner' = [NoRun EXCEPT !.pc = "graph"]
  /\ saved' = IF assigned THEN Null ELSE saved
  /\ UNCHANGED <<kind, assigned, output, req, mailing, bounds, history>>

\* An agent, or the supervisor with a question, leaves a draft for the gate:
\* prose, a tool call to approve, or a plan to spawn.  It is checkpointed.
GraphDrafts ==
  /\ runner.pc = "graph"
  /\ drafts < MaxDrafts /\ drafts' = drafts + 1
  /\ \E tool, plan \in BOOLEAN :
       /\ ~(tool /\ plan)
       /\ saved' = [Null EXCEPT !.draft = drafts + 1, !.tool = tool, !.plan = plan]
       /\ runner' = [pc |-> "draft", to |-> "waiting", writes |-> TRUE, patch |-> saved']
  /\ UNCHANGED <<status, kind, assigned, output, req, mailing, asked, faults, history>>

\* The supervisor, asked for lack of a pinned agent, finds the brief done: the
\* run returns what the checkpoint holds, nothing or an earlier run's draft.
GraphFinishes ==
  /\ runner.pc = "graph" /\ ~assigned
  /\ runner' = [pc |-> "draft", to |-> "done", writes |-> TRUE, patch |-> saved]
  /\ UNCHANGED <<status, kind, resume, output, req, mailing, bounds, history>>

\* An agent throws.
GraphThrows ==
  /\ runner.pc = "graph"
  /\ runner' = [NoRun EXCEPT !.pc = "error"]
  /\ UNCHANGED <<status, kind, resume, output, req, mailing, bounds, history>>

\* updateTaskStatus for the run: the read.
RunReads ==
  /\ runner.pc = "draft"
  /\ runner' = IF CanTransition(status, runner.to) THEN Patched(runner, runner.to)
               ELSE [NoRun EXCEPT !.pc = "error"]
  /\ UNCHANGED <<status, kind, resume, output, req, mailing, bounds, history>>

\* Mutant: the new output spread over the old one, whose stamp survives.
RunWrites_MergesOutput ==
  /\ runner.pc = "update"
  /\ SetStatus([runner EXCEPT !.patch.notified = runner.writes /\ output.notified])
  /\ kind' = IF runner.to # "failed" /\ runner.patch.plan THEN "strategy" ELSE kind
  /\ assigned' = (assigned \/ (runner.to # "failed" /\ runner.patch.draft # 0))
  /\ runner' = IF runner.to = "failed" THEN NoRun ELSE [runner EXCEPT !.pc = "log"]
  /\ UNCHANGED <<saved, req, mailing, bounds, crowd, fired, spawned, noticed>>

\* updateTaskStatus for the run: the UPDATE; with an outcome go its output, the
\* agent that drafted it and, if it is a plan, the kind.
RunWrites ==
  /\ runner.pc = "update"
  /\ SetStatus(runner)
  /\ kind' = IF runner.to # "failed" /\ runner.patch.plan THEN "strategy" ELSE kind
  /\ assigned' = (assigned \/ (runner.to # "failed" /\ runner.patch.draft # 0))
  /\ runner' = IF runner.to = "failed" THEN NoRun ELSE [runner EXCEPT !.pc = "log"]
  /\ UNCHANGED <<saved, req, mailing, bounds, crowd, fired, spawned, noticed>>

\* The log line after the write, of a question or of 'done', and the release.
RunLogs ==
  /\ runner.pc = "log"
  /\ \/ runner' = NoRun /\ faults' = faults
     \/ /\ runner.to = "done" \/ (~runner.patch.tool /\ ~runner.patch.plan)
        /\ runner' = [NoRun EXCEPT !.pc = "error"] /\ Fault
  /\ UNCHANGED <<status, kind, resume, output, req, mailing, drafts, asked, history>>

\* The catch block's updateTaskStatus to 'failed': its read, or its refusal.
RunFails ==
  /\ runner.pc = "error"
  /\ runner' = IF CanTransition(status, "failed") THEN Patched(runner, "failed")
                                                  ELSE NoRun
  /\ UNCHANGED <<status, kind, resume, output, req, mailing, bounds, history>>

\* A statement of the run fails: the try block hands over to the catch, from
\* which an error escapes.  Or the worker's process dies.
RunStumbles ==
  /\ runner.pc # "free" /\ Fault
  /\ \/ runner' = NoRun
     \/ /\ runner.pc \in {"draft", "update"} /\ runner.to # "failed"
        /\ runner' = [NoRun EXCEPT !.pc = "error"]
  /\ UNCHANGED <<status, kind, resume, output, req, mailing, drafts, asked, history>>

\* reclaimExpiredLocks finds the row such a run left in_progress.
RowReclaimed ==
  /\ status = "in_progress" /\ runner.pc = "free"
  /\ status' = "todo"
  /\ UNCHANGED <<kind, resume, output, runner, req, mailing, bounds, history>>

-----------------------------------------------------------------------------
(* The waiting-watcher.                                                    *)

\* Mutant: a claim that forgets the stamp it sets.
Unnotified_Any == status = "waiting"

\* The WHERE of claimWaitingTaskForNotification; the threshold has passed.
Unnotified == status = "waiting" /\ ~output.notified

\* One UPDATE merges the stamp into the output; the row is then re-read.
WatcherClaims(w) ==
  /\ mailing[w] = 0 /\ Unnotified
  /\ output' = [output EXCEPT !.notified = TRUE]
  /\ mailing' = [mailing EXCEPT ![w] = output.draft]
  /\ noticed' = [noticed EXCEPT ![output.draft] = @ + 1]
  /\ UNCHANGED <<status, kind, resume, runner, req, bounds, crowd, fired, spawned, announced>>

\* The mail is sent, or its failure logged; the stamp stays either way.
WatcherMails(w) ==
  /\ mailing[w] # 0
  /\ mailing' = [mailing EXCEPT ![w] = 0]
  /\ UNCHANGED <<status, kind, resume, output, runner, req, bounds, history>>

-----------------------------------------------------------------------------
Request(q) == \/ RouteFinalizes(q) \/ RouteRequeues(q) \/ RouteDiscards(q)
              \/ RequestReads(q) \/ RequestWrites(q) \/ RequestDies(q)
              \/ SpawnRefused(q) \/ SpawnRetried(q) \/ Spawns(q) \/ SpawnLogs(q)
              \/ ExecutorReads(q) \/ ToolMissing(q) \/ ToolInvoked(q) \/ ToolRecorded(q)

Run == \/ RunClaims \/ GraphDrafts \/ GraphFinishes \/ GraphThrows
       \/ RunReads \/ RunWrites \/ RunLogs \/ RunFails
       \/ RunStumbles \/ RowReclaimed

Watcher(w) == WatcherClaims(w) \/ WatcherMails(w)

Next == \/ \E q \in Requests : Request(q)
        \/ Run
        \/ \E w \in Watchers : Watcher(w)

Spec == Init /\ [][Next]_vars

(* The watcher's loop polls for ever; users and runs owe nothing here.     *)
FairSpec == Spec /\ \A w \in Watchers : WF_vars(Watcher(w))

-----------------------------------------------------------------------------
(* Properties.                                                             *)

\* A plan's children are inserted once, however approve is retried and raced
\* and whatever dies midway: "protects against double-spawn under network
\* jitter" (finalizeStrategyTask).  A third open request could spawn again a
\* plan that an older read has brought back.
SpawnOncePerPlan == ~crowded => \A n \in Drafts : spawned[n] <= 1

\* As long as no two requests overlap and none is cut off, a tool call is
\* invoked once, whatever the user does after: its write leaves 'waiting'.
ToolOnceUndisturbed ==
  ~overlap /\ faults = 0 => \A n \in Drafts : fired[n] <= 1

\* "if the tool already fired (network retry on /approve), just return the
\* task without re-invoking" (tool-executor.ts).
ToolFiresOnce == \A n \in Drafts : fired[n] <= 1

\* The mail about one waiting round is taken up once, by one watcher: the
\* stamp is not lost to a write that read the row before it was set.
NotifiedOncePerDraft == \A n \in Drafts : noticed[n] <= 1

\* What keeps it so.  Draft numbers are never reused; the run's next draft is
\* newer than the row and than whatever a request still holds; and a round
\* shown unstamped has not been taken up.
Writing == runner.pc \in {"draft", "update"} /\ runner.to = "waiting"

NoticeInv ==
  /\ NotifiedOncePerDraft
  /\ \A n \in Drafts : n > drafts => noticed[n] = 0
  /\ output.draft <= drafts /\ runner.patch.draft <= drafts
  /\ saved.draft <= drafts
  /\ \A q \in Requests : req[q].patch.draft <= drafts
  /\ status = "waiting" /\ ~output.notified => noticed[output.draft] = 0
  /\ Writing => /\ noticed[runner.patch.draft] = 0
                /\ output.draft < runner.patch.draft
                /\ \A q \in Requests : req[q].patch.draft < runner.patch.draft

\* A run never ends a task with a draft nobody has seen: "otherwise the HITL
\* pause never reaches the runner and the task races straight to `done`"
\* (supervisor.ts).
DraftsAreShown ==
  [][(RunWrites /\ status' = "done") => output'.draft = 0]_vars

\* Every waiting round is taken up by a watcher unless it ends first: a stamp
\* left from an earlier round would silence this one.
WaitingIsNotified ==
  \A n \in Drafts : (status = "waiting" /\ output.draft = n)
                      ~> (noticed[n] > 0 \/ status # "waiting" \/ output.draft # n)

\* "Fires once per terminal 'done' transition (... approve (finalize=true))"
\* (event-bus.ts): once nothing is under way, a done task has been announced.
DoneIsAnnounced ==
  (status = "done" /\ runner.pc = "free" /\ \A q \in Requests : req[q].pc = "free")
    => announced > 0
=============================================================================
