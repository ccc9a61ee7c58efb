# AutoOps: a TLA+ model

AutoOps runs "AI employees": a user describes a task, a worker process picks the task up, an
orchestrator graph lets an agent work on it, the result waits for a human, and an approval
sets off what the agent only proposed (child tasks, a call to an external service). The
modules in this directory model that life cycle. TLC checks them on small instances, TLAPS
proves the theorems for every value of the constants.

Paths below are relative to `src/`. Run a check with
`tlc -config gate.cfg MCApprovalGate`, a proof with `tlapm ApprovalGateProofs.tla`. The map
from definitions to source lines is in `PROJECT.json`.

## 1. The system

### Components, their state and their operations

| Component | State it keeps | Operations | Correct when |
|---|---|---|---|
| Status machine, `tasks/state-machine.ts` | none | `canTransition`, `assertTransition` | `done` is terminal; no illegal status is ever written |
| Task table as a queue, `tasks/repository.ts` | row: `status`, `kind`, `locked_by`, `locked_until`, `archived_at`, `scheduled_at`, `output`, `assigned_agent` | create, archive, reschedule, claim, extend and release a lease, reclaim, `updateTaskStatus`, `finalizeStrategyTask`, `claimWaitingTaskForNotification` | one run per task; an owner that lost its lease writes nothing; no lock leaks; due tasks are served |
| Runner, `tasks/runner.ts` | `lockLost`, the heartbeat timer; the thread's checkpoint | `runTaskThroughGraph`: seed or resume, run the graph, write the outcome, catch, release | the gate reaches the user; a run ends in exactly one outcome; the lock does not outlive the run |
| Worker, `tasks/worker.ts` | `inflight`, `timer`, `stopped` | `start`, `stop`, `kick`, `tick` | the poll loop survives errors; capacity is bounded; `stop()` ends it |
| Task routes, `api/routes/tasks.ts` | none; each request holds the row it read | create, continue, approve, feedback, discard, archive, reschedule | what an approval sets off happens once; no draft is lost |
| Approved tool executor, `orchestrator/tool-executor.ts` | none; holds the row it read | `executeApprovedToolCall` | the external tool is called once per approval |
| Waiting watcher, `notifications/waiting-watcher.ts` | `stopped`, its timer; the stamp `output.notifiedWaitingAt` | poll, claim, mail | one mail per waiting round, and each round gets one |
| Completion dispatcher, `notifications/dispatcher.ts` | the subscription | on `task.completed`: resolve the recipient, mail | one mail per completed task |
| Process lifecycle, `index.ts` | | start, SIGTERM shutdown | the parts stop in an order that loses nothing |
| Orchestrator graph, `orchestrator/` | checkpointed graph state: `messages`, `nextAgent`, `pinnedAgent`, `awaitingApproval`, `lastOutput`, `lastStructuredOutput` | supervisor, agent nodes, report writer | a resumed run continues the right agent with the right messages |
| Agent tool loop, `agents/lib/tool-loop.ts` | messages of one invocation, hop count | model turn, tool calls, nudge, submit | it ends; each call is answered; research precedes the deliverable |
| Built-in agents, `agents/builtin/` | none; an agent reads the row's previous output | refuse or start, loop, deliver a draft | a draft spawns only for workers the tenant has |
| Agent registry, `agents/registry.ts`, `agents/activation.ts` | `agent_configs` | activate, deactivate, list | an active agent has its credentials |
| Credentials, `api/routes/credentials.ts` | `credentials` | put, delete | one row per provider and label |
| Intakes, `intakes/` | `task_intakes`: status, conversation, draft | create, turn, finalize, abandon | an intake yields at most one task; no turn is lost |
| Event bus and SSE, `events/` | listeners; per stream: what was replayed | publish, subscribe, replay | each log line reaches a reader once |
| Messages, `tasks/messages.ts`, `tasks/continue.ts` | `messages` | append, list | a run sees the brief it was started for |
| SERP cache, `integrations/serper/cache.ts` | `serp_cache` | lookup, upsert | an expired row is not served |
| Notification settings, `api/routes/me.ts` | one JSON column per member | read, merge, write | an opt-out is kept |
| Accounts, uploads, configuration, HTTP clients | single rows; none | | see section 8 |

### How they interact

- The `tasks` row is the only thing workers, runs, requests and watchers share. A statement
  is atomic; a function with two statements is not. Of the functions that write it only
  `finalizeStrategyTask` opens a transaction.
- `updateTaskStatus` is the shared writer: it reads the row, checks the transition, prepares
  the output and then UPDATEs by id. Runs add an owner guard to the UPDATE, requests do not.
- A route signals `task.ready` on the in-process bus, which makes the worker tick at once;
  everything else is found by polling.
- A write of `done` through `updateTaskStatus` or `finalizeStrategyTask` publishes
  `task.completed`, from which the completion mail follows; the one of `executeApprovedToolCall`
  does not.
- A run leaves its agent's framework intents (`spawnTasks`, `pendingToolCall`) in
  `tasks.output`; `approve` reads them there. The watcher keeps its stamp in the same column.
- `messages` holds the user's words, the checkpoint what a run has read of them. A run adds the
  difference when it resumes; the route that stores a message and the run that reads it meet
  only there.
- An agent's configuration names a credential by label; the row is looked up when a tool is
  called, and what lies between is not locked.
- Log lines go to a table and to the bus. A stream joins the two: first what is stored, then
  what is published. The table's lines are stamped by the database's clock, the published ones
  by the process's, and a client comes back with whichever it saw last.
- A process may die anywhere. Leases make the rows of a dead worker claimable again, and the
  checkpoint of the graph survives.

### What is hard

Status checks on a row that may change before the write (requests, runs, watcher and
executor); leases that lapse under a live run; a claim whose re-select fails; crashes between
the external call and its record, between the checkpoint and the row, and between a stamp and
its mail; requests that read a conversation and write it back; ticks that overlap
because a tick awaits the database; a JSON column that several writers replace whole; events
that live in one process. `PROJECT.json` lists each with its line under "hazards".

## 2. Plan

| # | Module | Models | State |
|---|---|---|---|
| 1 | `TaskStates` | the transition table | checked |
| 2 | `TaskQueue`, `TaskQueueProofs` | the row as a queue: leases, claims, runs, stale requests, crashes; implements `TaskLifecycle` | checked, safety and refinement proved |
| 3 | `WorkerPool`, `EventBusProofs` | timers, ticks and capacity of one worker | checked, safety proved |
| 4 | `ApprovalGate`, `ApprovalGateProofs` | drafts, approval, spawn, tool call, mail stamp | checked, safety proved |
| 5 | `Thread`, `ThreadProofs` | messages, checkpoint, supervisor, agents, gate, resume | checked, safety proved |
| 6 | `AgentTurn` | abstract: what an agent's turns promise the task | checked, proved |
| 7 | `ToolLoop`, `ToolLoopProofs` | the tool loop and every built-in agent around it; implements `AgentTurn` | checked, safety and refinement proved |
| 8 | `AtomicIntake`, `Intake`, `IntakeProofs` | abstract: requests that act at one instant; conversation, turns, finalize, abandon, which implement it | checked, safety and refinement proved |
| 9 | `LogStream`, `EventBusProofs` | replay, subscription, reconnect, the cut at 500 rows | checked, safety proved |
| 10 | `Hiring`, `HiringProofs` | activation, credentials, the lookup of a tool call | checked, proved |
| 11 | `Notify`, `NotifyProofs` | dispatcher, watcher, settings, shutdown | checked, safety proved |
| 12 | `TaskLifecycle` | abstract: a task without locks, leases and workers | checked, proved |

Left after these: an abstract gate between `TaskLifecycle` and `ApprovalGate`, whose requests
overlap in ways only its histories tell apart; what is proved of it is stated on those.

## 3. The modules and the code

**TaskStates** is `state-machine.ts`: `Allowed` is its table, `CanTransition` its test.

**TaskQueue** has one variable per column of the row that the queue looks at. `lease` is
`locked_until` against the clock: NULL, in the future, or past. An action is one statement
with the code up to the next await. A request is `RouteChecksWaiting` or `RouteDiscards`
(what the route looks at), `RequestReads` (the read and check of `updateTaskStatus`) and
`RequestWrites` (its UPDATE, by id alone). A worker reclaims and claims; `ClaimLosesRow` is
`claimNextTask` failing between its two statements. A run goes `graph`, `update`, `log`,
`release`, with `error` for the catch block: `AfterRead` is the read of `updateTaskStatus`
with its two checks, `OwnerGuard` the condition in its UPDATE, `RunReleases` the finally
block. `Heartbeat` is the 30 s interval. `LeaseLapses` is the clock on a row nobody
heartbeats; `LeaseStalls` the same under a live run that could not heartbeat for 5 minutes.
A crashed worker never comes back; a restarted process is another worker, as in the code,
where the id carries a fresh UUID. Claim order (`created_at`) is left open.
`supersededBy` is a history variable.

**TaskLifecycle** is abstract: users create, archive, put off and decide, runs take up, conclude
and leave a task, and nothing else moves its status. In `TaskQueue`,
`Lifecycle == INSTANCE TaskLifecycle WITH ...` keeps of a run its task and the status it is
about to write (`Work`), of a request the same (`Wish`), and of the leases whether one has
lapsed under a live run. Locks, heartbeats, owner guards, the paths through the catch block and
the workers become stutters. `KeepsLifecycle` is its specification, checked by `queue_safety`
and proved (`LifecycleKept`).

**WorkerPool** is one `TaskWorker`. JavaScript runs to the next await, so each action is what
runs between two awaits of a tick. `timers` counts timeouts that are set; `handle` is what
`this.timer` holds, which stays on a timeout that has fired: `scheduleNext` overwrites it,
`clearTimeout` of a fired timeout does nothing. The table is reduced to the number of
claimable rows.

**ApprovalGate** is one task with its output. `output` has the framework keys of
`tasks/output.ts`; agents' payloads are a draft number. `RouteFinalizes`, `RouteRequeues` and
`RouteDiscards` are the routes up to their first call into the repository; a request keeps
the path the row it read chose. `Patched` and `SetStatus` are the two halves of
`updateTaskStatus`, shared by requests and runs: the first prepares the output (and strips
`notifiedWaitingAt` from a row read earlier), the second writes it. `Spawns` is the
transaction of `finalizeStrategyTask`. `ExecutorReads`, `ToolInvoked` and `ToolRecorded` are
the executor. The run keeps `assigned` (the row's agent) and `saved` (`lastOutput` in the
checkpoint): a resumed run drops `saved` only if an agent is assigned. `WatcherClaims` is the
UPDATE of `claimWaitingTaskForNotification`. The lease is left to `TaskQueue`: here one run is
open at a time. Whether the task is archived is left out too, so the model has the runs of
an archived task that the code would not start. `overlap`, `crowded`, `fired`, `spawned`,
`noticed` and `announced` are history.

**Thread** is the conversation of one task. `stored` is the user's rows in `messages`, `thread`
the LangGraph checkpoint, `run` the graph of `orchestrator/graph.ts` as one run drives it: the
supervisor stops at the gate, follows the pin, or lets the model route, ask or end; an agent
drafts; the report writer rewrites the report; beyond `RecursionLimit` supersteps the graph
throws. `Init` is any of the ways a task comes into being, with `posting` for a message whose
request has signalled the worker first. `Seeded` and `Resumed` are the two branches of the
runner's input, `NewTexts` its diff by content. `author`, `acked`, `overlap` and `stuck` are
history. Errors of the graph, deaths between checkpoint and row and the deactivation of an
agent are actions that use up a fault.

**AgentTurn** is abstract: an idle turn begins on terms (a budget of model calls, research
required, workers available), asks and looks, and ends in one draft or an error. **ToolLoop**
is the code that keeps this: `runToolLoop` with its hop counter, nudge, early and invalid
submits and unknown tools, and around it what each of the built-in agents does before and
after. The model answers with any message of `Messages`. The refinement is
`Promise == INSTANCE AgentTurn WITH ...` with `hop` and `calls` for the counters and `Phase`
and `Terms` computed from the state; `KeepsPromise` is its specification, which one run
checks and `PromiseKept` proves. `MaxHops` has the real numbers of the code.

**Intake** is one intake row under requests that add a turn, finalize or abandon. A turn is a
number; a draft is the set of turns its author had heard. `TurnThinks` is the model's answer,
`AppendReads` and `AppendWrites` the two statements of `appendTurn`; `FinalizeLocks` to
`FinalizeCommits` the transaction with its row lock; `AbandonReads` and `AbandonWrites` the two
of `abandonIntake`. `RequestDies` is a request cut off anywhere. **AtomicIntake** is abstract: a
turn, a finalize, an abandon each act at one instant, except for two crossings the code does not
arbitrate (`torn`, `raced`), whose effects it bounds. `Atomic == INSTANCE AtomicIntake WITH ...`
maps the conversation, the tasks with the turns they were made of, and the answers;
`ActsAtOnce` is its specification.

**LogStream** is the log of one task or tenant and one SSE client. There are two clocks.
`created_at` is the database's `now()` at the INSERT (`AppendSends`), in microseconds; the id of
a live event is `new Date()` of the process when it publishes (`AppendPublishes`), in
milliseconds, and may be up to `Skew` of them away from the last reading of the database's
(`Stamps`), on either side and differently for each event. What passes through a JavaScript Date
is cut: `Fine` readings make a millisecond, `Ms` and `Reading` are the conversions. A replay's
rows carry their `created_at`, so a client's position may come from either clock. A connection is `opened`,
`queried` (the replay is read, the subscription not made) and `live`; what is published in
between is not for it. The client keeps `Last-Event-ID`, loses it by a reload, and may move
the tenant's cursor. `atRisk` collects the lines the code may lose for good, each at the step
that costs it: `Overtaken` by an event while their append was open, published between query and
subscription, `LeftOut` of a replay that was full once a later line comes live, or stamped no
later than an id given out before. `NothingIsSkipped` is that every other line is shown in turn.

**Hiring** is one agent, one provider. A secret is the number of the PUT that brought it, so
that "older" means something. `PutReads` chooses a row to overwrite, `PutUpdates` and
`PutInserts` write; `Taken` is the unique index, for which NULL labels are distinct.
`ActivateChecks` and `ActivateWrites` are `activateAgent`'s checklist and upsert.
`Candidates` is the lookup of a Shopify client. `use` is the last call of the tool with what
held at that time: what had been answered (`owed`), whether a PUT had overlapped (`clashed`) and
whether one had come with a label (`named`).

**Notify** is the mail of a user's tasks. A task waits in rounds; `stamped` is
`notifiedWaitingAt`. It ends in one of three ways: `TaskDone` (`updateTaskStatus`) has its event
due, `SpawnEndsTask` (`finalizeStrategyTask`) publishes after a line is in the log, which may
fail (`AnnouncementFails`), and `ToolEndsTask` (`executeApprovedToolCall`) publishes nothing.
The dispatcher has a handler per event (`load`, `send`), the watcher one tick at a time
(`claim`, `lookup`, `send`) of at most `PerTick` tasks. `proc` is the process: `stopping` is the
shutdown during which runs may still end, and publish to nobody. `lost` collects the mails a
failure or a shutdown has cost, `unwanted` notes a mail against what the user was answered.
`OwedMailIsSent` promises a completion mail of what is to be published; that every ended task
gets one is `DoneIsMailed`, which the tool's way breaks. One request at a time ends a task or
changes the settings.

The `MC` modules instantiate them. Operators commented "Mutant" are deliberate bugs next to
what they replace; `PROJECT.json` names the property each one breaks. No action uses them.

## 4. The runs

| Run | Instance | Shows |
|---|---|---|
| `queue_safety` | 1 task, 2 workers that may crash, 2 runs, 2 requests at a time of 3, 1 lapsed lease, 1 database error | one run per task while leases hold; no leaked lock; no write after another worker's claim; `done` settles; it implements `TaskLifecycle`, so no archived task runs |
| `queue_liveness` | 2 tasks, 2 workers that may crash, 1 run slot, 1 request, 1 database error, fairness | due tasks are served; claimed tasks come to rest |
| `pool` | 3 ticks, `Max` 2, 5 jobs, 3 kicks, 1 error, fairness | runners at most `Max + 2`; the loop lives; ready rows are claimed |
| `gate` | 2 requests at a time of 3, 1 watcher, 2 drafts, 1 fault, fairness for the watcher | children once, tool once if undisturbed, one mail per round and no silent round |
| `thread` | 2 agents, 2 requests, 2 replies, 3 runs, 6 supersteps, 1 fault, fairness for the run | agents have read the user; feedback reaches its author and the next draft; the report tells of its output; a draft stops at the gate; runs end |
| `toolloop` | 7 agents with any switches, 2 rosters, 2 calls per message, 2 turns, fairness | no orphaned call while messages are tidy; the loop ends; it implements `AgentTurn` |
| `intake` | 3 requests, 3 turns, 1 fault, symmetry | one task whatever is retried; turns and the brief are complete up to stated races; it implements `AtomicIntake` |
| `stream` | 3 lines, 2 appends at once, 2 connections, pages of 2, 2 readings per millisecond, clocks 1 ms apart either way, 1 fault | no line is skipped but those overtaken, beyond a page, or fallen into a gap |
| `hiring` | 2 requests, 1 run, 3 secrets, 3 changes | a secret rotated by name takes hold |
| `notify` | 2 tasks, of 2 rounds and 1, ticks of 1, 1 change of saved settings, 1 fault, fairness | no unwanted and no second mail; every owed mail is sent, round after round, unless a failure cost that very mail |
| `thread_reply` | 1 request, 2 runs, 25 supersteps, no fault | violated: a reply to a clarification makes the task circle until it fails |
| `hiring_rotation` | as `hiring` | violated: of a tenant that has used no label, a rotated secret is not taken up |

Why the bounds are enough for what they check:

- Queue: two runs and two workers are what a stale owner and its successor need; one lapsed
  lease makes the first and the `Crash` actions the rest. Three requests let two overlap while
  a third has passed. One task is enough for the safety run because rows share nothing but
  `ReclaimExpiredLocks`, whose effect is row by row. Two tasks compete in the liveness run.
- Pool: three ticks are two overlaps, a poll, a kick during it and a kick or orphan timeout
  during both. Five jobs exceed `Max + 2`.
- Gate: two drafts give the row an older and a newer one. Three requests allow approve,
  feedback and a late approve. One fault allows one death in any of them, or of the run.
- Thread: three runs are a first draft, its revision and a revision of that. Two replies and
  two requests overlap feedback with feedback, approval or discard. The longest run that does
  not circle takes four supersteps; six are enough, and keep the circling ones short. The two
  agents are one whose draft carries a report of its own and one whose does not.
- ToolLoop: the budgets are the code's. Two turns are needed for what an output leaves to the
  next; a message of two calls can be answered in part. The rosters are everything and nothing.
- Intake: two turns and a finalize, or a finalize, its retry and an abandon, are three requests.
- LogStream: three lines exceed a page of two, two readings fall into one millisecond, and a
  second connection follows a break. With clocks one millisecond apart an event's id passes the
  stamp of the next line, and that of the one after it. About 3.4 million states.
- Hiring: two secrets and one that overlaps them; three changes allow activation, deletion and
  another activation.
- Notify: the first task waits twice, so that a stamp or a mail of its first round could silence
  the second; the other, without an owner or as the settings have it, may hold it up, and a tick
  takes one task. The settings start with waiting silenced and one request sets the one or the
  other key, so that what it leaves out matters. One fault is an error, a shutdown or a death.

The proofs of section 6 remove these bounds where there is one. No run checks deadlock: users
owe nothing, so a finished task with spent bounds is a legal end.

## 5. Fairness

- `TaskQueue`: a live worker keeps ticking (`WF` on reclaim and on claim): `scheduleNext` is
  in a finally block, and `PollLoopAlive` in `WorkerPool` is the evidence. A run's awaits
  return (`WF` on the run's steps): that a service answers or fails is assumed; that the agents'
  loops end is `TurnEnds` in `ToolLoop`, that the graph does is `RunComesToRest` in `Thread`.
  The clock passes an unattended lease.
  Heartbeats, users, crashes and errors are not fair. At least one worker stays up: the
  platform restarts the machine (`fly.toml`).
- `WorkerPool`: timeouts fire, statements return, runners settle. Kicks and stops are not fair.
- `ApprovalGate`: only the watcher's loop. Users and runs owe nothing. `WaitingIsNotified` is
  therefore about the watcher alone: a round is taken up unless it ends first.
- `Thread`, `ToolLoop`: `WF` on the steps of the run and of the turn. The promises awaited are
  settled: that a service answers or its connection fails is assumed, as above. Claims, requests
  and deaths are not fair.
- `Notify`: `WF` on the publication, on each handler, on the watcher's steps, on the exit after
  a shutdown and on the restart (`fly.toml`). Users, settings, errors and deaths are not fair.
- `Intake`, `LogStream` and `Hiring` state safety only: clients need not come back.

## 6. The proofs

Each `*Proofs` module extends the module it is about. The assumptions are those the modules
name: sentinels differ from what they stand for, bounds are naturals, `Ticks` is finite and
not empty, `Max` is positive, a tenant's peers are agents. Nothing bounds the number of tasks,
workers, runs, requests, ticks, watchers, drafts, turns, secrets or rounds.

- **TaskQueueProofs.** `TypeCorrect`; `ArchivedSafe`, inductive with the type invariant, since
  both the archive's and the claim's statement look at both columns. `OneRunSafe`,
  `LocksAttended` and `StaleWorkerSafe` need a strengthening, `LockInv`: while no lease has
  lapsed under a live run, every open run owns its row's live lease (`RunsHoldTheirLease`);
  without database errors a live lease of a live worker is attended; and a run that another
  worker superseded no longer finds its worker in `locked_by` (`SupersededRunsLostTheLock`).
  "One run per task" alone is not inductive: it says nothing of why a second claim fails.
  `LockInvStep` has one step per action. `DoneSettled` is an action property: from a settled
  `done` no call can pass its check (`NothingLeavesDone`). `LifecycleKept` is the refinement. A
  claim and a reclaim look at the lease, where the abstract task asks whether a run works on it:
  `NobodyWorks` and `WorksAlone` derive the one from the other by `RunsHoldTheirLease`.
  `StepIsLived` then maps each action; an open call has a row (`RowsExist`), which the
  transition check needs.
- **EventBusProofs**, about the two ends of the in-process bus. `WorkerPool`: `PoolTypeCorrect`,
  `PollLoopSafe`, and `OverlapSafe`, which needs the cardinality of the set of claiming ticks to
  change by at most one per step (`ClaimingCounts`). `LogStream`: `StreamTypeCorrect` carries
  what the database's clock gives (`StreamInv`: rows stay in the order of their stamps, an event
  on the wire comes from a live connection). Nothing is assumed of the process's clock but that
  it is within `Skew`, and `Skew` is any number. `NothingSkippedSafe` needs `Whole`: every event
  is of a line of the log (`EventsInLog`); whatever a replay may start at is the id of
  an event the client has (`Positions`); every line that is not at risk and that such an id
  passes, or that precedes a received line, has been received (`GotClosed`, and `WireClosed` of
  what is on its way), so what a replay leaves out as not newer is not missing; the replay reads
  the rest (`RowsComplete`), and a live connection has shown all that was published but what its
  replay left out (`LiveShowsAll`).
- **ApprovalGateProofs.** `GateTypeCorrect` carries the data invariants of the output: a stamp
  replaces what it records, a waiting task has a draft, a request never asks for `waiting`.
  `NotifiedOnce` uses `NoticeInv`: draft numbers are not reused, the draft a run is about to
  show is newer than the row and than whatever any request still holds, and an unstamped waiting
  row has not been taken up. This is what makes stale writes harmless for the mail: a request
  may write an old output back, but never with the status `waiting`. `ToolOnceSafe` needs
  `OnceInv`: while no two requests overlap and nothing is cut off, one request is open
  (`OneOpen`), a waiting task has no run under way (`GateIsQuiet`), a request that decides at
  the gate finds the task as its route saw it (`DecidesAtGate`), and a tool that was invoked has
  ended the task or is about to (`FiringEnds`). `SpawnOnceSafe` is proved for any number of
  requests, two open at a time (`~crowded`): a request about to spawn and one about to write a
  plan back never meet on a task under way (`NoneSpawnsAside`), and a plan already spent is
  written back only onto a task that has ended and that nobody is left to take up again
  (`SpentComesBackLate`, `SpentIsSafe`).
- **ThreadProofs.** `ThreadTypeCorrect`, and the three about what agents have heard. The runner's
  diff by content is the recursive function `Unseen`; what it returns is proved by induction
  over the length, in the set form of the library's theorem. `AgentHasReadSafe` says that an
  agent's node finds every message the run was started for, `FeedbackHeardSafe` that a draft
  after feedback comes from a thread that has it, `ReportTellsSafe` that the report shown tells
  of the output it comes with while nothing fails. `DraftStopsSafe` holds because whatever
  drafted in a run keeps the gate flag set until the next run seeds the thread (`DraftsWait`): a
  supervisor at the gate asks no model, and only what it does on the model's word resets the
  flag. `ReturnsToAuthorSafe` follows the author from the row to the run, to the pin, to the
  node (`AuthorHolds`): while nothing fails the supervisor is never asked once an author is
  known. Neither needs the limit on the supersteps to be large.
- **ToolLoopProofs.** `IInv` adds to the types what a place in the loop implies: a turn starts
  fresh, a rejection is left while the model is asked, tools are only called after a model's
  message, what is submitted was earned. `StepIsPromised` maps each action to a step of
  `AgentTurn` or to a stutter (only `BudgetSpent`), and `PromiseKept` is the refinement.
  `TidySafe` is inductive by itself.
- **IntakeProofs.** `OneTaskSafe` needs that a transaction about to insert holds the row's lock
  and that the row is open while it does (`TransactionsHoldTheRow`, `LockedIsOpen`), so that no
  second one reads it as open. `AtOnceSafe` is the refinement: a commit makes the one task
  (`CommitMakesOne`), a turn that is not torn extends the conversation it read, and an abandon
  takes effect on an open intake or on one it raced. `ClosedSafe` adds that an abandon between
  its statements has either no finalize beside it or `raced` set. `TurnsSafe` needs that a turn
  between re-read and UPDATE read the conversation as it is unless torn (`ReadIsCurrent`) and
  that turns are not reused. `BriefSafe` needs that without crossing one turn is open at a time
  and has heard every answered one (`OneTalks`, `DraftsHaveHeard`).
- **HiringProofs.** `NamedRotationSafe`: without a clash one PUT is open and found what the
  table holds (`PutIsAlone`), so no labelled row has a secret older than the one answered last
  (`RowsAreCurrent`). The type invariant includes the unique index.
- **NotifyProofs.** `UnwantedMailSafe`: the settings are what was answered last
  (`SettingsAreKnown`); only a done task has an event to publish or a handler, never both, and a
  completion that was mailed has neither any more (`CompletionsMailOnce`), however the task ended
  (`DoneMoves`); a round that was mailed, or is being mailed, is stamped or past
  (`RoundsMailOnce`).

Every invariant, action property and refinement that a run checks is stated by a theorem. Only
model-checked are the seven liveness properties (`TodoIsServed`, `ClaimedComesToRest`,
`ReadyIsClaimed`, `WaitingIsNotified`, `TurnEnds`, `RunComesToRest`, `OwedMailIsSent`): they rest
on fairness, hence on ENABLED, which is out of the prover's reach.

## 7. Where the code and what it says disagree

Two are runs that TLC finds violated; `PROJECT.json` quotes the sentences.

1. The supervisor's clarification stamps `assignedAgent = 'supervisor'`; after the reply the
   resumed run pins that node, and the supervisor routes to itself until the recursion limit
   fails the task (`thread_reply`).
2. A PUT without a label never finds its own row, adds one each time, and a tool call takes any
   of them (`hiring_rotation`). The premise, that no PUT has come with a label, is recorded with
   the call: the documented fallback from a label to any row plays no part.

The others are stated as properties in the modules and no run checks them. TLC finds each
violated when it takes the place of the properties in the cfg named.

| Property | cfg | What happens |
|---|---|---|
| `DoneIsTerminal` | `queue_safety` | `updateTaskStatus` checks a row it read and writes by id: a late request overwrites `done` |
| `ReclaimedRunIsRefused` | `queue_safety` | the owner guard compares worker ids: a run whose lease was reclaimed passes it when its own process has claimed the task again |
| `AtMostMaxRunners` | `pool` | `n` overlapping ticks open up to `WORKER_MAX_CONCURRENCY + n - 1` runners; `OverlapBound`, proved, says never more |
| `ToolFiresOnce` | `gate` | two approvals at once both invoke the deferred tool |
| `DoneIsAnnounced` | `gate` | a task ended by an approved tool call publishes no `task.completed` |
| `DoneIsMailed` | `notify` | the same as seen from the mail: a task whose user asked for it gets no completion mail when a tool ended it, though `task.completed` "fires once per terminal `done` transition" (`events/event-bus.ts:62`) |
| `DraftsAreShown` | `gate` | a run that breaks off between the checkpoint of its draft and the write of `waiting` leaves no agent on the row; the resumed run clears the gate flag, keeps the draft and may end the task `done` with a draft nobody approved |
| `SpawnOncePerPlan` without `~crowded` | `gate` with three requests at a time, four in all and one draft | a feedback that read the row before the spawn writes the unspawned plan back, and an approve that chose its path earlier inserts the children again |
| `CallsAreAnswered` | `toolloop` | a submit beside other calls, or a call of an unknown tool, leaves calls of the transcript unanswered; `TidyCallsAreAnswered`, proved, says nothing else does |
| `ReportIsCurrent` | `thread` | a run dies after an agent's draft was checkpointed, the next asks for clarification, and the report writer rewrites the question as a report of that draft, where it is said to do nothing ("supervisor clarification path", `report-writer.ts:51`) |
| `CopyOnlyRoundKeepsPictures` | `toolloop` | the designer looks for the previous pictures under `payload.content`, where the runner has not put them: a copy-only round drops them |
| `FinalizedIsFinal` | `intake` | an abandon that read `open` marks a finalized intake abandoned |
| `NoLineIsSkipped` | `stream` | overlapping appends, a process whose clock is ahead of the database's, a line published between a replay's query and its subscription, and one beyond 500 rows each cost a line for good; `NothingIsSkipped`, proved, says nothing else does |
| `ReadIsNotResent` | `stream` | the cursor is cut to the millisecond and the last line read is sent again |

Smaller ones, met while modelling and without a property: `getActivationStatus` shows an agent
without a row as disabled while the roster has it enabled; the example of
`docs/API_GUIDE.md` sends `label: null`, which the schema refuses; a cover image that cannot be
drawn costs the whole article (`article-writer/index.ts:267`); the key of the SERP cache leaves
out `num`; two overlapping changes of the notification settings may lose one.

## 8. Not modelled

- The text of prompts, outputs and logs, schema coercion, markdown, an artifact's fields: data no
  property is about. `PATCH /tasks/:id` changes the schedule only, which `TaskQueue` has.
- Authentication and tenants' isolation: every query carries `tenant_id` in its WHERE, and the
  models are of one tenant. Profiles, members and skill packs are single-row writes.
- HTTP clients, uploads, migrations, configuration: I/O without state of their own. An external
  call is one step that succeeds or fails. The SERP cache is such a client with a table that
  nothing else reads.
- The composition of `TaskQueue` with `ApprovalGate` and `Thread`: the latter two take one run
  of a task at a time, which `OneRunPerTask` gives while leases hold; what a run does whose
  lease lapsed is looked at in `TaskQueue` only.
- Requests that overlap in `Notify` (`ApprovalGate` has them for the task, nothing for the
  settings), and skew beyond 1 ms in the run of `LogStream` (its theorems have any).
- Draining of the HTTP server at shutdown; heartbeats of a stream and the leak of a stream that
  was closed while it replayed; the number of timer chains a worker may have. `PROJECT.json`
  notes at each hazard without a property why none covers it.
