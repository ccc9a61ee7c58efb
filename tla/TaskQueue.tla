------------------------------ MODULE TaskQueue ------------------------------
(***************************************************************************)
(* The tasks table as a queue: polling workers claim rows under a lease,   *)
(* runners execute them and write the outcome under an owner guard, users  *)
(* approve, discard, archive and reschedule the same rows through the API. *)
(*                                                                         *)
(* One action is one database statement (autocommit) with the code around  *)
(* it up to the next await.  A status write is a read (getTask and the     *)
(* checks) followed by an UPDATE in a later step: the row may change in    *)
(* between, exactly as in updateTaskStatus.                                *)
(***************************************************************************)
EXTENDS Naturals, TaskStates

CONSTANTS
  Tasks,        \* rows of the tasks table
  Workers,      \* TaskWorker instances; a restarted process is a new one
  Runs,         \* runTaskThroughGraph calls that may be open at once
  Requests,     \* API requests that may be open at once
  Nobody,       \* the NULL of tasks.locked_by
  NoTask,       \* the task of a free slot
  MayCrash,     \* the workers whose process may die
  MaxStalls,    \* bound: leases that lapse under a run that is still alive
  MaxFaults,    \* bound: statements that fail with a database error
  MaxRequests   \* bound: status-writing API requests ever opened

ASSUME SentinelsDiffer == Nobody \notin Workers /\ NoTask \notin Tasks
ASSUME CrashersAreWorkers == MayCrash \subseteq Workers
ASSUME BoundsAreNaturals ==
  MaxStalls \in Nat /\ MaxFaults \in Nat /\ MaxRequests \in Nat

VARIABLES
  status,     \* tasks.status, "absent" before the INSERT
  lockedBy,   \* tasks.locked_by
  lease,      \* tasks.locked_until: "none" (NULL), "live" or "expired"
  archived,   \* tasks.archived_at is set
  due,        \* tasks.scheduled_at is NULL or past
  run,        \* the runner calls
  req,        \* the API requests inside updateTaskStatus or just before it
  alive,      \* workers whose process is up
  supersededBy, \* history: of an open run, the worker that has claimed the
                \* run's task again since the run began
  stalls, faults, asked   \* counters of the bounds

row  == <<status, lockedBy, lease, archived, due>>
env  == <<stalls, faults, asked>>
vars == <<row, run, req, alive, supersededBy, env>>

FreeRun == [pc |-> "free", task |-> NoTask, worker |-> Nobody,
            lockLost |-> FALSE, to |-> "failed"]
FreeReq == [pc |-> "free", task |-> NoTask, to |-> "failed"]

RunRecord == [pc : {"free", "graph", "update", "log", "error", "release"},
              task : Tasks \cup {NoTask}, worker : Workers \cup {Nobody},
              lockLost : BOOLEAN, to : {"waiting", "done", "failed"}]

\* An open run has a task and a worker.
RunsOK ==
  /\ run \in [Runs -> RunRecord]
  /\ \A r \in Runs : run[r].pc # "free" =>
                         run[r].task \in Tasks /\ run[r].worker \in Workers

TypeOK ==
  /\ status \in [Tasks -> Status \cup {"absent"}]
  /\ lockedBy \in [Tasks -> Workers \cup {Nobody}]
  /\ lease \in [Tasks -> {"none", "live", "expired"}]
  /\ \A t \in Tasks : lockedBy[t] = Nobody <=> lease[t] = "none"
  /\ archived \in [Tasks -> BOOLEAN]
  /\ due \in [Tasks -> BOOLEAN]
  /\ RunsOK
  /\ req \in [Requests -> [pc : {"free", "checked", "update"},
                           task : Tasks \cup {NoTask},
                           to : {"todo", "done", "failed"}]]
  /\ \A q \in Requests : req[q].pc # "free" => req[q].task \in Tasks
  /\ alive \in SUBSET Workers
  /\ supersededBy \in [Runs -> Workers \cup {Nobody}]
  /\ stalls \in Nat /\ faults \in Nat /\ asked \in Nat

Init ==
  /\ status = [t \in Tasks |-> "absent"]
  /\ lockedBy = [t \in Tasks |-> Nobody]
  /\ lease = [t \in Tasks |-> "none"]
  /\ archived = [t \in Tasks |-> FALSE]
  /\ due = [t \in Tasks |-> TRUE]
  /\ run = [r \in Runs |-> FreeRun]
  /\ req = [q \in Requests |-> FreeReq]
  /\ alive = Workers
  /\ supersededBy = [r \in Runs |-> Nobody]
  /\ stalls = 0 /\ faults = 0 /\ asked = 0

-----------------------------------------------------------------------------
(* The runs that are still executing, and the lease of a row.              *)

Active(r) == run[r].pc # "free"

\* A database error is possible while the fault budget lasts.
Fault == faults < MaxFaults /\ faults' = faults + 1

-----------------------------------------------------------------------------
(* API: the rows' creation and the statements that are one guarded UPDATE. *)

\* POST /tasks, POST /tasks/:id/continue and a spawned child: an INSERT with
\* status 'todo', scheduled now or later.
CreateTask(t) ==
  /\ status[t] = "absent"
  /\ status' = [status EXCEPT ![t] = "todo"]
  /\ \E d \in BOOLEAN : due' = [due EXCEPT ![t] = d]
  /\ UNCHANGED <<lockedBy, lease, archived, run, req, alive, supersededBy, env>>

\* Mutant: archive after a SELECT alone, without the guard in the UPDATE.
ArchiveGuard_None(t) == TRUE

\* The WHERE of archiveTask's UPDATE.
ArchiveGuard(t) == ~archived[t] /\ status[t] # "in_progress"

\* archiveTask: its read before only chooses the error message.
ArchiveTask(t) ==
  /\ status[t] # "absent"
  /\ ArchiveGuard(t)
  /\ archived' = [archived EXCEPT ![t] = TRUE]
  /\ UNCHANGED <<status, lockedBy, lease, due, run, req, alive, supersededBy, env>>

\* rescheduleTask: one UPDATE; the schedule may be cleared or set later.
RescheduleTask(t) ==
  /\ status[t] = "todo"
  /\ lockedBy[t] = Nobody
  /\ \E d \in BOOLEAN : due' = [due EXCEPT ![t] = d]
  /\ UNCHANGED <<status, lockedBy, lease, archived, run, req, alive, supersededBy, env>>

\* The clock reaches scheduled_at.
BecomesDue(t) ==
  /\ ~due[t]
  /\ due' = [due EXCEPT ![t] = TRUE]
  /\ UNCHANGED <<status, lockedBy, lease, archived, run, req, alive, supersededBy, env>>

-----------------------------------------------------------------------------
(* API: the status writes without an owner (approve, feedback, discard).   *)

\* The route of approve or feedback reads the row and wants it 'waiting'.
\* finalize = TRUE asks for 'done', everything else for 'todo'.
RouteChecksWaiting(q, t) ==
  /\ req[q].pc = "free" /\ asked < MaxRequests
  /\ status[t] = "waiting"
  /\ \E to \in {"todo", "done"} :
       req' = [req EXCEPT ![q] = [pc |-> "checked", task |-> t, to |-> to]]
  /\ asked' = asked + 1
  /\ UNCHANGED <<row, run, alive, supersededBy, stalls, faults>>

\* The route of discard calls updateTaskStatus at once, in any status.
RouteDiscards(q, t) ==
  /\ req[q].pc = "free" /\ asked < MaxRequests
  /\ status[t] # "absent"
  /\ req' = [req EXCEPT ![q] = [pc |-> "checked", task |-> t, to |-> "failed"]]
  /\ asked' = asked + 1
  /\ UNCHANGED <<row, run, alive, supersededBy, stalls, faults>>

\* updateTaskStatus for a request, first await: getTask and assertTransition.
RequestReads(q) ==
  /\ req[q].pc = "checked"
  /\ req' = [req EXCEPT ![q] =
               IF CanTransition(status[req[q].task], req[q].to)
                 THEN [@ EXCEPT !.pc = "update"] ELSE FreeReq]
  /\ UNCHANGED <<row, run, alive, supersededBy, env>>

\* updateTaskStatus for a request, second await: the UPDATE, by id alone.
RequestWrites(q) ==
  /\ req[q].pc = "update"
  /\ status' = [status EXCEPT ![req[q].task] = req[q].to]
  /\ req' = [req EXCEPT ![q] = FreeReq]
  /\ UNCHANGED <<lockedBy, lease, archived, due, run, alive, supersededBy, env>>

-----------------------------------------------------------------------------
(* The worker: reclaim, claim, and what can go wrong around a claim.       *)

\* Mutant: the two halves of the lock condition joined by 'and'.
Reclaimable_Both(t) ==
  status[t] = "in_progress" /\ lease[t] = "none" /\ lease[t] = "expired"

\* The WHERE of reclaimExpiredLocks.
Reclaimable(t) == status[t] = "in_progress" /\ lease[t] # "live"

\* reclaimExpiredLocks: one UPDATE over every such row.
ReclaimExpiredLocks(w) ==
  /\ w \in alive
  /\ \E t \in Tasks : Reclaimable(t)
  /\ status' = [t \in Tasks |-> IF Reclaimable(t) THEN "todo" ELSE status[t]]
  /\ lockedBy' = [t \in Tasks |-> IF Reclaimable(t) THEN Nobody ELSE lockedBy[t]]
  /\ lease' = [t \in Tasks |-> IF Reclaimable(t) THEN "none" ELSE lease[t]]
  /\ UNCHANGED <<archived, due, run, req, alive, supersededBy, env>>

\* Mutant: a claim that looks at the status and not at the lease.
Claimable_AnyLease(t) == status[t] = "todo" /\ ~archived[t] /\ due[t]

\* Mutant: a claim that wants locked_until NULL and never takes a lapsed lease.
Claimable_NullLease(t) ==
  status[t] = "todo" /\ ~archived[t] /\ due[t] /\ lease[t] = "none"

\* The inner SELECT of claimNextTask.  Which eligible row is the oldest is
\* left open: created_at and scheduled_at are not modelled.
Claimable(t) ==
  /\ status[t] = "todo"
  /\ ~archived[t]
  /\ due[t]
  /\ lease[t] # "live"

\* The UPDATE of claimNextTask.
StampClaim(w, t) ==
  /\ status' = [status EXCEPT ![t] = "in_progress"]
  /\ lockedBy' = [lockedBy EXCEPT ![t] = w]
  /\ lease' = [lease EXCEPT ![t] = "live"]
  /\ supersededBy' = [s \in Runs |->
       IF Active(s) /\ run[s].task = t THEN w ELSE supersededBy[s]]

\* claimNextTask succeeds and the tick starts a runner with the worker's id.
ClaimNextTask(w, r, t) ==
  /\ w \in alive /\ ~Active(r) /\ Claimable(t)
  /\ StampClaim(w, t)
  /\ run' = [run EXCEPT ![r] = [pc |-> "graph", task |-> t, worker |-> w,
                                lockLost |-> FALSE, to |-> "failed"]]
  /\ UNCHANGED <<archived, due, req, alive, env>>

\* The UPDATE lands and the SELECT after it fails: the tick ends with the row
\* claimed and no runner.
ClaimLosesRow(w, t) ==
  /\ w \in alive /\ Claimable(t) /\ Fault
  /\ StampClaim(w, t)
  /\ UNCHANGED <<archived, due, run, req, alive, stalls, asked>>

\* The process dies: its runners stop where they are, the rows keep its lock.
\* One worker always stays up (the platform restarts the machine, and a
\* restarted process is another element of Workers).
Crash(w) ==
  /\ w \in alive \cap MayCrash
  /\ alive \ {w} # {}
  /\ alive' = alive \ {w}
  /\ run' = [r \in Runs |-> IF run[r].worker = w THEN FreeRun ELSE run[r]]
  /\ supersededBy' = [r \in Runs |-> IF run[r].worker = w THEN Nobody ELSE supersededBy[r]]
  /\ UNCHANGED <<row, req, env>>

\* A run of the row's owner is still open: it extends the lease every 30 s.
Attended(t) ==
  \E r \in Runs : Active(r) /\ run[r].task = t /\ run[r].worker = lockedBy[t]

\* The clock passes locked_until on a row nobody heartbeats any more.
LeaseLapses(t) ==
  /\ lease[t] = "live" /\ ~Attended(t)
  /\ lease' = [lease EXCEPT ![t] = "expired"]
  /\ UNCHANGED <<status, lockedBy, archived, due, run, req, alive, supersededBy, env>>

\* Every heartbeat of 5 minutes fails or is late (a blocked event loop, an
\* unreachable database) and the lease lapses under a run that is still alive.
LeaseStalls(t) ==
  /\ lease[t] = "live" /\ Attended(t)
  /\ stalls < MaxStalls /\ stalls' = stalls + 1
  /\ lease' = [lease EXCEPT ![t] = "expired"]
  /\ UNCHANGED <<status, lockedBy, archived, due, run, req, alive, supersededBy, faults, asked>>

-----------------------------------------------------------------------------
(* The runner: runTaskThroughGraph from the claim to its finally block.    *)

\* Mutant: the owner check of updateTaskStatus's UPDATE left out, the
\* pre-check after its read alone remaining.
OwnerGuard_PreCheckOnly(r) == TRUE

\* The owner check in the WHERE of updateTaskStatus's UPDATE.
OwnerGuard(r) == lockedBy[run[r].task] = run[r].worker

\* Mutant: the release at the end of the try block, not in a finally: an
\* illegal transition thrown from the catch block skips it.
AfterRead_NoFinally(r, to, failPc) ==
  LET t == run[r].task IN
  IF ~CanTransition(status[t], to)
    THEN IF failPc = "release" THEN FreeRun ELSE [run[r] EXCEPT !.pc = failPc]
  ELSE IF lockedBy[t] # run[r].worker THEN [run[r] EXCEPT !.pc = "release"]
  ELSE [run[r] EXCEPT !.pc = "update", !.to = to]

\* updateTaskStatus, first await, for a runner that wants to set 'to':
\* where the read and its two checks lead.  failPc is where an illegal
\* transition leads.
AfterRead(r, to, failPc) ==
  LET t == run[r].task IN
  IF ~CanTransition(status[t], to) THEN [run[r] EXCEPT !.pc = failPc]
  ELSE IF lockedBy[t] # run[r].worker THEN [run[r] EXCEPT !.pc = "release"]
  ELSE [run[r] EXCEPT !.pc = "update", !.to = to]

\* The heartbeat's extendLock: by owner alone, whatever the status.
Heartbeat(r) ==
  LET t == run[r].task IN
  /\ run[r].pc \in {"graph", "update", "log", "error"}
  /\ IF lockedBy[t] = run[r].worker
       THEN lease' = [lease EXCEPT ![t] = "live"] /\ run' = run
       ELSE run' = [run EXCEPT ![r].lockLost = TRUE] /\ lease' = lease
  /\ UNCHANGED <<status, lockedBy, archived, due, req, alive, supersededBy, env>>

\* The graph returns, at the HITL gate ('waiting') or for good ('done').
GraphReturns(r) ==
  /\ run[r].pc = "graph"
  /\ \E to \in {"waiting", "done"} :
       run' = [run EXCEPT ![r] =
                 IF run[r].lockLost THEN [@ EXCEPT !.pc = "release"]
                                    ELSE AfterRead(r, to, "error")]
  /\ UNCHANGED <<row, req, alive, supersededBy, env>>

\* An agent, a tool, the checkpointer or appendMessage throws.
GraphThrows(r) ==
  /\ run[r].pc = "graph"
  /\ run' = [run EXCEPT ![r].pc = "error"]
  /\ UNCHANGED <<row, req, alive, supersededBy, env>>

\* The UPDATE of updateTaskStatus; no row matched is LockLostError.
RunUpdates(r) ==
  LET t == run[r].task IN
  /\ run[r].pc = "update"
  /\ IF OwnerGuard(r)
       THEN /\ status' = [status EXCEPT ![t] = run[r].to]
            /\ run' = [run EXCEPT ![r].pc =
                         IF run[r].to = "failed" THEN "release" ELSE "log"]
       ELSE /\ status' = status
            /\ run' = [run EXCEPT ![r].pc = "release"]
  /\ UNCHANGED <<lockedBy, lease, archived, due, req, alive, supersededBy, env>>

\* The emitLog after the write lands or fails; failing, it is caught by the
\* same catch as an agent's error.
RunLogs(r) ==
  /\ run[r].pc = "log"
  /\ \/ run' = [run EXCEPT ![r].pc = "release"] /\ faults' = faults
     \/ run' = [run EXCEPT ![r].pc = "error"] /\ Fault
  /\ UNCHANGED <<row, req, alive, supersededBy, stalls, asked>>

\* The catch block: log task.failed, then updateTaskStatus to 'failed'.
RunFails(r) ==
  /\ run[r].pc = "error"
  /\ run' = [run EXCEPT ![r] =
               IF run[r].lockLost THEN [@ EXCEPT !.pc = "release"]
                                  ELSE AfterRead(r, "failed", "release")]
  /\ UNCHANGED <<row, req, alive, supersededBy, env>>

\* The UPDATE, or a statement of the catch block, fails with a database error:
\* the try block hands over to the catch, the catch to the finally.
RunStumbles(r) ==
  /\ \/ /\ run[r].pc = "update" /\ run[r].to # "failed"
        /\ run' = [run EXCEPT ![r].pc = "error"]
     \/ /\ run[r].pc = "error" \/ (run[r].pc = "update" /\ run[r].to = "failed")
        /\ run' = [run EXCEPT ![r].pc = "release"]
  /\ Fault
  /\ UNCHANGED <<row, req, alive, supersededBy, stalls, asked>>

\* Mutant: a release that clears the owner and forgets locked_until.
Unlock_OwnerOnly(t) ==
  /\ lockedBy' = [lockedBy EXCEPT ![t] = Nobody]
  /\ lease' = lease

\* The SET of releaseLock.
Unlock(t) ==
  /\ lockedBy' = [lockedBy EXCEPT ![t] = Nobody]
  /\ lease' = [lease EXCEPT ![t] = "none"]

\* The finally block: releaseLock, owner-guarded, or its database error.
RunReleases(r) ==
  LET t == run[r].task IN
  /\ run[r].pc = "release"
  /\ run' = [run EXCEPT ![r] = FreeRun]
  /\ supersededBy' = [supersededBy EXCEPT ![r] = Nobody]
  /\ \/ /\ IF lockedBy[t] = run[r].worker THEN Unlock(t)
                                            ELSE UNCHANGED <<lockedBy, lease>>
        /\ faults' = faults
     \/ Fault /\ UNCHANGED <<lockedBy, lease>>
  /\ UNCHANGED <<status, archived, due, req, alive, stalls, asked>>

-----------------------------------------------------------------------------
User == \/ \E t \in Tasks : \/ CreateTask(t)
                            \/ ArchiveTask(t)
                            \/ RescheduleTask(t)
        \/ \E q \in Requests, t \in Tasks : RouteChecksWaiting(q, t)
        \/ \E q \in Requests, t \in Tasks : RouteDiscards(q, t)
        \/ \E q \in Requests : RequestReads(q) \/ RequestWrites(q)

Clock == \E t \in Tasks : BecomesDue(t) \/ LeaseLapses(t) \/ LeaseStalls(t)

Worker == \/ \E w \in Workers : ReclaimExpiredLocks(w) \/ Crash(w)
          \/ \E w \in Workers, r \in Runs, t \in Tasks : ClaimNextTask(w, r, t)
          \/ \E w \in Workers, t \in Tasks : ClaimLosesRow(w, t)

RunStep(r) == \/ GraphReturns(r)
              \/ GraphThrows(r)
              \/ RunUpdates(r)
              \/ RunLogs(r)
              \/ RunFails(r)
              \/ RunReleases(r)

Runner == \E r \in Runs : Heartbeat(r) \/ RunStep(r) \/ RunStumbles(r)

Next == User \/ Clock \/ Worker \/ Runner

Spec == Init /\ [][Next]_vars

(* The poll loop of a live worker keeps ticking, a runner's awaits return, *)
(* and the clock passes an unattended lease: each is weakly fair.  Users   *)
(* and heartbeats owe nothing.                                             *)
Fairness ==
  /\ \A w \in Workers : WF_vars(ReclaimExpiredLocks(w))
  /\ \A w \in Workers : WF_vars(\E r \in Runs, t \in Tasks : ClaimNextTask(w, r, t))
  /\ \A r \in Runs : WF_vars(RunStep(r))
  /\ \A t \in Tasks : WF_vars(LeaseLapses(t))

FairSpec == Spec /\ Fairness

-----------------------------------------------------------------------------
(* Properties.                                                             *)

\* An archived task is never being run: archiveTask's guard in the UPDATE and
\* claimNextTask's filter close the window between SELECT and UPDATE from
\* both sides, and a reclaim or a stale user write opens no other way in.
ArchivedNotRunning == \A t \in Tasks : archived[t] => status[t] # "in_progress"

\* As long as no lease lapses under a live run, a task never has two runs,
\* whatever users write to its status meanwhile and whichever workers crash:
\* a stale approve may put a running task back to 'todo', and then only the
\* lease keeps claimNextTask away from it.
OneRunPerTask ==
  stalls = 0 => \A r, s \in Runs :
    (Active(r) /\ Active(s) /\ run[r].task = run[s].task) => r = s

\* A lock is never leaked by a live process: a live lease of a live worker has
\* a run under it, unless a database error interrupted a claim or a release.
NoLeakedLock ==
  faults = 0 => \A t \in Tasks :
    (lease[t] = "live" /\ lockedBy[t] \in alive) => Attended(t)

\* A run never writes a status once another worker has claimed its task after
\* it (and its own worker has not claimed it back): the owner guard in the
\* UPDATE refuses even when the pre-check after the read had passed.
StaleWorkerNeverWrites ==
  [][\A r \in Runs : (RunUpdates(r) /\ status' # status) =>
        supersededBy[r] \in {Nobody, run[r].worker}]_vars

\* No request or run is between its read and its UPDATE on this done task.
Settled(t) ==
  /\ status[t] = "done"
  /\ \A q \in Requests : req[q].pc = "update" => req[q].task # t
  /\ \A r \in Runs : run[r].pc = "update" => run[r].task # t

\* Once the last overlapping reader of a done task is gone, done is terminal:
\* routes and runners that read the row afterwards are refused.
DoneSettles == [][\A t \in Tasks : Settled(t) => Settled(t)']_vars

\* "treats done as terminal" (state-machine.test.ts): no write leaves done.
DoneIsTerminal == [][\A t \in Tasks : status[t] = "done" => status'[t] = "done"]_vars

\* A run whose lease was reclaimed and whose task was claimed again since does
\* not write the task's status: updateTaskStatus takes the owner guard "to
\* refuse writing state for a task whose lease was reclaimed mid-run".
ReclaimedRunIsRefused ==
  [][\A r \in Runs : (RunUpdates(r) /\ status' # status) =>
        supersededBy[r] = Nobody]_vars

-----------------------------------------------------------------------------
(* The abstract task: what remains of a run is its task and the status it  *)
(* is about to write, of a request the same, of the leases whether one has *)
(* lapsed under a live run.                                                *)

Meaning(call, open) ==
  [on    |-> IF open THEN call.task ELSE NoTask,
   wants |-> IF call.pc = "update" THEN call.to ELSE "none"]

Work == [r \in Runs |-> Meaning(run[r], run[r].pc # "free")]
Wish == [q \in Requests |-> Meaning(req[q], req[q].pc = "update")]

Lifecycle == INSTANCE TaskLifecycle WITH
  work <- Work, wish <- Wish, stalled <- stalls > 0

\* Seen from outside, the queue is a task that at most one run works on: for
\* every interleaving of claims, reclaims, heartbeats, stale requests, crashes
\* and database errors the status moves as TaskLifecycle allows.  A second run,
\* a requeue under a run and the outcome of a run that is not alone each need a
\* lease that lapsed under a live run.
KeepsLifecycle == Lifecycle!Spec

-----------------------------------------------------------------------------
(* Liveness.                                                               *)

\* A due, unarchived 'todo' task is eventually claimed, archived or deferred,
\* whichever worker dies with its lock: the lease of a dead owner lapses and
\* claimNextTask takes a row whose locked_until has passed.
TodoIsServed ==
  \A t \in Tasks : (status[t] = "todo" /\ ~archived[t] /\ due[t])
                     ~> (status[t] # "todo" \/ archived[t] \/ ~due[t])

\* A claimed task eventually comes to rest at a gate or at an end, unless a
\* user takes it out of the queue on the way: after a crash the lease lapses,
\* a tick reclaims the row and another run starts over.
ClaimedComesToRest ==
  \A t \in Tasks : status[t] = "in_progress"
                     ~> (status[t] \in {"waiting", "done", "failed"}
                          \/ archived[t] \/ ~due[t])
=============================================================================
