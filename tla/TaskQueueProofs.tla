--------------------------- MODULE TaskQueueProofs ---------------------------
(* What holds of TaskQueue for every set of tasks, workers, runs, requests. *)
EXTENDS TaskQueue, TLAPS

USE DEF Status, Active, row, env, FreeRun, FreeReq

-----------------------------------------------------------------------------
(* Type correctness.                                                       *)

\* Storing a well-formed record in one slot keeps all slots well-formed.
LEMMA RunStored ==
  ASSUME RunsOK, NEW r \in Runs, NEW x \in RunRecord,
         x.pc = "free" \/ (x.task \in Tasks /\ x.worker \in Workers),
         run' = [run EXCEPT ![r] = x]
  PROVE  RunsOK'
BY DEF RunsOK

\* An open run that moves to another program point keeps its task, worker.
LEMMA MovedRecord ==
  ASSUME RunsOK, NEW r \in Runs, Active(r),
         NEW pc \in {"graph", "update", "log", "error", "release"}
  PROVE  LET x == [run[r] EXCEPT !.pc = pc] IN
         x \in RunRecord /\ x.task \in Tasks /\ x.worker \in Workers
<1>1. run[r] \in RunRecord /\ run[r].task \in Tasks /\ run[r].worker \in Workers
  BY DEF RunsOK
<1> QED
  BY <1>1 DEF RunRecord

\* Where a read of updateTaskStatus leads keeps the run's task and worker.
LEMMA AfterReadType ==
  ASSUME RunsOK, NEW r \in Runs, Active(r),
         NEW to \in {"waiting", "done", "failed"},
         NEW failPc \in {"error", "release"}
  PROVE  LET a == AfterRead(r, to, failPc) IN
         /\ a \in RunRecord /\ a.pc # "free"
         /\ a.task = run[r].task /\ a.worker = run[r].worker
<1>1. run[r] \in RunRecord
  BY DEF RunsOK
<1>2. \/ AfterRead(r, to, failPc) = [run[r] EXCEPT !.pc = failPc]
      \/ AfterRead(r, to, failPc) = [run[r] EXCEPT !.pc = "release"]
      \/ AfterRead(r, to, failPc) = [run[r] EXCEPT !.pc = "update", !.to = to]
  BY DEF AfterRead
<1> QED
  BY <1>1, <1>2 DEF RunRecord

\* The columns, the runner calls and the requests keep their types, and the
\* two lock columns are set and cleared together.
THEOREM TypeCorrect == Spec => []TypeOK
<1>1. Init => TypeOK
  <2>1. FreeRun \in RunRecord
    BY DEF RunRecord
  <2>2. Init => RunsOK
    BY <2>1 DEF Init, RunsOK
  <2> QED
    BY <2>2 DEF Init, TypeOK
<1>2. TypeOK /\ [Next]_vars => TypeOK'
  <2> SUFFICES ASSUME TypeOK, [Next]_vars PROVE TypeOK'
    OBVIOUS
  <2>1. ASSUME NEW t \in Tasks, CreateTask(t) PROVE TypeOK'
    BY <2>1 DEF TypeOK, RunsOK, CreateTask
  <2>2. ASSUME NEW t \in Tasks, ArchiveTask(t) PROVE TypeOK'
    BY <2>2 DEF TypeOK, RunsOK, ArchiveTask
  <2>3. ASSUME NEW t \in Tasks, RescheduleTask(t) PROVE TypeOK'
    BY <2>3 DEF TypeOK, RunsOK, RescheduleTask
  <2>4. ASSUME NEW t \in Tasks, BecomesDue(t) PROVE TypeOK'
    BY <2>4 DEF TypeOK, RunsOK, BecomesDue
  <2>5. ASSUME NEW q \in Requests, NEW t \in Tasks, RouteChecksWaiting(q, t) PROVE TypeOK'
    BY <2>5 DEF TypeOK, RunsOK, RouteChecksWaiting
  <2>6. ASSUME NEW q \in Requests, NEW t \in Tasks, RouteDiscards(q, t) PROVE TypeOK'
    BY <2>6 DEF TypeOK, RunsOK, RouteDiscards
  <2>7. ASSUME NEW q \in Requests, RequestReads(q) PROVE TypeOK'
    BY <2>7 DEF TypeOK, RunsOK, RequestReads
  <2>8. ASSUME NEW q \in Requests, RequestWrites(q) PROVE TypeOK'
    BY <2>8 DEF TypeOK, RunsOK, RequestWrites
  <2>9. ASSUME NEW w \in Workers, ReclaimExpiredLocks(w) PROVE TypeOK'
    BY <2>9 DEF TypeOK, RunsOK, ReclaimExpiredLocks
  <2>10. ASSUME NEW w \in Workers, NEW r \in Runs, NEW t \in Tasks, ClaimNextTask(w, r, t)
         PROVE  TypeOK'
    <3> DEFINE x == [pc |-> "graph", task |-> t, worker |-> w,
                     lockLost |-> FALSE, to |-> "failed"]
    <3>1. x \in RunRecord /\ x.task \in Tasks /\ x.worker \in Workers
      BY DEF RunRecord
    <3>2. RunsOK'
      BY <2>10, <3>1, RunStored DEF ClaimNextTask, TypeOK
    <3> QED
      BY <2>10, <3>2, SentinelsDiffer DEF TypeOK, ClaimNextTask, StampClaim
  <2>11. ASSUME NEW w \in Workers, NEW t \in Tasks, ClaimLosesRow(w, t) PROVE TypeOK'
    BY <2>11, SentinelsDiffer DEF TypeOK, RunsOK, ClaimLosesRow, StampClaim, Fault
  <2>12. ASSUME NEW w \in Workers, Crash(w) PROVE TypeOK'
    <3>1. FreeRun \in RunRecord
      BY DEF RunRecord
    <3>2. RunsOK'
      BY <2>12, <3>1 DEF TypeOK, RunsOK, Crash
    <3> QED
      BY <2>12, <3>2 DEF TypeOK, Crash
  <2>13. ASSUME NEW t \in Tasks, LeaseLapses(t) PROVE TypeOK'
    BY <2>13 DEF TypeOK, RunsOK, LeaseLapses
  <2>14. ASSUME NEW t \in Tasks, LeaseStalls(t) PROVE TypeOK'
    BY <2>14 DEF TypeOK, RunsOK, LeaseStalls
  <2>15. ASSUME NEW r \in Runs, Heartbeat(r) PROVE TypeOK'
    <3> DEFINE x == [run[r] EXCEPT !.lockLost = TRUE]
    <3>1. run[r] \in RunRecord /\ run[r].task \in Tasks /\ run[r].worker \in Workers
      BY <2>15 DEF Heartbeat, TypeOK, RunsOK
    <3>2. x \in RunRecord /\ x.task \in Tasks /\ x.worker \in Workers
      BY <3>1 DEF RunRecord
    <3>3. run' = run \/ run' = [run EXCEPT ![r] = x]
      BY <2>15 DEF Heartbeat, TypeOK, RunsOK
    <3>4. RunsOK'
      BY <3>2, <3>3, RunStored DEF TypeOK, RunsOK
    <3> QED
      BY <2>15, <3>1, <3>4, SentinelsDiffer DEF TypeOK, Heartbeat
  <2>16. ASSUME NEW r \in Runs, GraphReturns(r) PROVE TypeOK'
    <3>1. Active(r) /\ RunsOK
      BY <2>16 DEF GraphReturns, TypeOK
    <3>2. PICK to \in {"waiting", "done"} :
            run' = [run EXCEPT ![r] = IF run[r].lockLost
                                        THEN [run[r] EXCEPT !.pc = "release"]
                                        ELSE AfterRead(r, to, "error")]
      BY <2>16, <3>1 DEF GraphReturns, RunsOK
    <3>3. CASE run[r].lockLost
      <4>1. run' = [run EXCEPT ![r] = [run[r] EXCEPT !.pc = "release"]]
        BY <3>2, <3>3
      <4>2. RunsOK'
        BY <3>1, <4>1, MovedRecord, RunStored
      <4> QED
        BY <2>16, <4>2 DEF TypeOK, GraphReturns
    <3>4. CASE ~run[r].lockLost
      <4> DEFINE x == AfterRead(r, to, "error")
      <4>1. x \in RunRecord /\ x.task \in Tasks /\ x.worker \in Workers
        BY <3>1, AfterReadType DEF RunsOK
      <4>2. run' = [run EXCEPT ![r] = x]
        BY <3>2, <3>4
      <4> HIDE DEF x
      <4>3. RunsOK'
        BY <3>1, <4>1, <4>2, RunStored
      <4> QED
        BY <2>16, <4>3 DEF TypeOK, GraphReturns
    <3> QED
      BY <3>3, <3>4
  <2>17. ASSUME NEW r \in Runs, GraphThrows(r) PROVE TypeOK'
    <3>1. Active(r) /\ RunsOK
      BY <2>17 DEF GraphThrows, TypeOK
    <3>2. run' = [run EXCEPT ![r] = [run[r] EXCEPT !.pc = "error"]]
      BY <2>17, <3>1 DEF GraphThrows, RunsOK
    <3>3. RunsOK'
      BY <3>1, <3>2, MovedRecord, RunStored
    <3> QED
      BY <2>17, <3>3 DEF TypeOK, GraphThrows
  <2>18. ASSUME NEW r \in Runs, RunUpdates(r) PROVE TypeOK'
    <3>1. Active(r) /\ RunsOK
      BY <2>18 DEF RunUpdates, TypeOK
    <3>2. PICK pc \in {"log", "release"} :
            run' = [run EXCEPT ![r] = [run[r] EXCEPT !.pc = pc]]
      BY <2>18, <3>1 DEF RunUpdates, RunsOK
    <3>3. RunsOK'
      BY <3>1, <3>2, MovedRecord, RunStored
    <3>4. run[r].to \in Status /\ run[r].task \in Tasks
      BY <3>1 DEF RunsOK, RunRecord
    <3> QED
      BY <2>18, <3>3, <3>4 DEF TypeOK, RunUpdates
  <2>19. ASSUME NEW r \in Runs, RunLogs(r) PROVE TypeOK'
    <3>1. Active(r) /\ RunsOK
      BY <2>19 DEF RunLogs, TypeOK
    <3>2. PICK pc \in {"error", "release"} :
            run' = [run EXCEPT ![r] = [run[r] EXCEPT !.pc = pc]]
      BY <2>19, <3>1 DEF RunLogs, RunsOK
    <3>3. RunsOK'
      BY <3>1, <3>2, MovedRecord, RunStored
    <3> QED
      BY <2>19, <3>3 DEF TypeOK, RunLogs, Fault
  <2>20. ASSUME NEW r \in Runs, RunFails(r) PROVE TypeOK'
    <3>1. Active(r) /\ RunsOK
      BY <2>20 DEF RunFails, TypeOK
    <3>2. CASE run[r].lockLost
      <4>1. run' = [run EXCEPT ![r] = [run[r] EXCEPT !.pc = "release"]]
        BY <2>20, <3>1, <3>2 DEF RunFails, RunsOK
      <4>2. RunsOK'
        BY <3>1, <4>1, MovedRecord, RunStored
      <4> QED
        BY <2>20, <4>2 DEF TypeOK, RunFails
    <3>3. CASE ~run[r].lockLost
      <4> DEFINE x == AfterRead(r, "failed", "release")
      <4>1. x \in RunRecord /\ x.task \in Tasks /\ x.worker \in Workers
        BY <3>1, AfterReadType DEF RunsOK
      <4>2. run' = [run EXCEPT ![r] = x]
        BY <2>20, <3>3 DEF RunFails
      <4> HIDE DEF x
      <4>3. RunsOK'
        BY <3>1, <4>1, <4>2, RunStored
      <4> QED
        BY <2>20, <4>3 DEF TypeOK, RunFails
    <3> QED
      BY <3>2, <3>3
  <2>21. ASSUME NEW r \in Runs, RunReleases(r) PROVE TypeOK'
    <3>1. FreeRun \in RunRecord
      BY DEF RunRecord
    <3>2. RunsOK'
      BY <2>21, <3>1, RunStored DEF TypeOK, RunReleases
    <3> QED
      BY <2>21, <3>2, SentinelsDiffer DEF TypeOK, RunReleases, Unlock, Fault
  <2>22. ASSUME NEW r \in Runs, RunStumbles(r) PROVE TypeOK'
    <3>1. Active(r) /\ RunsOK
      BY <2>22 DEF RunStumbles, TypeOK
    <3>2. PICK pc \in {"error", "release"} :
            run' = [run EXCEPT ![r] = [run[r] EXCEPT !.pc = pc]]
      BY <2>22, <3>1 DEF RunStumbles, RunsOK
    <3>3. RunsOK'
      BY <3>1, <3>2, MovedRecord, RunStored
    <3> QED
      BY <2>22, <3>3 DEF TypeOK, RunStumbles, Fault
  <2>23. CASE UNCHANGED vars
    BY <2>23 DEF TypeOK, RunsOK, vars
  <2> QED
    BY <2>1, <2>2, <2>3, <2>4, <2>5, <2>6, <2>7, <2>8, <2>9, <2>10, <2>11, <2>12,
       <2>13, <2>14, <2>15, <2>16, <2>17, <2>18, <2>19, <2>20, <2>21, <2>22, <2>23
       DEF Next, User, Clock, Worker, Runner, RunStep
<1> QED
  BY <1>1, <1>2, PTL DEF Spec

-----------------------------------------------------------------------------
(* Archived tasks do not run.                                              *)

\* Only a claim sets in_progress, and it wants archived_at NULL; only
\* archiveTask sets archived_at, and its UPDATE refuses in_progress.
THEOREM ArchivedSafe == Spec => []ArchivedNotRunning
<1>1. Init => ArchivedNotRunning
  BY DEF Init, ArchivedNotRunning
<1>2. TypeOK /\ ArchivedNotRunning /\ [Next]_vars => ArchivedNotRunning'
  <2> SUFFICES ASSUME TypeOK, ArchivedNotRunning, [Next]_vars PROVE ArchivedNotRunning'
    OBVIOUS
  <2> USE DEF ArchivedNotRunning, TypeOK
  <2>1. CASE User
    BY <2>1 DEF User, CreateTask, ArchiveTask, ArchiveGuard, RescheduleTask,
                RouteChecksWaiting, RouteDiscards, RequestReads, RequestWrites
  <2>2. CASE Clock
    BY <2>2 DEF Clock, BecomesDue, LeaseLapses, LeaseStalls
  <2>3. CASE Worker
    BY <2>3 DEF Worker, ReclaimExpiredLocks, ClaimNextTask, ClaimLosesRow, Claimable,
                StampClaim, Crash
  <2>4. ASSUME NEW r \in Runs, RunUpdates(r) PROVE ArchivedNotRunning'
    <3>1. run[r].to # "in_progress"
      BY <2>4 DEF RunsOK, RunRecord
    <3> QED
      BY <2>4, <3>1 DEF RunUpdates
  <2>5. CASE Runner
    BY <2>4, <2>5 DEF Runner, RunStep, Heartbeat, GraphReturns, GraphThrows, RunLogs,
                      RunFails, RunReleases, RunStumbles
  <2>6. CASE UNCHANGED vars
    BY <2>6 DEF vars
  <2> QED
    BY <2>1, <2>2, <2>3, <2>5, <2>6 DEF Next
<1> QED
  BY <1>1, <1>2, TypeCorrect, PTL DEF Spec

-----------------------------------------------------------------------------
(* The lock.  The strengthening says who holds it: while no lease has      *)
(* lapsed under a run, every open run owns its task's live lease; and a    *)
(* run whose worker holds the lock has not been superseded by another.     *)

RunsHoldTheirLease ==
  stalls = 0 => \A r \in Runs : Active(r) =>
    /\ lockedBy[run[r].task] = run[r].worker
    /\ lease[run[r].task] = "live"

SupersededRunsLostTheLock ==
  \A r \in Runs :
    /\ ~Active(r) => supersededBy[r] = Nobody
    /\ (Active(r) /\ lockedBy[run[r].task] = run[r].worker)
         => supersededBy[r] \in {Nobody, run[r].worker}

LockInv ==
  /\ RunsHoldTheirLease
  /\ OneRunPerTask
  /\ NoLeakedLock
  /\ SupersededRunsLostTheLock

\* No run begins, ends or changes hands.
SameRuns ==
  \A s \in Runs : /\ Active(s)' <=> Active(s)
                  /\ run'[s].task = run[s].task
                  /\ run'[s].worker = run[s].worker

\* A step that leaves the runs, the locks and the history alone keeps LockInv.
LEMMA LockFrame ==
  ASSUME LockInv, SameRuns, faults' = 0 => faults = 0,
         UNCHANGED <<lockedBy, lease, alive, supersededBy, stalls>>
  PROVE  LockInv'
<1> USE DEF SameRuns
<1>1. RunsHoldTheirLease'
  BY DEF LockInv, RunsHoldTheirLease
<1>2. OneRunPerTask'
  BY DEF LockInv, OneRunPerTask
<1>3. NoLeakedLock'
  BY DEF LockInv, NoLeakedLock, Attended
<1>4. SupersededRunsLostTheLock'
  BY DEF LockInv, SupersededRunsLostTheLock
<1> QED
  BY <1>1, <1>2, <1>3, <1>4 DEF LockInv

\* A runner's steps before its finally block, and its heartbeats, keep the
\* slots' owners.
LEMMA RunnerKeepsRuns ==
  ASSUME TypeOK, NEW r \in Runs,
         \/ Heartbeat(r) \/ GraphReturns(r) \/ GraphThrows(r)
         \/ RunUpdates(r) \/ RunLogs(r) \/ RunFails(r) \/ RunStumbles(r)
  PROVE  SameRuns
<1> USE DEF TypeOK, RunsOK
<1>1. CASE Heartbeat(r)
  BY <1>1 DEF Heartbeat, SameRuns, RunRecord
<1>2. CASE GraphReturns(r)
  BY <1>2, AfterReadType DEF GraphReturns, SameRuns, RunRecord
<1>3. CASE GraphThrows(r)
  BY <1>3 DEF GraphThrows, SameRuns, RunRecord
<1>4. CASE RunUpdates(r)
  BY <1>4 DEF RunUpdates, SameRuns, RunRecord
<1>5. CASE RunLogs(r)
  BY <1>5 DEF RunLogs, SameRuns, RunRecord
<1>6. CASE RunFails(r)
  BY <1>6, AfterReadType DEF RunFails, SameRuns, RunRecord
<1>7. CASE RunStumbles(r)
  BY <1>7 DEF RunStumbles, SameRuns, RunRecord
<1> QED
  BY <1>1, <1>2, <1>3, <1>4, <1>5, <1>6, <1>7

\* One step of each action that touches the locks, the runs or the history.
LEMMA LockInvStep == TypeOK /\ LockInv /\ [Next]_vars => LockInv'
<1> SUFFICES ASSUME TypeOK, LockInv, [Next]_vars PROVE LockInv'
  OBVIOUS
<1> USE DEF TypeOK, RunsOK
<1>1. ASSUME UNCHANGED <<lockedBy, lease, run, alive, supersededBy, stalls, faults>>
      PROVE  LockInv'
  BY <1>1, LockFrame DEF SameRuns
<1>2. CASE User
  BY <1>1, <1>2 DEF User, CreateTask, ArchiveTask, RescheduleTask, RouteChecksWaiting,
                    RouteDiscards, RequestReads, RequestWrites
<1>3. ASSUME NEW t \in Tasks, BecomesDue(t) PROVE LockInv'
  BY <1>1, <1>3 DEF BecomesDue
<1>4. ASSUME NEW t \in Tasks, LeaseLapses(t) PROVE LockInv'
  <2> USE <1>4 DEF LeaseLapses, LockInv
  <2>1. RunsHoldTheirLease'
    BY DEF RunsHoldTheirLease, Attended
  <2>2. OneRunPerTask'
    BY DEF OneRunPerTask
  <2>3. NoLeakedLock'
    BY DEF NoLeakedLock, Attended
  <2>4. SupersededRunsLostTheLock'
    BY DEF SupersededRunsLostTheLock
  <2> QED
    BY <2>1, <2>2, <2>3, <2>4
<1>5. ASSUME NEW t \in Tasks, LeaseStalls(t) PROVE LockInv'
  <2> USE <1>5 DEF LeaseStalls, LockInv
  <2>1. stalls' # 0
    OBVIOUS
  <2>2. RunsHoldTheirLease' /\ OneRunPerTask'
    BY <2>1 DEF RunsHoldTheirLease, OneRunPerTask
  <2>3. NoLeakedLock'
    BY DEF NoLeakedLock, Attended
  <2>4. SupersededRunsLostTheLock'
    BY DEF SupersededRunsLostTheLock
  <2> QED
    BY <2>2, <2>3, <2>4
<1>6. ASSUME NEW w \in Workers, ReclaimExpiredLocks(w) PROVE LockInv'
  <2> USE <1>6 DEF ReclaimExpiredLocks, Reclaimable, LockInv
  <2>1. RunsHoldTheirLease'
    BY DEF RunsHoldTheirLease
  <2>2. OneRunPerTask'
    BY DEF OneRunPerTask
  <2>3. NoLeakedLock'
    BY DEF NoLeakedLock, Attended
  <2>4. SupersededRunsLostTheLock'
    BY SentinelsDiffer DEF SupersededRunsLostTheLock
  <2> QED
    BY <2>1, <2>2, <2>3, <2>4
<1>7. ASSUME NEW w \in Workers, NEW r \in Runs, NEW t \in Tasks, ClaimNextTask(w, r, t)
      PROVE  LockInv'
  <2> USE <1>7 DEF ClaimNextTask, StampClaim, Claimable, LockInv
  <2>1. RunsHoldTheirLease'
    BY DEF RunsHoldTheirLease
  <2>2. OneRunPerTask'
    BY DEF OneRunPerTask, RunsHoldTheirLease
  <2>3. NoLeakedLock'
    BY DEF NoLeakedLock, Attended
  <2>4. SupersededRunsLostTheLock'
    BY DEF SupersededRunsLostTheLock
  <2> QED
    BY <2>1, <2>2, <2>3, <2>4
<1>8. ASSUME NEW w \in Workers, NEW t \in Tasks, ClaimLosesRow(w, t) PROVE LockInv'
  <2> USE <1>8 DEF ClaimLosesRow, StampClaim, Claimable, Fault, LockInv
  <2>1. RunsHoldTheirLease'
    BY DEF RunsHoldTheirLease
  <2>2. OneRunPerTask'
    BY DEF OneRunPerTask
  <2>3. NoLeakedLock'
    BY DEF NoLeakedLock
  <2>4. SupersededRunsLostTheLock'
    BY DEF SupersededRunsLostTheLock
  <2> QED
    BY <2>1, <2>2, <2>3, <2>4
<1>9. ASSUME NEW w \in Workers, Crash(w) PROVE LockInv'
  <2> USE <1>9 DEF Crash, LockInv
  <2>1. \A s \in Runs : Active(s)' <=> Active(s) /\ run[s].worker # w
    OBVIOUS
  <2>2. \A s \in Runs : Active(s)' => run'[s] = run[s] /\ supersededBy'[s] = supersededBy[s]
    BY <2>1
  <2>3. RunsHoldTheirLease'
    BY <2>1, <2>2 DEF RunsHoldTheirLease
  <2>4. OneRunPerTask'
    BY <2>1, <2>2 DEF OneRunPerTask
  <2>5. NoLeakedLock'
    BY <2>1 DEF NoLeakedLock, Attended
  <2>6. SupersededRunsLostTheLock'
    BY <2>1, <2>2 DEF SupersededRunsLostTheLock
  <2> QED
    BY <2>3, <2>4, <2>5, <2>6
<1>10. ASSUME NEW r \in Runs, Heartbeat(r) PROVE LockInv'
  <2>1. SameRuns
    BY <1>10, RunnerKeepsRuns
  <2> USE <1>10, <2>1 DEF Heartbeat, LockInv, SameRuns
  <2>2. RunsHoldTheirLease'
    BY DEF RunsHoldTheirLease
  <2>3. OneRunPerTask'
    BY DEF OneRunPerTask
  <2>4. NoLeakedLock'
    BY DEF NoLeakedLock, Attended
  <2>5. SupersededRunsLostTheLock'
    BY DEF SupersededRunsLostTheLock
  <2> QED
    BY <2>2, <2>3, <2>4, <2>5
<1>11. ASSUME NEW r \in Runs, GraphReturns(r) \/ GraphThrows(r) \/ RunFails(r)
       PROVE  LockInv'
  BY <1>11, RunnerKeepsRuns, LockFrame DEF GraphReturns, GraphThrows, RunFails
<1>12. ASSUME NEW r \in Runs, RunUpdates(r) PROVE LockInv'
  BY <1>12, RunnerKeepsRuns, LockFrame DEF RunUpdates
<1>13. ASSUME NEW r \in Runs, RunLogs(r) \/ RunStumbles(r) PROVE LockInv'
  BY <1>13, RunnerKeepsRuns, LockFrame DEF RunLogs, RunStumbles, Fault
<1>14. ASSUME NEW r \in Runs, RunReleases(r) PROVE LockInv'
  <2> USE <1>14 DEF RunReleases, Unlock, Fault, LockInv
  <2>1. /\ ~Active(r)'
        /\ \A s \in Runs \ {r} : run'[s] = run[s] /\ supersededBy'[s] = supersededBy[s]
    OBVIOUS
  <2>2. RunsHoldTheirLease'
    BY <2>1 DEF RunsHoldTheirLease, OneRunPerTask
  <2>3. OneRunPerTask'
    BY <2>1 DEF OneRunPerTask
  <2>4. NoLeakedLock'
    BY <2>1 DEF NoLeakedLock, Attended
  <2>5. SupersededRunsLostTheLock'
    BY <2>1, SentinelsDiffer DEF SupersededRunsLostTheLock
  <2> QED
    BY <2>2, <2>3, <2>4, <2>5
<1>15. CASE UNCHANGED vars
  BY <1>1, <1>15 DEF vars
<1> QED
  BY <1>2, <1>3, <1>4, <1>5, <1>6, <1>7, <1>8, <1>9, <1>10, <1>11, <1>12, <1>13,
     <1>14, <1>15 DEF Next, Clock, Worker, Runner, RunStep

LEMMA LockInvHolds == Spec => []LockInv
<1>1. Init => LockInv
  BY DEF Init, LockInv, RunsHoldTheirLease, OneRunPerTask, NoLeakedLock,
         SupersededRunsLostTheLock
<1> QED
  BY <1>1, LockInvStep, TypeCorrect, PTL DEF Spec

\* No task ever has two open runs as long as no lease lapsed under a run.
THEOREM OneRunSafe == Spec => []OneRunPerTask
BY LockInvHolds, PTL DEF LockInv

\* Without database errors a live lease of a live worker has a run under it.
THEOREM LocksAttended == Spec => []NoLeakedLock
BY LockInvHolds, PTL DEF LockInv

\* The owner guard keeps a superseded worker's runs from writing a status.
THEOREM StaleWorkerSafe == Spec => StaleWorkerNeverWrites
<1>1. TypeOK /\ LockInv /\ [Next]_vars =>
        [\A r \in Runs : (RunUpdates(r) /\ status' # status) =>
            supersededBy[r] \in {Nobody, run[r].worker}]_vars
  BY DEF LockInv, SupersededRunsLostTheLock, RunUpdates, OwnerGuard
<1> QED
  BY <1>1, LockInvHolds, TypeCorrect, PTL DEF Spec, StaleWorkerNeverWrites

-----------------------------------------------------------------------------
(* Done is terminal once nobody is between a read and an UPDATE.           *)

LEMMA NothingLeavesDone == ASSUME NEW to PROVE ~CanTransition("done", to)
BY DEF CanTransition, Allowed

LEMMA SettledStep ==
  ASSUME TypeOK, [Next]_vars, NEW t \in Tasks, Settled(t)
  PROVE  Settled(t)'
<1> USE DEF TypeOK, RunsOK, Settled
<1>1. CASE \E u \in Tasks : \/ CreateTask(u) \/ ArchiveTask(u) \/ RescheduleTask(u)
                            \/ BecomesDue(u) \/ LeaseLapses(u) \/ LeaseStalls(u)
  BY <1>1 DEF CreateTask, ArchiveTask, RescheduleTask, BecomesDue, LeaseLapses, LeaseStalls
<1>2. CASE \E q \in Requests, u \in Tasks : RouteChecksWaiting(q, u) \/ RouteDiscards(q, u)
  BY <1>2 DEF RouteChecksWaiting, RouteDiscards
<1>3. ASSUME NEW q \in Requests, RequestReads(q) PROVE Settled(t)'
  BY <1>3, NothingLeavesDone DEF RequestReads
<1>4. ASSUME NEW q \in Requests, RequestWrites(q) PROVE Settled(t)'
  BY <1>4 DEF RequestWrites
<1>5. CASE \E w \in Workers : ReclaimExpiredLocks(w) \/ Crash(w)
  BY <1>5 DEF ReclaimExpiredLocks, Reclaimable, Crash
<1>6. ASSUME NEW w \in Workers, NEW r \in Runs, NEW u \in Tasks, ClaimNextTask(w, r, u)
      PROVE  Settled(t)'
  BY <1>6 DEF ClaimNextTask, Claimable, StampClaim
<1>7. ASSUME NEW w \in Workers, NEW u \in Tasks, ClaimLosesRow(w, u) PROVE Settled(t)'
  BY <1>7 DEF ClaimLosesRow, Claimable, StampClaim
<1>8. ASSUME NEW r \in Runs, NEW to \in {"waiting", "done", "failed"},
             NEW failPc \in {"error", "release"}, Active(r),
             AfterRead(r, to, failPc).pc = "update"
      PROVE  run[r].task # t
  BY <1>8, NothingLeavesDone DEF AfterRead, RunRecord
<1>9. ASSUME NEW r \in Runs, GraphReturns(r) PROVE Settled(t)'
  <2>1. Active(r)
    BY <1>9 DEF GraphReturns
  <2>2. \A s \in Runs : run'[s].pc = "update" => run'[s].task # t
    BY <1>9, <1>8, <2>1, AfterReadType DEF GraphReturns, RunRecord
  <2> QED
    BY <1>9, <2>2 DEF GraphReturns
<1>10. ASSUME NEW r \in Runs, RunFails(r) PROVE Settled(t)'
  <2>1. Active(r)
    BY <1>10 DEF RunFails
  <2>2. \A s \in Runs : run'[s].pc = "update" => run'[s].task # t
    BY <1>10, <1>8, <2>1, AfterReadType DEF RunFails, RunRecord
  <2> QED
    BY <1>10, <2>2 DEF RunFails
<1>11. ASSUME NEW r \in Runs,
              Heartbeat(r) \/ GraphThrows(r) \/ RunLogs(r) \/ RunReleases(r) \/ RunStumbles(r)
       PROVE  Settled(t)'
  BY <1>11 DEF Heartbeat, GraphThrows, RunLogs, RunReleases, RunStumbles, RunRecord
<1>12. ASSUME NEW r \in Runs, RunUpdates(r) PROVE Settled(t)'
  BY <1>12 DEF RunUpdates, RunRecord
<1>13. CASE UNCHANGED vars
  BY <1>13 DEF vars
<1> QED
  BY <1>1, <1>2, <1>3, <1>4, <1>5, <1>6, <1>7, <1>9, <1>10, <1>11, <1>12, <1>13
     DEF Next, User, Clock, Worker, Runner, RunStep

\* A done task that nobody is about to overwrite stays done for ever.
THEOREM DoneSettled == Spec => DoneSettles
<1>1. TypeOK /\ [Next]_vars => [\A t \in Tasks : Settled(t) => Settled(t)']_vars
  BY SettledStep
<1> QED
  BY <1>1, TypeCorrect, PTL DEF Spec, DoneSettles

-----------------------------------------------------------------------------
(* The queue implements TaskLifecycle.  The leases are what the abstract   *)
(* task does not have: RunsHoldTheirLease turns what a statement asks of a *)
(* lease into who works on the task.                                       *)

\* Who is open has a row.
RowsExist ==
  /\ \A r \in Runs : Active(r) => status[run[r].task] # "absent"
  /\ \A q \in Requests : req[q].pc # "free" => status[req[q].task] # "absent"

\* No statement deletes a row.
LEMMA NothingVanishes ==
  ASSUME TypeOK, [Next]_vars, NEW t \in Tasks, status[t] # "absent"
  PROVE  status'[t] # "absent"
<1> USE DEF TypeOK, RunsOK
<1>1. CASE User
  BY <1>1 DEF User, CreateTask, ArchiveTask, RescheduleTask, RouteChecksWaiting,
              RouteDiscards, RequestReads, RequestWrites
<1>2. CASE Clock
  BY <1>2 DEF Clock, BecomesDue, LeaseLapses, LeaseStalls
<1>3. CASE Worker
  BY <1>3 DEF Worker, ReclaimExpiredLocks, ClaimNextTask, ClaimLosesRow, StampClaim, Crash
<1>4. ASSUME NEW r \in Runs, RunUpdates(r) PROVE status'[t] # "absent"
  <2>1. run[r].to # "absent"
    BY <1>4 DEF RunRecord
  <2> QED
    BY <1>4, <2>1 DEF RunUpdates
<1>5. CASE Runner
  BY <1>4, <1>5 DEF Runner, RunStep, Heartbeat, GraphReturns, GraphThrows, RunLogs,
                    RunFails, RunReleases, RunStumbles
<1>6. CASE UNCHANGED vars
  BY <1>6 DEF vars
<1> QED
  BY <1>1, <1>2, <1>3, <1>5, <1>6 DEF Next

\* A call that is open keeps its task, and one that begins found its row.
LEMMA CallsKeepTasks ==
  ASSUME TypeOK, [Next]_vars
  PROVE  /\ \A r \in Runs : run'[r].pc # "free" =>
              \/ Active(r) /\ run'[r].task = run[r].task
              \/ run'[r].task \in Tasks /\ status[run'[r].task] # "absent"
         /\ \A q \in Requests : req'[q].pc # "free" =>
              \/ req[q].pc # "free" /\ req'[q].task = req[q].task
              \/ req'[q].task \in Tasks /\ status[req'[q].task] # "absent"
<1> USE DEF TypeOK, RunsOK
<1>1. CASE User
  BY <1>1 DEF User, CreateTask, ArchiveTask, RescheduleTask, RouteChecksWaiting,
              RouteDiscards, RequestReads, RequestWrites
<1>2. CASE Clock
  BY <1>2 DEF Clock, BecomesDue, LeaseLapses, LeaseStalls
<1>3. CASE Worker
  BY <1>3 DEF Worker, ReclaimExpiredLocks, ClaimNextTask, ClaimLosesRow, StampClaim,
              Claimable, Crash
<1>4. ASSUME NEW r \in Runs, Heartbeat(r) \/ RunStep(r) \/ RunStumbles(r)
      PROVE  req' = req /\ \A s \in Runs : run'[s].pc # "free" =>
               Active(s) /\ run'[s].task = run[s].task
  <2>1. req' = req
    BY <1>4 DEF Heartbeat, RunStep, RunStumbles, GraphReturns, GraphThrows, RunUpdates,
                RunLogs, RunFails, RunReleases
  <2>2. CASE RunReleases(r)
    BY <2>1, <2>2 DEF RunReleases
  <2>3. CASE ~RunReleases(r)
    BY <1>4, <2>1, <2>3, RunnerKeepsRuns DEF RunStep, SameRuns
  <2> QED
    BY <2>2, <2>3
<1>5. CASE UNCHANGED vars
  BY <1>5 DEF vars
<1> QED
  BY <1>1, <1>2, <1>3, <1>4, <1>5 DEF Next, Runner

LEMMA RowsExistAlways == Spec => []RowsExist
<1>1. Init => RowsExist
  BY DEF Init, RowsExist
<1>2. TypeOK /\ RowsExist /\ [Next]_vars => RowsExist'
  BY CallsKeepTasks, NothingVanishes DEF RowsExist, TypeOK, RunsOK
<1> QED
  BY <1>1, <1>2, TypeCorrect, PTL DEF Spec

\* What the abstract task sees of a call.
LEMMA MeaningOf ==
  ASSUME NEW c
  PROVE  /\ c.pc = "free" => Meaning(c, c.pc # "free") = Lifecycle!Idle
         /\ c.pc \notin {"free", "update"} =>
              Meaning(c, c.pc # "free") = Lifecycle!Meant(c.task, "none")
         /\ c.pc = "update" =>
              /\ Meaning(c, c.pc # "free") = Lifecycle!Meant(c.task, c.to)
              /\ Meaning(c, c.pc = "update") = Lifecycle!Meant(c.task, c.to)
         /\ c.pc # "update" => Meaning(c, c.pc = "update") = Lifecycle!Idle
BY DEF Meaning, Lifecycle!Idle, Lifecycle!Meant

LEMMA RunSeen ==
  ASSUME NEW r \in Runs
  PROVE  /\ run[r].pc = "free" => Work[r] = Lifecycle!Idle
         /\ run[r].pc \notin {"free", "update"} =>
              Work[r] = Lifecycle!Meant(run[r].task, "none")
         /\ run[r].pc = "update" => Work[r] = Lifecycle!Meant(run[r].task, run[r].to)
<1>1. Work[r] = Meaning(run[r], run[r].pc # "free")
  BY DEF Work
<1> QED
  BY <1>1, MeaningOf

LEMMA RequestSeen ==
  ASSUME NEW q \in Requests
  PROVE  /\ req[q].pc # "update" => Wish[q] = Lifecycle!Idle
         /\ req[q].pc = "update" => Wish[q] = Lifecycle!Meant(req[q].task, req[q].to)
<1>1. Wish[q] = Meaning(req[q], req[q].pc = "update")
  BY DEF Wish
<1> QED
  BY <1>1, MeaningOf

\* One slot is written.
LEMMA WorkWritten ==
  ASSUME TypeOK, NEW r \in Runs, NEW x, run' = [run EXCEPT ![r] = x]
  PROVE  /\ x.pc = "free" => Work' = [Work EXCEPT ![r] = Lifecycle!Idle]
         /\ x.pc \notin {"free", "update"} =>
              Work' = [Work EXCEPT ![r] = Lifecycle!Meant(x.task, "none")]
         /\ x.pc = "update" =>
              Work' = [Work EXCEPT ![r] = Lifecycle!Meant(x.task, x.to)]
<1>1. Work' = [Work EXCEPT ![r] = Meaning(x, x.pc # "free")]
  BY DEF Work, TypeOK, RunsOK
<1> QED
  BY <1>1, MeaningOf

LEMMA WishWritten ==
  ASSUME TypeOK, NEW q \in Requests, NEW x, req' = [req EXCEPT ![q] = x]
  PROVE  /\ x.pc # "update" => Wish' = [Wish EXCEPT ![q] = Lifecycle!Idle]
         /\ x.pc = "update" =>
              Wish' = [Wish EXCEPT ![q] = Lifecycle!Meant(x.task, x.to)]
<1>1. Wish' = [Wish EXCEPT ![q] = Meaning(x, x.pc = "update")]
  BY DEF Wish, TypeOK
<1> QED
  BY <1>1, MeaningOf

\* The records of the abstract task.
LEMMA Notes ==
  ASSUME NEW t, NEW to
  PROVE  /\ Lifecycle!Meant(t, to).on = t /\ Lifecycle!Meant(t, to).wants = to
         /\ t # NoTask => Lifecycle!Meant(t, to) # Lifecycle!Idle
         /\ Lifecycle!Idle.on = NoTask
BY DEF Lifecycle!Idle, Lifecycle!Meant

\* Who works on a task, in both languages.
LEMMA Working ==
  ASSUME TypeOK, NEW t \in Tasks
  PROVE  Lifecycle!WorkingOn(t) = {r \in Runs : Active(r) /\ run[r].task = t}
<1>1. \A r \in Runs : Work[r].on = t <=> Active(r) /\ run[r].task = t
  <2> SUFFICES ASSUME NEW r \in Runs PROVE Work[r].on = t <=> Active(r) /\ run[r].task = t
    OBVIOUS
  <2>1. CASE run[r].pc = "free"
    BY <2>1, RunSeen, Notes, SentinelsDiffer
  <2>2. CASE run[r].pc \notin {"free", "update"}
    BY <2>2, RunSeen, Notes
  <2>3. CASE run[r].pc = "update"
    BY <2>3, RunSeen, Notes
  <2> QED
    BY <2>1, <2>2, <2>3
<1> QED
  BY <1>1 DEF Lifecycle!WorkingOn

\* While no lease has lapsed under a run, a run is alone on its task.
LEMMA WorksAlone ==
  ASSUME TypeOK, LockInv, NEW r \in Runs, Active(r)
  PROVE  Lifecycle!WorkingOn(run[r].task) = {r} \/ stalls > 0
<1>1. run[r].task \in Tasks /\ stalls \in Nat
  BY DEF TypeOK, RunsOK
<1>2. CASE stalls = 0
  BY <1>1, <1>2, Working DEF LockInv, OneRunPerTask
<1> QED
  BY <1>1, <1>2

\* Likewise nobody works on a task without a live lease.
LEMMA NobodyWorks ==
  ASSUME TypeOK, LockInv, NEW t \in Tasks, lease[t] # "live"
  PROVE  Lifecycle!WorkingOn(t) = {} \/ stalls > 0
<1>1. stalls \in Nat
  BY DEF TypeOK
<1>2. CASE stalls = 0
  BY <1>2, Working DEF LockInv, RunsHoldTheirLease
<1> QED
  BY <1>1, <1>2

\* A legal outcome is one for a row that is there.
LEMMA SameTable ==
  ASSUME NEW t, NEW to, status[t] # "absent", CanTransition(status[t], to)
  PROVE  Lifecycle!Legal(t, to)
BY DEF CanTransition, Allowed, Lifecycle!Legal, Lifecycle!CanTransition, Lifecycle!Allowed

\* What the abstract task does not see.
Aside == UNCHANGED <<status, archived, due, req, stalls>>

\* A run that moves on without an outcome to write.
LEMMA TakesBack ==
  ASSUME TypeOK, NEW r \in Runs, Active(r), NEW x, x.pc \notin {"free", "update"},
         x.task = run[r].task, run' = [run EXCEPT ![r] = x], Aside
  PROVE  Lifecycle!Withdraw(r)
<1>1. run[r].task \in Tasks
  BY DEF TypeOK, RunsOK
<1>2. PICK to : Work[r] = Lifecycle!Meant(run[r].task, to)
  BY RunSeen
<1>3. Work' = [Work EXCEPT ![r] = Lifecycle!Meant(run[r].task, "none")]
  <2>1. Work' = [Work EXCEPT ![r] = Lifecycle!Meant(x.task, "none")]
    BY WorkWritten
  <2> QED
    BY <2>1, Zenon
<1>4. Work[r].on = run[r].task
  BY <1>2, Notes
<1>5. UNCHANGED <<status, archived, due, Wish, stalls > 0>>
  BY DEF Aside, Wish
<1>6. Work[r] # Lifecycle!Idle
  BY <1>1, <1>2, Notes, SentinelsDiffer
<1> QED
  BY <1>3, <1>4, <1>5, <1>6 DEF Lifecycle!Withdraw

\* A run whose read of updateTaskStatus passed has an outcome.
LEMMA HasOutcome ==
  ASSUME TypeOK, RowsExist, NEW r \in Runs, run[r].pc \in {"graph", "error"}, Aside,
         NEW to \in {"waiting", "done", "failed"}, NEW failPc \in {"error", "release"},
         run' = [run EXCEPT ![r] = AfterRead(r, to, failPc)]
  PROVE  Lifecycle!Withdraw(r) \/ Lifecycle!Conclude(r, run[r].task)
<1>1. Active(r) /\ run[r] \in RunRecord /\ run[r].task \in Tasks
  BY DEF TypeOK, RunsOK
<1>2. CASE AfterRead(r, to, failPc).pc # "update"
  <2> DEFINE x == AfterRead(r, to, failPc)
  <2>1. x.pc \notin {"free", "update"} /\ x.task = run[r].task
    BY <1>1, <1>2, AfterReadType DEF TypeOK
  <2>2. run' = [run EXCEPT ![r] = x]
    OBVIOUS
  <2> HIDE DEF x
  <2> QED
    BY <1>1, <2>1, <2>2, TakesBack
<1>3. CASE AfterRead(r, to, failPc).pc = "update"
  <2> DEFINE x == [run[r] EXCEPT !.pc = "update", !.to = to]
  <2>1. CanTransition(status[run[r].task], to) /\ AfterRead(r, to, failPc) = x
    BY <1>1, <1>3 DEF AfterRead, RunRecord
  <2>2. x.pc = "update" /\ x.task = run[r].task /\ x.to = to
    BY <1>1 DEF RunRecord
  <2>3. run' = [run EXCEPT ![r] = x]
    BY <2>1
  <2> HIDE DEF x
  <2>4. Work' = [Work EXCEPT ![r] = Lifecycle!Meant(run[r].task, to)]
    <3>1. Work' = [Work EXCEPT ![r] = Lifecycle!Meant(x.task, x.to)]
      BY <2>2, <2>3, WorkWritten
    <3> QED
      BY <2>2, <3>1, Zenon
  <2>5. Work[r] = Lifecycle!Meant(run[r].task, "none")
    BY RunSeen
  <2>6. Lifecycle!Legal(run[r].task, to)
    BY <1>1, <2>1, SameTable DEF RowsExist
  <2>7. UNCHANGED <<status, archived, due, Wish, stalls > 0>>
    BY DEF Aside, Wish
  <2>8. Work[r].on = run[r].task
    BY <2>5, Notes
  <2> QED
    BY <2>4, <2>6, <2>7, <2>8 DEF Lifecycle!Conclude
<1> QED
  BY <1>2, <1>3

\* Every action of the queue is one of the abstract task's or none.
LEMMA StepIsLived ==
  ASSUME TypeOK, LockInv, RowsExist, [Next]_vars
  PROVE  [Lifecycle!Next]_(Lifecycle!vars)
<1> USE DEF TypeOK, RunsOK
<1>1. ASSUME UNCHANGED <<status, archived, due, Work, Wish, stalls > 0>>
      PROVE  UNCHANGED Lifecycle!vars
  BY <1>1 DEF Lifecycle!vars
<1>2. ASSUME UNCHANGED <<run, req, stalls>>
      PROVE  UNCHANGED <<Work, Wish, stalls > 0>>
  BY <1>2 DEF Work, Wish
<1>3. ASSUME NEW t \in Tasks, CreateTask(t) PROVE Lifecycle!Create(t)
  BY <1>2, <1>3 DEF CreateTask, Lifecycle!Create
<1>4. ASSUME NEW t \in Tasks, ArchiveTask(t) PROVE Lifecycle!Archive(t)
  BY <1>2, <1>4 DEF ArchiveTask, ArchiveGuard, Lifecycle!Archive
<1>5. ASSUME NEW t \in Tasks, RescheduleTask(t) \/ BecomesDue(t) PROVE Lifecycle!Schedule(t)
  BY <1>2, <1>5 DEF RescheduleTask, BecomesDue, Lifecycle!Schedule
<1>6. ASSUME NEW q \in Requests, NEW t \in Tasks,
             RouteChecksWaiting(q, t) \/ RouteDiscards(q, t)
      PROVE  UNCHANGED Lifecycle!vars
  <2>1. PICK x : req' = [req EXCEPT ![q] = x] /\ x.pc = "checked"
    BY <1>6 DEF RouteChecksWaiting, RouteDiscards
  <2>2. Wish' = [Wish EXCEPT ![q] = Lifecycle!Idle]
    BY <2>1, WishWritten
  <2>3. Wish[q] = Lifecycle!Idle
    BY <1>6, RequestSeen DEF RouteChecksWaiting, RouteDiscards
  <2>4. Wish' = Wish
    BY <2>2, <2>3 DEF Wish
  <2>5. UNCHANGED <<status, archived, due, Work, stalls > 0>>
    BY <1>6 DEF RouteChecksWaiting, RouteDiscards, Work
  <2> QED
    BY <1>1, <2>4, <2>5
<1>7. ASSUME NEW q \in Requests, RequestReads(q)
      PROVE  UNCHANGED Lifecycle!vars \/ Lifecycle!Decide(q, req[q].task)
  <2>1. UNCHANGED <<status, archived, due, Work, stalls > 0>>
    BY <1>7 DEF RequestReads, Work
  <2>2. Wish[q] = Lifecycle!Idle
    BY <1>7, RequestSeen DEF RequestReads
  <2>3. req[q].task \in Tasks /\ req[q].to \in {"todo", "done", "failed"}
    BY <1>7 DEF RequestReads
  <2>4. CASE CanTransition(status[req[q].task], req[q].to)
    <3> DEFINE x == [req[q] EXCEPT !.pc = "update"]
    <3>1. req' = [req EXCEPT ![q] = x]
      BY <1>7, <2>4 DEF RequestReads
    <3>2. x.pc = "update" /\ x.task = req[q].task /\ x.to = req[q].to
      OBVIOUS
    <3> HIDE DEF x
    <3>3. Wish' = [Wish EXCEPT ![q] = Lifecycle!Meant(req[q].task, req[q].to)]
      BY <3>1, <3>2, WishWritten
    <3>4. Lifecycle!Legal(req[q].task, req[q].to)
      BY <1>7, <2>4, SameTable DEF RowsExist, RequestReads
    <3> QED
      BY <2>1, <2>2, <2>3, <3>3, <3>4 DEF Lifecycle!Decide
  <2>5. CASE ~CanTransition(status[req[q].task], req[q].to)
    <3>1. req' = [req EXCEPT ![q] = FreeReq] /\ FreeReq.pc = "free"
      BY <1>7, <2>5 DEF RequestReads
    <3>2. Wish' = [Wish EXCEPT ![q] = Lifecycle!Idle]
      BY <3>1, WishWritten
    <3>3. Wish' = Wish
      BY <2>2, <3>2 DEF Wish
    <3> QED
      BY <1>1, <2>1, <3>3
  <2> QED
    BY <2>4, <2>5
<1>8. ASSUME NEW q \in Requests, RequestWrites(q) PROVE Lifecycle!Act(q)
  <2>1. Wish[q].on = req[q].task /\ Wish[q].wants = req[q].to /\ Wish[q] # Lifecycle!Idle
    BY <1>8, RequestSeen, Notes, SentinelsDiffer DEF RequestWrites
  <2>2. Wish' = [Wish EXCEPT ![q] = Lifecycle!Idle]
    <3>1. req' = [req EXCEPT ![q] = FreeReq] /\ FreeReq.pc = "free"
      BY <1>8 DEF RequestWrites
    <3> QED
      BY <3>1, WishWritten
  <2>3. UNCHANGED <<archived, due, Work, stalls > 0>>
    BY <1>8 DEF RequestWrites, Work
  <2>4. status' = [status EXCEPT ![Wish[q].on] = Wish[q].wants]
    BY <1>8, <2>1 DEF RequestWrites
  <2> QED
    BY <2>1, <2>2, <2>3, <2>4 DEF Lifecycle!Act
<1>9. ASSUME NEW t \in Tasks, LeaseLapses(t) PROVE UNCHANGED Lifecycle!vars
  BY <1>1, <1>2, <1>9 DEF LeaseLapses
<1>10. ASSUME NEW t \in Tasks, LeaseStalls(t) PROVE Lifecycle!Stall
  <2>1. (stalls > 0)' = TRUE
    BY <1>10 DEF LeaseStalls
  <2>2. UNCHANGED <<Work, Wish>>
    BY <1>10 DEF LeaseStalls, Work, Wish
  <2> QED
    BY <1>10, <2>1, <2>2 DEF LeaseStalls, Lifecycle!Stall
<1>11. ASSUME NEW w \in Workers, ReclaimExpiredLocks(w)
       PROVE  Lifecycle!Requeue({t \in Tasks : Reclaimable(t)})
  BY <1>2, <1>11, NobodyWorks DEF ReclaimExpiredLocks, Reclaimable, Lifecycle!Requeue
<1>12. ASSUME NEW w \in Workers, Crash(w)
       PROVE  Lifecycle!Leave({r \in Runs : run[r].worker = w})
  <2>1. \A r \in Runs : Meaning(run'[r], run'[r].pc # "free") =
          IF run[r].worker = w THEN Lifecycle!Idle ELSE Work[r]
    <3>1. Meaning(FreeRun, FreeRun.pc # "free") = Lifecycle!Idle
      BY MeaningOf
    <3> QED
      BY <1>12, <3>1 DEF Crash, Work
  <2>2. Work' = [r \in Runs |-> IF r \in {s \in Runs : run[s].worker = w}
                                  THEN Lifecycle!Idle ELSE Work[r]]
    BY <2>1 DEF Work
  <2>3. UNCHANGED <<status, archived, due, Wish, stalls > 0>>
    BY <1>12 DEF Crash, Wish
  <2> QED
    BY <2>2, <2>3 DEF Lifecycle!Leave
<1>13. ASSUME NEW w \in Workers, NEW r \in Runs, NEW t \in Tasks, ClaimNextTask(w, r, t)
       PROVE  Lifecycle!Start(t)
  <2> DEFINE x == [pc |-> "graph", task |-> t, worker |-> w,
                   lockLost |-> FALSE, to |-> "failed"]
  <2>1. Work' = [Work EXCEPT ![r] = Lifecycle!Meant(t, "none")]
    <3>1. run' = [run EXCEPT ![r] = x] /\ x.pc = "graph" /\ x.task = t
      BY <1>13 DEF ClaimNextTask
    <3> HIDE DEF x
    <3> QED
      BY <3>1, WorkWritten
  <2>2. Work[r] = Lifecycle!Idle
    BY <1>13, RunSeen DEF ClaimNextTask
  <2>3. Lifecycle!WorkingOn(t) = {} \/ stalls > 0
    BY <1>13, NobodyWorks DEF ClaimNextTask, Claimable
  <2>4. UNCHANGED <<archived, due, Wish, stalls > 0>>
    BY <1>13 DEF ClaimNextTask, Wish
  <2> QED
    BY <1>13, <2>1, <2>2, <2>3, <2>4 DEF ClaimNextTask, Claimable, StampClaim, Lifecycle!Start
<1>14. ASSUME NEW w \in Workers, NEW t \in Tasks, ClaimLosesRow(w, t) PROVE Lifecycle!Start(t)
  <2>1. Lifecycle!WorkingOn(t) = {} \/ stalls > 0
    BY <1>14, NobodyWorks DEF ClaimLosesRow, Claimable
  <2> QED
    BY <1>2, <1>14, <2>1 DEF ClaimLosesRow, Claimable, StampClaim, Lifecycle!Start
<1>15. ASSUME NEW r \in Runs, Heartbeat(r) PROVE UNCHANGED Lifecycle!vars
  <2>1. UNCHANGED <<status, archived, due, Wish, stalls > 0>>
    BY <1>15 DEF Heartbeat, Wish
  <2>2. \A s \in Runs : /\ run'[s].pc = run[s].pc
                        /\ run'[s].task = run[s].task
                        /\ run'[s].to = run[s].to
    BY <1>15 DEF Heartbeat, RunRecord
  <2>3. Work' = Work
    BY <2>2 DEF Work, Meaning
  <2> QED
    BY <1>1, <2>1, <2>3
<1>16. ASSUME NEW r \in Runs, GraphReturns(r) \/ RunFails(r)
       PROVE  Lifecycle!Withdraw(r) \/ Lifecycle!Conclude(r, run[r].task)
  <2>1. Active(r) /\ Aside /\ run[r].pc \in {"graph", "error"}
    BY <1>16 DEF GraphReturns, RunFails, Aside
  <2>2. PICK to \in {"waiting", "done", "failed"}, failPc \in {"error", "release"} :
          run' = [run EXCEPT ![r] = IF run[r].lockLost
                                      THEN [run[r] EXCEPT !.pc = "release"]
                                      ELSE AfterRead(r, to, failPc)]
    BY <1>16 DEF GraphReturns, RunFails
  <2>3. CASE run[r].lockLost
    <3> DEFINE x == [run[r] EXCEPT !.pc = "release"]
    <3>1. x.pc = "release" /\ x.task = run[r].task /\ run' = [run EXCEPT ![r] = x]
      BY <2>2, <2>3 DEF RunRecord
    <3> HIDE DEF x
    <3> QED
      BY <2>1, <3>1, TakesBack
  <2>4. CASE ~run[r].lockLost
    <3>1. run' = [run EXCEPT ![r] = AfterRead(r, to, failPc)]
      BY <2>2, <2>4
    <3> QED
      BY <2>1, <3>1, HasOutcome
  <2> QED
    BY <2>3, <2>4
<1>17. ASSUME NEW r \in Runs, GraphThrows(r) \/ RunLogs(r) \/ RunStumbles(r)
       PROVE  Lifecycle!Withdraw(r)
  <2>1. Active(r) /\ Aside
    BY <1>17 DEF GraphThrows, RunLogs, RunStumbles, Aside
  <2>2. PICK pc \in {"error", "release"} : run' = [run EXCEPT ![r] = [run[r] EXCEPT !.pc = pc]]
    BY <1>17 DEF GraphThrows, RunLogs, RunStumbles
  <2> DEFINE x == [run[r] EXCEPT !.pc = pc]
  <2>3. x.pc \notin {"free", "update"} /\ x.task = run[r].task
    BY DEF RunRecord
  <2>4. run' = [run EXCEPT ![r] = x]
    BY <2>2
  <2> HIDE DEF x
  <2> QED
    BY <2>1, <2>3, <2>4, TakesBack
<1>18. ASSUME NEW r \in Runs, RunUpdates(r)
       PROVE  Lifecycle!Withdraw(r) \/ Lifecycle!Finish(r, run[r].task)
  <2>1. Active(r) /\ run[r].pc = "update" /\ run[r] \in RunRecord /\ run[r].task \in Tasks
    BY <1>18 DEF RunUpdates
  <2>2. PICK pc \in {"log", "release"} : run' = [run EXCEPT ![r] = [run[r] EXCEPT !.pc = pc]]
    BY <1>18 DEF RunUpdates
  <2> DEFINE x == [run[r] EXCEPT !.pc = pc]
  <2>3. x.pc \notin {"free", "update"} /\ x.task = run[r].task
    BY <2>1 DEF RunRecord
  <2>4. run' = [run EXCEPT ![r] = x]
    BY <2>2
  <2> HIDE DEF x
  <2>5. CASE ~OwnerGuard(r)
    <3>1. Aside
      BY <1>18, <2>5 DEF RunUpdates, Aside
    <3> QED
      BY <2>1, <2>3, <2>4, <3>1, TakesBack
  <2>6. CASE OwnerGuard(r)
    <3>1. Work[r] = Lifecycle!Meant(run[r].task, run[r].to)
      BY <2>1, RunSeen
    <3>2. Work[r].on = run[r].task /\ Work[r].wants = run[r].to /\ run[r].to # "none"
      BY <2>1, <3>1, Notes DEF RunRecord
    <3>3. Work' = [Work EXCEPT ![r] = Lifecycle!Meant(run[r].task, "none")]
      BY <2>3, <2>4, WorkWritten
    <3>4. status' = [status EXCEPT ![run[r].task] = Work[r].wants]
      BY <1>18, <2>6, <3>2 DEF RunUpdates
    <3>5. UNCHANGED <<archived, due, Wish, stalls > 0>>
      BY <1>18 DEF RunUpdates, Wish
    <3>6. Lifecycle!WorkingOn(run[r].task) = {r} \/ stalls > 0
      BY <2>1, WorksAlone
    <3> QED
      BY <3>2, <3>3, <3>4, <3>5, <3>6 DEF Lifecycle!Finish
  <2> QED
    BY <2>5, <2>6
<1>19. ASSUME NEW r \in Runs, RunReleases(r) PROVE Lifecycle!Leave({r})
  <2>1. Work' = [Work EXCEPT ![r] = Lifecycle!Idle]
    <3>1. run' = [run EXCEPT ![r] = FreeRun] /\ FreeRun.pc = "free"
      BY <1>19 DEF RunReleases
    <3> QED
      BY <3>1, WorkWritten
  <2>2. Work' = [s \in Runs |-> IF s \in {r} THEN Lifecycle!Idle ELSE Work[s]]
    BY <2>1 DEF Work
  <2>3. UNCHANGED <<status, archived, due, Wish, stalls > 0>>
    BY <1>19 DEF RunReleases, Wish
  <2> QED
    BY <2>2, <2>3 DEF Lifecycle!Leave
<1>20. ASSUME UNCHANGED vars PROVE UNCHANGED Lifecycle!vars
  BY <1>1, <1>2, <1>20 DEF vars
<1>21. CASE User
  BY <1>3, <1>4, <1>5, <1>6, <1>7, <1>8, <1>21 DEF User, RequestReads, Lifecycle!Next
<1>22. CASE Clock
  BY <1>5, <1>9, <1>10, <1>22 DEF Clock, Lifecycle!Next
<1>23. CASE Worker
  BY <1>11, <1>12, <1>13, <1>14, <1>23 DEF Worker, Lifecycle!Next
<1>24. ASSUME NEW r \in Runs, RunStep(r) \/ Heartbeat(r) \/ RunStumbles(r)
       PROVE  [Lifecycle!Next]_(Lifecycle!vars)
  <2>1. Active(r) => run[r].task \in Tasks
    OBVIOUS
  <2>2. CASE GraphReturns(r) \/ RunFails(r)
    BY <1>16, <2>1, <2>2 DEF GraphReturns, RunFails, Lifecycle!Next
  <2>3. CASE RunUpdates(r)
    BY <1>18, <2>1, <2>3 DEF RunUpdates, Lifecycle!Next
  <2>4. CASE RunReleases(r)
    BY <1>19, <2>4 DEF Lifecycle!Next
  <2>5. CASE Heartbeat(r)
    BY <1>15, <2>5
  <2>6. CASE GraphThrows(r) \/ RunLogs(r) \/ RunStumbles(r)
    BY <1>17, <2>6 DEF Lifecycle!Next
  <2> QED
    BY <1>24, <2>2, <2>3, <2>4, <2>5, <2>6 DEF RunStep
<1> QED
  BY <1>20, <1>21, <1>22, <1>23, <1>24 DEF Next, Runner

\* However claims, reclaims, heartbeats, stale requests, crashes and database
\* errors interleave, the queue moves every task as TaskLifecycle promises.
THEOREM LifecycleKept == Spec => KeepsLifecycle
<1>1. Init => Lifecycle!Init
  <2>1. ASSUME Init
        PROVE  /\ Work = [r \in Runs |-> Lifecycle!Idle]
               /\ Wish = [q \in Requests |-> Lifecycle!Idle]
               /\ (stalls > 0) = FALSE
    BY <2>1, MeaningOf DEF Init, Work, Wish
  <2> QED
    BY <2>1 DEF Init, Lifecycle!Init
<1> QED
  BY <1>1, StepIsLived, TypeCorrect, LockInvHolds, RowsExistAlways, PTL
     DEF Spec, KeepsLifecycle, Lifecycle!Spec
=============================================================================
