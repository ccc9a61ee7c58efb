----------------------------- MODULE WorkerPool -----------------------------
(***************************************************************************)
(* One TaskWorker: its poll timer, the ticks it starts, the 'task.ready'   *)
(* signal that starts a tick out of turn, its count of open runners, and   *)
(* stop().  JavaScript runs one piece of code at a time: an action is what *)
(* runs between two awaits.  Ticks overlap because a tick awaits the       *)
(* database.  The table is reduced to the number of claimable rows.        *)
(***************************************************************************)
EXTENDS Integers, FiniteSets

CONSTANTS
  Ticks,       \* tick() calls that may be open at once
  Max,         \* WORKER_MAX_CONCURRENCY
  MaxJobs,     \* bound: tasks that ever become claimable
  MaxKicks,    \* bound: 'task.ready' signals ever sent
  MaxFaults    \* bound: statements of a tick that fail with a database error

ASSUME TicksFinite == IsFiniteSet(Ticks) /\ Ticks # {}
ASSUME MaxPositive == Max \in Nat \ {0}
ASSUME BoundsAreNaturals ==
  MaxJobs \in Nat /\ MaxKicks \in Nat /\ MaxFaults \in Nat

VARIABLES
  pc,          \* of each tick: "idle", or what it awaits
  inflight,    \* this.inflight
  timers,      \* timeouts that are set and have not fired
  handle,      \* this.timer: "null", a "pending" timeout or a "fired" one
  stopped,     \* this.stopped
  exited,      \* stop() returned and the process ended
  ready,       \* claimable rows
  jobs, kicks, faults   \* counters of the bounds

env  == <<jobs, kicks, faults>>
vars == <<pc, inflight, timers, handle, stopped, exited, ready, env>>

Open(k)  == pc[k] # "idle"
OpenTicks == {k \in Ticks : Open(k)}
Claiming == {k \in Ticks : pc[k] = "claiming"}

TypeOK ==
  /\ pc \in [Ticks -> {"idle", "reclaiming", "claiming"}]
  /\ inflight \in Nat /\ timers \in Nat /\ ready \in Nat
  /\ handle \in {"null", "pending", "fired"}
  /\ handle = "pending" => timers > 0
  /\ stopped \in BOOLEAN /\ exited \in BOOLEAN
  /\ jobs \in Nat /\ kicks \in Nat /\ faults \in Nat

\* start(): the signal handler is registered and the first poll is scheduled.
Init ==
  /\ pc = [k \in Ticks |-> "idle"]
  /\ inflight = 0
  /\ timers = 1 /\ handle = "pending"
  /\ stopped = FALSE /\ exited = FALSE
  /\ ready = 0
  /\ jobs = 0 /\ kicks = 0 /\ faults = 0

-----------------------------------------------------------------------------
(* The poll loop.                                                          *)

\* Mutant: a cancel that takes a fired timeout in this.timer for a pending one.
Cancel_AnyHandle ==
  /\ timers' = IF handle # "null" THEN timers - 1 ELSE timers
  /\ handle' = "null"

\* clearTimeout(this.timer); this.timer = null.
Cancel ==
  /\ timers' = IF handle = "pending" THEN timers - 1 ELSE timers
  /\ handle' = "null"

\* scheduleNext: a new timeout, kept in this.timer over whatever was there.
ScheduleNext ==
  IF stopped THEN UNCHANGED <<timers, handle>>
             ELSE timers' = timers + 1 /\ handle' = "pending"

\* Mutant: scheduleNext after the loop instead of in a finally block.
Leave_NotOnError(k, how) ==
  /\ pc' = [pc EXCEPT ![k] = "idle"]
  /\ IF how = "throws" THEN UNCHANGED <<timers, handle>> ELSE ScheduleNext

\* The tick ends, normally or by an exception, through its finally block.
Leave(k, how) ==
  /\ pc' = [pc EXCEPT ![k] = "idle"]
  /\ ScheduleNext

\* Mutant: the capacity check taken once per tick, not before each claim.
LoopTest_FirstOnly(k, n) ==
  IF pc[k] = "claiming" \/ n < Max
    THEN pc' = [pc EXCEPT ![k] = "claiming"] /\ UNCHANGED <<timers, handle>>
    ELSE Leave(k, "returns")

\* The while condition with n runners open: claim once more, or leave.
LoopTest(k, n) ==
  IF n < Max
    THEN pc' = [pc EXCEPT ![k] = "claiming"] /\ UNCHANGED <<timers, handle>>
    ELSE Leave(k, "returns")

\* A timeout fires: the one in this.timer, or one that was overwritten there.
TimerFires(k) ==
  /\ ~exited /\ ~Open(k)
  /\ timers > 0
  /\ timers' = timers - 1
  /\ \/ handle = "pending" /\ handle' = "fired"
     \/ (handle = "pending" => timers > 1) /\ handle' = handle
  /\ pc' = [pc EXCEPT ![k] = "reclaiming"]
  /\ UNCHANGED <<inflight, stopped, exited, ready, env>>

\* kick(), called synchronously by the signal: cancel the pending timeout,
\* if it is the one in this.timer, and tick now.
Kick(k) ==
  /\ ~stopped /\ ~Open(k)
  /\ kicks < MaxKicks /\ kicks' = kicks + 1
  /\ Cancel
  /\ pc' = [pc EXCEPT ![k] = "reclaiming"]
  /\ UNCHANGED <<inflight, stopped, exited, ready, jobs, faults>>

\* reclaimExpiredLocks returns: the loop begins.
Reclaimed(k) ==
  /\ ~exited /\ pc[k] = "reclaiming"
  /\ LoopTest(k, inflight)
  /\ UNCHANGED <<inflight, stopped, exited, ready, env>>

\* claimNextTask returns a task: count it, start its runner, loop.
Claimed(k) ==
  /\ ~exited /\ pc[k] = "claiming" /\ ready > 0
  /\ ready' = ready - 1
  /\ inflight' = inflight + 1
  /\ LoopTest(k, inflight + 1)
  /\ UNCHANGED <<stopped, exited, env>>

\* claimNextTask returns null: the tick ends.
NothingToClaim(k) ==
  /\ ~exited /\ pc[k] = "claiming" /\ ready = 0
  /\ Leave(k, "returns")
  /\ UNCHANGED <<inflight, stopped, exited, ready, env>>

\* A statement of the tick throws.
TickThrows(k) ==
  /\ ~exited /\ Open(k)
  /\ faults < MaxFaults /\ faults' = faults + 1
  /\ Leave(k, "throws")
  /\ UNCHANGED <<inflight, stopped, exited, ready, jobs, kicks>>

\* Mutant: the count taken down when a runner succeeds, not in its finally;
\* here every runner fails.
RunEnds_OnSuccess ==
  /\ ~exited /\ inflight > 0
  /\ inflight' = inflight
  /\ UNCHANGED <<pc, timers, handle, stopped, exited, ready, env>>

\* A runner settles, either way.
RunEnds ==
  /\ ~exited /\ inflight > 0
  /\ inflight' = inflight - 1
  /\ UNCHANGED <<pc, timers, handle, stopped, exited, ready, env>>

-----------------------------------------------------------------------------
(* Shutdown, and the table.                                                *)

\* stop(): unsubscribe, cancel the timeout in this.timer.
Stop ==
  /\ ~stopped
  /\ stopped' = TRUE
  /\ Cancel
  /\ UNCHANGED <<pc, inflight, exited, ready, env>>

\* stop() returns, with no runner open or after 10 s, and shutdown exits.
Exit ==
  /\ stopped /\ ~exited
  /\ exited' = TRUE
  /\ UNCHANGED <<pc, inflight, timers, handle, stopped, ready, env>>

\* A row becomes claimable: created, re-queued, due, or reclaimed.
JobArrives ==
  /\ jobs < MaxJobs /\ jobs' = jobs + 1
  /\ ready' = ready + 1
  /\ UNCHANGED <<pc, inflight, timers, handle, stopped, exited, kicks, faults>>

-----------------------------------------------------------------------------
Tick(k) == Reclaimed(k) \/ Claimed(k) \/ NothingToClaim(k) \/ TickThrows(k)

Next == \/ \E k \in Ticks : TimerFires(k) \/ Kick(k) \/ Tick(k)
        \/ RunEnds \/ Stop \/ Exit \/ JobArrives

Spec == Init /\ [][Next]_vars

(* Timeouts fire, a tick's statements return, runners settle.              *)
Fairness ==
  /\ WF_vars(\E k \in Ticks : TimerFires(k))
  /\ \A k \in Ticks : WF_vars(Tick(k))
  /\ WF_vars(RunEnds)

FairSpec == Spec /\ Fairness

-----------------------------------------------------------------------------
(* Properties.                                                             *)

\* The capacity check is stale by the time its claim returns, once per tick
\* that overlaps: n ticks open at once push the runners to Max + n - 1, and
\* never further, however often they loop.
OverlapBound == inflight + Cardinality(Claiming) <= Max - 1 + Cardinality(Ticks)

\* The poll loop never dies: until stop(), a timeout is set or a tick is open
\* (and will set one), whatever throws and however kicks and polls interleave.
PollLoopAlive == ~stopped => timers > 0 \/ OpenTicks # {}

\* "one worker process can run up to WORKER_MAX_CONCURRENCY tasks at once".
AtMostMaxRunners == inflight <= Max

\* A claimable row is eventually claimed by a worker that is not stopped.
\* Re-queues by approve and feedback send no signal: the poll must find them.
ReadyIsClaimed == (ready > 0) ~> (ready = 0 \/ stopped)
=============================================================================
