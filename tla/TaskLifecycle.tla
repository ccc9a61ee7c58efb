---------------------------- MODULE TaskLifecycle ----------------------------
(***************************************************************************)
(* What the queue promises of a task, without locks, leases, heartbeats or *)
(* the workers that hold them: a due, unarchived task that nobody works on *)
(* is taken up by at most one run; its status is moved by that run and by  *)
(* users' decisions alone, each legal when it was checked and written once *)
(* or never; a task goes back to the queue only when nobody works on it.   *)
(*                                                                         *)
(* A check and its write are two steps, as updateTaskStatus has them: what *)
(* is decided may meet another status than the one it was checked against. *)
(* The one excuse for a second run is a lease that lapsed under a live one.*)
(***************************************************************************)
EXTENDS TaskStates

CONSTANTS Tasks, Runs, Requests, NoTask

VARIABLES
  status,    \* "absent" or a Status
  archived,  \* the user has put the task away
  due,       \* its schedule has come
  work,      \* what each run works on and is about to write, if anything
  wish,      \* the decision each request has had accepted and not yet written
  stalled    \* a lease has lapsed under a live run
vars == <<status, archived, due, work, wish, stalled>>

Idle == [on |-> NoTask, wants |-> "none"]
Meant(t, to) == [on |-> t, wants |-> to]

WorkingOn(t) == {r \in Runs : work[r].on = t}
Legal(t, to) == status[t] # "absent" /\ CanTransition(status[t], to)

Init ==
  /\ status = [t \in Tasks |-> "absent"]
  /\ archived = [t \in Tasks |-> FALSE]
  /\ due = [t \in Tasks |-> TRUE]
  /\ work = [r \in Runs |-> Idle]
  /\ wish = [q \in Requests |-> Idle]
  /\ stalled = FALSE

-----------------------------------------------------------------------------
(* Users.                                                                  *)

Create(t) ==
  /\ status[t] = "absent"
  /\ status' = [status EXCEPT ![t] = "todo"]
  /\ \E d \in BOOLEAN : due' = [due EXCEPT ![t] = d]
  /\ UNCHANGED <<archived, work, wish, stalled>>

Archive(t) ==
  /\ status[t] \notin {"absent", "in_progress"}
  /\ archived' = [archived EXCEPT ![t] = TRUE]
  /\ UNCHANGED <<status, due, work, wish, stalled>>

\* Before a task is taken up it may be put off; a schedule may also arrive.
Schedule(t) ==
  /\ \E d \in BOOLEAN : due' = [due EXCEPT ![t] = d] /\ (d \/ status[t] = "todo")
  /\ UNCHANGED <<status, archived, work, wish, stalled>>

Decide(q, t) ==
  /\ wish[q] = Idle
  /\ \E to \in {"todo", "done", "failed"} :
       Legal(t, to) /\ wish' = [wish EXCEPT ![q] = Meant(t, to)]
  /\ UNCHANGED <<status, archived, due, work, stalled>>

Act(q) ==
  /\ wish[q] # Idle
  /\ status' = [status EXCEPT ![wish[q].on] = wish[q].wants]
  /\ wish' = [wish EXCEPT ![q] = Idle]
  /\ UNCHANGED <<archived, due, work, stalled>>

-----------------------------------------------------------------------------
(* Runs.                                                                   *)

\* A task is taken up; the run may be lost at once.
Start(t) ==
  /\ status[t] = "todo" /\ ~archived[t] /\ due[t]
  /\ WorkingOn(t) = {} \/ stalled
  /\ status' = [status EXCEPT ![t] = "in_progress"]
  /\ \/ work' = work
     \/ \E r \in Runs : work[r] = Idle /\ work' = [work EXCEPT ![r] = Meant(t, "none")]
  /\ UNCHANGED <<archived, due, wish, stalled>>

\* The run has an outcome it means to write.
Conclude(r, t) ==
  /\ work[r].on = t
  /\ \E to \in {"waiting", "done", "failed"} :
       Legal(t, to) /\ work' = [work EXCEPT ![r] = Meant(t, to)]
  /\ UNCHANGED <<status, archived, due, wish, stalled>>

\* It meets an error or has lost its lease, and writes nothing.
Withdraw(r) ==
  /\ work[r] # Idle
  /\ work' = [work EXCEPT ![r] = Meant(work[r].on, "none")]
  /\ UNCHANGED <<status, archived, due, wish, stalled>>

\* Only who works on a task alone writes its outcome.
Finish(r, t) ==
  /\ work[r].on = t /\ work[r].wants # "none"
  /\ WorkingOn(t) = {r} \/ stalled
  /\ status' = [status EXCEPT ![t] = work[r].wants]
  /\ work' = [work EXCEPT ![r] = Meant(t, "none")]
  /\ UNCHANGED <<archived, due, wish, stalled>>

\* A run ends, or a process dies with all of its runs.
Leave(gone) ==
  /\ work' = [r \in Runs |-> IF r \in gone THEN Idle ELSE work[r]]
  /\ UNCHANGED <<status, archived, due, wish, stalled>>

\* Abandoned tasks go back to the queue.
Requeue(left) ==
  /\ \A t \in left : status[t] = "in_progress" /\ (WorkingOn(t) = {} \/ stalled)
  /\ status' = [t \in Tasks |-> IF t \in left THEN "todo" ELSE status[t]]
  /\ UNCHANGED <<archived, due, work, wish, stalled>>

Stall ==
  /\ stalled' = TRUE
  /\ UNCHANGED <<status, archived, due, work, wish>>

Next == \/ \E gone \in SUBSET Runs : Leave(gone)
        \/ \E r \in Runs : Withdraw(r) \/ \E t \in Tasks : Conclude(r, t) \/ Finish(r, t)
        \/ \E q \in Requests : Act(q) \/ \E t \in Tasks : Decide(q, t)
        \/ \E t \in Tasks : Create(t) \/ Archive(t) \/ Schedule(t) \/ Start(t)
        \/ \E left \in SUBSET Tasks : Requeue(left)
        \/ Stall

Spec == Init /\ [][Next]_vars
=============================================================================
