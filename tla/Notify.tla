------------------------------- MODULE Notify -------------------------------
(***************************************************************************)
(* Mail about tasks: the dispatcher that hears a task was completed, the   *)
(* watcher that looks for tasks waiting too long, the settings both ask,   *)
(* and the process they live in.                                           *)
(*                                                                         *)
(* A task waits in rounds, and every waiting task is taken to be past the  *)
(* threshold.  What a stamp or an event has to do with the writes of a     *)
(* task's row is ApprovalGate's subject.  Addresses and texts are left     *)
(* out, the mailer is configured, and one request at a time changes the    *)
(* settings or ends a task: of two that overlap, the one may overwrite     *)
(* what the other has set, or publish once more what it has.               *)
(***************************************************************************)
EXTENDS Naturals

CONSTANTS
  Tasks,       \* tasks of one user and tenant
  Kinds,       \* who may have made a task, and its params.notify
  Bodies,      \* bodies of requests to change the settings
  Nothing,     \* no task
  PerTick,     \* tasks a tick of the watcher takes up; 25
  Saved,       \* settings the user may have had so far
  Rounds,      \* bound: rounds each task waits
  MaxRounds,   \* the most of them
  MaxPatches,  \* bound: requests to change the settings
  MaxFaults    \* bound: errors, shutdowns and deaths of the process

ASSUME NotifyBounds ==
  /\ PerTick \in Nat \ {0} /\ MaxRounds \in Nat /\ Rounds \in [Tasks -> 0..MaxRounds]
  /\ MaxPatches \in Nat /\ MaxFaults \in Nat
ASSUME NotifyNames == Nothing \notin Tasks

\* created_by, or a child whose parent has one, or neither; task.input.params.
\* notify is "own" for true, {} and an address.
Kind == [creator : {"user", "child", "orphan"}, notify : {"unset", "off", "own"}]
ASSUME NotifyKinds == Kinds \in [Tasks -> SUBSET Kind]

Keys == {"done", "waiting"}
Settings == [Keys -> {"unset", "on", "off"}]
ASSUME NotifyBodies == Bodies \subseteq Settings /\ Saved \subseteq Settings

VARIABLES
  task,       \* what the tasks table says of each task
  settings,   \* tenant_members.notification_settings
  req,        \* the PATCH request
  dispatch,   \* the dispatcher's handler of each task's event
  watch,      \* the watcher
  proc,       \* the process
  mailed,     \* mails sent: the task, why, and in which round
  patches, faults,   \* counters of the bounds
  acked,      \* history: the settings the user has been answered last
  unwanted,   \* history: a mail was against what had been answered, or the second
  lost        \* history: mails that a failure or a shutdown has cost
history == <<acked, unwanted, lost>>
vars == <<task, settings, req, dispatch, watch, proc, mailed, patches, faults,
          history>>

Mail == [task : Tasks, about : Keys, round : 0..MaxRounds]

\* event: what becomes of task.completed.  due: it is to be published.  logs: it
\* is, once a line is in the log.  none: it is not, or no more.
Events == {"none", "due", "logs"}
Task == [status : {"running", "waiting", "done"}, round : 0..MaxRounds,
         stamped : BOOLEAN, event : Events, kind : Kind]

TypeOK ==
  /\ task \in [Tasks -> Task]
  /\ settings \in Settings /\ acked \in Settings
  /\ req \in [pc : {"free", "merge"}, body : Settings, seen : Settings]
  /\ dispatch \in [Tasks -> {"none", "load", "send"}]
  /\ watch \in [pc : {"idle", "claim", "lookup", "send", "stopped"},
                task : Tasks \cup {Nothing}, round : 0..MaxRounds,
                taken : 0..PerTick]
  /\ proc \in {"up", "stopping", "down"}
  /\ watch.pc = "idle" => proc = "up"
  /\ proc = "down" => watch.pc = "stopped" /\ \A t \in Tasks : dispatch[t] = "none"
  /\ mailed \in SUBSET Mail /\ lost \in SUBSET Mail
  /\ patches \in Nat /\ faults \in Nat
  /\ unwanted \in BOOLEAN

Unset == [k \in Keys |-> "unset"]
NoReq == [pc |-> "free", body |-> Unset, seen |-> Unset]
Asleep == [pc |-> "idle", task |-> Nothing, round |-> 0, taken |-> 0]

Init ==
  /\ \E kind \in [Tasks -> Kind] :
       /\ \A t \in Tasks : kind[t] \in Kinds[t]
       /\ task = [t \in Tasks |-> [status |-> "running", round |-> 0, stamped |-> FALSE,
                                  event |-> "none", kind |-> kind[t]]]
  /\ settings \in Saved /\ acked = settings
  /\ req = NoReq
  /\ dispatch = [t \in Tasks |-> "none"]
  /\ watch = Asleep /\ proc = "up"
  /\ mailed = {} /\ lost = {} /\ patches = 0 /\ faults = 0
  /\ unwanted = FALSE

DoneMail(t) == [task |-> t, about |-> "done", round |-> 0]
WaitingMail(t, n) == [task |-> t, about |-> "waiting", round |-> n]
Fault == faults < MaxFaults /\ faults' = faults + 1

-----------------------------------------------------------------------------
(* PATCH /me/notification-settings.                                        *)

PatchReads ==
  /\ proc # "down" /\ req.pc = "free"
  /\ patches < MaxPatches /\ patches' = patches + 1
  /\ \E b \in Bodies : req' = [pc |-> "merge", body |-> b, seen |-> settings]
  /\ UNCHANGED <<task, settings, dispatch, watch, proc, mailed, faults, history>>

\* Mutant: what the request leaves out is forgotten.
Merged_Replaced(seen, body) == body

Merged(seen, body) ==
  [k \in Keys |-> IF body[k] = "unset" THEN seen[k] ELSE body[k]]

\* The whole column is written, as it was read but for the request.
PatchWrites ==
  /\ req.pc = "merge"
  /\ settings' = Merged(req.seen, req.body)
  /\ acked' = [k \in Keys |-> IF req.body[k] = "unset" THEN acked[k] ELSE req.body[k]]
  /\ req' = NoReq
  /\ UNCHANGED <<task, dispatch, watch, proc, mailed, patches, faults, unwanted, lost>>

-----------------------------------------------------------------------------
(* The tasks.                                                              *)

TaskSteps == UNCHANGED <<settings, req, watch, proc, mailed, patches, faults,
                         acked, unwanted>>

TaskWaits(t) ==
  /\ task[t].status = "running" /\ task[t].round < Rounds[t] /\ proc # "down"
  /\ task' = [task EXCEPT ![t].status = "waiting", ![t].round = @ + 1,
                          ![t].stamped = FALSE]
  /\ UNCHANGED <<dispatch, lost>> /\ TaskSteps

\* Feedback.
TaskReturns(t) ==
  /\ task[t].status = "waiting" /\ proc # "down"
  /\ task' = [task EXCEPT ![t].status = "running", ![t].stamped = FALSE]
  /\ UNCHANGED <<dispatch, lost>> /\ TaskSteps

EndsTask(t, r) ==
  /\ task[t].status # "done" /\ proc # "down"
  /\ task' = [task EXCEPT ![t] = r]
  /\ UNCHANGED <<dispatch, lost>> /\ TaskSteps

\* updateTaskStatus: a run or an approval ends the task, and publishes.
TaskDone(t) ==
  EndsTask(t, [task[t] EXCEPT !.status = "done", !.stamped = FALSE, !.event = "due"])

\* finalizeStrategyTask: an approval ends it and spawns its children, and logs
\* that before it publishes.
SpawnEndsTask(t) ==
  /\ task[t].status = "waiting"
  /\ EndsTask(t, [task[t] EXCEPT !.status = "done", !.event = "logs"])

\* executeApprovedToolCall: the tool an approval has carried out ends it, feedback
\* or not, and publishes nothing.
ToolEndsTask(t) ==
  /\ task[t].round > 0
  /\ EndsTask(t, [task[t] EXCEPT !.status = "done"])

Unpublished(t) == task[t].event # "none"

\* publishTaskCompleted: during a shutdown nobody listens any more.
TaskAnnounced(t) ==
  /\ Unpublished(t) /\ proc # "down"
  /\ task' = [task EXCEPT ![t].event = "none"]
  /\ IF proc = "up"
     THEN dispatch' = [dispatch EXCEPT ![t] = "load"] /\ UNCHANGED lost
     ELSE lost' = lost \cup {DoneMail(t)} /\ UNCHANGED dispatch
  /\ TaskSteps

\* The line about the children cannot be stored: the call throws.
AnnouncementFails(t) ==
  /\ task[t].event = "logs" /\ proc # "down" /\ Fault
  /\ task' = [task EXCEPT ![t].event = "none"]
  /\ lost' = lost \cup {DoneMail(t)}
  /\ UNCHANGED <<settings, req, dispatch, watch, proc, mailed, patches, acked, unwanted>>

-----------------------------------------------------------------------------
(* decideDoneRecipient, decideWaitingRecipient.                            *)

ByDefault(about, s) == IF about = "done" THEN s.done = "on" ELSE s.waiting # "off"

Wanted(t, about, s) ==
  task[t].kind.notify = "own" \/ (task[t].kind.notify = "unset" /\ ByDefault(about, s))

\* A mail the settings allow is decided on: has the user been told otherwise?
Decide(t, about) == unwanted' = (unwanted \/ ~Wanted(t, about, acked))

Send(mail) ==
  /\ mailed' = mailed \cup {mail}
  /\ unwanted' = (unwanted \/ mail \in mailed)

DispatchSteps(t) ==
  UNCHANGED <<task, settings, req, watch, proc, patches, acked>>

\* The handler loads task, user and member, and decides.
DispatchLoads(t) ==
  /\ dispatch[t] = "load"
  /\ IF task[t].kind.creator = "user" /\ Wanted(t, "done", settings)
     THEN dispatch' = [dispatch EXCEPT ![t] = "send"] /\ Decide(t, "done")
     ELSE dispatch' = [dispatch EXCEPT ![t] = "none"] /\ UNCHANGED unwanted
  /\ UNCHANGED <<mailed, faults, lost>> /\ DispatchSteps(t)

DispatchSends(t) ==
  /\ dispatch[t] = "send"
  /\ Send(DoneMail(t))
  /\ dispatch' = [dispatch EXCEPT ![t] = "none"]
  /\ UNCHANGED <<faults, lost>> /\ DispatchSteps(t)

\* Database or mailer throw: logged, and not tried again.
DispatchThrows(t) ==
  /\ dispatch[t] # "none" /\ Fault
  /\ lost' = lost \cup {DoneMail(t)}
  /\ dispatch' = [dispatch EXCEPT ![t] = "none"]
  /\ UNCHANGED <<mailed, unwanted>> /\ DispatchSteps(t)

-----------------------------------------------------------------------------
(* The watcher.                                                            *)

WatchSteps == UNCHANGED <<settings, req, dispatch, proc, patches, acked>>

\* Mutant: the timer is set without asking.
Rest_Unasked == Asleep

\* The end of a tick sets the next timeout, unless stop() came in between.
Rest == IF proc = "up" THEN Asleep ELSE [Asleep EXCEPT !.pc = "stopped"]

WatcherWakes ==
  /\ watch.pc = "idle"
  /\ watch' = [watch EXCEPT !.pc = "claim"]
  /\ UNCHANGED <<task, mailed, faults, unwanted, lost>> /\ WatchSteps

Claimable == {t \in Tasks : task[t].status = "waiting" /\ ~task[t].stamped}

\* claimWaitingTaskForNotification: the stamp comes first.
WatcherClaims ==
  /\ watch.pc = "claim" /\ watch.taken < PerTick
  /\ \E t \in Claimable :
       /\ task' = [task EXCEPT ![t].stamped = TRUE]
       /\ watch' = [pc |-> "lookup", task |-> t, round |-> task[t].round,
                    taken |-> watch.taken + 1]
  /\ UNCHANGED <<mailed, faults, unwanted, lost>> /\ WatchSteps

WatcherRests ==
  /\ watch.pc = "claim" /\ (watch.taken = PerTick \/ Claimable = {})
  /\ watch' = Rest
  /\ UNCHANGED <<task, mailed, faults, unwanted, lost>> /\ WatchSteps

\* A tick that is under way goes on through a shutdown: only the timer asks
\* whether the watcher is stopped.
Continued == [watch EXCEPT !.pc = "claim", !.task = Nothing, !.round = 0]

\* Mutant: a task without an owner ends the tick for good.
Skipped_Stops == [Asleep EXCEPT !.pc = "stopped"]

\* continue: the loop takes up the next task.
Skipped == Continued

\* resolveOwningCreator, user and member, and the decision.
WatcherLooksUp ==
  /\ watch.pc = "lookup"
  /\ IF task[watch.task].kind.creator # "orphan" /\ Wanted(watch.task, "waiting", settings)
     THEN watch' = [watch EXCEPT !.pc = "send"] /\ Decide(watch.task, "waiting")
     ELSE watch' = Skipped /\ UNCHANGED unwanted
  /\ UNCHANGED <<task, mailed, faults, lost>> /\ WatchSteps

\* The mail tells of the row as it was claimed, whatever it is by now.
WatcherSends ==
  /\ watch.pc = "send"
  /\ Send(WaitingMail(watch.task, watch.round))
  /\ watch' = Continued
  /\ UNCHANGED <<task, faults, lost>> /\ WatchSteps

\* An error: the mailer's leaves the loop running, any other ends the tick.
\* The stamp stays: "better silent than spammy".
WatcherThrows ==
  /\ watch.pc \in {"claim", "lookup", "send"} /\ Fault
  /\ watch' = IF watch.pc = "send" THEN Continued ELSE Rest
  /\ lost' = IF watch.task = Nothing THEN lost
             ELSE lost \cup {WaitingMail(watch.task, watch.round)}
  /\ UNCHANGED <<task, mailed, unwanted>> /\ WatchSteps

-----------------------------------------------------------------------------
(* The process.                                                            *)

ProcSteps == UNCHANGED <<settings, mailed, patches, acked, unwanted>>

\* shutdown: dispatcher and watcher first, the worker and the server drain
\* after them.
ShutsDown ==
  /\ proc = "up" /\ Fault
  /\ proc' = "stopping"
  /\ watch' = IF watch.pc = "idle" THEN Rest' ELSE watch
  /\ UNCHANGED <<task, req, dispatch, lost>> /\ ProcSteps

\* What was under way is gone: handlers, the watcher's task, requests, and
\* the events that are not published yet.
Ends ==
  LET unheard == {t \in Tasks : dispatch[t] # "none" \/ Unpublished(t)}
  IN /\ proc' = "down"
     /\ watch' = [Asleep EXCEPT !.pc = "stopped"]
     /\ dispatch' = [t \in Tasks |-> "none"]
     /\ req' = NoReq
     /\ task' = [t \in Tasks |-> [task[t] EXCEPT !.event = "none"]]
     /\ lost' = lost \cup {DoneMail(t) : t \in unheard}
                     \cup {WaitingMail(t, watch.round) : t \in {watch.task} \ {Nothing}}
     /\ ProcSteps

Exits == proc = "stopping" /\ Ends /\ UNCHANGED faults
Dies == proc = "up" /\ Fault /\ Ends

Restarts ==
  /\ proc = "down"
  /\ proc' = "up" /\ watch' = Asleep
  /\ UNCHANGED <<task, req, dispatch, faults, lost>> /\ ProcSteps

Next ==
  \/ PatchReads \/ PatchWrites
  \/ \E t \in Tasks :
       \/ TaskWaits(t) \/ TaskReturns(t)
       \/ TaskDone(t) \/ SpawnEndsTask(t) \/ ToolEndsTask(t)
       \/ TaskAnnounced(t) \/ AnnouncementFails(t)
       \/ DispatchLoads(t) \/ DispatchSends(t) \/ DispatchThrows(t)
  \/ WatcherWakes \/ WatcherClaims \/ WatcherRests
  \/ WatcherLooksUp \/ WatcherSends \/ WatcherThrows
  \/ ShutsDown \/ Exits \/ Dies \/ Restarts

Spec == Init /\ [][Next]_vars

\* Handlers and the watcher's timer run, and the process is started again;
\* nobody need change a setting, return a task or finish one.
Fairness ==
  /\ \A t \in Tasks :
       WF_vars(TaskAnnounced(t)) /\ WF_vars(DispatchLoads(t)) /\ WF_vars(DispatchSends(t))
  /\ WF_vars(WatcherWakes) /\ WF_vars(WatcherClaims) /\ WF_vars(WatcherRests)
  /\ WF_vars(WatcherLooksUp) /\ WF_vars(WatcherSends)
  /\ WF_vars(Exits) /\ WF_vars(Restarts)

FairSpec == Spec /\ Fairness

-----------------------------------------------------------------------------
\* "false: explicit opt-out" (recipient.ts:7); "waiting defaults ON: silence
\* requires an explicit false" (me.ts:103); "the stamp itself is the
\* dedup key" (waiting-watcher.ts:23).  Dispatcher and watcher decide on no mail
\* the user has been answered is off, whichever of the two settings the last
\* request left out, and send none twice, whatever restarts or throws in between.
UnwantedMailIsNotSent == ~unwanted

Accounted(mail) == mail \in mailed \cup lost

\* A user who asked for mail about a task gets it every time it waits, for as
\* long as it waits, and when a run or an approval that publishes it ends it,
\* unless an error or the end of the process has cost that very mail: a task
\* without an owner, a decision against mail, a full tick or an error about
\* another task keeps none back.  A task that a tool ends is owed none, for
\* nobody is told of it.
OwedMailIsSent ==
  \A t \in Tasks :
    /\ Unpublished(t) /\ task[t].kind.creator = "user" /\ task[t].kind.notify = "own"
         ~> Accounted(DoneMail(t))
    /\ \A n \in 1..Rounds[t] :
         /\ task[t].status = "waiting" /\ task[t].round = n
         /\ task[t].kind.creator # "orphan" /\ task[t].kind.notify = "own"
         ~> Accounted(WaitingMail(t, n)) \/ task[t].status # "waiting" \/ task[t].round # n

\* The same of every task that is done, as the settings have it.
DoneIsMailed ==
  \A t \in Tasks :
    task[t].status = "done" /\ task[t].kind.creator = "user" /\ task[t].kind.notify = "own"
      ~> Accounted(DoneMail(t))
=============================================================================
