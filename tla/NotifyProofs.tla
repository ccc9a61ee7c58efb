---------------------------- MODULE NotifyProofs ----------------------------
(***************************************************************************)
(* What holds of Notify for every number of tasks, rounds, requests and    *)
(* faults.                                                                 *)
(***************************************************************************)
EXTENDS Notify, TLAPS

-----------------------------------------------------------------------------
(* What the actions do to a task's row.                                    *)

\* The row of t is now this one, its kind aside.
Became(t, status, round, stamped, event) ==
  /\ task'[t].status = status /\ task'[t].round = round
  /\ task'[t].stamped = stamped /\ task'[t].event = event
  /\ task'[t].kind = task[t].kind
  /\ \A u \in Tasks \ {t} : task'[u] = task[u]

\* A row that takes the place of another of its kind.
LEMMA RowMoves ==
  ASSUME TypeOK, NEW t \in Tasks, NEW r \in Task, r.kind = task[t].kind,
         task' = [task EXCEPT ![t] = r]
  PROVE  task' \in [Tasks -> Task] /\ Became(t, r.status, r.round, r.stamped, r.event)
BY DEF Became, TypeOK

\* The fields each action writes, in a table that stays well formed.
LEMMA TaskMoves ==
  ASSUME TypeOK, NEW t \in Tasks
  PROVE  /\ TaskWaits(t) => /\ task' \in [Tasks -> Task]
                            /\ Became(t, "waiting", task[t].round + 1, FALSE, task[t].event)
         /\ TaskReturns(t) => /\ task' \in [Tasks -> Task]
                              /\ Became(t, "running", task[t].round, FALSE, task[t].event)
         /\ TaskAnnounced(t) \/ AnnouncementFails(t)
              => /\ task' \in [Tasks -> Task]
                 /\ Became(t, task[t].status, task[t].round, task[t].stamped, "none")
         /\ task' = [task EXCEPT ![t].stamped = TRUE]
              => /\ task' \in [Tasks -> Task]
                 /\ Became(t, task[t].status, task[t].round, TRUE, task[t].event)
<1>1. task \in [Tasks -> Task] /\ task[t] \in Task /\ MaxRounds \in Nat
      /\ Rounds[t] \in 0..MaxRounds
  BY NotifyBounds DEF TypeOK
<1>2. ASSUME TaskWaits(t)
      PROVE  task' \in [Tasks -> Task]
             /\ Became(t, "waiting", task[t].round + 1, FALSE, task[t].event)
  <2> DEFINE r == [task[t] EXCEPT !.status = "waiting", !.round = task[t].round + 1,
                                  !.stamped = FALSE]
  <2>1. task' = [task EXCEPT ![t] = r]
    BY <1>1, <1>2 DEF TaskWaits
  <2>2. /\ r \in Task /\ r.status = "waiting" /\ r.round = task[t].round + 1
        /\ r.stamped = FALSE /\ r.event = task[t].event /\ r.kind = task[t].kind
    BY <1>1, <1>2 DEF TaskWaits, Task
  <2> HIDE DEF r
  <2> QED
    BY <2>1, <2>2, RowMoves
<1>3. ASSUME TaskReturns(t)
      PROVE  task' \in [Tasks -> Task]
             /\ Became(t, "running", task[t].round, FALSE, task[t].event)
  <2> DEFINE r == [task[t] EXCEPT !.status = "running", !.stamped = FALSE]
  <2>1. task' = [task EXCEPT ![t] = r]
    BY <1>1, <1>3 DEF TaskReturns
  <2>2. /\ r \in Task /\ r.status = "running" /\ r.round = task[t].round
        /\ r.stamped = FALSE /\ r.event = task[t].event /\ r.kind = task[t].kind
    BY <1>1 DEF Task
  <2> HIDE DEF r
  <2> QED
    BY <2>1, <2>2, RowMoves
<1>4. ASSUME TaskAnnounced(t) \/ AnnouncementFails(t)
      PROVE  task' \in [Tasks -> Task]
             /\ Became(t, task[t].status, task[t].round, task[t].stamped, "none")
  <2> DEFINE r == [task[t] EXCEPT !.event = "none"]
  <2>1. task' = [task EXCEPT ![t] = r]
    BY <1>1, <1>4 DEF TaskAnnounced, AnnouncementFails
  <2>2. /\ r \in Task /\ r.status = task[t].status /\ r.round = task[t].round
        /\ r.stamped = task[t].stamped /\ r.event = "none" /\ r.kind = task[t].kind
    BY <1>1 DEF Task, Events
  <2> HIDE DEF r
  <2> QED
    BY <2>1, <2>2, RowMoves
<1>5. ASSUME task' = [task EXCEPT ![t].stamped = TRUE]
      PROVE  task' \in [Tasks -> Task]
             /\ Became(t, task[t].status, task[t].round, TRUE, task[t].event)
  <2> DEFINE r == [task[t] EXCEPT !.stamped = TRUE]
  <2>1. task' = [task EXCEPT ![t] = r]
    BY <1>1, <1>5
  <2>2. /\ r \in Task /\ r.status = task[t].status /\ r.round = task[t].round
        /\ r.stamped = TRUE /\ r.event = task[t].event /\ r.kind = task[t].kind
    BY <1>1 DEF Task
  <2> HIDE DEF r
  <2> QED
    BY <2>1, <2>2, RowMoves
<1> QED
  BY <1>2, <1>3, <1>4, <1>5

Finishes(t) == TaskDone(t) \/ SpawnEndsTask(t) \/ ToolEndsTask(t)

\* However a task ends: it was not done, and is, in the round it was in.
LEMMA DoneMoves ==
  ASSUME TypeOK, NEW t \in Tasks, Finishes(t)
  PROVE  /\ task' \in [Tasks -> Task]
         /\ \E b \in BOOLEAN : \E e \in Events : Became(t, "done", task[t].round, b, e)
         /\ task[t].status # "done"
         /\ UNCHANGED <<dispatch, lost>> /\ TaskSteps
<1>1. task \in [Tasks -> Task] /\ task[t] \in Task
  BY DEF TypeOK
<1>2. PICK r : r \in Task /\ r.status = "done" /\ r.round = task[t].round
               /\ r.kind = task[t].kind /\ EndsTask(t, r)
  <2>1. CASE TaskDone(t)
    <3>1. [task[t] EXCEPT !.status = "done", !.stamped = FALSE, !.event = "due"] \in Task
      BY <1>1 DEF Task, Events
    <3> QED
      BY <1>1, <2>1, <3>1 DEF TaskDone, Task
  <2>2. CASE SpawnEndsTask(t)
    <3>1. [task[t] EXCEPT !.status = "done", !.event = "logs"] \in Task
      BY <1>1 DEF Task, Events
    <3> QED
      BY <1>1, <2>2, <3>1 DEF SpawnEndsTask, Task
  <2>3. CASE ToolEndsTask(t)
    <3>1. [task[t] EXCEPT !.status = "done"] \in Task
      BY <1>1 DEF Task
    <3> QED
      BY <1>1, <2>3, <3>1 DEF ToolEndsTask, Task
  <2> QED
    BY <2>1, <2>2, <2>3 DEF Finishes
<1>3. task' = [task EXCEPT ![t] = r]
  BY <1>2 DEF EndsTask
<1>4. task' \in [Tasks -> Task] /\ Became(t, r.status, r.round, r.stamped, r.event)
  BY <1>2, <1>3, RowMoves
<1>5. r.stamped \in BOOLEAN /\ r.event \in Events
  BY <1>2 DEF Task
<1>6. task[t].status # "done" /\ UNCHANGED <<dispatch, lost>> /\ TaskSteps
  BY <1>2 DEF EndsTask
<1> QED
  BY <1>2, <1>4, <1>5, <1>6

\* The end of a process publishes nothing more.
LEMMA EndMoves ==
  ASSUME TypeOK, Ends
  PROVE  /\ task' \in [Tasks -> Task]
         /\ \A t \in Tasks :
              /\ task'[t].status = task[t].status
              /\ task'[t].round = task[t].round
              /\ task'[t].stamped = task[t].stamped
              /\ task'[t].event = "none"
<1>1. \A t \in Tasks : task[t] \in Task
  BY DEF TypeOK
<1>2. task' = [t \in Tasks |-> [task[t] EXCEPT !.event = "none"]]
  BY DEF Ends
<1>3. \A r \in Task :
        /\ [r EXCEPT !.event = "none"] \in Task
        /\ [r EXCEPT !.event = "none"].status = r.status
        /\ [r EXCEPT !.event = "none"].round = r.round
        /\ [r EXCEPT !.event = "none"].stamped = r.stamped
        /\ [r EXCEPT !.event = "none"].event = "none"
  BY DEF Task, Events
<1>4. \A t \in Tasks : task'[t] = [task[t] EXCEPT !.event = "none"]
  BY <1>2
<1> QED
  BY <1>1, <1>2, <1>3, <1>4

-----------------------------------------------------------------------------
(* What the actions do to the watcher.                                     *)

WatchRecord == [pc : {"idle", "claim", "lookup", "send", "stopped"},
                task : Tasks \cup {Nothing}, round : 0..MaxRounds, taken : 0..PerTick]

\* The watcher at rest, in its loop and in the process it dies with.
LEMMA WatchStates ==
  ASSUME TypeOK
  PROVE  /\ Asleep \in WatchRecord /\ Asleep.pc = "idle" /\ Asleep.task = Nothing
         /\ [Asleep EXCEPT !.pc = "stopped"] \in WatchRecord
         /\ [Asleep EXCEPT !.pc = "stopped"].pc = "stopped"
         /\ Rest \in WatchRecord /\ Rest.pc \in {"idle", "stopped"}
         /\ Rest.pc = "idle" => proc = "up"
         /\ Continued \in WatchRecord /\ Continued.pc = "claim"
         /\ watch \in WatchRecord
         /\ \A x \in {"claim", "send"} :
              /\ [watch EXCEPT !.pc = x] \in WatchRecord /\ [watch EXCEPT !.pc = x].pc = x
              /\ [watch EXCEPT !.pc = x].task = watch.task
              /\ [watch EXCEPT !.pc = x].round = watch.round
<1>1. watch \in WatchRecord /\ 0 \in 0..MaxRounds /\ 0 \in 0..PerTick
  BY NotifyBounds DEF TypeOK, WatchRecord
<1>2. /\ Asleep \in WatchRecord /\ Asleep.pc = "idle" /\ Asleep.task = Nothing
      /\ [Asleep EXCEPT !.pc = "stopped"] \in WatchRecord
      /\ [Asleep EXCEPT !.pc = "stopped"].pc = "stopped"
  BY <1>1 DEF Asleep, WatchRecord
<1>3. Continued \in WatchRecord /\ Continued.pc = "claim"
  BY <1>1 DEF Continued, WatchRecord
<1>4. \A x \in {"claim", "send"} :
        /\ [watch EXCEPT !.pc = x] \in WatchRecord /\ [watch EXCEPT !.pc = x].pc = x
        /\ [watch EXCEPT !.pc = x].task = watch.task
        /\ [watch EXCEPT !.pc = x].round = watch.round
  BY <1>1 DEF WatchRecord
<1> QED
  BY <1>1, <1>2, <1>3, <1>4 DEF Rest

\* A watcher that looks up or mails has a task in hand.
WatcherHoldsATask == watch.pc \in {"lookup", "send"} => watch.task \in Tasks

TypeInv == TypeOK /\ WatcherHoldsATask

\* Tasks, settings, handlers and the watcher stay well formed, and what is down
\* does nothing.
LEMMA NotifyTypeInv == Spec => []TypeInv
<1> USE NotifyBounds, NotifyNames, NotifyKinds, NotifyBodies
<1>1. Init => TypeInv
  <2> SUFFICES ASSUME Init PROVE TypeInv
    OBVIOUS
  <2>1. task \in [Tasks -> Task]
    <3>1. PICK kind \in [Tasks -> Kind] :
             task = [t \in Tasks |-> [status |-> "running", round |-> 0, stamped |-> FALSE,
                                      event |-> "none", kind |-> kind[t]]]
      BY DEF Init
    <3> QED
      BY <3>1 DEF Task, Events
  <2>2. Unset \in Settings
    BY DEF Unset, Settings
  <2>3. settings \in Settings /\ acked = settings /\ req = NoReq /\ watch = Asleep /\ proc = "up"
        /\ dispatch = [t \in Tasks |-> "none"] /\ mailed = {} /\ lost = {}
        /\ patches = 0 /\ faults = 0 /\ unwanted = FALSE
    BY DEF Init
  <2>4. req \in [pc : {"free", "merge"}, body : Settings, seen : Settings]
    BY <2>2, <2>3 DEF NoReq
  <2>5. watch \in [pc : {"idle", "claim", "lookup", "send", "stopped"},
                   task : Tasks \cup {Nothing}, round : 0..MaxRounds, taken : 0..PerTick]
        /\ watch.pc = "idle"
    BY <2>3 DEF Asleep
  <2> QED
    BY <2>1, <2>2, <2>3, <2>4, <2>5 DEF TypeInv, TypeOK, WatcherHoldsATask
<1>2. TypeInv /\ [Next]_vars => TypeInv'
  <2> SUFFICES ASSUME TypeInv, [Next]_vars PROVE TypeInv'
    OBVIOUS
  <2> USE DEF history
  <2>a. TypeOK /\ WatcherHoldsATask
    BY DEF TypeInv
  <2>1. CASE PatchReads
    <3>1. PICK b \in Bodies : req' = [pc |-> "merge", body |-> b, seen |-> settings]
      BY <2>1 DEF PatchReads
    <3>2. req' \in [pc : {"free", "merge"}, body : Settings, seen : Settings]
      BY <2>a, <3>1 DEF TypeOK
    <3> QED
      BY <2>a, <2>1, <3>2 DEF PatchReads, TypeInv, TypeOK, WatcherHoldsATask
  <2>2. CASE PatchWrites
    <3>1. settings' \in Settings /\ acked' \in Settings
      BY <2>a, <2>2 DEF PatchWrites, Merged, Settings, TypeOK
    <3>2. NoReq \in [pc : {"free", "merge"}, body : Settings, seen : Settings]
      BY DEF NoReq, Unset, Settings
    <3> QED
      BY <2>a, <2>2, <3>1, <3>2 DEF PatchWrites, TypeInv, TypeOK, WatcherHoldsATask
  <2>3. ASSUME NEW t \in Tasks, TaskWaits(t) \/ TaskReturns(t) \/ Finishes(t) PROVE TypeInv'
    <3>1. task' \in [Tasks -> Task]
      BY <2>a, <2>3, TaskMoves, DoneMoves
    <3>2. UNCHANGED <<dispatch, lost>> /\ TaskSteps
      BY <2>a, <2>3, DoneMoves DEF TaskWaits, TaskReturns
    <3> QED
      BY <2>a, <3>1, <3>2 DEF TaskSteps, TypeInv, TypeOK, WatcherHoldsATask
  <2>4. ASSUME NEW t \in Tasks, TaskAnnounced(t) \/ AnnouncementFails(t) PROVE TypeInv'
    <3>1. task' \in [Tasks -> Task]
      BY <2>a, <2>4, TaskMoves
    <3>2. /\ proc # "down" /\ faults' \in Nat
          /\ UNCHANGED <<settings, req, watch, proc, mailed, patches, acked, unwanted>>
      BY <2>a, <2>4 DEF TaskAnnounced, AnnouncementFails, TaskSteps, Fault, TypeOK
    <3>3. dispatch' \in [Tasks -> {"none", "load", "send"}] /\ lost' \in SUBSET Mail
      BY <2>a, <2>4 DEF TaskAnnounced, AnnouncementFails, TypeOK, DoneMail, Mail, Keys
    <3> QED
      BY <2>a, <3>1, <3>2, <3>3 DEF TypeInv, TypeOK, WatcherHoldsATask
  <2>5. ASSUME NEW t \in Tasks, DispatchLoads(t) \/ DispatchSends(t) \/ DispatchThrows(t)
        PROVE  TypeInv'
    <3>1. /\ dispatch' \in [Tasks -> {"none", "load", "send"}] /\ dispatch[t] # "none"
      BY <2>a, <2>5 DEF DispatchLoads, DispatchSends, DispatchThrows, TypeOK
    <3>2. proc # "down"
      BY <2>a, <3>1 DEF TypeOK
    <3>3. DoneMail(t) \in Mail
      BY DEF DoneMail, Mail, Keys
    <3>4. mailed' \in SUBSET Mail /\ lost' \in SUBSET Mail /\ faults' \in Nat
      BY <2>a, <2>5, <3>3
      DEF DispatchLoads, DispatchSends, DispatchThrows, Send, Fault, TypeOK
    <3>5. unwanted' \in BOOLEAN
      <4>1. unwanted \in BOOLEAN
        BY <2>a DEF TypeOK
      <4>2. \/ unwanted' = unwanted
            \/ unwanted' = (unwanted \/ ~Wanted(t, "done", acked))
            \/ unwanted' = (unwanted \/ DoneMail(t) \in mailed)
        BY <2>5 DEF DispatchLoads, DispatchSends, DispatchThrows, Send, Decide
      <4> QED
        BY <4>1, <4>2, Zenon
    <3>6. DispatchSteps(t)
      BY <2>5 DEF DispatchLoads, DispatchSends, DispatchThrows
    <3> QED
      BY <2>a, <3>1, <3>2, <3>4, <3>5, <3>6
      DEF DispatchSteps, TypeInv, TypeOK, WatcherHoldsATask
  <2>6. CASE WatcherClaims
    <3>1. PICK t \in Claimable :
             /\ task' = [task EXCEPT ![t].stamped = TRUE]
             /\ watch' = [pc |-> "lookup", task |-> t, round |-> task[t].round,
                          taken |-> watch.taken + 1]
      BY <2>6 DEF WatcherClaims
    <3>2. t \in Tasks /\ task[t] \in Task
      BY <2>a DEF Claimable, TypeOK
    <3>3. task' \in [Tasks -> Task]
      BY <2>a, <3>1, <3>2, TaskMoves
    <3>4. watch.taken + 1 \in 0..PerTick
      BY <2>a, <2>6 DEF WatcherClaims, TypeOK
    <3>5. watch' \in WatchRecord /\ watch'.pc = "lookup" /\ watch'.task = t
      BY <3>1, <3>2, <3>4 DEF WatchRecord, Task
    <3>6. proc # "down"
      BY <2>a, <2>6 DEF WatcherClaims, TypeOK
    <3> QED
      BY <2>a, <2>6, <3>2, <3>3, <3>5, <3>6
      DEF WatcherClaims, WatchSteps, TypeInv, TypeOK, WatcherHoldsATask, WatchRecord
  <2>7. CASE WatcherWakes \/ WatcherRests \/ WatcherLooksUp \/ WatcherSends \/ WatcherThrows
    <3>1. watch.pc # "stopped" /\ proc # "down"
      BY <2>a, <2>7
      DEF WatcherWakes, WatcherRests, WatcherLooksUp, WatcherSends, WatcherThrows, TypeOK
    <3>2. /\ watch' \in {[watch EXCEPT !.pc = "claim"], Rest, Continued}
            \/ /\ watch' = [watch EXCEPT !.pc = "send"] /\ watch.pc = "lookup"
      BY <2>7
      DEF WatcherWakes, WatcherRests, WatcherLooksUp, WatcherSends, WatcherThrows, Skipped
    <3>3. /\ watch' \in WatchRecord
          /\ watch'.pc = "idle" => proc = "up"
          /\ watch'.pc \in {"lookup", "send"} => watch'.task \in Tasks
      BY <2>a, <3>2, WatchStates DEF WatcherHoldsATask
    <3>4. UNCHANGED task /\ WatchSteps
      BY <2>7
      DEF WatcherWakes, WatcherRests, WatcherLooksUp, WatcherSends, WatcherThrows
    <3>5. watch.pc = "send" \/ watch.task # Nothing => WaitingMail(watch.task, watch.round) \in Mail
      BY <2>a DEF TypeOK, WatcherHoldsATask, WaitingMail, Mail, Keys
    <3>6. mailed' \in SUBSET Mail /\ lost' \in SUBSET Mail /\ faults' \in Nat
      BY <2>a, <2>7, <3>5
      DEF WatcherWakes, WatcherRests, WatcherLooksUp, WatcherSends, WatcherThrows, Send,
          Fault, TypeOK
    <3>7. unwanted' \in BOOLEAN
      <4>1. unwanted \in BOOLEAN
        BY <2>a DEF TypeOK
      <4>2. \/ unwanted' = unwanted
            \/ unwanted' = (unwanted \/ ~Wanted(watch.task, "waiting", acked))
            \/ unwanted' = (unwanted \/ WaitingMail(watch.task, watch.round) \in mailed)
        BY <2>7
        DEF WatcherWakes, WatcherRests, WatcherLooksUp, WatcherSends, WatcherThrows, Send,
            Decide
      <4> QED
        BY <4>1, <4>2, Zenon
    <3> QED
      BY <2>a, <3>1, <3>3, <3>4, <3>6, <3>7
      DEF WatchSteps, TypeInv, TypeOK, WatcherHoldsATask, WatchRecord
  <2>8. CASE ShutsDown
    <3>1. /\ proc' = "stopping" /\ UNCHANGED <<task, req, dispatch, lost>> /\ ProcSteps
          /\ faults' \in Nat
      BY <2>a, <2>8 DEF ShutsDown, Fault, TypeOK
    <3>2. watch' = IF watch.pc = "idle" THEN [Asleep EXCEPT !.pc = "stopped"] ELSE watch
      BY <2>8, <3>1 DEF ShutsDown, Rest, Asleep
    <3>3. /\ watch' \in WatchRecord /\ watch'.pc # "idle"
          /\ watch'.pc \in {"lookup", "send"} => watch'.task \in Tasks
      BY <2>a, <3>2, WatchStates DEF WatcherHoldsATask
    <3> QED
      BY <2>a, <3>1, <3>3 DEF ProcSteps, TypeInv, TypeOK, WatcherHoldsATask, WatchRecord
  <2>9. CASE Exits \/ Dies
    <3>1. Ends /\ faults' \in Nat
      BY <2>a, <2>9 DEF Exits, Dies, Fault, TypeOK
    <3>2. task' \in [Tasks -> Task]
      BY <2>a, <3>1, EndMoves
    <3>3. watch' \in WatchRecord /\ watch'.pc = "stopped"
      BY <2>a, <3>1, WatchStates DEF Ends
    <3>4. lost' \in SUBSET Mail
      <4>1. \A t \in Tasks : DoneMail(t) \in Mail
        BY DEF DoneMail, Mail, Keys
      <4>2. \A t \in {watch.task} \ {Nothing} : WaitingMail(t, watch.round) \in Mail
        BY <2>a DEF TypeOK, WaitingMail, Mail, Keys
      <4> QED
        BY <2>a, <3>1, <4>1, <4>2 DEF Ends, TypeOK
    <3>5. NoReq \in [pc : {"free", "merge"}, body : Settings, seen : Settings]
      BY DEF NoReq, Unset, Settings
    <3>6. /\ proc' = "down" /\ req' = NoReq /\ dispatch' = [t \in Tasks |-> "none"] /\ ProcSteps
      BY <3>1 DEF Ends
    <3> QED
      BY <2>a, <3>1, <3>2, <3>3, <3>4, <3>5, <3>6
      DEF ProcSteps, TypeInv, TypeOK, WatcherHoldsATask, WatchRecord
  <2>10. CASE Restarts
    <3>1. watch' \in WatchRecord /\ watch'.pc = "idle"
      BY <2>a, <2>10, WatchStates DEF Restarts
    <3> QED
      BY <2>a, <2>10, <3>1
      DEF Restarts, ProcSteps, TypeInv, TypeOK, WatcherHoldsATask, WatchRecord
  <2>11. CASE UNCHANGED vars
    BY <2>a, <2>11 DEF vars, TypeInv, TypeOK, WatcherHoldsATask
  <2> QED
    BY <2>1, <2>2, <2>3, <2>4, <2>5, <2>6, <2>7, <2>8, <2>9, <2>10, <2>11
    DEF Next, Finishes
<1> QED
  BY <1>1, <1>2, PTL DEF Spec

\* Tasks, settings, handlers and the watcher stay well formed; a process that is
\* down has no handler and no watcher, and a watcher with a timer one that is up.
THEOREM NotifyTypeCorrect == Spec => []TypeOK
<1>1. TypeInv => TypeOK
  BY DEF TypeInv
<1> QED
  BY <1>1, NotifyTypeInv, PTL

-----------------------------------------------------------------------------
(* No unwanted mail.                                                       *)

\* The column says what the user was answered last, and a request that is to
\* write it has read it so.
SettingsAreKnown == settings = acked /\ (req.pc = "merge" => req.seen = acked)

\* A completion is published once, and heard and mailed after that.
CompletionsMailOnce ==
  \A t \in Tasks :
    /\ dispatch[t] # "none" => task[t].status = "done"
    /\ Unpublished(t) => task[t].status = "done" /\ dispatch[t] = "none"
    /\ DoneMail(t) \in mailed =>
         task[t].status = "done" /\ ~Unpublished(t) /\ dispatch[t] = "none"

\* Round n of t is behind, or is over, or has its stamp.
RoundTaken(t, n) ==
  n <= task[t].round /\ (n = task[t].round /\ task[t].status = "waiting" => task[t].stamped)

\* What was mailed about a round, or is about to be, had been claimed first.
RoundsMailOnce ==
  /\ \A t \in Tasks : \A n \in 0..MaxRounds :
       WaitingMail(t, n) \in mailed => RoundTaken(t, n)
  /\ watch.pc \in {"lookup", "send"} =>
       /\ RoundTaken(watch.task, watch.round)
       /\ WaitingMail(watch.task, watch.round) \notin mailed

MailInv ==
  SettingsAreKnown /\ CompletionsMailOnce /\ RoundsMailOnce /\ UnwantedMailIsNotSent

\* Mails differ in their task, their reason or their round.
LEMMA MailsDiffer ==
  \A t, u, m, n :
    /\ WaitingMail(t, m) = WaitingMail(u, n) => t = u /\ m = n
    /\ DoneMail(t) = DoneMail(u) => t = u
    /\ WaitingMail(t, m) # DoneMail(u)
BY DEF WaitingMail, DoneMail

\* Every step keeps mail as it was asked for.
LEMMA MailStep == TypeInv /\ MailInv /\ [Next]_vars => MailInv'
<1> SUFFICES ASSUME TypeInv, MailInv, [Next]_vars PROVE MailInv'
  OBVIOUS
<1> USE NotifyBounds, NotifyNames DEF history
<1>a. TypeOK /\ WatcherHoldsATask /\ \A t \in Tasks : task[t] \in Task /\ task[t].round \in Nat
  BY DEF TypeInv, TypeOK, Task
<1>b. SettingsAreKnown /\ CompletionsMailOnce /\ RoundsMailOnce /\ ~unwanted
  BY DEF MailInv, UnwantedMailIsNotSent
<1>1. CASE PatchReads
  <2>1. req'.seen = settings /\ UNCHANGED <<task, settings, acked, dispatch, watch, mailed, unwanted>>
    BY <1>1 DEF PatchReads
  <2> QED
    BY <1>b, <2>1
    DEF MailInv, SettingsAreKnown, CompletionsMailOnce, Unpublished, RoundsMailOnce,
        RoundTaken, UnwantedMailIsNotSent
<1>2. CASE PatchWrites
  <2>1. req.seen = acked /\ req' = NoReq
    BY <1>2, <1>b DEF PatchWrites, SettingsAreKnown
  <2>2. settings' = acked'
    BY <1>2, <2>1 DEF PatchWrites, Merged
  <2>3. UNCHANGED <<task, dispatch, watch, mailed, unwanted>>
    BY <1>2 DEF PatchWrites
  <2> QED
    BY <1>b, <2>1, <2>2, <2>3
    DEF MailInv, SettingsAreKnown, CompletionsMailOnce, Unpublished, RoundsMailOnce,
        RoundTaken, UnwantedMailIsNotSent, NoReq
<1>3. ASSUME NEW t \in Tasks, TaskWaits(t) PROVE MailInv'
  <2>1. /\ UNCHANGED <<settings, req, acked, dispatch, watch, mailed, unwanted>>
        /\ task[t].status = "running"
    BY <1>3 DEF TaskWaits, TaskSteps
  <2>2. Became(t, "waiting", task[t].round + 1, FALSE, task[t].event)
    BY <1>3, <1>a, TaskMoves
  <2>3. CompletionsMailOnce'
    BY <1>b, <2>1, <2>2 DEF CompletionsMailOnce, Unpublished, Became
  <2>4. \A u \in Tasks : \A n \in 0..MaxRounds : RoundTaken(u, n) => RoundTaken(u, n)'
    BY <1>a, <2>2 DEF RoundTaken, Became
  <2>5. RoundsMailOnce'
    BY <1>a, <1>b, <2>1, <2>4 DEF RoundsMailOnce, WatcherHoldsATask, TypeOK
  <2> QED
    BY <1>b, <2>1, <2>3, <2>5 DEF MailInv, SettingsAreKnown, UnwantedMailIsNotSent
<1>4. ASSUME NEW t \in Tasks, TaskReturns(t) \/ Finishes(t) PROVE MailInv'
  <2>1. /\ UNCHANGED <<settings, req, acked, dispatch, watch, mailed, unwanted>>
        /\ task[t].status # "done"
    BY <1>a, <1>4, DoneMoves DEF TaskReturns, TaskSteps
  <2>2. \E x \in {"running", "done"} : \E b \in BOOLEAN : \E e \in Events :
          /\ Became(t, x, task[t].round, b, e)
          /\ x = "running" => b = FALSE /\ e = task[t].event
    <3>1. TaskReturns(t) => Became(t, "running", task[t].round, FALSE, task[t].event)
      BY <1>a, TaskMoves
    <3>2. Finishes(t) =>
            \E b \in BOOLEAN : \E e \in Events : Became(t, "done", task[t].round, b, e)
      BY <1>a, DoneMoves
    <3>3. task[t].event \in Events
      BY <1>a DEF Task
    <3> QED
      BY <1>4, <3>1, <3>2, <3>3
  <2>3. PICK x \in {"running", "done"}, b \in BOOLEAN, e \in Events :
          /\ Became(t, x, task[t].round, b, e)
          /\ x = "running" => b = FALSE /\ e = task[t].event
    BY <2>2
  <2>4. CompletionsMailOnce'
    BY <1>b, <2>1, <2>3 DEF CompletionsMailOnce, Unpublished, Became
  <2>5. \A u \in Tasks : \A n \in 0..MaxRounds : RoundTaken(u, n) => RoundTaken(u, n)'
    BY <1>a, <2>3 DEF RoundTaken, Became
  <2>6. RoundsMailOnce'
    BY <1>a, <1>b, <2>1, <2>5 DEF RoundsMailOnce, WatcherHoldsATask, TypeOK
  <2> QED
    BY <1>b, <2>1, <2>4, <2>6 DEF MailInv, SettingsAreKnown, UnwantedMailIsNotSent
<1>5. ASSUME NEW t \in Tasks, TaskAnnounced(t) \/ AnnouncementFails(t) PROVE MailInv'
  <2>1. /\ UNCHANGED <<settings, req, acked, watch, mailed, unwanted>>
        /\ Unpublished(t)
        /\ \A u \in Tasks \ {t} : dispatch'[u] = dispatch[u]
    BY <1>a, <1>5 DEF TaskAnnounced, AnnouncementFails, TaskSteps, Unpublished, TypeOK
  <2>2. Became(t, task[t].status, task[t].round, task[t].stamped, "none")
    BY <1>5, <1>a, TaskMoves
  <2>3. task[t].status = "done" /\ DoneMail(t) \notin mailed
    BY <1>b, <2>1 DEF CompletionsMailOnce, Unpublished
  <2>4. CompletionsMailOnce'
    BY <1>b, <2>1, <2>2, <2>3 DEF CompletionsMailOnce, Unpublished, Became
  <2>5. \A u \in Tasks : \A n \in 0..MaxRounds : RoundTaken(u, n) => RoundTaken(u, n)'
    BY <1>a, <2>2 DEF RoundTaken, Became
  <2>6. RoundsMailOnce'
    BY <1>a, <1>b, <2>1, <2>5 DEF RoundsMailOnce, WatcherHoldsATask, TypeOK
  <2> QED
    BY <1>b, <2>1, <2>4, <2>6 DEF MailInv, SettingsAreKnown, UnwantedMailIsNotSent
<1>6. ASSUME NEW t \in Tasks, DispatchLoads(t) \/ DispatchThrows(t) PROVE MailInv'
  <2>1. /\ UNCHANGED <<task, settings, req, acked, watch, mailed>>
        /\ dispatch[t] # "none" /\ \A u \in Tasks \ {t} : dispatch'[u] = dispatch[u]
    BY <1>a, <1>6 DEF DispatchLoads, DispatchThrows, DispatchSteps, TypeOK
  <2>2. ~unwanted'
    <3>1. Wanted(t, "done", settings) => Wanted(t, "done", acked)
      BY <1>b DEF SettingsAreKnown
    <3> QED
      BY <1>b, <1>6, <3>1 DEF DispatchLoads, DispatchThrows, Decide
  <2>3. CompletionsMailOnce'
    BY <1>b, <2>1 DEF CompletionsMailOnce, Unpublished
  <2> QED
    BY <1>b, <2>1, <2>2, <2>3
    DEF MailInv, SettingsAreKnown, RoundsMailOnce, RoundTaken, UnwantedMailIsNotSent
<1>7. ASSUME NEW t \in Tasks, DispatchSends(t) PROVE MailInv'
  <2>1. /\ UNCHANGED <<task, settings, req, acked, watch>>
        /\ mailed' = mailed \cup {DoneMail(t)} /\ dispatch[t] = "send"
        /\ unwanted' = (unwanted \/ DoneMail(t) \in mailed)
        /\ dispatch'[t] = "none" /\ \A u \in Tasks \ {t} : dispatch'[u] = dispatch[u]
    BY <1>a, <1>7 DEF DispatchSends, DispatchSteps, Send, TypeOK
  <2>2. ~unwanted' /\ task[t].status = "done" /\ ~Unpublished(t)
    BY <1>b, <2>1 DEF CompletionsMailOnce, Unpublished
  <2>3. CompletionsMailOnce'
    BY <1>b, <2>1, <2>2, MailsDiffer DEF CompletionsMailOnce, Unpublished
  <2>4. RoundsMailOnce'
    BY <1>b, <2>1, MailsDiffer DEF RoundsMailOnce, RoundTaken
  <2> QED
    BY <1>b, <2>1, <2>2, <2>3, <2>4 DEF MailInv, SettingsAreKnown, UnwantedMailIsNotSent
<1>8. CASE WatcherClaims
  <2>1. PICK t \in Claimable :
           /\ task' = [task EXCEPT ![t].stamped = TRUE]
           /\ watch' = [pc |-> "lookup", task |-> t, round |-> task[t].round,
                        taken |-> watch.taken + 1]
    BY <1>8 DEF WatcherClaims
  <2>2. t \in Tasks /\ task[t].status = "waiting" /\ ~task[t].stamped
        /\ task[t].round \in 0..MaxRounds
    BY <1>a DEF Claimable, Task
  <2>3. Became(t, task[t].status, task[t].round, TRUE, task[t].event)
    BY <1>a, <2>1, <2>2, TaskMoves
  <2>4. UNCHANGED <<settings, req, acked, dispatch, mailed, unwanted>>
    BY <1>8 DEF WatcherClaims, WatchSteps
  <2>5. CompletionsMailOnce'
    BY <1>b, <2>3, <2>4 DEF CompletionsMailOnce, Unpublished, Became
  <2>6. /\ \A u \in Tasks : \A n \in 0..MaxRounds : RoundTaken(u, n) => RoundTaken(u, n)'
        /\ RoundTaken(t, task[t].round)'
    BY <1>a, <2>2, <2>3 DEF RoundTaken, Became
  <2>7. WaitingMail(t, task[t].round) \notin mailed
    BY <1>b, <2>2 DEF RoundsMailOnce, RoundTaken
  <2>8. RoundsMailOnce'
    <3>1. watch'.task = t /\ watch'.round = task[t].round /\ task'[t].round = task[t].round
      BY <2>1, <2>3 DEF Became
    <3> QED
      BY <1>b, <2>4, <2>6, <2>7, <3>1 DEF RoundsMailOnce, RoundTaken
  <2> QED
    BY <1>b, <2>4, <2>5, <2>8 DEF MailInv, SettingsAreKnown, UnwantedMailIsNotSent
<1>9. CASE WatcherWakes \/ WatcherRests \/ WatcherLooksUp \/ WatcherThrows
  <2>1. UNCHANGED <<task, settings, req, acked, dispatch, mailed>>
    BY <1>9 DEF WatcherWakes, WatcherRests, WatcherLooksUp, WatcherThrows, WatchSteps
  <2>2. \/ watch' \in {[watch EXCEPT !.pc = "claim"], Rest, Continued}
        \/ watch' = [watch EXCEPT !.pc = "send"] /\ watch.pc = "lookup"
    BY <1>9 DEF WatcherWakes, WatcherRests, WatcherLooksUp, WatcherThrows, Skipped
  <2>3. watch'.pc \in {"lookup", "send"} =>
          watch.pc = "lookup" /\ watch'.task = watch.task /\ watch'.round = watch.round
    BY <1>a, <2>2, WatchStates
  <2>4. ~unwanted'
    <3>1. Wanted(watch.task, "waiting", settings) => Wanted(watch.task, "waiting", acked)
      BY <1>b DEF SettingsAreKnown
    <3> QED
      BY <1>b, <1>9, <3>1
      DEF WatcherWakes, WatcherRests, WatcherLooksUp, WatcherThrows, Decide
  <2>5. RoundsMailOnce'
    BY <1>b, <2>1, <2>3 DEF RoundsMailOnce, RoundTaken
  <2> QED
    BY <1>b, <2>1, <2>4, <2>5
    DEF MailInv, SettingsAreKnown, CompletionsMailOnce, Unpublished, UnwantedMailIsNotSent
<1>10. CASE WatcherSends
  <2> DEFINE mail == WaitingMail(watch.task, watch.round)
  <2>1. /\ UNCHANGED <<task, settings, req, acked, dispatch>> /\ watch.pc = "send"
        /\ mailed' = mailed \cup {mail} /\ unwanted' = (unwanted \/ mail \in mailed)
        /\ watch' = Continued
    BY <1>10 DEF WatcherSends, WatchSteps, Send
  <2>2. watch'.pc = "claim"
    BY <1>a, <2>1, WatchStates
  <2>3. mail \notin mailed /\ RoundTaken(watch.task, watch.round)
    BY <1>b, <2>1 DEF RoundsMailOnce
  <2>4. ASSUME NEW t \in Tasks, NEW n \in 0..MaxRounds, WaitingMail(t, n) \in mailed'
        PROVE  RoundTaken(t, n)
    BY <1>b, <2>1, <2>3, <2>4, MailsDiffer DEF RoundsMailOnce
  <2>5. RoundsMailOnce'
    BY <2>1, <2>2, <2>4 DEF RoundsMailOnce, RoundTaken
  <2>6. CompletionsMailOnce'
    <3>1. \A t \in Tasks : DoneMail(t) \in mailed' => DoneMail(t) \in mailed
      BY <2>1, MailsDiffer
    <3> QED
      BY <1>b, <2>1, <3>1 DEF CompletionsMailOnce, Unpublished
  <2> QED
    BY <1>b, <2>1, <2>3, <2>5, <2>6 DEF MailInv, SettingsAreKnown, UnwantedMailIsNotSent
<1>11. CASE ShutsDown
  <2>1. /\ UNCHANGED <<task, settings, req, acked, dispatch, mailed, unwanted>>
        /\ proc' = "stopping"
        /\ watch' = watch \/ watch' = Rest'
    BY <1>11 DEF ShutsDown, ProcSteps
  <2>2. watch' = watch \/ watch'.pc = "stopped"
    BY <2>1 DEF Rest, Asleep
  <2>3. RoundsMailOnce'
    BY <1>b, <2>1, <2>2 DEF RoundsMailOnce, RoundTaken
  <2> QED
    BY <1>b, <2>1, <2>3
    DEF MailInv, SettingsAreKnown, CompletionsMailOnce, Unpublished, UnwantedMailIsNotSent
<1>12. CASE Exits \/ Dies
  <2>1. Ends
    BY <1>12 DEF Exits, Dies
  <2>2. /\ UNCHANGED <<settings, acked, mailed, unwanted>> /\ req' = NoReq
        /\ dispatch' = [t \in Tasks |-> "none"] /\ watch'.pc = "stopped"
    BY <2>1 DEF Ends, ProcSteps, Asleep
  <2>3. \A t \in Tasks : /\ task'[t].status = task[t].status
                         /\ task'[t].round = task[t].round
                         /\ task'[t].stamped = task[t].stamped
                         /\ task'[t].event = "none"
    BY <1>a, <2>1, EndMoves
  <2>4. CompletionsMailOnce'
    BY <1>b, <2>2, <2>3 DEF CompletionsMailOnce, Unpublished
  <2>5. RoundsMailOnce'
    BY <1>b, <2>2, <2>3 DEF RoundsMailOnce, RoundTaken
  <2> QED
    BY <1>b, <2>2, <2>4, <2>5 DEF MailInv, SettingsAreKnown, UnwantedMailIsNotSent, NoReq
<1>13. CASE Restarts
  <2>1. /\ UNCHANGED <<task, settings, req, acked, dispatch, mailed, unwanted>>
        /\ watch' = Asleep
    BY <1>13 DEF Restarts, ProcSteps
  <2>2. RoundsMailOnce'
    BY <1>b, <2>1 DEF RoundsMailOnce, RoundTaken, Asleep
  <2> QED
    BY <1>b, <2>1, <2>2
    DEF MailInv, SettingsAreKnown, CompletionsMailOnce, Unpublished, UnwantedMailIsNotSent
<1>14. CASE UNCHANGED vars
  BY <1>b, <1>14
  DEF vars, MailInv, SettingsAreKnown, CompletionsMailOnce, Unpublished, RoundsMailOnce, RoundTaken,
      UnwantedMailIsNotSent
<1> QED
  BY <1>1, <1>2, <1>3, <1>4, <1>5, <1>6, <1>7, <1>8, <1>9, <1>10, <1>11, <1>12, <1>13, <1>14
  DEF Next, Finishes

\* Dispatcher and watcher decide on no mail the user has been answered is off,
\* and send none twice, whatever restarts or throws in between.
THEOREM UnwantedMailSafe == Spec => []UnwantedMailIsNotSent
<1>1. Init => MailInv
  <2> SUFFICES ASSUME Init PROVE MailInv
    OBVIOUS
  <2>1. /\ settings = acked /\ req.pc = "free" /\ watch.pc = "idle"
        /\ mailed = {} /\ ~unwanted
    BY DEF Init, NoReq, Asleep
  <2>2. \A t \in Tasks : task[t].event = "none" /\ dispatch[t] = "none"
    <3>1. PICK kind \in [Tasks -> Kind] :
             task = [t \in Tasks |-> [status |-> "running", round |-> 0, stamped |-> FALSE,
                                      event |-> "none", kind |-> kind[t]]]
      BY DEF Init
    <3> QED
      BY <3>1 DEF Init
  <2> QED
    BY <2>1, <2>2 DEF MailInv, SettingsAreKnown, CompletionsMailOnce, Unpublished, RoundsMailOnce,
                      UnwantedMailIsNotSent
<1>2. MailInv => UnwantedMailIsNotSent
  BY DEF MailInv
<1> QED
  BY <1>1, <1>2, MailStep, NotifyTypeInv, PTL DEF Spec
=============================================================================
