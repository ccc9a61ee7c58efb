---------------------------- MODULE IntakeProofs ----------------------------
(***************************************************************************)
(* What holds of Intake for every number of requests and turns.            *)
(***************************************************************************)
EXTENDS Intake, TLAPS

\* A request that carries a message has been given its turn.
Speaking == {"start", "think", "append", "update"}
SpeakersHaveATurn == \A q \in Requests : req[q].pc \in Speaking => req[q].turn \in Turns

TypeInv == TypeOK /\ SpeakersHaveATurn

\* What is appended to a sequence is all that it adds to it.
LEMMA Appended ==
  ASSUME NEW S, NEW s \in Seq(S), NEW t \in S
  PROVE  /\ Append(s, t) \in Seq(S)
         /\ ToSet(Append(s, t)) = ToSet(s) \cup {t}
         /\ (IsInjective(s) /\ t \notin ToSet(s)) => IsInjective(Append(s, t))
<1> DEFINE a == Append(s, t)
<1>1. /\ a \in Seq(S) /\ Len(a) = Len(s) + 1 /\ Len(s) \in Nat
      /\ DOMAIN a = 1..Len(s) + 1 /\ DOMAIN s = 1..Len(s)
      /\ \A i \in 1..Len(s) : a[i] = s[i]
      /\ a[Len(s) + 1] = t
  OBVIOUS
<1> HIDE DEF a
<1>2. ToSet(a) = ToSet(s) \cup {t}
  BY <1>1 DEF ToSet
<1>3. ASSUME IsInjective(s), t \notin ToSet(s) PROVE IsInjective(a)
  BY <1>1, <1>3 DEF IsInjective, ToSet
<1> QED
  BY <1>1, <1>2, <1>3 DEF a

\* A conversation of turns names turns only.
LEMMA TurnsOfTalk == ASSUME NEW s \in Seq(Turns) PROVE ToSet(s) \subseteq Turns
BY DEF ToSet

\* A first message is a conversation of one turn.
LEMMA FirstTurn ==
  ASSUME NEW t \in Turns
  PROVE  <<t>> \in Seq(Turns) /\ ToSet(<<t>>) = {t} /\ IsInjective(<<t>>)
BY DEF ToSet, IsInjective

\* A closed slot is a well-formed request.
LEMMA NoRequest == NoReq \in Request /\ NoReq.pc = "free" /\ NoReq.turn = 0
BY IntakeBounds DEF NoReq, Request, Turns

\* Storing one well-formed request keeps all well formed.
LEMMA RequestStored ==
  ASSUME req \in [Requests -> Request], SpeakersHaveATurn,
         NEW q \in Requests, NEW r \in Request, r.pc \in Speaking => r.turn \in Turns,
         req' = [req EXCEPT ![q] = r]
  PROVE  req' \in [Requests -> Request] /\ SpeakersHaveATurn'
BY DEF SpeakersHaveATurn, Turns

\* Requests, conversation and tasks stay well formed, and a request with a
\* message has a turn.
LEMMA IntakeTypeInv == Spec => []TypeInv
<1> USE IntakeBounds, IntakeNames
<1>1. Init => TypeInv
  <2> SUFFICES ASSUME Init PROVE TypeInv
    OBVIOUS
  <2>1. req \in [Requests -> Request] /\ SpeakersHaveATurn
    BY NoRequest DEF Init, SpeakersHaveATurn, Speaking
  <2>2. tasks \in Seq(Task) /\ taskId \in 0..Len(tasks) /\ messages \in Seq(Turns)
    BY DEF Init
  <2>3. lock = Nobody /\ turns = 0 /\ faults = 0 /\ turns \in 0..MaxTurns
    BY DEF Init
  <2>4. raced \in BOOLEAN /\ crossed \in BOOLEAN /\ torn \in BOOLEAN
    BY DEF Init
  <2> QED
    BY <2>1, <2>2, <2>3, <2>4 DEF Init, TypeInv, TypeOK
<1>2. TypeInv /\ [Next]_vars => TypeInv'
  <2> SUFFICES ASSUME TypeInv, [Next]_vars PROVE TypeInv'
    OBVIOUS
  <2> USE DEF intake, history
  <2>0. TypeOK /\ SpeakersHaveATurn
    BY DEF TypeInv
  <2>1. ASSUME NEW q \in Requests, StartOpens(q) \/ TurnOpens(q) PROVE TypeInv'
    <3>1. PICK r \in Request : r.pc \in {"start", "think"} /\ r.turn = 0 /\ Speaks(q, r)
      BY <2>0, <2>1, NoRequest DEF StartOpens, TurnOpens, NoReq, Request, TypeOK, Turns
    <3>2. turns' \in Turns
      BY <2>0, <3>1 DEF Speaks, TypeOK, Turns
    <3>3. [r EXCEPT !.turn = turns + 1] \in Request
      BY <3>1, <3>2 DEF Speaks, Request, Turns
    <3>4. req' \in [Requests -> Request] /\ SpeakersHaveATurn'
      BY <2>0, <3>1, <3>2, <3>3, RequestStored DEF Speaks, Request, TypeOK
    <3>5. crossed' \in BOOLEAN
      BY <2>0, <3>1 DEF Speaks, TypeOK
    <3>6. lock' # Nobody => req'[lock'].pc = "insert"
      BY <2>0, <2>1, <3>1 DEF Speaks, StartOpens, TurnOpens, TypeOK
    <3> QED
      BY <2>0, <2>1, <3>1, <3>2, <3>4, <3>5, <3>6
      DEF StartOpens, TurnOpens, TypeInv, TypeOK, Turns
  <2>2. ASSUME NEW q \in Requests, StartCreates(q) PROVE TypeInv'
    <3>1. req[q].turn \in Turns /\ req[q].seen \in Seq(Turns)
      BY <2>0, <2>2 DEF StartCreates, SpeakersHaveATurn, Speaking, TypeOK, Request
    <3>2. draft' \in SUBSET Turns
      BY <2>2, <3>1, TurnsOfTalk DEF StartCreates, Drafts
    <3>3. messages' \in Seq(Turns) /\ acked' \in SUBSET Turns
      BY <2>0, <2>2, <3>1, FirstTurn DEF StartCreates, TypeOK
    <3>4. req' \in [Requests -> Request] /\ SpeakersHaveATurn'
      BY <2>0, <2>2, NoRequest, RequestStored DEF StartCreates, TypeOK, Speaking
    <3> QED
      BY <2>0, <2>2, <3>2, <3>3, <3>4 DEF StartCreates, TypeInv, TypeOK
  <2>3. ASSUME NEW q \in Requests, TurnThinks(q) PROVE TypeInv'
    <3>1. req[q].turn \in Turns /\ req[q].seen \in Seq(Turns) /\ req[q] \in Request
      BY <2>0, <2>3 DEF TurnThinks, SpeakersHaveATurn, Speaking, TypeOK, Request
    <3>2. PICK d \in Drafts(q) : req' = [req EXCEPT ![q].pc = "append", ![q].heard = d]
      BY <2>3 DEF TurnThinks
    <3>3. d \in SUBSET Turns
      BY <3>1, TurnsOfTalk DEF Drafts
    <3>4. req' = [req EXCEPT ![q] = [req[q] EXCEPT !.pc = "append", !.heard = d]]
      BY <3>2
    <3>5. /\ [req[q] EXCEPT !.pc = "append", !.heard = d] \in Request
          /\ [req[q] EXCEPT !.pc = "append", !.heard = d].turn = req[q].turn
      BY <3>1, <3>3 DEF Request
    <3>6. req' \in [Requests -> Request] /\ SpeakersHaveATurn'
      BY <2>0, <3>1, <3>4, <3>5, RequestStored DEF TypeOK
    <3> QED
      BY <2>0, <2>3, <3>4, <3>6 DEF TurnThinks, TypeInv, TypeOK
  <2>4. ASSUME NEW q \in Requests, AppendReads(q) PROVE TypeInv'
    <3>1. req[q].turn \in Turns /\ req[q] \in Request
      BY <2>0, <2>4 DEF AppendReads, SpeakersHaveATurn, Speaking, TypeOK
    <3>2. PICK r \in Request : /\ req' = [req EXCEPT ![q] = r]
                               /\ r.pc # "free" => r.turn = req[q].turn
      <4>1. [req[q] EXCEPT !.pc = "update", !.seen = messages] \in Request
        BY <2>0, <3>1 DEF Request, TypeOK
      <4>2. [req[q] EXCEPT !.pc = "update", !.seen = messages].turn = req[q].turn
        BY <3>1 DEF Request
      <4> QED
        BY <2>4, <4>1, <4>2, NoRequest DEF AppendReads, Conversation
    <3>3. req' \in [Requests -> Request] /\ SpeakersHaveATurn'
      BY <2>0, <3>1, <3>2, RequestStored DEF TypeOK, Speaking
    <3>4. torn' \in BOOLEAN
      BY <2>0, <2>4 DEF AppendReads, TypeOK
    <3> QED
      BY <2>0, <2>4, <3>2, <3>3, <3>4 DEF AppendReads, TypeInv, TypeOK
  <2>5. ASSUME NEW q \in Requests, AppendWrites(q) PROVE TypeInv'
    <3>1. req[q].turn \in Turns /\ req[q] \in Request
      BY <2>0, <2>5 DEF AppendWrites, SpeakersHaveATurn, Speaking, TypeOK
    <3>2. messages' \in Seq(Turns) /\ acked' \in SUBSET Turns /\ draft' \in SUBSET Turns
      BY <2>0, <2>5, <3>1, Appended DEF AppendWrites, NewDraft, TypeOK, Request
    <3>3. req' \in [Requests -> Request] /\ SpeakersHaveATurn'
      BY <2>0, <2>5, NoRequest, RequestStored DEF AppendWrites, TypeOK, Speaking
    <3> QED
      BY <2>0, <2>5, <3>2, <3>3 DEF AppendWrites, TypeInv, TypeOK
  <2>6. ASSUME NEW q \in Requests,
               FinalizeOpens(q) \/ FinalizeRepeats(q) \/ FinalizeRefuses(q)
                 \/ FinalizeAnswers(q) \/ AbandonReads(q) \/ AbandonWrites(q)
        PROVE  TypeInv'
    <3>1. PICK r \in Request : req' = [req EXCEPT ![q] = r] /\ r.pc \notin Speaking
      <4>1. req[q] \in Request /\ acked \in SUBSET Turns
        BY <2>0 DEF TypeOK
      <4>2. /\ \A own \in BOOLEAN :
                 [NoReq EXCEPT !.pc = "lock", !.own = own, !.due = acked] \in Request
            /\ [req[q] EXCEPT !.pc = "answer"] \in Request
            /\ [NoReq EXCEPT !.pc = "abandon"] \in Request
        BY <4>1, NoRequest DEF Request, NoReq
      <4>3. /\ \A own \in BOOLEAN :
                 [NoReq EXCEPT !.pc = "lock", !.own = own, !.due = acked].pc = "lock"
            /\ [req[q] EXCEPT !.pc = "answer"].pc = "answer"
            /\ [NoReq EXCEPT !.pc = "abandon"].pc = "abandon"
        BY <4>1, NoRequest DEF Request
      <4>4. CASE FinalizeOpens(q)
        <5>1. PICK own \in BOOLEAN :
                 req' = [req EXCEPT ![q] =
                           [NoReq EXCEPT !.pc = "lock", !.own = own, !.due = acked]]
          BY <4>4 DEF FinalizeOpens
        <5> QED
          BY <4>2, <4>3, <5>1 DEF Speaking
      <4>5. CASE FinalizeRepeats(q)
        <5>1. req' = [req EXCEPT ![q] = [req[q] EXCEPT !.pc = "answer"]]
          BY <4>5 DEF FinalizeRepeats
        <5> QED
          BY <4>2, <4>3, <5>1 DEF Speaking
      <4>6. CASE AbandonReads(q)
        BY <4>2, <4>3, <4>6 DEF AbandonReads, Speaking
      <4>7. CASE FinalizeRefuses(q) \/ FinalizeAnswers(q) \/ AbandonWrites(q)
        BY <4>7, NoRequest DEF FinalizeRefuses, FinalizeAnswers, AbandonWrites, Speaking
      <4> QED
        BY <2>6, <4>4, <4>5, <4>6, <4>7
    <3>2. req' \in [Requests -> Request] /\ SpeakersHaveATurn'
      BY <2>0, <3>1, RequestStored DEF TypeOK
    <3>3. lock' = lock /\ (lock # Nobody => lock # q)
      BY <2>0, <2>6 DEF FinalizeOpens, FinalizeRepeats, FinalizeRefuses, FinalizeAnswers,
                        AbandonReads, AbandonWrites, TypeOK
    <3>4. raced' \in BOOLEAN /\ answers' \in SUBSET Nat
      <4>1. raced \in BOOLEAN /\ answers \in SUBSET Nat /\ taskId \in Nat
        <5>1. Len(tasks) \in Nat
          BY <2>0 DEF TypeOK
        <5> QED
          BY <2>0, <5>1 DEF TypeOK
      <4>2. \/ raced' = (raced \/ Open(q, {"abandon"}))
            \/ raced' = (raced \/ Open(q, Closing))
            \/ raced' = raced
        BY <2>6 DEF FinalizeOpens, FinalizeRepeats, FinalizeRefuses, FinalizeAnswers,
                    AbandonReads, AbandonWrites
      <4>3. raced' \in BOOLEAN
        BY <4>1, <4>2, Zenon
      <4>4. answers' \in {answers, answers \cup {taskId}}
        BY <2>6 DEF FinalizeOpens, FinalizeRepeats, FinalizeRefuses, FinalizeAnswers,
                    AbandonReads, AbandonWrites
      <4> QED
        BY <4>1, <4>3, <4>4
    <3>5. lock' # Nobody => req'[lock'].pc = "insert"
      BY <2>0, <3>1, <3>3 DEF TypeOK
    <3>6. UNCHANGED <<messages, draft, taskId, tasks, turns, faults, acked, crossed, torn>>
          /\ status' \in {status, "abandoned"}
      BY <2>6 DEF FinalizeOpens, FinalizeRepeats, FinalizeRefuses, FinalizeAnswers,
                  AbandonReads, AbandonWrites
    <3> QED
      BY <2>0, <3>2, <3>3, <3>4, <3>5, <3>6 DEF TypeInv, TypeOK
  <2>7. ASSUME NEW q \in Requests, FinalizeLocks(q) PROVE TypeInv'
    <3>1. req' = [req EXCEPT ![q] = [req[q] EXCEPT !.pc = "insert"]]
      BY <2>7 DEF FinalizeLocks
    <3>2. [req[q] EXCEPT !.pc = "insert"] \in Request
          /\ [req[q] EXCEPT !.pc = "insert"].pc = "insert"
      BY <2>0 DEF TypeOK, Request
    <3>3. req' \in [Requests -> Request] /\ SpeakersHaveATurn'
      BY <2>0, <3>1, <3>2, RequestStored DEF TypeOK, Speaking
    <3> QED
      BY <2>0, <2>7, <3>1, <3>2, <3>3 DEF FinalizeLocks, Locks, TypeInv, TypeOK
  <2>8. ASSUME NEW q \in Requests, FinalizeCommits(q) PROVE TypeInv'
    <3>1. req' = [req EXCEPT ![q] = [req[q] EXCEPT !.pc = "answer"]]
      BY <2>8 DEF FinalizeCommits
    <3>2. [req[q] EXCEPT !.pc = "answer"] \in Request
          /\ [req[q] EXCEPT !.pc = "answer"].pc = "answer"
      BY <2>0 DEF TypeOK, Request
    <3>3. req' \in [Requests -> Request] /\ SpeakersHaveATurn'
      BY <2>0, <3>1, <3>2, RequestStored DEF TypeOK, Speaking
    <3> DEFINE t == [by |-> IF req[q].own THEN "user" ELSE "draft", heard |-> draft,
                     pictures |-> Pictures, due |-> req[q].due]
    <3>4. t \in Task
      BY <2>0, TurnsOfTalk DEF TypeOK, Task, Pictures, Request
    <3>5. tasks' = Append(tasks, t)
      BY <2>8 DEF FinalizeCommits
    <3> HIDE DEF t
    <3>6. tasks' \in Seq(Task) /\ Len(tasks') = Len(tasks) + 1 /\ Len(tasks) \in Nat
      BY <2>0, <3>4, <3>5 DEF TypeOK
    <3> QED
      BY <2>0, <2>8, <3>3, <3>6 DEF FinalizeCommits, TypeInv, TypeOK
  <2>9. ASSUME NEW q \in Requests, RequestDies(q) PROVE TypeInv'
    <3>1. req' \in [Requests -> Request] /\ SpeakersHaveATurn'
      BY <2>0, <2>9, NoRequest, RequestStored DEF RequestDies, TypeOK, Speaking
    <3> QED
      BY <2>0, <2>9, <3>1 DEF RequestDies, LockAfter, TypeInv, TypeOK
  <2>10. CASE UNCHANGED vars
    BY <2>0, <2>10 DEF vars, TypeInv, TypeOK, SpeakersHaveATurn
  <2> QED
    BY <2>1, <2>2, <2>3, <2>4, <2>5, <2>6, <2>7, <2>8, <2>9, <2>10 DEF Next
<1> QED
  BY <1>1, <1>2, PTL DEF Spec

\* Requests, conversation and tasks stay well formed, and a locked row is
\* locked by a finalize.
THEOREM IntakeTypeCorrect == Spec => []TypeOK
<1>1. TypeInv => TypeOK
  BY DEF TypeInv
<1> QED
  BY <1>1, IntakeTypeInv, PTL

-----------------------------------------------------------------------------
(* One task, and closed for good.                                          *)

TransactionsHoldTheRow == \A q \in Requests : req[q].pc = "insert" => lock = q
LockedIsOpen == lock # Nobody => status = "open"
NoTaskWhileOpen == status \in {"none", "open"} => tasks = <<>> /\ taskId = 0
RepeatsHaveATask == \A q \in Requests : req[q].pc = "answer" => taskId # 0
OneFirstTurn ==
  \A q \in Requests : req[q].pc = "start" =>
    /\ status = "none" /\ turns # 0
    /\ \A p \in Requests : req[p].pc = "start" => p = q
AbandonsHaveARow == \A q \in Requests : req[q].pc = "abandon" => status # "none"

\* Why no second task is made: a transaction holds the row, an open row has no
\* task, and a row is opened once.
OneTaskInv ==
  /\ TransactionsHoldTheRow /\ LockedIsOpen /\ NoTaskWhileOpen
  /\ RepeatsHaveATask /\ OneFirstTurn /\ AbandonsHaveARow
  /\ AnswersNameOneTask

\* What a step does to the open requests: it moves one of them.
Moved(q, pc) ==
  /\ req'[q].pc = pc
  /\ \A p \in Requests \ {q} : req'[p] = req[p]

\* The place each action leaves its request at.
LEMMA Moves ==
  ASSUME TypeOK, NEW q \in Requests
  PROVE  /\ StartOpens(q) => Moved(q, "start")
         /\ TurnOpens(q) => Moved(q, "think")
         /\ TurnThinks(q) => Moved(q, "append")
         /\ AppendReads(q) => Moved(q, "update") \/ Moved(q, "free")
         /\ FinalizeOpens(q) => Moved(q, "lock")
         /\ FinalizeLocks(q) => Moved(q, "insert")
         /\ FinalizeRepeats(q) \/ FinalizeCommits(q) => Moved(q, "answer")
         /\ AbandonReads(q) => Moved(q, "abandon")
         /\ StartCreates(q) \/ AppendWrites(q) \/ FinalizeRefuses(q)
              \/ FinalizeAnswers(q) \/ AbandonWrites(q) \/ RequestDies(q)
              => Moved(q, "free")
<1> USE DEF Moved
<1>1. req \in [Requests -> Request] /\ req[q] \in Request
  BY DEF TypeOK
<1>2. NoReq.pc = "free" /\ NoReq \in Request
  BY NoRequest
<1>3. ASSUME NEW r, r.pc = "start" \/ r.pc = "think", NEW n, r \in Request,
             req' = [req EXCEPT ![q] = [r EXCEPT !.turn = n]]
      PROVE  Moved(q, r.pc)
  BY <1>1, <1>3 DEF Request
<1>4. /\ [NoReq EXCEPT !.pc = "start"] \in Request
      /\ [NoReq EXCEPT !.pc = "start"].pc = "start"
      /\ messages \in Seq(Turns) => [NoReq EXCEPT !.pc = "think", !.seen = messages] \in Request
      /\ [NoReq EXCEPT !.pc = "think", !.seen = messages].pc = "think"
      /\ [NoReq EXCEPT !.pc = "abandon"].pc = "abandon"
      /\ \A own \in BOOLEAN :
           [NoReq EXCEPT !.pc = "lock", !.own = own, !.due = acked].pc = "lock"
  BY <1>2 DEF Request
<1>5. /\ \A d : [req[q] EXCEPT !.pc = "append", !.heard = d].pc = "append"
      /\ \A s : [req[q] EXCEPT !.pc = "update", !.seen = s].pc = "update"
      /\ \A x : [req[q] EXCEPT !.pc = x].pc = x
  BY <1>1 DEF Request
<1>6. StartOpens(q) => Moved(q, "start")
  <2> SUFFICES ASSUME StartOpens(q) PROVE Moved(q, "start")
    OBVIOUS
  <2> DEFINE r == [NoReq EXCEPT !.pc = "start"]
  <2>1. req' = [req EXCEPT ![q] = [r EXCEPT !.turn = turns + 1]]
    BY DEF StartOpens, Speaks
  <2>2. r \in Request /\ r.pc = "start"
    BY <1>4
  <2> HIDE DEF r
  <2> QED
    BY <1>3, <2>1, <2>2
<1>7. TurnOpens(q) => Moved(q, "think")
  BY <1>3, <1>4 DEF TurnOpens, Speaks, TypeOK
<1>8. TurnThinks(q) => Moved(q, "append")
  <2> SUFFICES ASSUME TurnThinks(q) PROVE Moved(q, "append")
    OBVIOUS
  <2>1. PICK d : req' = [req EXCEPT ![q].pc = "append", ![q].heard = d]
    BY DEF TurnThinks
  <2>2. req' = [req EXCEPT ![q] = [req[q] EXCEPT !.pc = "append", !.heard = d]]
    BY <2>1
  <2> QED
    BY <1>1, <1>5, <2>2
<1>9. AppendReads(q) => Moved(q, "update") \/ Moved(q, "free")
  BY <1>1, <1>2, <1>5 DEF AppendReads
<1>10. FinalizeOpens(q) => Moved(q, "lock")
  <2> SUFFICES ASSUME FinalizeOpens(q) PROVE Moved(q, "lock")
    OBVIOUS
  <2>1. PICK own \in BOOLEAN :
           req' = [req EXCEPT ![q] =
                     [NoReq EXCEPT !.pc = "lock", !.own = own, !.due = acked]]
    BY DEF FinalizeOpens
  <2> QED
    BY <1>1, <1>4, <2>1
<1>11. ASSUME NEW x, req' = [req EXCEPT ![q].pc = x] PROVE Moved(q, x)
  <2>1. req' = [req EXCEPT ![q] = [req[q] EXCEPT !.pc = x]]
    BY <1>11
  <2> QED
    BY <1>1, <1>5, <2>1
<1>12. FinalizeLocks(q) => Moved(q, "insert")
  BY <1>11 DEF FinalizeLocks
<1>13. FinalizeRepeats(q) \/ FinalizeCommits(q) => Moved(q, "answer")
  BY <1>11 DEF FinalizeRepeats, FinalizeCommits
<1>14. AbandonReads(q) => Moved(q, "abandon")
  BY <1>1, <1>4 DEF AbandonReads
<1>15. StartCreates(q) \/ AppendWrites(q) \/ FinalizeRefuses(q) \/ FinalizeAnswers(q)
         \/ AbandonWrites(q) \/ RequestDies(q) => Moved(q, "free")
  BY <1>1, <1>2 DEF StartCreates, AppendWrites, FinalizeRefuses, FinalizeAnswers,
                    AbandonWrites, RequestDies
<1> QED
  BY <1>6, <1>7, <1>8, <1>9, <1>10, <1>12, <1>13, <1>14, <1>15

\* Every step keeps what stands between an intake and a second task.
LEMMA OneTaskStep == TypeOK /\ OneTaskInv /\ [Next]_vars => OneTaskInv'
<1> SUFFICES ASSUME TypeOK, OneTaskInv, [Next]_vars PROVE OneTaskInv'
  OBVIOUS
<1> USE IntakeNames DEF OneTaskInv, TransactionsHoldTheRow, LockedIsOpen, NoTaskWhileOpen,
        RepeatsHaveATask, OneFirstTurn, AbandonsHaveARow, AnswersNameOneTask, Moved, intake, history
<1>1. ASSUME NEW q \in Requests, StartOpens(q) PROVE OneTaskInv'
  <2>1. turns = 0 /\ turns' # 0
    BY <1>1 DEF StartOpens, Speaks
  <2> QED
    BY <1>1, <2>1, Moves DEF StartOpens
<1>2. ASSUME NEW q \in Requests, TurnOpens(q) PROVE OneTaskInv'
  BY <1>2, Moves DEF TurnOpens
<1>3. ASSUME NEW q \in Requests, StartCreates(q) PROVE OneTaskInv'
  BY <1>3, Moves DEF StartCreates
<1>4. ASSUME NEW q \in Requests,
             TurnThinks(q) \/ AppendReads(q) \/ AppendWrites(q) \/ FinalizeOpens(q)
               \/ FinalizeRefuses(q)
      PROVE  OneTaskInv'
  <2>1. UNCHANGED <<status, taskId, tasks, lock, turns, answers>>
    BY <1>4 DEF TurnThinks, AppendReads, AppendWrites, FinalizeOpens, FinalizeRefuses
  <2>2. \E pc \in {"append", "update", "free", "lock"} : Moved(q, pc)
    BY <1>4, Moves
  <2> QED
    BY <2>1, <2>2
<1>5. ASSUME NEW q \in Requests, FinalizeLocks(q) PROVE OneTaskInv'
  BY <1>5, Moves DEF FinalizeLocks, Locks, MayFinalize
<1>6. ASSUME NEW q \in Requests, FinalizeRepeats(q) PROVE OneTaskInv'
  BY <1>6, Moves DEF FinalizeRepeats
<1>7. ASSUME NEW q \in Requests, FinalizeCommits(q) PROVE OneTaskInv'
  <2>1. lock = q /\ status = "open" /\ tasks = <<>>
    BY <1>7 DEF FinalizeCommits
  <2>2. Len(tasks') = 1 /\ taskId' = 1 /\ status' = "finalized" /\ lock' = Nobody
    BY <1>7, <2>1 DEF FinalizeCommits
  <2>3. answers' \subseteq 1..Len(tasks')
    BY <1>7, <2>1, <2>2 DEF FinalizeCommits
  <2>4. Moved(q, "answer")
    BY <1>7, Moves
  <2>5. \A p \in Requests \ {q} : req[p].pc # "insert" /\ req[p].pc # "start"
    BY <2>1
  <2> QED
    BY <2>2, <2>3, <2>4, <2>5
<1>8. ASSUME NEW q \in Requests, FinalizeAnswers(q) PROVE OneTaskInv'
  <2>1. taskId \in 1..Len(tasks)
    <3>1. taskId # 0 /\ taskId \in 0..Len(tasks) /\ Len(tasks) \in Nat
      BY <1>8 DEF FinalizeAnswers, TypeOK
    <3> QED
      BY <3>1
  <2>2. Moved(q, "free")
    BY <1>8, Moves
  <2>3. UNCHANGED <<status, taskId, tasks, lock, turns>> /\ answers' = answers \cup {taskId}
    BY <1>8 DEF FinalizeAnswers
  <2> QED
    BY <2>1, <2>2, <2>3
<1>9. ASSUME NEW q \in Requests, AbandonWrites(q) PROVE OneTaskInv'
  <2>1. Moved(q, "free")
    BY <1>9, Moves
  <2>2. /\ lock = Nobody /\ status' = "abandoned"
        /\ UNCHANGED <<taskId, tasks, lock, turns, answers>>
    BY <1>9 DEF AbandonWrites
  <2>3. \A p \in Requests : req[p].pc # "start"
    BY <1>9 DEF AbandonWrites
  <2> QED
    BY <2>1, <2>2, <2>3
<1>10. ASSUME NEW q \in Requests, RequestDies(q) PROVE OneTaskInv'
  <2>1. Moved(q, "free")
    BY <1>10, Moves
  <2>2. UNCHANGED <<status, taskId, tasks, turns, answers>> /\ lock' = LockAfter(q)
    BY <1>10 DEF RequestDies
  <2> QED
    BY <2>1, <2>2 DEF LockAfter
<1>11. ASSUME NEW q \in Requests, AbandonReads(q) PROVE OneTaskInv'
  BY <1>11, Moves DEF AbandonReads
<1>12. CASE UNCHANGED vars
  BY <1>12 DEF vars
<1> QED
  BY <1>1, <1>2, <1>3, <1>4, <1>5, <1>6, <1>7, <1>8, <1>9, <1>10, <1>11, <1>12 DEF Next

\* An intake yields one task at most and every finalize that is answered names
\* it, whatever fails and whatever it races (finalizeIntake's FOR UPDATE).
THEOREM OneTaskSafe == Spec => []AnswersNameOneTask
<1>1. Init => OneTaskInv
  BY NoRequest DEF Init, OneTaskInv, TransactionsHoldTheRow, LockedIsOpen, NoTaskWhileOpen,
                   RepeatsHaveATask, OneFirstTurn, AbandonsHaveARow, AnswersNameOneTask
<1>2. OneTaskInv => AnswersNameOneTask
  BY DEF OneTaskInv
<1> QED
  BY <1>1, <1>2, OneTaskStep, IntakeTypeCorrect, PTL DEF Spec

\* An abandon that read an open intake excludes a finalize, unless they race.
ClosingInv ==
  ~raced => \A q \in Requests : req[q].pc = "abandon" =>
              /\ status # "finalized"
              /\ \A p \in Requests : req[p].pc \notin Closing

\* Every step keeps abandon and finalize apart.
LEMMA ClosingStep ==
  TypeOK /\ OneTaskInv /\ ClosingInv /\ [Next]_vars => ClosingInv'
<1> SUFFICES ASSUME TypeOK, OneTaskInv, ClosingInv, [Next]_vars, ~raced' PROVE ClosingInv'
  BY DEF ClosingInv
<1> USE DEF ClosingInv, Closing, Moved, intake, history
<1>1. ASSUME NEW q \in Requests, FinalizeOpens(q) PROVE ClosingInv'
  <2>1. Moved(q, "lock")
    BY <1>1, Moves
  <2>2. ~raced /\ \A p \in Requests \ {q} : req[p].pc # "abandon"
    BY <1>1 DEF FinalizeOpens, Open
  <2> QED
    BY <2>1, <2>2
<1>2. ASSUME NEW q \in Requests, AbandonReads(q) PROVE ClosingInv'
  <2>1. Moved(q, "abandon")
    BY <1>2, Moves
  <2>2. ~raced /\ \A p \in Requests \ {q} : req[p].pc \notin Closing
    BY <1>2 DEF AbandonReads, Open
  <2>3. status' = "open" 
    BY <1>2 DEF AbandonReads
  <2> QED
    BY <2>1, <2>2, <2>3
<1>3. ASSUME NEW q \in Requests, FinalizeLocks(q) \/ FinalizeCommits(q) PROVE ClosingInv'
  <2>1. ~raced /\ req[q].pc \in Closing
    BY <1>3 DEF FinalizeLocks, FinalizeCommits
  <2>2. Moved(q, "insert") \/ Moved(q, "answer")
    BY <1>3, Moves
  <2> QED
    BY <2>1, <2>2
<1>4. ASSUME NEW q \in Requests,
             StartOpens(q) \/ TurnOpens(q) \/ StartCreates(q) \/ TurnThinks(q)
               \/ AppendReads(q) \/ AppendWrites(q) \/ FinalizeRepeats(q)
               \/ FinalizeRefuses(q) \/ FinalizeAnswers(q) \/ AbandonWrites(q)
               \/ RequestDies(q)
      PROVE  ClosingInv'
  <2>1. raced' = raced /\ status' \in {status, "open", "abandoned"}
    BY <1>4 DEF StartOpens, TurnOpens, StartCreates, TurnThinks, AppendReads, AppendWrites,
                FinalizeRepeats, FinalizeRefuses, FinalizeAnswers, AbandonWrites, RequestDies
  <2>2. \E pc \in {"start", "think", "append", "update", "answer", "free"} : Moved(q, pc)
    BY <1>4, Moves
  <2> QED
    BY <2>1, <2>2
<1>5. CASE UNCHANGED vars
  BY <1>5 DEF vars
<1> QED
  BY <1>1, <1>2, <1>3, <1>4, <1>5 DEF Next

\* A closed intake stays closed the way it was closed and gets no other task,
\* unless an abandon and a finalize were open at once.
THEOREM ClosedSafe == Spec => ClosedForGood
<1>1. Init => OneTaskInv /\ ClosingInv
  BY NoRequest DEF Init, OneTaskInv, TransactionsHoldTheRow, LockedIsOpen, NoTaskWhileOpen,
                   RepeatsHaveATask, OneFirstTurn, AbandonsHaveARow, AnswersNameOneTask, ClosingInv
<1>2. TypeOK /\ OneTaskInv /\ ClosingInv /\ [Next]_vars
        => [(status \in {"finalized", "abandoned"} /\ ~raced)
              => UNCHANGED <<status, taskId, tasks>>]_vars
  <2> SUFFICES ASSUME TypeOK, OneTaskInv, ClosingInv, Next,
                      status \in {"finalized", "abandoned"}, ~raced
               PROVE  UNCHANGED <<status, taskId, tasks>>
    BY DEF vars, intake
  <2> USE DEF intake
  <2>1. PICK q \in Requests :
           \/ StartOpens(q) \/ StartCreates(q)
           \/ TurnOpens(q) \/ TurnThinks(q) \/ AppendReads(q) \/ AppendWrites(q)
           \/ FinalizeOpens(q) \/ FinalizeLocks(q) \/ FinalizeRepeats(q)
           \/ FinalizeRefuses(q) \/ FinalizeCommits(q) \/ FinalizeAnswers(q)
           \/ AbandonReads(q) \/ AbandonWrites(q) \/ RequestDies(q)
    BY DEF Next
  <2>2. CASE StartCreates(q)
    BY <2>2 DEF StartCreates, OneTaskInv, OneFirstTurn
  <2>3. CASE FinalizeCommits(q)
    BY <2>3, IntakeNames
    DEF FinalizeCommits, OneTaskInv, TransactionsHoldTheRow, LockedIsOpen
  <2>4. CASE AbandonWrites(q)
    BY <2>4 DEF AbandonWrites, ClosingInv
  <2>5. CASE \/ StartOpens(q) \/ TurnOpens(q) \/ TurnThinks(q) \/ AppendReads(q)
             \/ AppendWrites(q) \/ FinalizeOpens(q) \/ FinalizeLocks(q)
             \/ FinalizeRepeats(q) \/ FinalizeRefuses(q) \/ FinalizeAnswers(q)
             \/ AbandonReads(q) \/ RequestDies(q)
    BY <2>5 DEF StartOpens, TurnOpens, TurnThinks, AppendReads, AppendWrites, FinalizeOpens,
                FinalizeLocks, FinalizeRepeats, FinalizeRefuses, FinalizeAnswers,
                AbandonReads, RequestDies
  <2> QED
    BY <2>1, <2>2, <2>3, <2>4, <2>5
<1> QED
  BY <1>1, <1>2, OneTaskStep, ClosingStep, IntakeTypeCorrect, PTL DEF Spec, ClosedForGood

-----------------------------------------------------------------------------
(* No turn is lost.                                                        *)

\* What a request holds besides its place.
Holds(r, turn, seen, due) == r.turn = turn /\ r.seen = seen /\ r.due = due

\* What each action leaves in its request.
LEMMA Holdings ==
  ASSUME TypeOK, NEW q \in Requests
  PROVE  /\ StartOpens(q) => Holds(req'[q], turns + 1, <<>>, {})
         /\ TurnOpens(q) => Holds(req'[q], turns + 1, messages, {})
         /\ TurnThinks(q) => /\ Holds(req'[q], req[q].turn, req[q].seen, req[q].due)
                             /\ req'[q].heard \in Drafts(q)
         /\ AppendReads(q) /\ status = "open" =>
              /\ Holds(req'[q], req[q].turn, messages, req[q].due)
              /\ req'[q].heard = req[q].heard
         /\ FinalizeOpens(q) => Holds(req'[q], 0, <<>>, acked)
         /\ FinalizeLocks(q) \/ FinalizeRepeats(q) \/ FinalizeCommits(q) =>
              /\ Holds(req'[q], req[q].turn, req[q].seen, req[q].due)
              /\ req'[q].own = req[q].own
         /\ StartCreates(q) \/ AppendWrites(q) \/ FinalizeRefuses(q)
              \/ FinalizeAnswers(q) \/ AbandonReads(q) \/ AbandonWrites(q)
              \/ RequestDies(q) \/ (AppendReads(q) /\ status # "open")
              => Holds(req'[q], 0, <<>>, {})
<1> USE DEF Holds
<1>1. req \in [Requests -> Request] /\ req[q] \in Request /\ messages \in Seq(Turns)
      /\ acked \in SUBSET Turns
  BY DEF TypeOK
<1>2. NoReq \in Request /\ Holds(NoReq, 0, <<>>, {})
  BY NoRequest DEF NoReq
<1>3. /\ \A n : Holds([[NoReq EXCEPT !.pc = "start"] EXCEPT !.turn = n], n, <<>>, {})
      /\ \A n : Holds([[NoReq EXCEPT !.pc = "think", !.seen = messages] EXCEPT !.turn = n],
                      n, messages, {})
      /\ \A own : Holds([NoReq EXCEPT !.pc = "lock", !.own = own, !.due = acked],
                        0, <<>>, acked)
      /\ Holds([NoReq EXCEPT !.pc = "abandon"], 0, <<>>, {})
  BY DEF NoReq
<1>4. /\ \A d : /\ Holds([req[q] EXCEPT !.pc = "append", !.heard = d],
                         req[q].turn, req[q].seen, req[q].due)
                /\ [req[q] EXCEPT !.pc = "append", !.heard = d].heard = d
      /\ Holds([req[q] EXCEPT !.pc = "update", !.seen = messages],
               req[q].turn, messages, req[q].due)
      /\ [req[q] EXCEPT !.pc = "update", !.seen = messages].heard = req[q].heard
      /\ \A x : /\ Holds([req[q] EXCEPT !.pc = x], req[q].turn, req[q].seen, req[q].due)
                /\ [req[q] EXCEPT !.pc = x].own = req[q].own
  BY <1>1 DEF Request
<1> HIDE DEF Holds
<1>5. \A r : req' = [req EXCEPT ![q] = r] => req'[q] = r
  BY <1>1
<1>6. StartOpens(q) => Holds(req'[q], turns + 1, <<>>, {})
  BY <1>3, <1>5 DEF StartOpens, Speaks
<1>7. TurnOpens(q) => Holds(req'[q], turns + 1, messages, {})
  BY <1>3, <1>5 DEF TurnOpens, Speaks
<1>8. TurnThinks(q) => /\ Holds(req'[q], req[q].turn, req[q].seen, req[q].due)
                       /\ req'[q].heard \in Drafts(q)
  <2> SUFFICES ASSUME TurnThinks(q)
               PROVE  /\ Holds(req'[q], req[q].turn, req[q].seen, req[q].due)
                      /\ req'[q].heard \in Drafts(q)
    OBVIOUS
  <2>1. PICK d \in Drafts(q) : req' = [req EXCEPT ![q].pc = "append", ![q].heard = d]
    BY DEF TurnThinks
  <2>2. req' = [req EXCEPT ![q] = [req[q] EXCEPT !.pc = "append", !.heard = d]]
    BY <2>1
  <2> QED
    BY <1>4, <1>5, <2>2
<1>9. AppendReads(q) =>
        req'[q] = IF status = "open" THEN [req[q] EXCEPT !.pc = "update", !.seen = messages]
                                     ELSE NoReq
  BY <1>1 DEF AppendReads, Conversation
<1>10. FinalizeOpens(q) => Holds(req'[q], 0, <<>>, acked)
  <2> SUFFICES ASSUME FinalizeOpens(q) PROVE Holds(req'[q], 0, <<>>, acked)
    OBVIOUS
  <2>1. PICK own \in BOOLEAN :
           req' = [req EXCEPT ![q] =
                     [NoReq EXCEPT !.pc = "lock", !.own = own, !.due = acked]]
    BY DEF FinalizeOpens
  <2> QED
    BY <1>3, <1>5, <2>1
<1>11. ASSUME NEW x, req' = [req EXCEPT ![q].pc = x]
       PROVE  /\ Holds(req'[q], req[q].turn, req[q].seen, req[q].due)
              /\ req'[q].own = req[q].own
  <2>1. req' = [req EXCEPT ![q] = [req[q] EXCEPT !.pc = x]]
    BY <1>11
  <2> QED
    BY <1>4, <1>5, <2>1
<1>12. FinalizeLocks(q) \/ FinalizeRepeats(q) \/ FinalizeCommits(q) =>
          /\ Holds(req'[q], req[q].turn, req[q].seen, req[q].due)
          /\ req'[q].own = req[q].own
  BY <1>11 DEF FinalizeLocks, FinalizeRepeats, FinalizeCommits
<1>13. StartCreates(q) \/ AppendWrites(q) \/ FinalizeRefuses(q) \/ FinalizeAnswers(q)
         \/ AbandonWrites(q) \/ RequestDies(q) => req'[q] = NoReq
  BY <1>1 DEF StartCreates, AppendWrites, FinalizeRefuses, FinalizeAnswers, AbandonWrites,
              RequestDies
<1>14. AbandonReads(q) => Holds(req'[q], 0, <<>>, {})
  BY <1>3, <1>5 DEF AbandonReads
<1> QED
  BY <1>2, <1>4, <1>6, <1>7, <1>8, <1>9, <1>10, <1>12, <1>13, <1>14

Talking == {"think", "append", "update"}

\* A turn is in one request at a time, and in no conversation before its
\* request has stored it.
TurnsAreFresh ==
  /\ \A t \in ToSet(messages) : t <= turns
  /\ \A q \in Requests : \A t \in ToSet(req[q].seen) : t <= turns
  /\ \A q \in Requests : req[q].pc \in Speaking =>
       /\ req[q].turn <= turns
       /\ req[q].turn \notin ToSet(messages)
       /\ \A p \in Requests : req[q].turn \notin ToSet(req[p].seen)
       /\ \A p \in Requests \ {q} : req[p].pc \in Speaking => req[p].turn # req[q].turn

\* Nobody talks in an intake that does not exist.
TalkHasARow ==
  /\ \A q \in Requests : req[q].pc \in Talking \cup Closing => status # "none"
  /\ status = "none" => acked = {}

\* Between appendTurn's read and its UPDATE nobody else writes, unless two were
\* there at once.
ReadIsCurrent ==
  ~torn => \A q \in Requests : req[q].pc = "update" =>
             /\ req[q].seen = messages
             /\ \A p \in Requests \ {q} : req[p].pc # "update"

DueIsAnswered == \A q \in Requests : req[q].due \subseteq acked

TalkInv == TurnsAreFresh /\ TalkHasARow /\ ReadIsCurrent /\ DueIsAnswered /\ TurnsAreKept

\* Every step keeps the turns it does not add.
LEMMA TalkStep == TypeInv /\ OneTaskInv /\ TalkInv /\ [Next]_vars => TalkInv'
<1> SUFFICES ASSUME TypeInv, OneTaskInv, TalkInv, [Next]_vars PROVE TalkInv'
  OBVIOUS
<1> USE DEF intake, history
<1>a. TypeOK /\ turns \in Nat /\ \A q \in Requests : req[q].pc \in Speaking => req[q].turn \in Turns
  BY IntakeBounds DEF TypeInv, TypeOK, SpeakersHaveATurn
<1>b. TurnsAreFresh /\ TalkHasARow /\ ReadIsCurrent /\ DueIsAnswered /\ TurnsAreKept
  BY DEF TalkInv
\* A closed request says nothing and is owed nothing.
<1>c. ToSet(<<>>) = {}
  BY DEF ToSet
<1>1. ASSUME NEW q \in Requests, StartOpens(q) \/ TurnOpens(q) PROVE TalkInv'
  <2>1. /\ turns' = turns + 1 /\ UNCHANGED <<messages, status, acked, torn, tasks>>
        /\ req[q].pc = "free"
    BY <1>1 DEF StartOpens, TurnOpens, Speaks
  <2>2. \/ Moved(q, "start") /\ Holds(req'[q], turns + 1, <<>>, {})
        \/ Moved(q, "think") /\ Holds(req'[q], turns + 1, messages, {}) /\ status = "open"
    BY <1>a, <1>1, Moves, Holdings DEF TurnOpens
  <2>3. req'[q].turn = turns + 1 /\ req'[q].seen \in {<<>>, messages} /\ req'[q].due = {}
    BY <2>2 DEF Holds
  <2>4. /\ req'[q].pc \in {"start", "think"}
        /\ req'[q].pc = "think" => status = "open"
        /\ \A p \in Requests \ {q} : req'[p] = req[p]
    BY <2>2 DEF Moved
  <2>5. \A t \in ToSet(req'[q].seen) : t <= turns /\ t # turns + 1
    <3>1. \A t \in ToSet(messages) : t \in Nat /\ t <= turns
      BY <1>a, <1>b, TurnsOfTalk DEF TurnsAreFresh, TypeOK, Turns
    <3> QED
      BY <1>a, <1>c, <2>3, <3>1
  <2>6. TurnsAreFresh'
    <3>1. \A p \in Requests : \A t \in ToSet(req[p].seen) : t \in Nat /\ t <= turns
      BY <1>a, <1>b, TurnsOfTalk DEF TurnsAreFresh, TypeOK, Turns, Request
    <3>2. \A t \in ToSet(messages) : t \in Nat /\ t <= turns
      BY <1>a, <1>b, TurnsOfTalk DEF TurnsAreFresh, TypeOK, Turns
    <3>3. \A p \in Requests : req[p].pc \in Speaking =>
            /\ req[p].turn \in Nat /\ req[p].turn <= turns
            /\ req[p].turn \notin ToSet(req'[q].seen)
      BY <1>a, <1>b, <1>c, <2>3 DEF TurnsAreFresh, Turns
    <3>4. \A n \in Nat : n <= turns => n # turns + 1 /\ n <= turns'
      BY <1>a, <2>1
    <3>5. /\ \A t \in ToSet(messages') : t <= turns'
          /\ \A p \in Requests : \A t \in ToSet(req'[p].seen) : t <= turns'
      BY <1>c, <2>1, <2>3, <2>4, <3>1, <3>2, <3>4
    <3>6. ASSUME NEW p \in Requests, p # q, req'[p].pc \in Speaking
          PROVE  /\ req'[p].turn <= turns' /\ req'[p].turn # turns + 1
                 /\ req'[p].turn \notin ToSet(messages')
                 /\ \A o \in Requests : req'[p].turn \notin ToSet(req'[o].seen)
                 /\ \A o \in Requests \ {p, q} :
                      req'[o].pc \in Speaking => req'[o].turn # req'[p].turn
      <4>1. req'[p] = req[p] /\ messages' = messages
        BY <2>1, <2>4, <3>6
      <4> QED
        BY <1>b, <2>4, <3>3, <3>4, <3>6, <4>1 DEF TurnsAreFresh
    <3>7. /\ turns + 1 <= turns' /\ turns + 1 \notin ToSet(messages')
          /\ \A o \in Requests : turns + 1 \notin ToSet(req'[o].seen)
      BY <1>a, <1>c, <2>1, <2>3, <2>4, <3>1, <3>2, <3>4
    <3> QED
      BY <2>3, <3>5, <3>6, <3>7 DEF TurnsAreFresh
  <2>7. TalkHasARow' /\ ReadIsCurrent' /\ DueIsAnswered'
    BY <1>b, <2>1, <2>3, <2>4
    DEF TalkHasARow, ReadIsCurrent, DueIsAnswered, Talking, Closing
  <2> QED
    BY <1>b, <2>1, <2>6, <2>7 DEF TalkInv, TurnsAreKept
<1>2. ASSUME NEW q \in Requests, StartCreates(q) PROVE TalkInv'
  <2>1. /\ messages' = <<req[q].turn>> /\ acked' = acked \cup {req[q].turn}
        /\ status' = "open" /\ req[q].pc = "start" /\ UNCHANGED <<turns, torn, tasks>>
    BY <1>2 DEF StartCreates
  <2>2. Moved(q, "free") /\ Holds(req'[q], 0, <<>>, {})
    BY <1>a, <1>2, Moves, Holdings
  <2>3. ToSet(messages') = {req[q].turn} /\ IsInjective(messages')
    BY <1>a, <2>1, FirstTurn DEF Speaking
  <2>4. status = "none" /\ acked = {} /\ tasks = <<>>
    BY <1>b, <2>1 DEF OneTaskInv, OneFirstTurn, NoTaskWhileOpen, TalkHasARow
  <2>5. TurnsAreFresh'
    BY <1>b, <1>c, <2>1, <2>2, <2>3 DEF TurnsAreFresh, Moved, Holds, Speaking
  <2>6. ReadIsCurrent' /\ TalkHasARow'
    BY <1>b, <2>1, <2>2, <2>4 DEF ReadIsCurrent, TalkHasARow, Moved, Talking, Closing
  <2>7. DueIsAnswered'
    BY <1>b, <2>1, <2>2 DEF DueIsAnswered, Moved, Holds
  <2>8. TurnsAreKept'
    BY <1>c, <2>1, <2>3, <2>4 DEF TurnsAreKept
  <2> QED
    BY <2>5, <2>6, <2>7, <2>8 DEF TalkInv
<1>3. ASSUME NEW q \in Requests, TurnThinks(q) PROVE TalkInv'
  <2>1. UNCHANGED <<messages, status, acked, turns, torn, tasks>> /\ req[q].pc = "think"
    BY <1>3 DEF TurnThinks
  <2>2. Moved(q, "append") /\ Holds(req'[q], req[q].turn, req[q].seen, req[q].due)
    BY <1>a, <1>3, Moves, Holdings
  <2> QED
    BY <1>b, <2>1, <2>2
    DEF TalkInv, TurnsAreFresh, TalkHasARow, ReadIsCurrent, DueIsAnswered, TurnsAreKept,
        Moved, Holds, Speaking, Talking, Closing
<1>4. ASSUME NEW q \in Requests, AppendReads(q) PROVE TalkInv'
  <2>1. /\ UNCHANGED <<messages, status, acked, turns, tasks>> /\ req[q].pc = "append"
        /\ ~torn' => /\ ~torn
                     /\ status = "open" => \A p \in Requests \ {q} : req[p].pc # "update"
    BY <1>4 DEF AppendReads, Open
  <2>2. CASE status = "open"
    <3>1. Moved(q, "update") /\ Holds(req'[q], req[q].turn, messages, req[q].due)
      <4>1. Holds(req'[q], req[q].turn, messages, req[q].due)
        BY <1>a, <1>4, <2>2, Holdings
      <4>2. [req[q] EXCEPT !.pc = "update", !.seen = messages].pc = "update"
        BY <1>a DEF TypeOK, Request
      <4>3. req' = [req EXCEPT ![q] = [req[q] EXCEPT !.pc = "update", !.seen = messages]]
        BY <1>4, <2>2 DEF AppendReads, Conversation
      <4> QED
        BY <1>a, <4>1, <4>2, <4>3 DEF Moved, TypeOK
    <3>2. TurnsAreFresh'
      BY <1>b, <2>1, <3>1 DEF TurnsAreFresh, Moved, Holds, Speaking
    <3>3. ReadIsCurrent'
      BY <1>b, <2>1, <2>2, <3>1 DEF ReadIsCurrent, Moved, Holds
    <3> QED
      BY <1>b, <2>1, <2>2, <3>1, <3>2, <3>3
      DEF TalkInv, TalkHasARow, DueIsAnswered, TurnsAreKept, Moved, Holds
  <2>3. CASE status # "open"
    <3>1. Moved(q, "free") /\ Holds(req'[q], 0, <<>>, {})
      <4>1. Holds(req'[q], 0, <<>>, {})
        BY <1>a, <1>4, <2>3, Holdings
      <4> QED
        BY <1>a, <1>4, <2>3, <4>1, NoRequest DEF AppendReads, Moved, TypeOK
    <3>2. TurnsAreFresh'
      BY <1>b, <1>c, <2>1, <3>1 DEF TurnsAreFresh, Moved, Holds, Speaking
    <3> QED
      BY <1>b, <2>1, <3>1, <3>2
      DEF TalkInv, TalkHasARow, ReadIsCurrent, DueIsAnswered, TurnsAreKept, Moved, Holds,
          Talking, Closing
  <2> QED
    BY <2>2, <2>3
<1>5. ASSUME NEW q \in Requests, AppendWrites(q) PROVE TalkInv'
  <2>1. /\ messages' = Append(req[q].seen, req[q].turn) /\ acked' = acked \cup {req[q].turn}
        /\ req[q].pc = "update" /\ UNCHANGED <<status, turns, torn, tasks>>
    BY <1>5 DEF AppendWrites
  <2>2. Moved(q, "free") /\ Holds(req'[q], 0, <<>>, {})
    BY <1>a, <1>5, Moves, Holdings
  <2>3. req[q].seen \in Seq(Turns) /\ req[q].turn \in Turns
    BY <1>a, <2>1 DEF TypeOK, Request, Speaking
  <2>4. /\ ToSet(messages') = ToSet(req[q].seen) \cup {req[q].turn}
        /\ IsInjective(req[q].seen) /\ req[q].turn \notin ToSet(req[q].seen)
             => IsInjective(messages')
    BY <2>1, <2>3, Appended
  <2>5. req[q].turn \notin ToSet(req[q].seen)
    BY <1>b, <2>1 DEF TurnsAreFresh, Speaking
  <2>6. TurnsAreFresh'
    BY <1>b, <1>c, <2>1, <2>2, <2>4 DEF TurnsAreFresh, Moved, Holds, Speaking
  <2>7. TalkHasARow' /\ ReadIsCurrent' /\ DueIsAnswered'
    BY <1>b, <2>1, <2>2
    DEF TalkHasARow, ReadIsCurrent, DueIsAnswered, Moved, Holds, Talking, Closing
  <2>8. TurnsAreKept'
    BY <1>b, <2>1, <2>4, <2>5 DEF TurnsAreKept, ReadIsCurrent
  <2> QED
    BY <2>6, <2>7, <2>8 DEF TalkInv
<1>6. ASSUME NEW q \in Requests, FinalizeOpens(q) PROVE TalkInv'
  <2>1. UNCHANGED <<messages, status, acked, turns, torn, tasks>> /\ status # "none"
    BY <1>6 DEF FinalizeOpens
  <2>2. Moved(q, "lock") /\ Holds(req'[q], 0, <<>>, acked)
    BY <1>a, <1>6, Moves, Holdings
  <2> QED
    BY <1>b, <1>c, <2>1, <2>2
    DEF TalkInv, TurnsAreFresh, TalkHasARow, ReadIsCurrent, DueIsAnswered, TurnsAreKept,
        Moved, Holds, Speaking, Talking, Closing
<1>7. ASSUME NEW q \in Requests, FinalizeLocks(q) \/ FinalizeRepeats(q) PROVE TalkInv'
  <2>1. UNCHANGED <<messages, status, acked, turns, torn, tasks>> /\ req[q].pc = "lock"
    BY <1>7 DEF FinalizeLocks, FinalizeRepeats
  <2>2. \/ Moved(q, "insert") /\ Holds(req'[q], req[q].turn, req[q].seen, req[q].due)
        \/ Moved(q, "answer") /\ Holds(req'[q], req[q].turn, req[q].seen, req[q].due)
    BY <1>a, <1>7, Moves, Holdings
  <2> QED
    BY <1>b, <2>1, <2>2
    DEF TalkInv, TurnsAreFresh, TalkHasARow, ReadIsCurrent, DueIsAnswered, TurnsAreKept,
        Moved, Holds, Speaking, Talking, Closing
<1>8. ASSUME NEW q \in Requests, FinalizeCommits(q) PROVE TalkInv'
  <2>1. /\ UNCHANGED <<messages, acked, turns, torn>> /\ req[q].pc = "insert"
        /\ status' = "finalized"
    BY <1>8 DEF FinalizeCommits
  <2>2. Moved(q, "answer") /\ Holds(req'[q], req[q].turn, req[q].seen, req[q].due)
    BY <1>a, <1>8, Moves, Holdings
  <2>3. /\ TurnsAreFresh' /\ TalkHasARow' /\ ReadIsCurrent' /\ DueIsAnswered'
    BY <1>b, <2>1, <2>2
    DEF TurnsAreFresh, TalkHasARow, ReadIsCurrent, DueIsAnswered, Moved, Holds, Speaking,
        Talking, Closing
  <2>4. PICK t \in Task : /\ tasks' = Append(tasks, t)
                          /\ t.pictures = ToSet(messages) /\ t.due = req[q].due
    <3> DEFINE t == [by |-> IF req[q].own THEN "user" ELSE "draft", heard |-> draft,
                     pictures |-> Pictures, due |-> req[q].due]
    <3>1. t \in Task
      BY <1>a, TurnsOfTalk DEF TypeOK, Task, Pictures, Request
    <3>2. tasks' = Append(tasks, t) /\ t.pictures = ToSet(messages) /\ t.due = req[q].due
      BY <1>8 DEF FinalizeCommits, Pictures
    <3> QED
      BY <3>1, <3>2
  <2>5. ToSet(tasks') = ToSet(tasks) \cup {t}
    BY <1>a, <2>4, Appended DEF TypeOK
  <2>6. TurnsAreKept'
    BY <1>b, <2>1, <2>4, <2>5 DEF TurnsAreKept, DueIsAnswered
  <2> QED
    BY <2>3, <2>6 DEF TalkInv
<1>9. ASSUME NEW q \in Requests,
             FinalizeRefuses(q) \/ FinalizeAnswers(q) \/ AbandonReads(q) \/ AbandonWrites(q)
               \/ RequestDies(q)
      PROVE  TalkInv'
  <2>1. /\ UNCHANGED <<messages, acked, turns, torn, tasks>>
        /\ status' \in {status, "abandoned"}
    BY <1>9 DEF FinalizeRefuses, FinalizeAnswers, AbandonReads, AbandonWrites, RequestDies
  <2>2. Holds(req'[q], 0, <<>>, {})
    BY <1>a, <1>9, Holdings
  <2>3. Moved(q, "free") \/ Moved(q, "abandon")
    BY <1>a, <1>9, Moves
  <2>4. TurnsAreFresh'
    BY <1>b, <1>c, <2>1, <2>2, <2>3 DEF TurnsAreFresh, Moved, Holds, Speaking
  <2> QED
    BY <1>b, <2>1, <2>2, <2>3, <2>4
    DEF TalkInv, TalkHasARow, ReadIsCurrent, DueIsAnswered, TurnsAreKept, Moved, Holds,
        Talking, Closing
<1>10. CASE UNCHANGED vars
  BY <1>b, <1>10
  DEF vars, TalkInv, TurnsAreFresh, TalkHasARow, ReadIsCurrent, DueIsAnswered, TurnsAreKept
<1> QED
  BY <1>1, <1>2, <1>3, <1>4, <1>5, <1>6, <1>7, <1>8, <1>9, <1>10 DEF Next

\* What the invariants start from.
LEMMA IntakeStarts == Init => OneTaskInv /\ TalkInv
<1>1. ToSet(<<>>) = {} /\ IsInjective(<<>>)
  BY DEF ToSet, IsInjective
<1> QED
  BY <1>1, NoRequest
  DEF Init, OneTaskInv, TransactionsHoldTheRow, LockedIsOpen, NoTaskWhileOpen,
      RepeatsHaveATask, OneFirstTurn, AbandonsHaveARow, AnswersNameOneTask, TalkInv,
      TurnsAreFresh, TalkHasARow, ReadIsCurrent, DueIsAnswered, TurnsAreKept, NoReq, Speaking,
      Talking, Closing

\* Unless two turns were between appendTurn's read and its UPDATE at once,
\* every answered turn is in the conversation, once, and the task of an intake
\* has the pictures of every turn that had been answered.
THEOREM TurnsSafe == Spec => []TurnsAreKept
<1>1. TalkInv => TurnsAreKept
  BY DEF TalkInv
<1>2. TypeInv => TypeOK
  BY DEF TypeInv
<1> QED
  BY <1>1, <1>2, IntakeStarts, OneTaskStep, TalkStep, IntakeTypeInv, PTL DEF Spec

-----------------------------------------------------------------------------
(* The brief.                                                              *)

\* One request talks, unless two were seen to.
OneTalks ==
  ~crossed => /\ ~torn
              /\ \A q \in Requests : req[q].pc \in Talking =>
                   \A p \in Requests \ {q} : req[p].pc \notin Talking

\* What is drafted tells of all that has been answered.
DraftsHaveHeard ==
  ~crossed =>
    /\ draft = {} \/ acked \subseteq draft
    /\ \A q \in Requests :
         /\ req[q].pc = "think" => acked \subseteq ToSet(req[q].seen)
         /\ req[q].pc \in {"append", "update"} =>
              req[q].heard = {} \/ acked \cup {req[q].turn} \subseteq req[q].heard

\* The draft of a task is not blank: nothing but the transaction that holds
\* the row could have replaced it.
DraftIsThere == \A q \in Requests : req[q].pc = "insert" => req[q].own \/ draft # {}

BriefInv == OneTalks /\ DraftsHaveHeard /\ DraftIsThere /\ BriefHasHeardTheTalk

\* Every step keeps the draft complete.
LEMMA BriefStep ==
  TypeInv /\ OneTaskInv /\ TalkInv /\ BriefInv /\ [Next]_vars => BriefInv'
<1> SUFFICES ASSUME TypeInv, OneTaskInv, TalkInv, BriefInv, [Next]_vars PROVE BriefInv'
  OBVIOUS
<1> USE DEF intake, history
<1>a. TypeOK
  BY DEF TypeInv
<1>b. /\ OneTalks /\ DraftsHaveHeard /\ DraftIsThere /\ BriefHasHeardTheTalk
      /\ TalkHasARow /\ DueIsAnswered /\ TurnsAreKept
  BY DEF BriefInv, TalkInv
<1>1. ASSUME NEW q \in Requests, StartOpens(q) PROVE BriefInv'
  <2>1. UNCHANGED <<draft, acked, torn, tasks>> /\ (~crossed' => ~crossed)
    BY <1>1 DEF StartOpens, Speaks
  <2>2. Moved(q, "start")
    BY <1>a, <1>1, Moves
  <2> QED
    BY <1>b, <2>1, <2>2
    DEF BriefInv, OneTalks, DraftsHaveHeard, DraftIsThere, BriefHasHeardTheTalk, Moved, Talking
<1>2. ASSUME NEW q \in Requests, TurnOpens(q) PROVE BriefInv'
  <2>1. /\ UNCHANGED <<draft, acked, torn, tasks, messages>>
        /\ ~crossed' => ~crossed /\ \A p \in Requests \ {q} : req[p].pc \notin Talking
    BY <1>2 DEF TurnOpens, Speaks, Open, Talking
  <2>2. Moved(q, "think") /\ Holds(req'[q], turns + 1, messages, {})
    BY <1>a, <1>2, Moves, Holdings
  <2>3. ~crossed => acked \subseteq ToSet(messages)
    BY <1>b DEF OneTalks, TurnsAreKept
  <2>4. OneTalks'
    BY <1>b, <2>1, <2>2 DEF OneTalks, Moved, Talking
  <2>5. DraftsHaveHeard'
    BY <1>b, <2>1, <2>2, <2>3 DEF DraftsHaveHeard, Moved, Holds
  <2> QED
    BY <1>b, <2>1, <2>2, <2>4, <2>5 DEF BriefInv, DraftIsThere, BriefHasHeardTheTalk, Moved
<1>3. ASSUME NEW q \in Requests, StartCreates(q) PROVE BriefInv'
  <2>1. /\ draft' \in Drafts(q) /\ acked' = acked \cup {req[q].turn}
        /\ req[q].pc = "start" /\ UNCHANGED <<crossed, torn, tasks, lock>>
    BY <1>3 DEF StartCreates
  <2>2. Moved(q, "free")
    BY <1>a, <1>3, Moves
  <2>3. status = "none" /\ acked = {}
    BY <1>b, <2>1 DEF OneTaskInv, OneFirstTurn, TalkHasARow
  <2>4. \A p \in Requests : req[p].pc \notin Talking \cup Closing
    BY <1>b, <2>3 DEF TalkHasARow
  <2>5. draft' = {} \/ acked' \subseteq draft'
    BY <2>1, <2>3 DEF Drafts
  <2> QED
    BY <1>b, <2>1, <2>2, <2>4, <2>5
    DEF BriefInv, OneTalks, DraftsHaveHeard, DraftIsThere, BriefHasHeardTheTalk, Moved,
        Talking, Closing
<1>4. ASSUME NEW q \in Requests, TurnThinks(q) PROVE BriefInv'
  <2>1. UNCHANGED <<draft, acked, crossed, torn, tasks>> /\ req[q].pc = "think"
    BY <1>4 DEF TurnThinks
  <2>2. /\ Moved(q, "append") /\ Holds(req'[q], req[q].turn, req[q].seen, req[q].due)
        /\ req'[q].heard \in Drafts(q)
    BY <1>a, <1>4, Moves, Holdings
  <2>3. ~crossed => req'[q].heard = {} \/ acked \cup {req[q].turn} \subseteq req'[q].heard
    BY <1>b, <2>1, <2>2 DEF DraftsHaveHeard, Drafts
  <2>4. DraftsHaveHeard'
    BY <1>b, <2>1, <2>2, <2>3 DEF DraftsHaveHeard, Moved, Holds
  <2> QED
    BY <1>b, <2>1, <2>2, <2>4
    DEF BriefInv, OneTalks, DraftIsThere, BriefHasHeardTheTalk, Moved, Talking
<1>5. ASSUME NEW q \in Requests, AppendReads(q) PROVE BriefInv'
  <2>1. /\ UNCHANGED <<draft, acked, crossed, tasks>> /\ req[q].pc = "append"
        /\ torn' = (torn \/ (status = "open" /\ \E p \in Requests \ {q} : req[p].pc = "update"))
    BY <1>5 DEF AppendReads, Open
  <2>2. ~crossed => ~torn' /\ \A p \in Requests \ {q} : req[p].pc \notin Talking
    BY <1>b, <2>1 DEF OneTalks, Talking
  <2>3. Moved(q, "update") \/ Moved(q, "free")
    BY <1>a, <1>5, Moves
  <2>4. OneTalks'
    BY <2>1, <2>2, <2>3 DEF OneTalks, Moved, Talking
  <2>5. CASE status = "open"
    <3>1. Holds(req'[q], req[q].turn, messages, req[q].due) /\ req'[q].heard = req[q].heard
      BY <1>a, <1>5, <2>5, Holdings
    <3>2. DraftsHaveHeard'
      BY <1>b, <2>1, <2>3, <3>1 DEF DraftsHaveHeard, Moved, Holds
    <3> QED
      BY <1>b, <2>1, <2>3, <2>4, <3>2 DEF BriefInv, DraftIsThere, BriefHasHeardTheTalk, Moved
  <2>6. CASE status # "open"
    <3>1. Moved(q, "free")
      <4>1. req'[q] = NoReq /\ \A p \in Requests \ {q} : req'[p] = req[p]
        BY <1>a, <1>5, <2>6 DEF AppendReads, TypeOK
      <4> QED
        BY <4>1, NoRequest DEF Moved
    <3>2. DraftsHaveHeard'
      BY <1>b, <2>1, <3>1 DEF DraftsHaveHeard, Moved
    <3> QED
      BY <1>b, <2>1, <2>4, <3>1, <3>2 DEF BriefInv, DraftIsThere, BriefHasHeardTheTalk, Moved
  <2> QED
    BY <2>5, <2>6
<1>6. ASSUME NEW q \in Requests, AppendWrites(q) PROVE BriefInv'
  <2>1. /\ draft' = req[q].heard /\ acked' = acked \cup {req[q].turn}
        /\ req[q].pc = "update" /\ lock = Nobody /\ UNCHANGED <<crossed, torn, tasks>>
    BY <1>6 DEF AppendWrites, NewDraft
  <2>2. Moved(q, "free")
    BY <1>a, <1>6, Moves
  <2>3. ~crossed => \A p \in Requests \ {q} : req[p].pc \notin Talking
    BY <1>b, <2>1 DEF OneTalks, Talking
  <2>4. \A p \in Requests : req[p].pc # "insert"
    BY <2>1, IntakeNames DEF OneTaskInv, TransactionsHoldTheRow
  <2>5. ~crossed => draft' = {} \/ acked' \subseteq draft'
    BY <1>b, <2>1 DEF DraftsHaveHeard
  <2>6. OneTalks' /\ DraftIsThere' /\ BriefHasHeardTheTalk'
    BY <1>b, <2>1, <2>2, <2>4 DEF OneTalks, DraftIsThere, BriefHasHeardTheTalk, Moved, Talking
  <2>7. DraftsHaveHeard'
    BY <2>1, <2>2, <2>3, <2>5 DEF DraftsHaveHeard, Moved, Talking
  <2> QED
    BY <2>6, <2>7 DEF BriefInv
<1>7. ASSUME NEW q \in Requests, FinalizeLocks(q) PROVE BriefInv'
  <2>1. UNCHANGED <<draft, acked, crossed, torn, tasks>> /\ (req[q].own \/ draft # {})
    BY <1>7 DEF FinalizeLocks, MayFinalize
  <2>2. Moved(q, "insert") /\ req'[q].own = req[q].own
    BY <1>a, <1>7, Moves, Holdings
  <2> QED
    BY <1>b, <2>1, <2>2
    DEF BriefInv, OneTalks, DraftsHaveHeard, DraftIsThere, BriefHasHeardTheTalk, Moved, Talking
<1>8. ASSUME NEW q \in Requests, FinalizeCommits(q) PROVE BriefInv'
  <2>1. UNCHANGED <<draft, acked, crossed, torn>> /\ req[q].pc = "insert"
    BY <1>8 DEF FinalizeCommits
  <2>2. Moved(q, "answer")
    BY <1>a, <1>8, Moves
  <2>3. PICK t \in Task : /\ tasks' = Append(tasks, t) /\ t.heard = draft
                          /\ t.by = "draft" => ~req[q].own
                          /\ t.due = req[q].due
    <3> DEFINE t == [by |-> IF req[q].own THEN "user" ELSE "draft", heard |-> draft,
                     pictures |-> Pictures, due |-> req[q].due]
    <3>1. t \in Task
      BY <1>a, TurnsOfTalk DEF TypeOK, Task, Pictures, Request
    <3>2. /\ tasks' = Append(tasks, t) /\ t.heard = draft
          /\ t.by = "draft" => ~req[q].own
          /\ t.due = req[q].due
      BY <1>8 DEF FinalizeCommits
    <3> QED
      BY <3>1, <3>2
  <2>4. ToSet(tasks') = ToSet(tasks) \cup {t}
    BY <1>a, <2>3, Appended DEF TypeOK
  <2>5. ~crossed => (t.by = "draft" => t.due \subseteq t.heard)
    BY <1>b, <2>1, <2>3 DEF DraftIsThere, DraftsHaveHeard, DueIsAnswered
  <2>6. BriefHasHeardTheTalk'
    BY <1>b, <2>1, <2>4, <2>5 DEF BriefHasHeardTheTalk
  <2> QED
    BY <1>b, <2>1, <2>2, <2>6
    DEF BriefInv, OneTalks, DraftsHaveHeard, DraftIsThere, Moved, Talking
<1>9. ASSUME NEW q \in Requests,
             FinalizeOpens(q) \/ FinalizeRepeats(q) \/ FinalizeRefuses(q) \/ FinalizeAnswers(q)
               \/ AbandonReads(q) \/ AbandonWrites(q) \/ RequestDies(q)
      PROVE  BriefInv'
  <2>1. UNCHANGED <<draft, acked, crossed, torn, tasks>>
    BY <1>9 DEF FinalizeOpens, FinalizeRepeats, FinalizeRefuses, FinalizeAnswers,
                AbandonReads, AbandonWrites, RequestDies
  <2>2. Moved(q, "lock") \/ Moved(q, "answer") \/ Moved(q, "abandon") \/ Moved(q, "free")
    BY <1>a, <1>9, Moves
  <2> QED
    BY <1>b, <2>1, <2>2
    DEF BriefInv, OneTalks, DraftsHaveHeard, DraftIsThere, BriefHasHeardTheTalk, Moved, Talking
<1>10. CASE UNCHANGED vars
  BY <1>b, <1>10
  DEF vars, BriefInv, OneTalks, DraftsHaveHeard, DraftIsThere, BriefHasHeardTheTalk
<1> QED
  BY <1>1, <1>2, <1>3, <1>4, <1>5, <1>6, <1>7, <1>8, <1>9, <1>10 DEF Next

\* Unless two turns were open at once, a task described by the draft tells of
\* every turn that had been answered when its finalize was called.
THEOREM BriefSafe == Spec => []BriefHasHeardTheTalk
<1>1. Init => BriefInv
  <2>1. ToSet(<<>>) = {}
    BY DEF ToSet
  <2> QED
    BY <2>1, NoRequest
    DEF Init, BriefInv, OneTalks, DraftsHaveHeard, DraftIsThere, BriefHasHeardTheTalk, Talking
<1>2. BriefInv => BriefHasHeardTheTalk
  BY DEF BriefInv
<1>3. TypeInv => TypeOK
  BY DEF TypeInv
<1> QED
  BY <1>1, <1>2, <1>3, IntakeStarts, OneTaskStep, TalkStep, BriefStep, IntakeTypeInv, PTL
  DEF Spec

-----------------------------------------------------------------------------
(* Every request acts at one instant.                                      *)

\* What the invariants of the sections before say of the row's moments.
AtOnceInv == TypeInv /\ OneTaskInv /\ ClosingInv /\ TalkInv

LEMMA AtOnceAlways == Spec => []AtOnceInv
<1>1. Init => OneTaskInv /\ TalkInv /\ ClosingInv
  <2>1. Init => ClosingInv
    BY NoRequest DEF Init, ClosingInv
  <2> QED
    BY <2>1, IntakeStarts
<1>2. TypeInv /\ OneTaskInv /\ ClosingInv /\ TalkInv /\ [Next]_vars
        => OneTaskInv' /\ ClosingInv' /\ TalkInv'
  BY OneTaskStep, ClosingStep, TalkStep DEF TypeInv
<1> QED
  BY <1>1, <1>2, IntakeTypeInv, PTL DEF Spec, AtOnceInv

\* The tasks made, as AtomicIntake sees them.
Made == [n \in DOMAIN tasks |-> tasks[n].pictures]

\* One task is made of the whole conversation.
LEMMA CommitMakesOne ==
  ASSUME tasks = <<>>, NEW x, tasks' = Append(tasks, x)
  PROVE  Made' = <<x.pictures>>
<1>1. tasks' = <<x>>
  OBVIOUS
<1>2. DOMAIN tasks' = 1..1 /\ tasks'[1] = x
  BY <1>1
<1>3. Made' = [n \in 1..1 |-> tasks'[n].pictures]
  BY <1>2 DEF Made
<1>4. [n \in 1..1 |-> tasks'[n].pictures] = <<x.pictures>>
  BY <1>2
<1> QED
  BY <1>3, <1>4

\* Each step of a request is the instant at which it acts, or shows nothing
\* but that it has crossed another.
LEMMA StepIsAtOnce ==
  ASSUME AtOnceInv, [Next]_vars
  PROVE  [Atomic!Next]_(Atomic!vars)
<1> USE DEF intake, history
<1> DEFINE Still == UNCHANGED <<status, messages, tasks, answers>>
<1>0. /\ req \in [Requests -> Request] /\ torn \in BOOLEAN /\ raced \in BOOLEAN
      /\ tasks \in Seq(Task) /\ taskId \in 0..Len(tasks)
  BY DEF AtOnceInv, TypeInv, TypeOK
<1>1. ASSUME Still, UNCHANGED <<torn, raced>>
      PROVE  [Atomic!Next]_(Atomic!vars)
  BY <1>1 DEF Atomic!vars
<1>2. ASSUME Still, torn' = TRUE \/ raced' = TRUE, torn => torn', raced => raced'
      PROVE  [Atomic!Next]_(Atomic!vars)
  <2>1. Atomic!Cross
    BY <1>2 DEF Atomic!Cross
  <2> QED
    BY <2>1 DEF Atomic!Next
<1>3. ASSUME NEW q \in Requests, StartOpens(q) \/ TurnOpens(q)
      PROVE  [Atomic!Next]_(Atomic!vars)
  BY <1>1, <1>3 DEF StartOpens, TurnOpens
<1>4. ASSUME NEW q \in Requests,
             TurnThinks(q) \/ FinalizeLocks(q) \/ FinalizeRepeats(q) \/ FinalizeRefuses(q)
               \/ RequestDies(q)
      PROVE  [Atomic!Next]_(Atomic!vars)
  BY <1>1, <1>4 DEF TurnThinks, FinalizeLocks, FinalizeRepeats, FinalizeRefuses, RequestDies
<1>5. ASSUME NEW q \in Requests, AppendReads(q) PROVE [Atomic!Next]_(Atomic!vars)
  <2>1. Still /\ raced' = raced /\ (torn' = torn \/ torn' = TRUE) /\ (torn => torn')
    BY <1>0, <1>5, Zenon DEF AppendReads
  <2> QED
    BY <1>1, <1>2, <2>1
<1>6. ASSUME NEW q \in Requests, FinalizeOpens(q) \/ AbandonReads(q)
      PROVE  [Atomic!Next]_(Atomic!vars)
  <2>1. Still /\ torn' = torn /\ (raced' = raced \/ raced' = TRUE) /\ (raced => raced')
    BY <1>0, <1>6, Zenon DEF FinalizeOpens, AbandonReads
  <2> QED
    BY <1>1, <1>2, <2>1
<1>7. ASSUME NEW q \in Requests, StartCreates(q) PROVE [Atomic!Next]_(Atomic!vars)
  <2>1. req[q].turn \in Turns /\ status = "none"
    BY <1>7 DEF AtOnceInv, TypeInv, SpeakersHaveATurn, Speaking, OneTaskInv, OneFirstTurn,
       StartCreates
  <2>2. Atomic!Start
    BY <1>7, <2>1 DEF StartCreates, Atomic!Start
  <2> QED
    BY <2>2 DEF Atomic!Next
<1>8. ASSUME NEW q \in Requests, AppendWrites(q) PROVE [Atomic!Next]_(Atomic!vars)
  <2>1. req[q].turn \in Turns /\ req[q].turn \notin ToSet(messages)
    BY <1>8 DEF AtOnceInv, TypeInv, SpeakersHaveATurn, Speaking, TalkInv, TurnsAreFresh,
       AppendWrites
  <2>2. status # "none" /\ (torn \/ req[q].seen = messages)
    BY <1>8 DEF AtOnceInv, TalkInv, TalkHasARow, ReadIsCurrent, Talking, AppendWrites
  <2>3. Atomic!Say
    <3>1. req[q].turn \in Turns \ Atomic!ToSet(messages)
      BY <2>1 DEF ToSet, Atomic!ToSet
    <3>2. /\ messages' = Append(req[q].seen, req[q].turn)
          /\ UNCHANGED <<status, tasks, answers, torn, raced>>
      BY <1>8 DEF AppendWrites
    <3>3. torn \/ \E t \in Turns \ Atomic!ToSet(messages) : messages' = Append(messages, t)
      BY <2>2, <3>1, <3>2
    <3> QED
      BY <2>2, <3>2, <3>3 DEF Atomic!Say
  <2> QED
    BY <2>3 DEF Atomic!Next
<1>9. ASSUME NEW q \in Requests, FinalizeCommits(q) PROVE [Atomic!Next]_(Atomic!vars)
  <2>1. status = "open" /\ tasks = <<>>
    BY <1>9, IntakeNames DEF FinalizeCommits, AtOnceInv, OneTaskInv, TransactionsHoldTheRow,
       LockedIsOpen, NoTaskWhileOpen
  <2>2. PICK x : x.pictures = ToSet(messages) /\ tasks' = Append(tasks, x)
    BY <1>9 DEF FinalizeCommits, Pictures
  <2>3. Made' = <<ToSet(messages)>>
    BY <2>1, <2>2, CommitMakesOne
  <2>4. Atomic!Finalize
    BY <1>9, <2>1, <2>3 DEF FinalizeCommits, Made, ToSet, Atomic!ToSet, Atomic!Finalize
  <2> QED
    BY <2>4 DEF Atomic!Next
<1>10. ASSUME NEW q \in Requests, FinalizeAnswers(q) PROVE [Atomic!Next]_(Atomic!vars)
  <2>1. taskId # 0 /\ Len(tasks) <= 1
    BY <1>10 DEF FinalizeAnswers, AtOnceInv, OneTaskInv, RepeatsHaveATask, AnswersNameOneTask
  <2>2. taskId = 1 /\ DOMAIN tasks = 1..1
    <3>1. Len(tasks) \in Nat /\ DOMAIN tasks = 1..Len(tasks)
      BY <1>0
    <3>2. taskId = 1 /\ Len(tasks) = 1
      BY <1>0, <2>1, <3>1
    <3> QED
      BY <3>1, <3>2
  <2>3. Made # <<>>
    BY <2>2 DEF Made
  <2>4. Atomic!Answer
    BY <1>10, <2>2, <2>3 DEF FinalizeAnswers, Made, Atomic!Answer
  <2> QED
    BY <2>4 DEF Atomic!Next
<1>11. ASSUME NEW q \in Requests, AbandonWrites(q) PROVE [Atomic!Next]_(Atomic!vars)
  <2>1. status \in {"open", "finalized", "abandoned"} /\ (raced \/ status # "finalized")
    BY <1>11 DEF AbandonWrites, AtOnceInv, OneTaskInv, AbandonsHaveARow, ClosingInv, TypeInv, TypeOK
  <2>2. CASE status = "abandoned"
    BY <1>1, <1>11, <2>2 DEF AbandonWrites
  <2>3. CASE status # "abandoned"
    <3>1. Atomic!Abandon
      BY <1>11, <2>1, <2>3 DEF AbandonWrites, Atomic!Abandon
    <3> QED
      BY <3>1 DEF Atomic!Next
  <2> QED
    BY <2>2, <2>3
<1>12. CASE UNCHANGED vars
  BY <1>1, <1>12 DEF vars
<1> QED
  BY <1>3, <1>4, <1>5, <1>6, <1>7, <1>8, <1>9, <1>10, <1>11, <1>12 DEF Next

\* Whatever overlaps, is retried or dies, an intake behaves as if each request
\* acted at one instant or not at all, up to the two crossings AtomicIntake
\* names: for any number of requests, turns and faults.
THEOREM AtOnceSafe == Spec => ActsAtOnce
<1>1. Init => Atomic!Init
  <2> SUFFICES ASSUME Init PROVE Atomic!Init
    OBVIOUS
  <2>1. tasks = <<>> /\ DOMAIN tasks = {}
    BY DEF Init
  <2>2. [n \in DOMAIN tasks |-> tasks[n].pictures] = <<>>
    BY <2>1
  <2> QED
    BY <2>2 DEF Init, Atomic!Init
<1>2. AtOnceInv /\ [Next]_vars => [Atomic!Next]_(Atomic!vars)
  BY StepIsAtOnce
<1> QED
  BY <1>1, <1>2, AtOnceAlways, PTL DEF Spec, ActsAtOnce, Atomic!Spec
=============================================================================
