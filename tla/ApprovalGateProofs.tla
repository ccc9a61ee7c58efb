------------------------- MODULE ApprovalGateProofs -------------------------
(* What holds of ApprovalGate for every number of requests and drafts. *)
EXTENDS ApprovalGate, TLAPS

\* No output, and a call that carries none, are well formed.
LEMMA NullOK ==
  /\ OutputOK(Null)
  /\ \A pcs : "free" \in pcs => NoRun \in Call(pcs)
  /\ NoRun.patch = Null /\ NoRun.to = "failed" /\ NoRun.pc = "free"
BY BoundsAreNaturals DEF OutputOK, Null, Output, NoRun, Call

\* Clearing the stamp of a well-formed output leaves the rest as it was.
LEMMA UnstampedOK ==
  ASSUME NEW o, OutputOK(o)
  PROVE  /\ OutputOK(Unstamped(o))
         /\ Unstamped(o).draft = o.draft /\ Unstamped(o).tool = o.tool
         /\ Unstamped(o).plan = o.plan
         /\ Unstamped(o).notified = FALSE
BY DEF OutputOK, Output, Unstamped

\* The patch that updateTaskStatus prepares carries the caller's output or the
\* row's, with its stamp or without.
LEMMA PatchedOK ==
  ASSUME OutputOK(output), NEW pcs, NEW c \in Call(pcs), "update" \in pcs, OutputOK(c.patch),
         NEW to \in {"todo", "waiting", "done", "failed"}
  PROVE  /\ Patched(c, to) \in Call(pcs)
         /\ OutputOK(Patched(c, to).patch)
         /\ Patched(c, to).pc = "update" /\ Patched(c, to).to = to
         /\ c.writes => /\ Patched(c, to).writes
                        /\ Patched(c, to).patch.draft = c.patch.draft
<1> DEFINE p == Patched(c, to)
<1> DEFINE leaves == status = "waiting" /\ to # "waiting"
<1>1. p.pc = "update" /\ p.to = to
  BY DEF Patched
<1>2. p.patch = IF c.writes THEN IF leaves THEN Unstamped(c.patch) ELSE c.patch
                ELSE IF leaves /\ output.notified THEN Unstamped(output) ELSE c.patch
  BY DEF Patched
<1>3. OutputOK(p.patch) /\ (c.writes => p.patch.draft = c.patch.draft)
  BY <1>2, UnstampedOK
<1>4. p.writes = (c.writes \/ (leaves /\ output.notified))
  BY DEF Patched
<1>5. p.writes \in BOOLEAN /\ (c.writes => p.writes)
  BY <1>4, Zenon
<1>6. p = [pc |-> p.pc, to |-> p.to, writes |-> p.writes, patch |-> p.patch]
  BY DEF Patched
<1> HIDE DEF p, leaves
<1>7. p \in Call(pcs)
  BY <1>1, <1>3, <1>5, <1>6 DEF Call, OutputOK
<1> QED
  BY <1>1, <1>3, <1>5, <1>7 DEF p

\* Storing one well-formed call, or moving one along, keeps all well formed.
LEMMA RequestStored ==
  ASSUME RequestsOK, NEW q \in Requests, NEW c \in Call(RequestPcs), RequestOK(c),
         req' = [req EXCEPT ![q] = c]
  PROVE  RequestsOK'
BY DEF RequestsOK

LEMMA MovedRequest ==
  ASSUME NEW c \in Call(RequestPcs), RequestOK(c), NEW x \in RequestPcs,
         x \in {"invoke", "invoked"} => c.patch.tool
  PROVE  [c EXCEPT !.pc = x] \in Call(RequestPcs) /\ RequestOK([c EXCEPT !.pc = x])
BY DEF Call, RequestOK

\* The calls the routes open with, and the free slot.
LEMMA OpenedRequest ==
  ASSUME NEW x \in {"free", "spawn", "executor", "status"}, NEW t \in {"todo", "done", "failed"}
  PROVE  /\ [NoReq EXCEPT !.pc = x, !.to = t] \in Call(RequestPcs)
         /\ RequestOK([NoReq EXCEPT !.pc = x, !.to = t])
         /\ NoReq \in Call(RequestPcs) /\ RequestOK(NoReq)
         /\ [NoReq EXCEPT !.pc = x] \in Call(RequestPcs)
         /\ RequestOK([NoReq EXCEPT !.pc = x])
<1>1. OutputOK(Null) /\ Null \in Output
  BY NullOK DEF OutputOK
<1> QED
  BY <1>1 DEF NoReq, NoRun, Call, RequestPcs, RequestOK

\* Every call keeps a well-formed output and a sensible target status.
THEOREM GateTypeCorrect == Spec => []TypeOK
<1> USE BoundsAreNaturals
<1>1. Init => TypeOK
  <2> SUFFICES ASSUME Init PROVE TypeOK
    OBVIOUS
  <2>1. overlap \in BOOLEAN /\ crowded \in BOOLEAN /\ assigned \in BOOLEAN
    BY Zenon DEF Init
  <2>2. OutputOK(output) /\ OutputOK(saved)
    BY NullOK DEF Init
  <2>3. RunOK(runner)
    BY NullOK DEF Init, RunOK, RunnerPcs
  <2>4. RequestsOK
    BY OpenedRequest DEF Init, RequestsOK
  <2>5. /\ status = "todo" /\ kind \in {"execution", "strategy"}
        /\ mailing = [w \in Watchers |-> 0]
        /\ drafts = 0 /\ asked = 0 /\ faults = 0 /\ announced = 0
        /\ fired = [n \in Drafts |-> 0] /\ spawned = [n \in Drafts |-> 0]
        /\ noticed = [n \in Drafts |-> 0]
    BY DEF Init
  <2> QED
    BY <2>1, <2>2, <2>3, <2>4, <2>5 DEF TypeOK, Status
<1>2. TypeOK /\ [Next]_vars => TypeOK'
  <2> SUFFICES ASSUME TypeOK, [Next]_vars PROVE TypeOK'
    OBVIOUS
  <2> USE DEF bounds, history, crowd, resume, Publish, Fault
  \* What the request at q holds.
  <2>a. ASSUME NEW q \in Requests
        PROVE  req[q] \in Call(RequestPcs) /\ RequestOK(req[q])
    BY <2>a DEF TypeOK, RequestsOK
  <2>1. ASSUME NEW q \in Requests, RouteFinalizes(q) \/ RouteRequeues(q) \/ RouteDiscards(q)
        PROVE  TypeOK'
    <3>1. RequestsOK'
      <4>1. PICK c \in Call(RequestPcs) : RequestOK(c) /\ req' = [req EXCEPT ![q] = c]
        BY <2>1, OpenedRequest DEF RouteFinalizes, RouteRequeues, RouteDiscards
      <4> QED
        BY <4>1, RequestStored DEF TypeOK
    <3>2. overlap' \in BOOLEAN /\ crowded' \in BOOLEAN
      BY <2>1, Zenon DEF RouteFinalizes, RouteRequeues, RouteDiscards, Opens
    <3> QED
      BY <2>1, <3>1, <3>2 DEF TypeOK, RouteFinalizes, RouteRequeues, RouteDiscards, Opens
  <2>2. ASSUME NEW q \in Requests, RequestReads(q) PROVE TypeOK'
    <3>1. CASE CanTransition(status, req[q].to)
      <4> DEFINE p == Patched(req[q], req[q].to)
      <4>a. /\ req[q].to \in {"todo", "waiting", "done", "failed"} /\ req[q].to # "waiting"
            /\ OutputOK(req[q].patch) /\ OutputOK(output) /\ "update" \in RequestPcs
        BY <2>a DEF TypeOK, RequestOK, Call, RequestPcs
      <4>b. p \in Call(RequestPcs) /\ OutputOK(p.patch) /\ p.pc = "update" /\ p.to = req[q].to
        BY <2>a, <4>a, PatchedOK
      <4>1. p \in Call(RequestPcs) /\ RequestOK(p)
        BY <4>a, <4>b DEF RequestOK
      <4>2. req' = [req EXCEPT ![q] = Patched(req[q], req[q].to)]
        BY <2>2, <3>1 DEF RequestReads, TypeOK, RequestsOK
      <4>3. RequestsOK'
        BY <4>1, <4>2, RequestStored DEF TypeOK
      <4> QED
        BY <2>2, <4>3 DEF TypeOK, RequestReads
    <3>2. CASE ~CanTransition(status, req[q].to)
      <4>1. req' = [req EXCEPT ![q] = NoReq]
        BY <2>2, <3>2 DEF RequestReads, TypeOK, RequestsOK
      <4>2. RequestsOK'
        BY <4>1, OpenedRequest, RequestStored DEF TypeOK
      <4> QED
        BY <2>2, <4>2 DEF TypeOK, RequestReads
    <3> QED
      BY <3>1, <3>2
  <2>3. ASSUME NEW q \in Requests, RequestWrites(q) PROVE TypeOK'
    <3>1. RequestsOK'
      BY <2>3, OpenedRequest, RequestStored DEF TypeOK, RequestWrites
    <3>2. status' \in Status /\ status' # "waiting" /\ OutputOK(output') /\ announced' \in Nat
      BY <2>3, <2>a DEF RequestWrites, SetStatus, RequestOK, Call, Status, TypeOK
    <3> QED
      BY <2>3, <3>1, <3>2 DEF TypeOK, RequestWrites
  <2>4. ASSUME NEW q \in Requests,
               RequestDies(q) \/ SpawnRefused(q) \/ SpawnRetried(q) \/ SpawnLogs(q) \/ ToolMissing(q)
        PROVE  TypeOK'
    <3>1. RequestsOK'
      BY <2>4, OpenedRequest, RequestStored
      DEF TypeOK, RequestDies, SpawnRefused, SpawnRetried, SpawnLogs, ToolMissing
    <3> QED
      BY <2>4, <3>1
      DEF TypeOK, RequestDies, SpawnRefused, SpawnRetried, SpawnLogs, ToolMissing
  <2>5. ASSUME NEW q \in Requests, Spawns(q) PROVE TypeOK'
    <3>1. RequestsOK'
      <4> DEFINE c == [NoReq EXCEPT !.pc = "log", !.patch = output]
      <4>1. NoReq \in Call(RequestPcs) /\ RequestOK(NoReq) /\ output \in Output /\ OutputOK(output)
        BY OpenedRequest DEF TypeOK, OutputOK
      <4>2. c \in Call(RequestPcs) /\ RequestOK(c)
        BY <4>1 DEF Call, RequestPcs, RequestOK
      <4>3. req' = [req EXCEPT ![q] = c]
        BY <2>5 DEF Spawns
      <4> HIDE DEF c
      <4> QED
        BY <4>2, <4>3, RequestStored DEF TypeOK
    <3>2. OutputOK(output')
      BY <2>5 DEF Spawns, TypeOK, OutputOK, Output, AlreadySpawned
    <3>3. spawned' \in [Drafts -> Nat]
      <4>1. output.plan => output.draft \in Drafts
        BY DEF TypeOK, OutputOK, Output, Drafts
      <4> QED
        BY <2>5, <4>1 DEF Spawns, TypeOK
    <3> QED
      BY <2>5, <3>1, <3>2, <3>3 DEF TypeOK, Spawns, Status
  <2>6. ASSUME NEW q \in Requests, ExecutorReads(q) PROVE TypeOK'
    <3>1. RequestsOK'
      <4>1. CASE output.tool /\ status = "waiting"
        <5> DEFINE c == [NoReq EXCEPT !.pc = "invoke", !.patch = output]
        <5>1. NoReq \in Call(RequestPcs) /\ RequestOK(NoReq) /\ output \in Output /\ OutputOK(output)
          BY OpenedRequest DEF TypeOK, OutputOK
        <5>2. c \in Call(RequestPcs) /\ RequestOK(c)
          BY <4>1, <5>1 DEF Call, RequestPcs, RequestOK
        <5>3. req' = [req EXCEPT ![q] = c]
          BY <2>6, <4>1 DEF ExecutorReads
        <5> HIDE DEF c
        <5> QED
          BY <5>2, <5>3, RequestStored DEF TypeOK
      <4>2. CASE ~(output.tool /\ status = "waiting")
        <5>1. req' = [req EXCEPT ![q] = NoReq]
          BY <2>6, <4>2 DEF ExecutorReads
        <5> QED
          BY <5>1, OpenedRequest, RequestStored DEF TypeOK
      <4> QED
        BY <4>1, <4>2
    <3> QED
      BY <2>6, <3>1 DEF TypeOK, ExecutorReads
  <2>7. ASSUME NEW q \in Requests, ToolInvoked(q) PROVE TypeOK'
    <3>1. RequestsOK'
      <4>1. CASE req' = [req EXCEPT ![q].pc = "invoked"]
        <5>1. req' = [req EXCEPT ![q] = [req[q] EXCEPT !.pc = "invoked"]]
          BY <4>1
        <5>2. req[q].patch.tool
          BY <2>7, <2>a DEF ToolInvoked, RequestOK
        <5> QED
          BY <2>a, <5>1, <5>2, MovedRequest, RequestStored DEF TypeOK, RequestPcs
      <4>2. CASE req' = [req EXCEPT ![q] = [NoReq EXCEPT !.pc = "status", !.to = "failed"]]
        BY <4>2, OpenedRequest, RequestStored DEF TypeOK
      <4> QED
        BY <2>7, <4>1, <4>2 DEF ToolInvoked
    <3>2. fired' \in [Drafts -> Nat]
      <4>1. req[q].patch.draft \in Drafts
        BY <2>7, <2>a DEF ToolInvoked, RequestOK, OutputOK, Output, Drafts
      <4> QED
        BY <2>7, <4>1 DEF ToolInvoked, TypeOK
    <3> QED
      BY <2>7, <3>1, <3>2 DEF TypeOK, ToolInvoked
  <2>8. ASSUME NEW q \in Requests, ToolRecorded(q) PROVE TypeOK'
    <3>1. RequestsOK'
      BY <2>8, OpenedRequest, RequestStored DEF TypeOK, ToolRecorded
    <3>2. OutputOK(req[q].patch) /\ req[q].patch.tool
      BY <2>8, <2>a DEF ToolRecorded, RequestOK
    <3>3. OutputOK(output')
      BY <2>8, <3>2 DEF ToolRecorded, OutputOK, Output
    <3> QED
      BY <2>8, <3>1, <3>3 DEF TypeOK, ToolRecorded, Status
  <2>9. ASSUME Run PROVE TypeOK'
    <3>a. runner \in Call(RunnerPcs) /\ OutputOK(runner.patch) /\ OutputOK(output)
      BY DEF TypeOK, RunOK
    <3>c. RunOK(NoRun) /\ \A x \in RunnerPcs : RunOK([NoRun EXCEPT !.pc = x])
      BY NullOK DEF RunOK, RunnerPcs, NoRun, Call, OutputOK
    <3>d. UNCHANGED req => RequestsOK'
      BY DEF TypeOK, RequestsOK
    <3>1. CASE RunClaims \/ GraphThrows
      <4>1. RunOK(runner')
        BY <3>1, <3>c DEF RunClaims, GraphThrows, RunnerPcs
      <4>2. OutputOK(saved') /\ UNCHANGED assigned
        BY <3>1, NullOK DEF RunClaims, GraphThrows, TypeOK
      <4> QED
        BY <3>1, <3>d, <4>1, <4>2 DEF TypeOK, RunClaims, GraphThrows, Status
    <3>2. CASE GraphDrafts
      <4>1. PICK tool \in BOOLEAN, plan \in BOOLEAN :
              /\ saved' = [Null EXCEPT !.draft = drafts + 1, !.tool = tool, !.plan = plan]
              /\ runner' = [pc |-> "draft", to |-> "waiting", writes |-> TRUE, patch |-> saved']
        BY <3>2 DEF GraphDrafts
      <4> DEFINE o == [Null EXCEPT !.draft = drafts + 1, !.tool = tool, !.plan = plan]
      <4>2. drafts + 1 \in 0..MaxDrafts /\ drafts + 1 # 0
        BY <3>2 DEF GraphDrafts, TypeOK
      <4>3. o \in Output /\ OutputOK(o) /\ o.draft # 0
        BY <4>2 DEF OutputOK, Output, Null
      <4>4. saved' = o /\ runner' = [pc |-> "draft", to |-> "waiting", writes |-> TRUE, patch |-> o]
        BY <4>1
      <4> HIDE DEF o
      <4>5. RunOK(runner')
        BY <4>3, <4>4 DEF RunOK, Call, RunnerPcs
      <4> QED
        BY <3>2, <3>d, <4>2, <4>3, <4>4, <4>5 DEF TypeOK, GraphDrafts
    <3>3. CASE GraphFinishes
      <4>1. RunOK(runner')
        <5>1. saved \in Output /\ OutputOK(saved)
          BY DEF OutputOK, TypeOK
        <5> QED
          BY <3>3, <5>1 DEF GraphFinishes, RunOK, Call, RunnerPcs
      <4> QED
        BY <3>3, <3>d, <4>1 DEF TypeOK, GraphFinishes
    <3>4. CASE RunReads \/ RunFails
      <4>1. ASSUME NEW to \in {"waiting", "done", "failed"}, to = runner.to \/ to = "failed",
                   runner' = Patched(runner, to)
            PROVE  RunOK(runner')
        <5>1. /\ runner' \in Call(RunnerPcs) /\ OutputOK(runner'.patch) /\ runner'.to = to
              /\ runner.writes => runner'.writes /\ runner'.patch.draft = runner.patch.draft
          BY <3>a, <4>1, PatchedOK DEF RunnerPcs
        <5>2. to = "waiting" => runner.writes /\ runner.patch.draft # 0
          BY <4>1 DEF TypeOK, RunOK
        <5> QED
          BY <5>1, <5>2 DEF RunOK
      <4>2. runner.to # "todo"
        BY DEF TypeOK, RunOK
      <4>3. RunOK(runner')
        BY <3>4, <3>a, <3>c, <4>1, <4>2 DEF RunReads, RunFails, RunnerPcs, Call
      <4> QED
        BY <3>4, <3>d, <4>3 DEF TypeOK, RunReads, RunFails
    <3>5. CASE RunWrites
      <4>1. RunOK(runner')
        <5>1. [runner EXCEPT !.pc = "log"] \in Call(RunnerPcs)
              /\ RunOK([runner EXCEPT !.pc = "log"])
          BY <3>a DEF TypeOK, RunOK, Call, RunnerPcs
        <5> QED
          BY <3>5, <3>c, <5>1 DEF RunWrites
      <4>2. /\ status' \in Status /\ OutputOK(output') /\ announced' \in Nat
            /\ status' = "waiting" => output'.draft # 0
        BY <3>5, <3>a DEF RunWrites, SetStatus, TypeOK, RunOK, Call, Status
      <4>3. kind' \in {"execution", "strategy"}
        BY <3>5 DEF RunWrites, TypeOK
      <4>4. assigned' \in BOOLEAN
        BY <3>5, Zenon DEF RunWrites, TypeOK
      <4> QED
        BY <3>5, <3>d, <4>1, <4>2, <4>3, <4>4 DEF TypeOK, RunWrites
    <3>6. CASE RunLogs
      <4>1. RunOK(runner')
        BY <3>6, <3>c DEF RunLogs, RunnerPcs
      <4> QED
        BY <3>6, <3>d, <4>1 DEF TypeOK, RunLogs
    <3>7. CASE RunStumbles \/ RowReclaimed
      <4>1. RunOK(runner')
        BY <3>7, <3>c DEF RunStumbles, RowReclaimed, RunnerPcs, TypeOK
      <4> QED
        BY <3>7, <3>d, <4>1 DEF TypeOK, RunStumbles, RowReclaimed, Status
    <3> QED
      BY <2>9, <3>1, <3>2, <3>3, <3>4, <3>5, <3>6, <3>7 DEF Run
  <2>10. ASSUME NEW w \in Watchers, Watcher(w) PROVE TypeOK'
    <3>1. CASE WatcherClaims(w)
      <4>1. output.draft \in Drafts
        BY <3>1 DEF WatcherClaims, Unnotified, TypeOK, OutputOK, Output, Drafts
      <4>2. OutputOK(output') /\ output'.draft = output.draft
        BY <3>1 DEF WatcherClaims, TypeOK, OutputOK, Output
      <4>3. noticed' \in [Drafts -> Nat] /\ mailing' \in [Watchers -> 0..MaxDrafts]
        BY <3>1, <4>1 DEF WatcherClaims, TypeOK, Drafts
      <4> QED
        BY <3>1, <4>1, <4>2, <4>3 DEF WatcherClaims, TypeOK, RequestsOK, Drafts
    <3>2. CASE WatcherMails(w)
      BY <3>2 DEF WatcherMails, TypeOK, RequestsOK
    <3> QED
      BY <2>10, <3>1, <3>2 DEF Watcher
  <2>11. CASE UNCHANGED vars
    BY <2>11 DEF TypeOK, RequestsOK, RunOK, vars
  <2> QED
    BY <2>1, <2>2, <2>3, <2>4, <2>5, <2>6, <2>7, <2>8, <2>9, <2>10, <2>11 DEF Next, Request
<1> QED
  BY <1>1, <1>2, PTL DEF Spec

-----------------------------------------------------------------------------
(* One mail per waiting round.                                             *)

\* The draft number a patch carries is the caller's or the row's.
LEMMA PatchedDraft ==
  ASSUME OutputOK(output), NEW c, OutputOK(c.patch), NEW to
  PROVE  /\ Patched(c, to).patch.draft \in {c.patch.draft, output.draft}
         /\ c.writes => Patched(c, to).patch.draft = c.patch.draft
<1>1. Patched(c, to).patch \in {c.patch, output, Unstamped(c.patch), Unstamped(output)}
      /\ (c.writes => Patched(c, to).patch \in {c.patch, Unstamped(c.patch)})
  BY DEF Patched
<1> QED
  BY <1>1, UnstampedOK

\* A step that leaves the run, the drafts and the watchers alone preserves
\* NoticeInv if what it leaves in the row and in the requests is no newer than
\* what was there, and the row, if it waits, is the one that waited.
LEMMA RequestKeepsNoticeInv ==
  ASSUME TypeOK, NoticeInv, UNCHANGED <<saved, runner, drafts, noticed>>,
         \A o \in {output'} \cup {req'[q].patch : q \in Requests} :
           o.draft \in {0, output.draft} \cup {req[q].patch.draft : q \in Requests},
         status' = "waiting" => status = "waiting" /\ output' = output
  PROVE  NoticeInv'
<1>1. ASSUME NEW d \in {0, output.draft} \cup {req[q].patch.draft : q \in Requests}
      PROVE  d <= drafts /\ (Writing => d < runner.patch.draft)
  BY <1>1 DEF NoticeInv, TypeOK, RunOK, OutputOK, Output, Writing
<1>2. output'.draft <= drafts /\ (Writing => output'.draft < runner.patch.draft)
  BY <1>1
<1>3. ASSUME NEW q \in Requests
      PROVE  req'[q].patch.draft <= drafts /\ (Writing => req'[q].patch.draft < runner.patch.draft)
  BY <1>1
<1>4. Writing' <=> Writing
  BY DEF Writing
<1> QED
  BY <1>2, <1>3, <1>4 DEF NoticeInv, NotifiedOncePerDraft

\* Drafts grow, and a round shown unstamped has not been taken up.
LEMMA NoticeAlways == Spec => []NoticeInv
<1> USE BoundsAreNaturals
<1>1. Init => NoticeInv
  BY DEF Init, NoticeInv, NotifiedOncePerDraft, Writing, NoRun, NoReq, Null
<1>2. TypeOK /\ TypeOK' /\ NoticeInv /\ [Next]_vars => NoticeInv'
  <2> SUFFICES ASSUME TypeOK, TypeOK', NoticeInv, [Next]_vars PROVE NoticeInv'
    OBVIOUS
  <2> USE DEF bounds, history, crowd, resume, Publish, Fault
  <2>a. ASSUME NEW q \in Requests
        PROVE  req[q] \in Call(RequestPcs) /\ RequestOK(req[q])
    BY <2>a DEF TypeOK, RequestsOK
  <2>b. /\ NoReq.patch.draft = 0
        /\ \A x : [NoReq EXCEPT !.pc = x].patch.draft = 0
        /\ \A x, t : [NoReq EXCEPT !.pc = x, !.to = t].patch.draft = 0
    BY DEF NoReq, NoRun, Null
  \* A request that changes only itself.
  <2>c. ASSUME NEW q \in Requests, NEW c, req' = [req EXCEPT ![q] = c],
               c.patch.draft \in {0, output.draft, req[q].patch.draft},
               output'.draft \in {output.draft, req[q].patch.draft},
               status' = "waiting" => status = "waiting" /\ output' = output,
               UNCHANGED <<saved, runner, drafts, noticed>>
        PROVE  NoticeInv'
    <3>1. \A p \in Requests : req'[p] = IF p = q THEN c ELSE req[p]
      BY <2>c DEF TypeOK, RequestsOK
    <3>2. \A o \in {output'} \cup {req'[p].patch : p \in Requests} :
            o.draft \in {0, output.draft} \cup {req[p].patch.draft : p \in Requests}
      BY <2>c, <3>1
    <3> QED
      BY <2>c, <3>2, RequestKeepsNoticeInv
  <2>1. ASSUME NEW q \in Requests, RouteFinalizes(q) \/ RouteRequeues(q) \/ RouteDiscards(q)
        PROVE  NoticeInv'
    <3>1. PICK c : c.patch.draft = 0 /\ req' = [req EXCEPT ![q] = c]
      BY <2>1, <2>b DEF RouteFinalizes, RouteRequeues, RouteDiscards
    <3> QED
      BY <2>1, <2>c, <3>1 DEF RouteFinalizes, RouteRequeues, RouteDiscards
  <2>2. ASSUME NEW q \in Requests, RequestReads(q) PROVE NoticeInv'
    <3>1. PICK c : c.patch.draft \in {0, output.draft, req[q].patch.draft}
                   /\ req' = [req EXCEPT ![q] = c]
      <4> DEFINE p == Patched(req[q], req[q].to)
      <4>1. p.patch.draft \in {output.draft, req[q].patch.draft}
        BY <2>a, PatchedDraft DEF TypeOK, RequestOK
      <4>2. req' = [req EXCEPT ![q] = p] \/ req' = [req EXCEPT ![q] = NoReq]
        BY <2>2 DEF RequestReads, TypeOK, RequestsOK
      <4> QED
        BY <2>b, <4>1, <4>2
    <3> QED
      BY <2>2, <2>c, <3>1 DEF RequestReads
  <2>3. ASSUME NEW q \in Requests, RequestWrites(q) PROVE NoticeInv'
    <3>1. status' # "waiting" /\ output'.draft \in {output.draft, req[q].patch.draft}
      BY <2>3, <2>a DEF RequestWrites, SetStatus, RequestOK
    <3> QED
      BY <2>3, <2>b, <2>c, <3>1 DEF RequestWrites
  <2>4. ASSUME NEW q \in Requests,
               RequestDies(q) \/ SpawnRefused(q) \/ SpawnRetried(q) \/ SpawnLogs(q) \/ ToolMissing(q)
        PROVE  NoticeInv'
    BY <2>4, <2>b, <2>c DEF RequestDies, SpawnRefused, SpawnRetried, SpawnLogs, ToolMissing
  <2>5. ASSUME NEW q \in Requests, Spawns(q) PROVE NoticeInv'
    <3>1. req' = [req EXCEPT ![q] = [NoReq EXCEPT !.pc = "log", !.patch = output]]
      BY <2>5 DEF Spawns
    <3>2. [NoReq EXCEPT !.pc = "log", !.patch = output].patch = output
      BY DEF NoReq, NoRun
    <3>3. output'.draft = output.draft
      BY <2>5 DEF Spawns, TypeOK, OutputOK, Output
    <3> QED
      BY <2>5, <2>c, <3>1, <3>2, <3>3 DEF Spawns
  <2>6. ASSUME NEW q \in Requests, ExecutorReads(q) PROVE NoticeInv'
    <3>1. [NoReq EXCEPT !.pc = "invoke", !.patch = output].patch = output
      BY DEF NoReq, NoRun
    <3>2. \/ req' = [req EXCEPT ![q] = [NoReq EXCEPT !.pc = "invoke", !.patch = output]]
          \/ req' = [req EXCEPT ![q] = NoReq]
      BY <2>6 DEF ExecutorReads
    <3>3. UNCHANGED <<status, saved, output, runner, drafts, noticed>>
      BY <2>6 DEF ExecutorReads
    <3>4. CASE req' = [req EXCEPT ![q] = [NoReq EXCEPT !.pc = "invoke", !.patch = output]]
      BY <2>c, <3>1, <3>3, <3>4
    <3>5. CASE req' = [req EXCEPT ![q] = NoReq]
      BY <2>b, <2>c, <3>3, <3>5
    <3> QED
      BY <3>2, <3>4, <3>5
  <2>7. ASSUME NEW q \in Requests, ToolInvoked(q) PROVE NoticeInv'
    <3>1. [req[q] EXCEPT !.pc = "invoked"].patch = req[q].patch
      BY <2>a DEF Call
    <3>2. \/ req' = [req EXCEPT ![q] = [req[q] EXCEPT !.pc = "invoked"]]
          \/ req' = [req EXCEPT ![q] = [NoReq EXCEPT !.pc = "status", !.to = "failed"]]
      BY <2>7 DEF ToolInvoked
    <3>3. UNCHANGED <<status, saved, output, runner, drafts, noticed>>
      BY <2>7 DEF ToolInvoked
    <3>4. CASE req' = [req EXCEPT ![q] = [req[q] EXCEPT !.pc = "invoked"]]
      BY <2>c, <3>1, <3>3, <3>4
    <3>5. CASE req' = [req EXCEPT ![q] = [NoReq EXCEPT !.pc = "status", !.to = "failed"]]
      BY <2>b, <2>c, <3>3, <3>5
    <3> QED
      BY <3>2, <3>4, <3>5
  <2>8. ASSUME NEW q \in Requests, ToolRecorded(q) PROVE NoticeInv'
    <3>1. output'.draft = req[q].patch.draft
      BY <2>8, <2>a DEF ToolRecorded, RequestOK, OutputOK, Output
    <3> QED
      BY <2>8, <2>b, <2>c, <3>1 DEF ToolRecorded
  <2>9. ASSUME Run PROVE NoticeInv'
    <3>a. UNCHANGED <<req, noticed>>
      BY <2>9 DEF Run, RunClaims, GraphDrafts, GraphFinishes, GraphThrows, RunReads,
                  RunWrites, RunLogs, RunFails, RunStumbles, RowReclaimed
    <3>b. /\ NoRun.patch.draft = 0 /\ NoRun.pc = "free"
          /\ \A x : [NoRun EXCEPT !.pc = x].patch.draft = 0
          /\ \A x : [NoRun EXCEPT !.pc = x].pc = x
      BY DEF NoRun, Null
    \* A run that leaves the row as it is or out of 'waiting', and is not about
    \* to write a draft.
    <3>c. ASSUME UNCHANGED drafts, ~Writing', runner'.patch.draft <= drafts,
                 saved'.draft \in {0, saved.draft},
                 output'.draft \in {output.draft, runner.patch.draft},
                 status' = "waiting" => status = "waiting" /\ output' = output
          PROVE  NoticeInv'
      BY <3>a, <3>c DEF NoticeInv, NotifiedOncePerDraft, TypeOK
    <3>1. CASE RunClaims \/ GraphThrows \/ RunLogs \/ RunStumbles
      <4>1. UNCHANGED <<output, drafts>> /\ (status' = "waiting" => status = "waiting")
        BY <3>1 DEF RunClaims, GraphThrows, RunLogs, RunStumbles
      <4>2. \E x \in {"free", "graph", "error"} :
              runner' = NoRun \/ runner' = [NoRun EXCEPT !.pc = x]
        BY <3>1 DEF RunClaims, GraphThrows, RunLogs, RunStumbles
      <4>3. ~Writing' /\ runner'.patch.draft = 0
        BY <3>b, <4>2 DEF Writing
      <4>4. saved'.draft \in {0, saved.draft}
        BY <3>1 DEF RunClaims, GraphThrows, RunLogs, RunStumbles, Null
      <4> QED
        BY <3>c, <4>1, <4>3, <4>4 DEF TypeOK
    <3>2. CASE GraphDrafts
      <4>1. drafts' = drafts + 1 /\ drafts' \in Drafts /\ UNCHANGED <<status, output>>
        BY <3>2 DEF GraphDrafts, TypeOK, Drafts
      <4>2. runner'.patch.draft = drafts' /\ saved'.draft = drafts'
        <5>1. PICK tool \in BOOLEAN, plan \in BOOLEAN :
                /\ saved' = [Null EXCEPT !.draft = drafts + 1, !.tool = tool, !.plan = plan]
                /\ runner' = [pc |-> "draft", to |-> "waiting", writes |-> TRUE, patch |-> saved']
          BY <3>2 DEF GraphDrafts
        <5> QED
          BY <4>1, <5>1 DEF Null
      <4>3. noticed[drafts'] = 0
        BY <4>1 DEF NoticeInv, TypeOK
      <4>4. output.draft \in Nat /\ \A q \in Requests : req[q].patch.draft \in Nat
        BY <2>a DEF TypeOK, RequestOK, OutputOK, Output
      <4>5. output.draft < drafts' /\ \A q \in Requests : req[q].patch.draft < drafts'
        BY <4>1, <4>4 DEF NoticeInv, TypeOK
      <4>6. \A n \in Drafts : n > drafts' => noticed[n] = 0
        BY <4>1 DEF NoticeInv, TypeOK, Drafts
      <4>7. drafts' <= drafts' /\ output.draft <= drafts'
            /\ \A q \in Requests : req[q].patch.draft <= drafts'
        BY <4>1, <4>4, <4>5 DEF Drafts
      <4> QED
        BY <3>a, <4>1, <4>2, <4>3, <4>5, <4>6, <4>7 DEF NoticeInv, NotifiedOncePerDraft
    <3>3. CASE GraphFinishes
      BY <3>3, <3>c DEF GraphFinishes, Writing, NoticeInv
    <3>d. OutputOK(output) /\ OutputOK(runner.patch) /\ runner \in Call(RunnerPcs)
      BY DEF TypeOK, RunOK
    <3>4. CASE RunReads
      <4>1. UNCHANGED <<status, saved, output, drafts>>
        BY <3>4 DEF RunReads
      <4>2. CASE runner' = [NoRun EXCEPT !.pc = "error"]
        <5>1. ~Writing' /\ runner'.patch.draft = 0
          BY <3>b, <4>2 DEF Writing
        <5> QED
          BY <3>c, <4>1, <5>1 DEF TypeOK
      <4>3. CASE runner' = Patched(runner, runner.to)
        <5>1. runner'.to = runner.to
          BY <4>3 DEF Patched
        <5>2. runner'.patch.draft \in {runner.patch.draft, output.draft}
              /\ (runner.writes => runner'.patch.draft = runner.patch.draft)
          BY <3>d, <4>3, PatchedDraft
        <5>3. CASE runner.to = "waiting"
          <6>1. Writing /\ runner'.patch.draft = runner.patch.draft
            BY <3>4, <5>2, <5>3 DEF RunReads, Writing, TypeOK, RunOK
          <6> QED
            BY <3>a, <4>1, <6>1 DEF NoticeInv, NotifiedOncePerDraft
        <5>4. CASE runner.to # "waiting"
          <6>1. ~Writing' /\ runner'.patch.draft <= drafts
            BY <5>1, <5>2, <5>4 DEF Writing, NoticeInv
          <6> QED
            BY <3>c, <4>1, <6>1
        <5> QED
          BY <5>3, <5>4
      <4> QED
        BY <3>4, <4>2, <4>3 DEF RunReads
    <3>5. CASE RunFails
      <4>1. UNCHANGED <<status, saved, output, drafts>>
        BY <3>5 DEF RunFails
      <4>2. CASE runner' = NoRun
        <5>1. ~Writing' /\ runner'.patch.draft = 0
          BY <3>b, <4>2 DEF Writing
        <5> QED
          BY <3>c, <4>1, <5>1 DEF TypeOK
      <4>3. CASE runner' = Patched(runner, "failed")
        <5>1. runner'.to = "failed"
          BY <4>3 DEF Patched
        <5>2. runner'.patch.draft <= drafts
          BY <3>d, <4>3, PatchedDraft DEF NoticeInv
        <5> QED
          BY <3>c, <4>1, <5>1, <5>2 DEF Writing
      <4> QED
        BY <3>5, <4>2, <4>3 DEF RunFails
    <3>6. CASE RunWrites
      <4>1. UNCHANGED <<saved, drafts>> /\ status' = runner.to
            /\ output' = IF runner.writes THEN runner.patch ELSE output
        BY <3>6 DEF RunWrites, SetStatus
      <4>2. ~Writing' /\ runner'.patch.draft <= drafts
        <5>1. runner' = NoRun \/ runner' = [runner EXCEPT !.pc = "log"]
          BY <3>6 DEF RunWrites
        <5>2. [runner EXCEPT !.pc = "log"].patch = runner.patch
              /\ [runner EXCEPT !.pc = "log"].pc = "log"
          BY <3>d DEF Call
        <5>3. runner.patch.draft <= drafts /\ 0 <= drafts
          BY DEF NoticeInv, TypeOK
        <5> QED
          BY <3>b, <5>1, <5>2, <5>3 DEF Writing
      <4>3. CASE runner.to = "waiting"
        <5>1. Writing /\ output' = runner.patch
          BY <3>6, <4>1, <4>3 DEF RunWrites, Writing, TypeOK, RunOK
        <5>2. noticed[output'.draft] = 0 /\ output'.draft <= drafts
          BY <5>1 DEF NoticeInv
        <5> QED
          BY <3>a, <4>1, <4>2, <5>2 DEF NoticeInv, NotifiedOncePerDraft
      <4>4. CASE runner.to # "waiting"
        BY <3>c, <4>1, <4>2, <4>4
      <4> QED
        BY <4>3, <4>4
    <3>7. CASE RowReclaimed
      BY <3>7 DEF RowReclaimed, NoticeInv, NotifiedOncePerDraft, Writing
    <3> QED
      BY <2>9, <3>1, <3>2, <3>3, <3>4, <3>5, <3>6, <3>7 DEF Run
  <2>10. ASSUME NEW w \in Watchers, Watcher(w) PROVE NoticeInv'
    <3>1. CASE WatcherClaims(w)
      <4>1. /\ UNCHANGED <<status, saved, runner, req, drafts>>
            /\ noticed' = [noticed EXCEPT ![output.draft] = @ + 1]
            /\ status = "waiting" /\ ~output.notified
        BY <3>1 DEF WatcherClaims, Unnotified
      <4>2. output'.draft = output.draft /\ output'.notified
        BY <3>1 DEF WatcherClaims, TypeOK, OutputOK, Output
      <4>3. output.draft \in Drafts /\ noticed[output.draft] = 0
        BY <4>1 DEF NoticeInv, TypeOK, OutputOK, Output, Drafts
      <4>4. \A n \in Drafts : noticed'[n] = IF n = output.draft THEN 1 ELSE noticed[n]
        BY <4>1, <4>3 DEF TypeOK
      <4>5. \A n \in Drafts : noticed'[n] <= 1 /\ (n > drafts => noticed'[n] = 0)
        <5>1. ASSUME NEW n \in Drafts, n > drafts PROVE n # output.draft /\ noticed[n] = 0
          <6>1. noticed[n] = 0
            BY <5>1 DEF NoticeInv
          <6>2. n \in Nat /\ drafts \in Nat /\ output.draft <= drafts
            BY <5>1 DEF NoticeInv, TypeOK, Drafts
          <6> QED
            BY <5>1, <6>1, <6>2
        <5>2. \A n \in Drafts : noticed[n] <= 1
          BY DEF NoticeInv, NotifiedOncePerDraft
        <5> QED
          BY <4>4, <5>1, <5>2
      <4>6. Writing => noticed'[runner.patch.draft] = 0
        <5>1. Writing => runner.patch.draft \in Drafts
          BY DEF Writing, TypeOK, RunOK, OutputOK, Output, Drafts
        <5>2. Writing => runner.patch.draft # output.draft
          BY <4>3 DEF NoticeInv, Drafts
        <5> QED
          BY <4>4, <5>1, <5>2 DEF NoticeInv
      <4>7. Writing' <=> Writing
        BY <4>1 DEF Writing
      <4> QED
        BY <4>1, <4>2, <4>5, <4>6, <4>7 DEF NoticeInv, NotifiedOncePerDraft
    <3>2. CASE WatcherMails(w)
      BY <3>2 DEF WatcherMails, NoticeInv, NotifiedOncePerDraft, Writing
    <3> QED
      BY <2>10, <3>1, <3>2 DEF Watcher
  <2>11. CASE UNCHANGED vars
    BY <2>11 DEF NoticeInv, NotifiedOncePerDraft, Writing, vars
  <2> QED
    BY <2>1, <2>2, <2>3, <2>4, <2>5, <2>6, <2>7, <2>8, <2>9, <2>10, <2>11 DEF Next, Request
<1> QED
  BY <1>1, <1>2, GateTypeCorrect, PTL DEF Spec

\* The stamp is the dedup key, and no stale write can bring an unstamped row
\* back to 'waiting': one claim per waiting round, however requests interleave.
THEOREM NotifiedOnce == Spec => []NotifiedOncePerDraft
<1>1. NoticeInv => NotifiedOncePerDraft
  BY DEF NoticeInv
<1> QED
  BY <1>1, NoticeAlways, PTL

-----------------------------------------------------------------------------
(* The tool call.                                                          *)

\* The slot q holds a request that is under way.
Open(q) == req[q].pc # "free"

\* What no overlap means.
OneOpen == \A p, q \in Requests : Open(p) /\ Open(q) => p = q

\* While the task waits its run is over.
GateIsQuiet == status = "waiting" => runner.pc \in {"free", "log"}

\* Whatever is about to act on an approval finds the task as the route saw it.
DecidesAtGate ==
  \A q \in Requests :
    \/ req[q].pc \in {"executor", "invoke", "invoked", "spawn"}
    \/ req[q].pc \in {"status", "update"} /\ req[q].to # "failed"
    => status = "waiting"

\* A call to the executor that has invoked the tool and has the end of the task
\* still to write, or a discard.
Ending(q) ==
  req[q].pc = "invoked" \/ (req[q].pc \in {"status", "update"} /\ req[q].to = "failed")

\* The tool of some draft has been invoked.
Fired == \E n \in Drafts : fired[n] # 0

\* A tool that was invoked ends the task, and nothing takes it up again.
FiringEnds ==
  Fired => /\ runner.pc \in {"free", "log"}
           /\ \/ status \in {"done", "failed"}
              \/ status = "waiting" /\ \E q \in Requests : Ending(q)

\* A call to the executor that is about to invoke is the first to.
InvokesFirst == \A q \in Requests : req[q].pc = "invoke" => ~Fired

\* ToolOnceUndisturbed with what keeps it so.
OnceInv ==
  ~overlap /\ faults = 0 =>
    /\ OneOpen /\ GateIsQuiet /\ DecidesAtGate
    /\ FiringEnds /\ InvokesFirst /\ ToolOnceUndisturbed

\* Undisturbed, the request that takes a step is the only one.
LEMMA OneMoves ==
  ASSUME TypeOK, ~overlap => OneOpen, ~overlap', NEW q \in Requests, NEW c,
         req' = [req EXCEPT ![q] = c],
         \/ Open(q) /\ overlap' = overlap
         \/ Opens(q)
  PROVE  /\ ~overlap
         /\ \A p \in Requests \ {q} : req[p].pc = "free" /\ req'[p].pc = "free"
         /\ req'[q] = c
         /\ OneOpen'
<1>1. ~overlap /\ \A p \in Requests \ {q} : req[p].pc = "free"
  <2>1. CASE Open(q) /\ overlap' = overlap
    BY <2>1 DEF Open, OneOpen
  <2>2. CASE Opens(q)
    <3> DEFINE others == {p \in Requests \ {q} : req[p].pc # "free"}
    <3>1. overlap' = (overlap \/ others # {})
      BY <2>2 DEF Opens
    <3>2. ~overlap /\ others = {}
      BY <3>1
    <3> QED
      BY <3>2
  <2> QED
    BY <2>1, <2>2
<1>2. req'[q] = c /\ \A p \in Requests \ {q} : req'[p] = req[p]
  BY DEF TypeOK, RequestsOK
<1>3. \A p \in Requests : Open(p)' => p = q
  BY <1>1, <1>2 DEF Open
<1> QED
  BY <1>1, <1>2, <1>3 DEF OneOpen

\* An invariant is kept by a step that ends with one request, in state c.
LEMMA OnceOf ==
  ASSUME NEW q \in Requests, OneOpen',
         \A p \in Requests \ {q} : req'[p].pc = "free",
         GateIsQuiet',
         \/ req'[q].pc \in {"executor", "invoke", "invoked", "spawn"}
         \/ req'[q].pc \in {"status", "update"} /\ req'[q].to # "failed"
         => status' = "waiting",
         FiringEnds', req'[q].pc = "invoke" => ~Fired', ToolOnceUndisturbed'
  PROVE  OnceInv'
<1>1. DecidesAtGate'
  BY DEF DecidesAtGate
<1>2. InvokesFirst'
  BY DEF InvokesFirst
<1> QED
  BY <1>1, <1>2 DEF OnceInv

\* Every step of a request, of the run or of a watcher keeps it.
LEMMA OnceStep == TypeOK /\ TypeOK' /\ OnceInv /\ [Next]_vars => OnceInv'
<1> SUFFICES ASSUME TypeOK, TypeOK', OnceInv, [Next]_vars, ~overlap', faults' = 0
             PROVE  OnceInv'
  BY DEF OnceInv
<1> USE DEF bounds, history, crowd, resume
<1>0. NoReq.pc = "free" /\ NoReq.to = "failed" /\ NoRun.pc = "free"
  BY DEF NoReq, NoRun
\* The gate, undisturbed.
<1>a. ASSUME ~overlap, faults = 0
      PROVE  /\ OneOpen /\ GateIsQuiet /\ DecidesAtGate
             /\ FiringEnds /\ InvokesFirst /\ ToolOnceUndisturbed
  BY <1>a DEF OnceInv
<1>1. ASSUME NEW q \in Requests, Request(q) PROVE OnceInv'
  <2> USE DEF Ending, Open
  \* What is common to the steps: c is what the request becomes.
  <2>a. ASSUME NEW c, req' = [req EXCEPT ![q] = c], faults = 0,
               Opens(q) \/ (Open(q) /\ overlap' = overlap)
        PROVE  /\ OneOpen /\ GateIsQuiet /\ DecidesAtGate
               /\ FiringEnds /\ InvokesFirst /\ ToolOnceUndisturbed /\ ~overlap
               /\ \A p \in Requests \ {q} : req[p].pc = "free" /\ req'[p].pc = "free"
               /\ req'[q] = c
               /\ OneOpen'
    <3>1. ~overlap => OneOpen
      BY <1>a, <2>a
    <3>2. /\ ~overlap /\ req'[q] = c /\ OneOpen'
          /\ \A p \in Requests \ {q} : req[p].pc = "free" /\ req'[p].pc = "free"
      BY <2>a, <3>1, OneMoves
    <3> QED
      BY <1>a, <2>a, <3>2
  <2>1. CASE RouteFinalizes(q) \/ RouteRequeues(q) \/ RouteDiscards(q)
    <3>1. /\ Opens(q) /\ req[q].pc = "free"
          /\ UNCHANGED <<status, runner, fired, faults>>
      BY <2>1 DEF RouteFinalizes, RouteRequeues, RouteDiscards, Opens
    <3>2. PICK c : /\ req' = [req EXCEPT ![q] = c]
                   /\ c.pc \in {"spawn", "executor", "status"}
                   /\ status = "waiting" \/ (c.pc = "status" /\ c.to = "failed")
      <4>1. /\ [NoReq EXCEPT !.pc = "spawn"].pc = "spawn"
            /\ [NoReq EXCEPT !.pc = "executor"].pc = "executor"
            /\ \A t \in {"done", "todo", "failed"} :
                 /\ [NoReq EXCEPT !.pc = "status", !.to = t].pc = "status"
                 /\ [NoReq EXCEPT !.pc = "status", !.to = t].to = t
        BY DEF NoReq, NoRun
      <4>2. CASE RouteDiscards(q)
        BY <4>1, <4>2 DEF RouteDiscards
      <4>3. CASE RouteRequeues(q)
        BY <4>1, <4>3 DEF RouteRequeues
      <4>4. CASE RouteFinalizes(q)
        <5>1. status = "waiting"
          BY <4>4 DEF RouteFinalizes
        <5>2. \/ req' = [req EXCEPT ![q] = [NoReq EXCEPT !.pc = "spawn"]]
              \/ req' = [req EXCEPT ![q] = [NoReq EXCEPT !.pc = "executor"]]
              \/ req' = [req EXCEPT ![q] = [NoReq EXCEPT !.pc = "status", !.to = "done"]]
          BY <4>4 DEF RouteFinalizes
        <5> QED
          BY <4>1, <5>1, <5>2
      <4> QED
        BY <2>1, <4>2, <4>3, <4>4
    <3>3. /\ OneOpen' /\ GateIsQuiet /\ FiringEnds /\ ToolOnceUndisturbed /\ ~overlap
          /\ \A p \in Requests \ {q} : req[p].pc = "free" /\ req'[p].pc = "free"
          /\ req'[q] = c
      BY <2>a, <3>1, <3>2
    <3>4. Fired => status # "waiting"
      BY <3>1, <3>3 DEF FiringEnds
    <3>5. GateIsQuiet' /\ FiringEnds' /\ ToolOnceUndisturbed'
      BY <3>1, <3>3, <3>4 DEF GateIsQuiet, FiringEnds, Fired, ToolOnceUndisturbed
    <3> QED
      BY <3>1, <3>2, <3>3, <3>5, OnceOf
  <2>2. CASE RequestReads(q)
    <3>1. /\ req[q].pc = "status" /\ UNCHANGED <<status, runner, fired, faults, overlap>>
      BY <2>2 DEF RequestReads
    <3>2. PICK c : /\ req' = [req EXCEPT ![q] = c]
                   /\ IF CanTransition(status, req[q].to)
                      THEN c.pc = "update" /\ c.to = req[q].to
                      ELSE c = NoReq
      <4>1. /\ Patched(req[q], req[q].to).pc = "update"
            /\ Patched(req[q], req[q].to).to = req[q].to
        BY DEF Patched
      <4>2. CASE CanTransition(status, req[q].to)
        <5>1. req' = [req EXCEPT ![q] = Patched(req[q], req[q].to)]
          BY <2>2, <4>2 DEF RequestReads, TypeOK, RequestsOK
        <5> QED
          BY <4>1, <4>2, <5>1
      <4>3. CASE ~CanTransition(status, req[q].to)
        <5>1. req' = [req EXCEPT ![q] = NoReq]
          BY <2>2, <4>3 DEF RequestReads, TypeOK, RequestsOK
        <5> QED
          BY <4>3, <5>1
      <4> QED
        BY <4>2, <4>3
    <3>3. /\ OneOpen' /\ GateIsQuiet /\ DecidesAtGate /\ FiringEnds /\ ToolOnceUndisturbed
          /\ ~overlap
          /\ \A p \in Requests \ {q} : req[p].pc = "free" /\ req'[p].pc = "free"
          /\ req'[q] = c
      BY <2>a, <3>1, <3>2
    <3>4. Fired /\ status = "waiting" => req[q].to = "failed"
      BY <3>1, <3>3 DEF FiringEnds
    <3>5. CanTransition("waiting", "failed")
      BY DEF CanTransition, Allowed
    <3>6. FiringEnds'
      BY <3>1, <3>2, <3>3, <3>4, <3>5 DEF FiringEnds, Fired
    <3>7. GateIsQuiet' /\ ToolOnceUndisturbed'
      BY <3>1, <3>3 DEF GateIsQuiet, ToolOnceUndisturbed
    <3>8. /\ req'[q].pc \in {"update", "free"}
          /\ req'[q].pc = "update" /\ req'[q].to # "failed" => status' = "waiting"
      BY <1>0, <3>1, <3>2, <3>3 DEF DecidesAtGate
    <3> QED
      BY <3>3, <3>6, <3>7, <3>8, OnceOf
  <2>3. CASE RequestWrites(q)
    <3>1. /\ req[q].pc = "update" /\ req' = [req EXCEPT ![q] = NoReq]
          /\ status' = req[q].to /\ UNCHANGED <<runner, fired, faults, overlap>>
      BY <2>3 DEF RequestWrites, SetStatus
    <3>2. req[q].to # "waiting"
      BY DEF TypeOK, RequestsOK, RequestOK
    <3>3. /\ OneOpen' /\ DecidesAtGate /\ FiringEnds /\ ToolOnceUndisturbed /\ ~overlap
          /\ \A p \in Requests \ {q} : req[p].pc = "free" /\ req'[p].pc = "free"
          /\ req'[q] = NoReq
      BY <2>a, <3>1
    <3>4. Fired => req[q].to = "failed"
      BY <3>1, <3>3 DEF FiringEnds, DecidesAtGate
    <3>5. FiringEnds'
      BY <3>1, <3>3, <3>4 DEF FiringEnds, Fired
    <3>6. GateIsQuiet' /\ ToolOnceUndisturbed'
      BY <3>1, <3>2, <3>3 DEF GateIsQuiet, ToolOnceUndisturbed
    <3> QED
      BY <1>0, <3>3, <3>5, <3>6, OnceOf
  <2>4. CASE RequestDies(q)
    BY <2>4 DEF RequestDies, Fault, TypeOK
  <2>5. CASE SpawnRefused(q) \/ SpawnRetried(q) \/ SpawnLogs(q)
    <3>1. /\ req[q].pc \in {"spawn", "log"} /\ req' = [req EXCEPT ![q] = NoReq]
          /\ UNCHANGED <<status, runner, fired, overlap>>
          /\ faults' = faults \/ Fault
      BY <2>5 DEF SpawnRefused, SpawnRetried, SpawnLogs
    <3>2. faults = 0
      BY <3>1 DEF Fault, TypeOK
    <3>3. /\ OneOpen' /\ GateIsQuiet /\ FiringEnds /\ ToolOnceUndisturbed /\ ~overlap
          /\ \A p \in Requests \ {q} : req[p].pc = "free" /\ req'[p].pc = "free"
          /\ req'[q] = NoReq
      BY <2>a, <3>1, <3>2
    <3>4. Fired => status # "waiting"
      BY <3>1, <3>3 DEF FiringEnds
    <3>5. GateIsQuiet' /\ FiringEnds' /\ ToolOnceUndisturbed'
      BY <3>1, <3>2, <3>3, <3>4 DEF GateIsQuiet, FiringEnds, Fired, ToolOnceUndisturbed
    <3> QED
      BY <1>0, <3>3, <3>5, OnceOf
  <2>6. CASE Spawns(q)
    <3>1. /\ req[q].pc = "spawn" /\ req' = [req EXCEPT ![q] = [NoReq EXCEPT !.pc = "log", !.patch = output]]
          /\ status' = "done" /\ UNCHANGED <<runner, fired, faults, overlap>>
      BY <2>6 DEF Spawns
    <3>2. [NoReq EXCEPT !.pc = "log", !.patch = output].pc = "log"
      BY DEF NoReq, NoRun
    <3>3. /\ OneOpen' /\ FiringEnds /\ ToolOnceUndisturbed /\ ~overlap
          /\ \A p \in Requests \ {q} : req[p].pc = "free" /\ req'[p].pc = "free"
          /\ req'[q].pc = "log"
      BY <2>a, <3>1, <3>2
    <3>4. GateIsQuiet' /\ FiringEnds' /\ ToolOnceUndisturbed'
      BY <3>1, <3>3 DEF GateIsQuiet, FiringEnds, Fired, ToolOnceUndisturbed
    <3> QED
      BY <3>3, <3>4, OnceOf
  <2>7. CASE ExecutorReads(q) \/ ToolMissing(q)
    <3>1. /\ req[q].pc \in {"executor", "invoke"} /\ UNCHANGED <<status, runner, fired, faults, overlap>>
      BY <2>7 DEF ExecutorReads, ToolMissing
    <3>2. PICK c : req' = [req EXCEPT ![q] = c] /\ c.pc \in {"invoke", "free"}
      <4>1. [NoReq EXCEPT !.pc = "invoke", !.patch = output].pc = "invoke"
        BY DEF NoReq, NoRun
      <4>2. \/ req' = [req EXCEPT ![q] = [NoReq EXCEPT !.pc = "invoke", !.patch = output]]
            \/ req' = [req EXCEPT ![q] = NoReq]
        BY <2>7 DEF ExecutorReads, ToolMissing
      <4> QED
        BY <1>0, <4>1, <4>2
    <3>3. /\ OneOpen' /\ GateIsQuiet /\ DecidesAtGate /\ FiringEnds /\ ToolOnceUndisturbed
          /\ ~overlap
          /\ \A p \in Requests \ {q} : req[p].pc = "free" /\ req'[p].pc = "free"
          /\ req'[q] = c
      BY <2>a, <3>1, <3>2
    <3>4. status = "waiting" /\ ~Fired
      BY <3>1, <3>3 DEF FiringEnds, DecidesAtGate
    <3>5. GateIsQuiet' /\ FiringEnds' /\ ToolOnceUndisturbed' /\ ~Fired'
      BY <3>1, <3>3, <3>4 DEF GateIsQuiet, FiringEnds, Fired, ToolOnceUndisturbed
    <3> QED
      BY <3>1, <3>2, <3>3, <3>4, <3>5, OnceOf
  <2>8. CASE ToolInvoked(q)
    <3>1. /\ req[q].pc = "invoke" /\ UNCHANGED <<status, runner, faults, overlap>>
          /\ fired' = [fired EXCEPT ![req[q].patch.draft] = @ + 1]
      BY <2>8 DEF ToolInvoked
    <3>2. PICK c : /\ req' = [req EXCEPT ![q] = c]
                   /\ c.pc = "invoked" \/ (c.pc = "status" /\ c.to = "failed")
      <4>1. req[q] \in Call(RequestPcs)
        BY DEF TypeOK, RequestsOK
      <4>2. [req[q] EXCEPT !.pc = "invoked"].pc = "invoked"
        BY <4>1 DEF Call
      <4>3. /\ [NoReq EXCEPT !.pc = "status", !.to = "failed"].pc = "status"
            /\ [NoReq EXCEPT !.pc = "status", !.to = "failed"].to = "failed"
        BY DEF NoReq, NoRun
      <4>4. \/ req' = [req EXCEPT ![q] = [req[q] EXCEPT !.pc = "invoked"]]
            \/ req' = [req EXCEPT ![q] = [NoReq EXCEPT !.pc = "status", !.to = "failed"]]
        BY <2>8 DEF ToolInvoked
      <4> QED
        BY <4>2, <4>3, <4>4
    <3>3. /\ OneOpen' /\ GateIsQuiet /\ DecidesAtGate /\ InvokesFirst /\ ~overlap
          /\ \A p \in Requests \ {q} : req[p].pc = "free" /\ req'[p].pc = "free"
          /\ req'[q] = c
      BY <2>a, <3>1, <3>2
    <3>4. status = "waiting" /\ ~Fired
      BY <3>1, <3>3 DEF InvokesFirst, DecidesAtGate
    <3>5. \A n \in Drafts : fired'[n] <= 1
      BY <3>1, <3>4 DEF Fired, TypeOK
    <3>6. GateIsQuiet' /\ FiringEnds' /\ ToolOnceUndisturbed'
      BY <3>1, <3>2, <3>3, <3>4, <3>5 DEF GateIsQuiet, FiringEnds, ToolOnceUndisturbed
    <3> QED
      BY <3>1, <3>2, <3>3, <3>4, <3>6, OnceOf
  <2>9. CASE ToolRecorded(q)
    <3>1. /\ req[q].pc = "invoked" /\ req' = [req EXCEPT ![q] = NoReq]
          /\ status' = "done" /\ UNCHANGED <<runner, fired, faults, overlap>>
      BY <2>9 DEF ToolRecorded
    <3>2. /\ OneOpen' /\ FiringEnds /\ ToolOnceUndisturbed /\ ~overlap
          /\ \A p \in Requests \ {q} : req[p].pc = "free" /\ req'[p].pc = "free"
          /\ req'[q] = NoReq
      BY <2>a, <3>1
    <3>3. GateIsQuiet' /\ FiringEnds' /\ ToolOnceUndisturbed'
      BY <3>1, <3>2 DEF GateIsQuiet, FiringEnds, Fired, ToolOnceUndisturbed
    <3> QED
      BY <1>0, <3>2, <3>3, OnceOf
  <2> QED
    BY <1>1, <2>1, <2>2, <2>3, <2>4, <2>5, <2>6, <2>7, <2>8, <2>9 DEF Request
<1>2. CASE Run
  <2>1. UNCHANGED <<req, overlap, fired>> /\ (faults' = faults \/ Fault)
    BY <1>2 DEF Run, RunClaims, GraphDrafts, GraphFinishes, GraphThrows, RunReads, RunWrites,
         RunLogs, RunFails, RunStumbles, RowReclaimed
  <2>2. faults = 0 /\ ~Fault
    BY <2>1 DEF Fault, TypeOK
  <2>3. /\ OneOpen /\ GateIsQuiet /\ DecidesAtGate
        /\ FiringEnds /\ InvokesFirst /\ ToolOnceUndisturbed /\ ~overlap
    BY <1>a, <2>1, <2>2
  <2>4. OneOpen' /\ InvokesFirst' /\ ToolOnceUndisturbed' /\ (Fired' <=> Fired)
    BY <2>1, <2>2, <2>3 DEF OneOpen, Open, InvokesFirst, ToolOnceUndisturbed, Fired
  \* The run is over: it only lets go.
  <2>5. CASE RunLogs
    <3>1. status' = status /\ runner'.pc = "free"
      BY <1>0, <2>2, <2>5 DEF RunLogs
    <3>2. GateIsQuiet' /\ DecidesAtGate' /\ FiringEnds'
      BY <2>1, <2>3, <2>4, <3>1 DEF GateIsQuiet, DecidesAtGate, FiringEnds, Ending
    <3> QED
      BY <2>3, <2>4, <3>2 DEF OnceInv
  \* The run is open: the task is not at the gate, and no tool was invoked.
  <2>6. CASE ~RunLogs
    <3>1. \/ status \in {"todo", "in_progress"}
          \/ runner.pc \in {"graph", "draft", "update", "error"}
      BY <1>2, <2>2, <2>6 DEF Run, RunClaims, GraphDrafts, GraphFinishes, GraphThrows,
           RunReads, RunWrites, RunFails, RunStumbles, RowReclaimed
    <3>2. status # "waiting" /\ ~Fired
      BY <2>3, <3>1 DEF GateIsQuiet, FiringEnds
    <3>3. DecidesAtGate' /\ FiringEnds'
      BY <2>1, <2>3, <2>4, <3>2 DEF DecidesAtGate, FiringEnds
    <3>4. GateIsQuiet'
      <4>1. CASE RunWrites
        <5>1. [runner EXCEPT !.pc = "log"].pc = "log"
          BY DEF TypeOK, RunOK, Call
        <5> QED
          BY <1>0, <4>1, <5>1 DEF RunWrites, GateIsQuiet
      <4>2. CASE ~RunWrites
        <5>1. status' # "waiting"
          BY <1>2, <2>2, <2>6, <3>2, <4>2 DEF Run, RunClaims, GraphDrafts, GraphFinishes,
             GraphThrows, RunReads, RunFails, RunStumbles, RowReclaimed
        <5> QED
          BY <5>1 DEF GateIsQuiet
      <4> QED
        BY <4>1, <4>2
    <3> QED
      BY <2>3, <2>4, <3>3, <3>4 DEF OnceInv
  <2> QED
    BY <2>5, <2>6
<1>3. CASE (\E w \in Watchers : Watcher(w)) \/ UNCHANGED vars
  <2>1. UNCHANGED <<status, runner, req, overlap, faults, fired>>
    BY <1>3 DEF Watcher, WatcherClaims, WatcherMails, vars
  <2> QED
    BY <2>1, <1>a DEF OnceInv, OneOpen, Open, GateIsQuiet, DecidesAtGate, FiringEnds,
         Fired, Ending, InvokesFirst, ToolOnceUndisturbed
<1> QED
  BY <1>1, <1>2, <1>3 DEF Next

\* As long as no two requests overlap and nothing is cut off, a tool call is
\* invoked at most once, whatever users and runs do after it: either outcome of
\* executeApprovedToolCall takes the task out of 'waiting' for good.
THEOREM ToolOnceSafe == Spec => []ToolOnceUndisturbed
<1>1. Init => OnceInv
  BY DEF Init, OnceInv, OneOpen, Open, GateIsQuiet, DecidesAtGate, FiringEnds, Fired,
         InvokesFirst, ToolOnceUndisturbed, NoReq, NoRun
<1>2. OnceInv => ToolOnceUndisturbed
  BY DEF OnceInv, ToolOnceUndisturbed
<1> QED
  BY <1>1, <1>2, GateTypeCorrect, OnceStep, PTL DEF Spec

-----------------------------------------------------------------------------
(* The children of a plan.                                                 *)

\* An output that still shows a plan whose children exist.
Spent(o) == o.plan /\ spawned[o.draft] > 0

\* A request about to write back the plan it read.
CarriesPlan(q) == req[q].pc = "update" /\ req[q].writes /\ req[q].patch.plan

\* The run is on its way to an outcome, or about to write its failure.
Working == runner.pc \in {"graph", "draft"} \/ (runner.pc = "update" /\ runner.to # "failed")
Failing == runner.pc = "update" /\ runner.to = "failed"

\* A draft asks for a tool call or for children, never both.
OneIntent ==
  /\ ~(output.tool /\ output.plan) /\ ~(saved.tool /\ saved.plan)
  /\ ~(runner.patch.tool /\ runner.patch.plan)
  /\ \A q \in Requests : ~(req[q].patch.tool /\ req[q].patch.plan)

\* Drafts to come, and the one the run is about to show, have no children.
DraftsAreFresh ==
  /\ \A n \in Drafts : n > drafts => spawned[n] = 0
  /\ Writing => spawned[runner.patch.draft] = 0

\* A task without an agent has shown no draft.
NoDraftUnassigned ==
  ~assigned =>
    /\ output.draft = 0 /\ \A n \in Drafts : spawned[n] = 0
    /\ \A q \in Requests : req[q].patch.draft = 0
    /\ Failing => runner.patch.draft = 0

\* While the run works the task does not wait; what it fails with is no plan.
RunIsAway ==
  /\ Working \/ (runner.pc = "log" /\ runner.to = "done") => status # "waiting"
  /\ runner.pc \in {"draft", "update"} /\ runner.to = "done" => ~assigned
  /\ runner.pc \in {"draft", "log"} => runner.to # "failed"
  /\ runner.pc = "log" /\ status = "waiting" => (output.plan <=> runner.patch.plan)
  /\ runner.pc = "error" => ~runner.writes /\ runner.patch = Null
  /\ runner.pc = "error" /\ status = "waiting" => ~output.plan
  /\ Failing /\ runner.writes => ~runner.patch.plan

\* A request that has not read the row for its write carries nothing yet.
StartsEmpty ==
  \A q \in Requests : req[q].pc = "status" => ~req[q].writes /\ req[q].patch = Null

PlanInv == OneIntent /\ DraftsAreFresh /\ NoDraftUnassigned /\ RunIsAway /\ StartsEmpty

\* What a step of a request does to the row, to the children and to itself.
Untouched == UNCHANGED <<status, output, spawned, crowded>>

OpensAs(q, c) ==
  /\ Opens(q) /\ UNCHANGED <<status, output, spawned>>
  /\ c.pc \in {"spawn", "executor", "status"} /\ ~c.writes /\ c.patch = Null
  /\ status = "waiting" \/ (c.pc = "status" /\ c.to = "failed")

ReadsAs(q, c) ==
  /\ req[q].pc = "status" /\ Untouched
  /\ c = Patched(req[q], req[q].to)

MovesTo(q, c) ==
  /\ req[q].pc # "free" /\ Untouched
  /\ c.pc \in {"free", "invoke", "invoked"}
     \/ (c.pc = "status" /\ ~c.writes /\ c.patch = Null /\ c.to = "failed")
  /\ c.patch \in {Null, output, req[q].patch}

WritesBack(q, c) ==
  /\ req[q].pc = "update" /\ c = NoReq /\ UNCHANGED <<spawned, crowded>>
  /\ status' = req[q].to
  /\ output' = IF req[q].writes THEN req[q].patch ELSE output

SpawnsAs(q, c) ==
  /\ req[q].pc = "spawn" /\ c.pc = "log" /\ c.patch = output /\ UNCHANGED crowded
  /\ CanTransition(status, "done") /\ status' = "done"
  /\ ~output'.plan /\ output'.draft = output.draft /\ (output'.tool <=> output.tool)
  /\ spawned' = IF output.plan THEN [spawned EXCEPT ![output.draft] = @ + 1]
                               ELSE spawned

RecordsAs(q, c) ==
  /\ req[q].pc = "invoked" /\ c = NoReq /\ UNCHANGED <<spawned, crowded>>
  /\ status' = "done"
  /\ ~output'.tool /\ ~output'.plan /\ output'.draft = req[q].patch.draft

\* These are all.
LEMMA RequestEffects ==
  ASSUME TypeOK, OneIntent, NEW q \in Requests, Request(q)
  PROVE  /\ UNCHANGED <<assigned, saved, runner, drafts>>
         /\ \E c : /\ req'[q] = c /\ \A p \in Requests \ {q} : req'[p] = req[p]
                   /\ \/ OpensAs(q, c) \/ ReadsAs(q, c) \/ MovesTo(q, c)
                      \/ WritesBack(q, c) \/ SpawnsAs(q, c) \/ RecordsAs(q, c)
<1> USE DEF bounds, history, crowd, resume, Untouched
<1>0. /\ NoReq.pc = "free" /\ ~NoReq.writes /\ NoReq.patch = Null
      /\ \A c \in {[NoReq EXCEPT !.pc = "spawn"], [NoReq EXCEPT !.pc = "executor"]} :
           c.pc \in {"spawn", "executor"} /\ ~c.writes /\ c.patch = Null
      /\ \A t \in {"done", "todo", "failed"} :
           /\ [NoReq EXCEPT !.pc = "status", !.to = t].pc = "status"
           /\ [NoReq EXCEPT !.pc = "status", !.to = t].to = t
           /\ ~[NoReq EXCEPT !.pc = "status", !.to = t].writes
           /\ [NoReq EXCEPT !.pc = "status", !.to = t].patch = Null
      /\ [NoReq EXCEPT !.pc = "log", !.patch = output].pc = "log"
      /\ [NoReq EXCEPT !.pc = "log", !.patch = output].patch = output
      /\ [NoReq EXCEPT !.pc = "invoke", !.patch = output].pc = "invoke"
      /\ [NoReq EXCEPT !.pc = "invoke", !.patch = output].patch = output
  BY DEF NoReq, NoRun
<1>a. req[q] \in Call(RequestPcs) /\ RequestOK(req[q])
  BY DEF TypeOK, RequestsOK
<1>b. ASSUME NEW c, req' = [req EXCEPT ![q] = c]
      PROVE  req'[q] = c /\ \A p \in Requests \ {q} : req'[p] = req[p]
  BY <1>b DEF TypeOK, RequestsOK
<1>1. CASE RouteFinalizes(q) \/ RouteRequeues(q) \/ RouteDiscards(q)
  <2>1. PICK c : /\ req' = [req EXCEPT ![q] = c]
                 /\ c.pc \in {"spawn", "executor", "status"} /\ ~c.writes /\ c.patch = Null
                 /\ status = "waiting" \/ (c.pc = "status" /\ c.to = "failed")
    <3>1. CASE RouteDiscards(q)
      BY <1>0, <3>1 DEF RouteDiscards
    <3>2. CASE RouteRequeues(q)
      BY <1>0, <3>2 DEF RouteRequeues
    <3>3. CASE RouteFinalizes(q)
      <4>1. status = "waiting"
        BY <3>3 DEF RouteFinalizes
      <4>2. \/ req' = [req EXCEPT ![q] = [NoReq EXCEPT !.pc = "spawn"]]
            \/ req' = [req EXCEPT ![q] = [NoReq EXCEPT !.pc = "executor"]]
            \/ req' = [req EXCEPT ![q] = [NoReq EXCEPT !.pc = "status", !.to = "done"]]
        BY <3>3 DEF RouteFinalizes
      <4> QED
        BY <1>0, <4>1, <4>2
    <3> QED
      BY <1>1, <3>1, <3>2, <3>3
  <2>2. /\ UNCHANGED <<assigned, saved, runner, drafts, status, output, spawned>>
        /\ Opens(q)
    BY <1>1 DEF RouteFinalizes, RouteRequeues, RouteDiscards
  <2> QED
    BY <1>b, <2>1, <2>2 DEF OpensAs
<1>2. CASE RequestReads(q)
  <2>1. /\ UNCHANGED <<assigned, saved, runner, drafts, status, output, spawned, crowded>>
        /\ req[q].pc = "status"
    BY <1>2 DEF RequestReads
  <2>2. \/ req' = [req EXCEPT ![q] = Patched(req[q], req[q].to)]
        \/ req' = [req EXCEPT ![q] = NoReq]
    BY <1>2 DEF RequestReads, TypeOK, RequestsOK
  <2>3. CASE req' = [req EXCEPT ![q] = Patched(req[q], req[q].to)]
    BY <1>b, <2>1, <2>3 DEF ReadsAs
  <2>4. CASE req' = [req EXCEPT ![q] = NoReq]
    BY <1>0, <1>b, <2>1, <2>4 DEF MovesTo
  <2> QED
    BY <2>2, <2>3, <2>4
<1>3. CASE RequestWrites(q)
  BY <1>b, <1>3 DEF RequestWrites, SetStatus, WritesBack
<1>4. CASE RequestDies(q) \/ SpawnRefused(q) \/ SpawnRetried(q) \/ SpawnLogs(q) \/ ToolMissing(q)
  <2>1. /\ UNCHANGED <<assigned, saved, runner, drafts, status, output, spawned, crowded>>
        /\ req[q].pc # "free" /\ req' = [req EXCEPT ![q] = NoReq]
    BY <1>4 DEF RequestDies, SpawnRefused, SpawnRetried, SpawnLogs, ToolMissing
  <2> QED
    BY <1>0, <1>b, <2>1 DEF MovesTo
<1>5. CASE Spawns(q)
  <2>1. ~output'.plan /\ output'.draft = output.draft /\ (output'.tool <=> output.tool)
    BY <1>5 DEF Spawns, TypeOK, OutputOK, Output
  <2>2. req' = [req EXCEPT ![q] = [NoReq EXCEPT !.pc = "log", !.patch = output]]
    BY <1>5 DEF Spawns
  <2>3. /\ UNCHANGED <<assigned, saved, runner, drafts, crowded>>
        /\ req[q].pc = "spawn" /\ CanTransition(status, "done") /\ status' = "done"
        /\ spawned' = IF output.plan THEN [spawned EXCEPT ![output.draft] = @ + 1]
                                     ELSE spawned
    BY <1>5 DEF Spawns
  <2> DEFINE c == [NoReq EXCEPT !.pc = "log", !.patch = output]
  <2>4. SpawnsAs(q, c)
    BY <1>0, <2>1, <2>3 DEF SpawnsAs
  <2> HIDE DEF c
  <2> QED
    BY <1>b, <2>2, <2>3, <2>4 DEF c
<1>6. CASE ExecutorReads(q)
  <2>1. /\ UNCHANGED <<assigned, saved, runner, drafts, status, output, spawned, crowded>>
        /\ req[q].pc = "executor"
    BY <1>6 DEF ExecutorReads
  <2>2. \/ req' = [req EXCEPT ![q] = [NoReq EXCEPT !.pc = "invoke", !.patch = output]]
        \/ req' = [req EXCEPT ![q] = NoReq]
    BY <1>6 DEF ExecutorReads
  <2>3. PICK c : /\ req' = [req EXCEPT ![q] = c]
                 /\ c.pc \in {"free", "invoke"} /\ c.patch \in {Null, output}
    BY <1>0, <2>2
  <2>4. MovesTo(q, c)
    BY <2>1, <2>3 DEF MovesTo
  <2> QED
    BY <1>b, <2>1, <2>3, <2>4
<1>7. CASE ToolInvoked(q)
  <2>1. /\ UNCHANGED <<assigned, saved, runner, drafts, status, output, spawned, crowded>>
        /\ req[q].pc = "invoke"
    BY <1>7 DEF ToolInvoked
  <2>2. \/ req' = [req EXCEPT ![q] = [req[q] EXCEPT !.pc = "invoked"]]
        \/ req' = [req EXCEPT ![q] = [NoReq EXCEPT !.pc = "status", !.to = "failed"]]
    BY <1>7 DEF ToolInvoked
  <2>3. [req[q] EXCEPT !.pc = "invoked"].pc = "invoked"
        /\ [req[q] EXCEPT !.pc = "invoked"].patch = req[q].patch
    BY <1>a DEF Call
  <2>4. PICK c : /\ req' = [req EXCEPT ![q] = c]
                 /\ \/ c.pc = "invoked" /\ c.patch = req[q].patch
                    \/ c.pc = "status" /\ ~c.writes /\ c.patch = Null /\ c.to = "failed"
    BY <1>0, <2>2, <2>3
  <2>5. MovesTo(q, c)
    BY <2>1, <2>4 DEF MovesTo
  <2> QED
    BY <1>b, <2>1, <2>4, <2>5
<1>8. CASE ToolRecorded(q)
  <2>1. req[q].patch.tool /\ ~req[q].patch.plan /\ OutputOK(req[q].patch)
    BY <1>8, <1>a DEF ToolRecorded, RequestOK, OneIntent
  <2>2. ~output'.tool /\ ~output'.plan /\ output'.draft = req[q].patch.draft
    BY <1>8, <2>1 DEF ToolRecorded, OutputOK, Output
  <2>3. /\ UNCHANGED <<assigned, saved, runner, drafts, spawned, crowded>>
        /\ req[q].pc = "invoked" /\ status' = "done" /\ req' = [req EXCEPT ![q] = NoReq]
    BY <1>8 DEF ToolRecorded
  <2> QED
    BY <1>b, <2>2, <2>3 DEF RecordsAs
<1> QED
  BY <1>1, <1>2, <1>3, <1>4, <1>5, <1>6, <1>7, <1>8 DEF Request

\* What the patch shows is the caller's, or that of a row that waits.
LEMMA PatchedShows ==
  ASSUME OutputOK(output), NEW c, c.writes \in BOOLEAN, OutputOK(c.patch), NEW to
  PROVE  LET p == Patched(c, to)
         IN \/ /\ p.writes = c.writes /\ p.patch.draft = c.patch.draft
               /\ p.patch.tool = c.patch.tool /\ p.patch.plan = c.patch.plan
               /\ ~p.writes => p.patch = c.patch
            \/ /\ status = "waiting" /\ ~c.writes /\ p.writes /\ p.patch.draft = output.draft
               /\ p.patch.tool = output.tool /\ p.patch.plan = output.plan
<1> DEFINE p == Patched(c, to)
<1> DEFINE leaves == status = "waiting" /\ to # "waiting"
<1>1. p.patch = IF c.writes THEN IF leaves THEN Unstamped(c.patch) ELSE c.patch
                ELSE IF leaves /\ output.notified THEN Unstamped(output) ELSE c.patch
  BY DEF Patched
<1>2. p.writes = (c.writes \/ (leaves /\ output.notified))
  BY DEF Patched
<1>3. leaves => status = "waiting"
  OBVIOUS
<1>4. CASE c.writes
  <2>1. p.writes = c.writes
    BY <1>2, <1>4
  <2> HIDE DEF p, leaves
  <2>2. p.patch = Unstamped(c.patch) \/ p.patch = c.patch
    BY <1>1, <1>4
  <2>3. p.patch.draft = c.patch.draft /\ p.patch.tool = c.patch.tool /\ p.patch.plan = c.patch.plan
    BY <2>2, UnstampedOK
  <2> QED
    BY <1>4, <2>1, <2>3 DEF p
<1>5. CASE ~c.writes /\ leaves /\ output.notified
  <2>1. p.writes
    BY <1>2, <1>5
  <2>2. p.patch = Unstamped(output)
    BY <1>1, <1>5
  <2> HIDE DEF p, leaves
  <2>3. p.patch.draft = output.draft /\ p.patch.tool = output.tool /\ p.patch.plan = output.plan
    BY <2>2, UnstampedOK
  <2> QED
    BY <1>3, <1>5, <2>1, <2>3 DEF p
<1>6. CASE ~c.writes /\ ~(leaves /\ output.notified)
  <2>1. p.writes = c.writes
    BY <1>2, <1>6, Zenon
  <2>2. p.patch = c.patch
    BY <1>1, <1>6, Zenon
  <2> QED
    BY <2>1, <2>2
<1> QED
  BY <1>4, <1>5, <1>6

\* A request keeps what is known of drafts and runs.
LEMMA RequestKeepsPlanInv ==
  ASSUME TypeOK, NoticeInv, PlanInv, NEW q \in Requests, Request(q)
  PROVE  PlanInv'
<1>1. UNCHANGED <<assigned, saved, runner, drafts>>
  BY RequestEffects DEF PlanInv
<1>2. PICK c : /\ req'[q] = c /\ \A p \in Requests \ {q} : req'[p] = req[p]
               /\ \/ OpensAs(q, c) \/ ReadsAs(q, c) \/ MovesTo(q, c)
                  \/ WritesBack(q, c) \/ SpawnsAs(q, c) \/ RecordsAs(q, c)
  BY RequestEffects DEF PlanInv
<1>a. /\ req[q] \in Call(RequestPcs) /\ RequestOK(req[q])
      /\ OutputOK(req[q].patch) /\ req[q].writes \in BOOLEAN
  BY DEF TypeOK, RequestsOK, RequestOK, Call
<1>b. /\ Null.draft = 0 /\ ~Null.tool /\ ~Null.plan
      /\ NoReq.pc = "free" /\ ~NoReq.writes /\ NoReq.patch = Null
  BY DEF NoReq, NoRun, Null
<1>p. ReadsAs(q, c) =>
        /\ c.pc = "update"
        /\ \/ /\ c.patch.draft = req[q].patch.draft /\ c.patch.tool = req[q].patch.tool
              /\ c.patch.plan = req[q].patch.plan
           \/ /\ c.patch.draft = output.draft /\ c.patch.tool = output.tool
              /\ c.patch.plan = output.plan
  <2>1. ReadsAs(q, c) => c.pc = "update"
    BY DEF ReadsAs, Patched
  <2> QED
    BY <1>a, <2>1, PatchedShows DEF ReadsAs, TypeOK
\* What a request carries afterwards.
<1>3. /\ ~(c.patch.tool /\ c.patch.plan)
      /\ c.patch.draft \in {0, output.draft, req[q].patch.draft}
      /\ c.pc = "status" => ~c.writes /\ c.patch = Null
  BY <1>2, <1>b, <1>p DEF PlanInv, OneIntent, OpensAs, MovesTo, WritesBack, SpawnsAs, RecordsAs
\* What it leaves in the row.
<1>4. /\ ~(output'.tool /\ output'.plan)
      /\ output'.draft \in {output.draft, req[q].patch.draft}
      /\ status' = "waiting" => status = "waiting" /\ output' = output
  <2>1. req[q].to # "waiting"
    BY <1>a DEF RequestOK
  <2> QED
    BY <1>2, <2>1 DEF PlanInv, OneIntent, OpensAs, ReadsAs, MovesTo, WritesBack, SpawnsAs,
       RecordsAs, Untouched
<1>5. \/ spawned' = spawned
      \/ /\ output.plan /\ output.draft \in Drafts
         /\ spawned' = [spawned EXCEPT ![output.draft] = @ + 1]
  <2>1. output.plan => output.draft \in Drafts
    BY DEF TypeOK, OutputOK, Output, Drafts
  <2> QED
    BY <1>2, <2>1 DEF OpensAs, ReadsAs, MovesTo, WritesBack, SpawnsAs, RecordsAs, Untouched
<1>6. OneIntent'
  BY <1>1, <1>2, <1>3, <1>4 DEF PlanInv, OneIntent
<1>7. DraftsAreFresh'
  <2>1. CASE spawned' = spawned
    BY <1>1, <2>1 DEF PlanInv, DraftsAreFresh, Writing
  <2>2. CASE output.draft \in Drafts /\ spawned' = [spawned EXCEPT ![output.draft] = @ + 1]
    <3>1. output.draft <= drafts /\ (Writing => output.draft < runner.patch.draft)
      BY DEF NoticeInv
    <3>2. \A n \in Drafts : n # output.draft => spawned'[n] = spawned[n]
      BY <2>2 DEF TypeOK
    <3>3. ASSUME NEW n \in Drafts, n > drafts PROVE spawned'[n] = 0
      <4>1. n # output.draft
        BY <2>2, <3>1, <3>3 DEF Drafts, TypeOK
      <4> QED
        BY <3>2, <3>3, <4>1 DEF PlanInv, DraftsAreFresh
    <3>4. ASSUME Writing PROVE spawned'[runner.patch.draft] = 0
      <4>1. runner.patch.draft \in Drafts
        BY <3>4 DEF Writing, TypeOK, RunOK, OutputOK, Output, Drafts
      <4>2. runner.patch.draft # output.draft
        BY <2>2, <3>1, <3>4, <4>1 DEF Drafts
      <4> QED
        BY <3>2, <3>4, <4>1, <4>2 DEF PlanInv, DraftsAreFresh
    <3> QED
      BY <1>1, <3>3, <3>4 DEF DraftsAreFresh, Writing
  <2> QED
    BY <1>5, <2>1, <2>2
<1>8. NoDraftUnassigned'
  <2> SUFFICES ASSUME ~assigned'
               PROVE  /\ output'.draft = 0 /\ \A n \in Drafts : spawned'[n] = 0
                      /\ \A p \in Requests : req'[p].patch.draft = 0
                      /\ Failing' => runner'.patch.draft = 0
    BY DEF NoDraftUnassigned
  <2>1. /\ output.draft = 0 /\ \A n \in Drafts : spawned[n] = 0
        /\ \A p \in Requests : req[p].patch.draft = 0
        /\ Failing => runner.patch.draft = 0
    BY <1>1 DEF PlanInv, NoDraftUnassigned
  <2>2. spawned' = spawned
    BY <1>5, <2>1 DEF Drafts
  <2> QED
    BY <1>1, <1>2, <1>3, <1>4, <2>1, <2>2 DEF Failing
<1>9. RunIsAway'
  BY <1>1, <1>4 DEF PlanInv, RunIsAway, Working, Failing
<1>10. StartsEmpty'
  BY <1>2, <1>3 DEF PlanInv, StartsEmpty
<1> QED
  BY <1>6, <1>7, <1>8, <1>9, <1>10 DEF PlanInv

\* What a step of the run leaves: no request changes and no child is inserted;
\* the row waits only for the draft the run shows.
LEMMA RunEffects ==
  ASSUME TypeOK, Run
  PROVE  /\ UNCHANGED <<req, spawned, crowded>>
         /\ \/ RunWrites \/ (output' = output /\ assigned' = assigned)
         /\ \/ RunWrites \/ (status' = "waiting" => status = "waiting")
         /\ \/ RunWrites \/ RunClaims \/ RowReclaimed \/ status' = status
         /\ \/ GraphDrafts \/ drafts' = drafts
<1> USE DEF bounds, history, crowd, resume
<1> QED
  BY DEF Run, RunClaims, GraphDrafts, GraphFinishes, GraphThrows, RunReads, RunWrites,
         RunLogs, RunFails, RunStumbles, RowReclaimed

\* The run keeps what is known of drafts and runs.
LEMMA RunKeepsPlanInv ==
  ASSUME TypeOK, NoticeInv, PlanInv, Run
  PROVE  PlanInv'
<1> USE DEF bounds, history, crowd, resume
<1>1. /\ UNCHANGED <<req, spawned>>
      /\ \/ RunWrites \/ (output' = output /\ assigned' = assigned)
      /\ \/ RunWrites \/ (status' = "waiting" => status = "waiting")
  BY RunEffects
<1>a. /\ runner \in Call(RunnerPcs) /\ RunOK(runner) /\ OutputOK(runner.patch)
      /\ OutputOK(output) /\ OutputOK(saved) /\ runner.writes \in BOOLEAN
  BY DEF TypeOK, RunOK, Call
<1>b. /\ Null.draft = 0 /\ ~Null.tool /\ ~Null.plan
      /\ NoRun.pc = "free" /\ ~NoRun.writes /\ NoRun.patch = Null /\ NoRun.to = "failed"
      /\ \A x \in {"graph", "error"} :
           /\ [NoRun EXCEPT !.pc = x].pc = x /\ ~[NoRun EXCEPT !.pc = x].writes
           /\ [NoRun EXCEPT !.pc = x].patch = Null /\ [NoRun EXCEPT !.pc = x].to = "failed"
  BY DEF NoRun, Null
<1>2. StartsEmpty'
  BY <1>1 DEF PlanInv, StartsEmpty
\* A run that stops, or has nothing yet, with the row as it was.
<1>3. ASSUME runner' = NoRun \/ runner' = [NoRun EXCEPT !.pc = "graph"]
             \/ runner' = [NoRun EXCEPT !.pc = "error"],
             UNCHANGED <<output, assigned, drafts>>, saved' \in {Null, saved},
             runner'.pc = "graph" => status' # "waiting",
             runner'.pc = "error" /\ status' = "waiting" => ~output.plan
      PROVE  PlanInv'
  <2>1. /\ runner'.pc \in {"free", "graph", "error"} /\ ~runner'.writes
        /\ runner'.patch = Null
    BY <1>b, <1>3
  <2>2. OneIntent'
    BY <1>1, <1>b, <1>3, <2>1 DEF PlanInv, OneIntent
  <2>3. DraftsAreFresh'
    BY <1>1, <1>3, <2>1 DEF PlanInv, DraftsAreFresh, Writing
  <2>4. NoDraftUnassigned'
    BY <1>1, <1>3, <2>1 DEF PlanInv, NoDraftUnassigned, Failing
  <2>5. RunIsAway'
    BY <1>3, <2>1 DEF RunIsAway, Working, Failing
  <2> QED
    BY <1>2, <2>2, <2>3, <2>4, <2>5 DEF PlanInv
<1>4. CASE RunClaims
  BY <1>3, <1>4, <1>b DEF RunClaims
<1>5. CASE GraphDrafts
  <2>1. PICK tool \in BOOLEAN, plan \in BOOLEAN :
          /\ ~(tool /\ plan)
          /\ saved' = [Null EXCEPT !.draft = drafts + 1, !.tool = tool, !.plan = plan]
          /\ runner' = [pc |-> "draft", to |-> "waiting", writes |-> TRUE, patch |-> saved']
    BY <1>5 DEF GraphDrafts
  <2>2. /\ saved'.tool = tool /\ saved'.plan = plan /\ saved'.draft = drafts + 1
        /\ runner'.pc = "draft" /\ runner'.to = "waiting" /\ runner'.patch = saved'
    BY <2>1 DEF Null
  <2>3. UNCHANGED <<status, output, assigned>> /\ drafts' = drafts + 1
        /\ runner.pc = "graph" /\ drafts + 1 \in Drafts
    BY <1>5, BoundsAreNaturals DEF GraphDrafts, TypeOK, Drafts
  <2>4. OneIntent'
    BY <1>1, <2>1, <2>2, <2>3 DEF PlanInv, OneIntent
  <2>5. DraftsAreFresh'
    <3>1. spawned[drafts + 1] = 0
      BY <2>3 DEF PlanInv, DraftsAreFresh, TypeOK
    <3>2. \A n \in Drafts : n > drafts + 1 => n > drafts
      BY DEF Drafts, TypeOK
    <3> QED
      BY <1>1, <2>2, <2>3, <3>1, <3>2 DEF PlanInv, DraftsAreFresh
  <2>6. NoDraftUnassigned'
    BY <1>1, <2>2, <2>3 DEF PlanInv, NoDraftUnassigned, Failing
  <2>7. RunIsAway'
    BY <2>2, <2>3 DEF PlanInv, RunIsAway, Working, Failing
  <2> QED
    BY <1>2, <2>4, <2>5, <2>6, <2>7 DEF PlanInv
<1>6. CASE GraphFinishes
  <2>1. /\ runner' = [pc |-> "draft", to |-> "done", writes |-> TRUE, patch |-> saved]
        /\ runner.pc = "graph" /\ ~assigned
        /\ UNCHANGED <<status, output, saved, assigned, drafts>>
    BY <1>6 DEF GraphFinishes
  <2>2. runner'.pc = "draft" /\ runner'.to = "done" /\ runner'.patch = saved
    BY <2>1
  <2>3. OneIntent' /\ DraftsAreFresh'
    BY <1>1, <2>1, <2>2 DEF PlanInv, OneIntent, DraftsAreFresh, Writing
  <2>4. NoDraftUnassigned' /\ RunIsAway'
    BY <1>1, <2>1, <2>2 DEF PlanInv, NoDraftUnassigned, Failing, RunIsAway, Working
  <2> QED
    BY <1>2, <2>3, <2>4 DEF PlanInv
<1>7. CASE GraphThrows
  <2>1. status # "waiting"
    BY <1>7 DEF GraphThrows, PlanInv, RunIsAway, Working
  <2> QED
    BY <1>3, <1>7, <1>b, <2>1 DEF GraphThrows
<1>8. CASE RunReads
  <2>1. UNCHANGED <<status, output, saved, assigned, drafts>> /\ runner.pc = "draft"
        /\ status # "waiting" /\ runner.to # "failed"
    BY <1>8 DEF RunReads, PlanInv, RunIsAway, Working
  <2>2. CASE runner' = [NoRun EXCEPT !.pc = "error"]
    BY <1>3, <1>b, <2>1, <2>2
  <2>3. CASE runner' = Patched(runner, runner.to)
    <3>1. runner'.pc = "update" /\ runner'.to = runner.to
      BY <2>3 DEF Patched
    <3>2. /\ runner'.patch.draft = runner.patch.draft /\ runner'.patch.tool = runner.patch.tool
          /\ runner'.patch.plan = runner.patch.plan
      BY <1>a, <2>1, <2>3, PatchedShows
    <3>3. OneIntent'
      BY <1>1, <2>1, <3>2 DEF PlanInv, OneIntent
    <3>4. DraftsAreFresh'
      BY <1>1, <2>1, <3>1, <3>2 DEF PlanInv, DraftsAreFresh, Writing
    <3>5. NoDraftUnassigned' /\ RunIsAway'
      BY <1>1, <2>1, <3>1 DEF PlanInv, NoDraftUnassigned, Failing, RunIsAway, Working
    <3> QED
      BY <1>2, <3>3, <3>4, <3>5 DEF PlanInv
  <2> QED
    BY <1>8, <2>2, <2>3 DEF RunReads
<1>9. CASE RunWrites
  <2>1. /\ UNCHANGED <<saved, drafts>> /\ runner.pc = "update" /\ status' = runner.to
        /\ output' = IF runner.writes THEN runner.patch ELSE output
        /\ runner' = IF runner.to = "failed" THEN NoRun ELSE [runner EXCEPT !.pc = "log"]
        /\ assigned' = (assigned \/ (runner.to # "failed" /\ runner.patch.draft # 0))
    BY <1>9 DEF RunWrites, SetStatus
  <2>2. [runner EXCEPT !.pc = "log"].pc = "log"
        /\ [runner EXCEPT !.pc = "log"].patch = runner.patch
        /\ [runner EXCEPT !.pc = "log"].to = runner.to
    BY <1>a DEF Call
  <2>3. /\ runner'.pc \in {"free", "log"} /\ runner'.patch \in {Null, runner.patch}
        /\ runner'.pc = "log" => runner.to # "failed" /\ runner'.to = runner.to
                                 /\ runner'.patch = runner.patch
    BY <1>b, <2>1, <2>2
  <2>4. output' \in {output, runner.patch} /\ (runner.to = "waiting" => output' = runner.patch)
    BY <1>a, <2>1 DEF RunOK
  <2>5. OneIntent'
    BY <1>1, <1>b, <2>1, <2>3, <2>4 DEF PlanInv, OneIntent
  <2>6. DraftsAreFresh'
    BY <1>1, <2>1, <2>3 DEF PlanInv, DraftsAreFresh, Writing
  <2>7. NoDraftUnassigned'
    <3> SUFFICES ASSUME ~assigned' PROVE output'.draft = 0
      BY <1>1, <2>1, <2>3 DEF PlanInv, NoDraftUnassigned, Failing
    <3>1. ~assigned /\ (runner.to = "failed" \/ runner.patch.draft = 0)
      BY <2>1
    <3> QED
      BY <2>1, <2>4, <3>1 DEF PlanInv, NoDraftUnassigned, Failing
  <2>8. RunIsAway'
    BY <2>1, <2>3, <2>4 DEF PlanInv, RunIsAway, Working, Failing
  <2> QED
    BY <1>2, <2>5, <2>6, <2>7, <2>8 DEF PlanInv
<1>10. CASE RunLogs
  <2>1. UNCHANGED <<status, output, saved, assigned, drafts>> /\ runner.pc = "log"
    BY <1>10 DEF RunLogs
  <2>2. \/ runner' = NoRun
        \/ /\ runner' = [NoRun EXCEPT !.pc = "error"]
           /\ runner.to = "done" \/ ~runner.patch.plan
    BY <1>10 DEF RunLogs
  <2>3. runner'.pc = "error" /\ status = "waiting" => ~output.plan
    BY <1>b, <2>1, <2>2 DEF PlanInv, RunIsAway
  <2> QED
    BY <1>3, <1>b, <2>1, <2>2, <2>3
<1>11. CASE RunFails
  <2>1. UNCHANGED <<status, output, saved, assigned, drafts>> /\ runner.pc = "error"
    BY <1>11 DEF RunFails
  <2>2. CASE runner' = NoRun
    BY <1>3, <1>b, <2>1, <2>2
  <2>3. CASE runner' = Patched(runner, "failed")
    <3>1. runner'.pc = "update" /\ runner'.to = "failed"
      BY <2>3 DEF Patched
    <3>2. ~runner.writes /\ runner.patch = Null /\ (status = "waiting" => ~output.plan)
      BY <2>1 DEF PlanInv, RunIsAway
    <3>3. /\ ~(runner'.patch.tool /\ runner'.patch.plan) /\ ~runner'.patch.plan
          /\ runner'.patch.draft = 0 \/ (status = "waiting" /\ runner'.patch.draft = output.draft)
      BY <1>a, <1>b, <2>3, <3>2, PatchedShows
    <3>4. OneIntent'
      BY <1>1, <2>1, <3>3 DEF PlanInv, OneIntent
    <3>5. DraftsAreFresh' /\ RunIsAway'
      BY <1>1, <2>1, <3>1, <3>3 DEF PlanInv, DraftsAreFresh, Writing, RunIsAway, Working, Failing
    <3>6. NoDraftUnassigned'
      BY <1>1, <2>1, <3>3 DEF PlanInv, NoDraftUnassigned
    <3> QED
      BY <1>2, <3>4, <3>5, <3>6 DEF PlanInv
  <2> QED
    BY <1>11, <2>2, <2>3 DEF RunFails
<1>12. CASE RunStumbles
  <2>1. UNCHANGED <<status, output, saved, assigned, drafts>>
    BY <1>12 DEF RunStumbles
  <2>2. \/ runner' = NoRun
        \/ runner' = [NoRun EXCEPT !.pc = "error"] /\ Working
    BY <1>12 DEF RunStumbles, Working
  <2>3. Working => status # "waiting"
    BY DEF PlanInv, RunIsAway
  <2> QED
    BY <1>3, <1>b, <2>1, <2>2, <2>3
<1>13. CASE RowReclaimed
  <2>1. UNCHANGED <<output, saved, assigned, drafts, runner>> /\ status' = "todo"
        /\ runner.pc = "free"
    BY <1>13 DEF RowReclaimed
  <2> QED
    BY <1>1, <1>2, <2>1 DEF PlanInv, OneIntent, DraftsAreFresh, NoDraftUnassigned, RunIsAway,
       Writing, Working, Failing
<1> QED
  BY <1>4, <1>5, <1>6, <1>7, <1>8, <1>9, <1>10, <1>11, <1>12, <1>13 DEF Run

\* A watcher changes a stamp, and nothing of a plan.
LEMMA WatcherKeepsPlan ==
  ASSUME TypeOK, (\E w \in Watchers : Watcher(w)) \/ UNCHANGED vars
  PROVE  /\ UNCHANGED <<status, assigned, saved, runner, req, drafts, spawned, crowded>>
         /\ output'.draft = output.draft /\ output'.tool = output.tool
         /\ output'.plan = output.plan
  BY DEF Watcher, WatcherClaims, WatcherMails, vars, bounds, history, crowd, resume,
         TypeOK, OutputOK, Output

\* No three requests have been open at once.
TwoOpen ==
  \A p, q, r \in Requests :
    p # q /\ q # r /\ p # r => "free" \in {req[p].pc, req[q].pc, req[r].pc}

\* While one request is about to write a plan back, no other can find the task
\* under way with its approval still to spawn.
NoneSpawnsAside ==
  \A p, q \in Requests :
    CarriesPlan(q) /\ req[p].pc = "spawn" => status \notin {"todo", "in_progress"}

\* A plan about to be written back whose children exist finds the task ended,
\* and nobody to spawn it or to take the task up again.
SpentComesBackLate ==
  \A q \in Requests : CarriesPlan(q) /\ Spent(req[q].patch) =>
    /\ status \in {"done", "failed"} /\ ~Working
    /\ \A p \in Requests \ {q} :
         req[p].pc # "spawn" /\ (req[p].pc \in {"status", "update"} => req[p].to # "todo")

\* A plan in the row whose children exist is never approved.
SpentIsSafe ==
  Spent(output) => status # "waiting" /\ \A p \in Requests : req[p].pc # "spawn"

\* SpawnOncePerPlan with what keeps it so.
SpawnInv ==
  ~crowded => TwoOpen /\ NoneSpawnsAside /\ SpentComesBackLate /\ SpentIsSafe /\ SpawnOncePerPlan

\* With no more than two requests open, one beside q and p is not.
LEMMA ThirdIsFree ==
  ASSUME TwoOpen, NEW p \in Requests, NEW q \in Requests, NEW r \in Requests,
         p # q, r # p, r # q, req[p].pc # "free", req[q].pc # "free"
  PROVE  req[r].pc = "free"
BY DEF TwoOpen

\* The run keeps it.
LEMMA RunKeepsSpawnInv ==
  ASSUME TypeOK, PlanInv, SpawnInv, Run
  PROVE  SpawnInv'
<1> USE DEF bounds, history, crowd, resume
<1> SUFFICES ASSUME ~crowded' PROVE SpawnInv'
  BY DEF SpawnInv
<1>1. /\ UNCHANGED <<req, spawned, crowded>>
      /\ \/ RunWrites \/ (output' = output /\ assigned' = assigned)
      /\ \/ RunWrites \/ (status' = "waiting" => status = "waiting")
      /\ \/ RunWrites \/ RunClaims \/ RowReclaimed \/ status' = status
  BY RunEffects
<1>2. /\ TwoOpen /\ NoneSpawnsAside /\ SpentComesBackLate /\ SpentIsSafe
      /\ \A n \in Drafts : spawned[n] <= 1
  BY <1>1 DEF SpawnInv, SpawnOncePerPlan
<1>3. TwoOpen' /\ SpawnOncePerPlan'
  BY <1>1, <1>2 DEF TwoOpen, SpawnOncePerPlan
<1>4. RunWrites => /\ status' = runner.to /\ runner.to \in {"waiting", "done", "failed"}
                   /\ output' = IF runner.writes THEN runner.patch ELSE output
                   /\ runner.pc = "update"
  BY DEF RunWrites, SetStatus, TypeOK, RunOK, Call
<1>5. status' \in {"todo", "in_progress"} => status \in {"todo", "in_progress"}
  BY <1>1, <1>4 DEF RunClaims, RowReclaimed
<1>6. NoneSpawnsAside'
  BY <1>1, <1>2, <1>5 DEF NoneSpawnsAside, CarriesPlan
<1>7. SpentComesBackLate'
  <2> SUFFICES ASSUME NEW q \in Requests, CarriesPlan(q), Spent(req[q].patch)
               PROVE  status' \in {"done", "failed"} /\ ~Working'
    BY <1>1, <1>2 DEF SpentComesBackLate, CarriesPlan, Spent
  <2>1. status \in {"done", "failed"} /\ ~Working
    BY <1>2 DEF SpentComesBackLate
  <2>2. status' \in {"done", "failed"}
    BY <1>1, <1>4, <2>1 DEF RunClaims, RowReclaimed, Working
  <2>3. ~Working'
    <3>1. \/ runner' = NoRun \/ runner' = [NoRun EXCEPT !.pc = "error"]
          \/ runner' = [runner EXCEPT !.pc = "log"] \/ runner' = Patched(runner, "failed")
          \/ runner' = runner
      BY <2>1 DEF Run, RunClaims, GraphDrafts, GraphFinishes, GraphThrows, RunReads, RunWrites,
         RunLogs, RunFails, RunStumbles, RowReclaimed, Working
    <3>2. /\ NoRun.pc = "free" /\ [NoRun EXCEPT !.pc = "error"].pc = "error"
          /\ [runner EXCEPT !.pc = "log"].pc = "log" /\ Patched(runner, "failed").to = "failed"
          /\ Patched(runner, "failed").pc = "update"
      BY DEF NoRun, Patched, TypeOK, RunOK, Call
    <3> QED
      BY <2>1, <3>1, <3>2 DEF Working
  <2> QED
    BY <2>2, <2>3
<1>8. SpentIsSafe'
  <2> SUFFICES ASSUME Spent(output)'
               PROVE  status' # "waiting" /\ \A p \in Requests : req[p].pc # "spawn"
    BY <1>1 DEF SpentIsSafe
  <2>1. CASE output' = output /\ (status' = "waiting" => status = "waiting")
    BY <1>1, <1>2, <2>1 DEF SpentIsSafe, Spent
  <2>2. CASE RunWrites /\ runner.to = "failed"
    <3>1. output' = output
      BY <1>4, <2>2 DEF PlanInv, RunIsAway, Failing, Spent
    <3> QED
      BY <1>1, <1>2, <1>4, <2>2, <3>1 DEF SpentIsSafe, Spent
  <2>3. CASE RunWrites /\ runner.to = "done"
    <3>1. ~assigned /\ \A n \in Drafts : spawned[n] = 0
      BY <1>4, <2>3 DEF PlanInv, RunIsAway, NoDraftUnassigned
    <3>2. OutputOK(output')
      BY <1>4, <2>3 DEF TypeOK, RunOK
    <3>3. output'.plan => output'.draft \in Drafts
      BY <3>2 DEF OutputOK, Output, Drafts
    <3> QED
      BY <1>1, <3>1, <3>3 DEF Spent
  <2>4. CASE RunWrites /\ runner.to = "waiting"
    <3>1. output' = runner.patch /\ Writing
      BY <1>4, <2>4 DEF TypeOK, RunOK, Writing
    <3> QED
      BY <1>1, <3>1 DEF PlanInv, DraftsAreFresh, Spent
  <2> QED
    BY <1>1, <1>4, <2>1, <2>2, <2>3, <2>4
<1> QED
  BY <1>2, <1>3, <1>6, <1>7, <1>8 DEF SpawnInv

\* A request keeps it.
LEMMA RequestKeepsSpawnInv ==
  ASSUME TypeOK, PlanInv, SpawnInv, NEW q \in Requests, Request(q)
  PROVE  SpawnInv'
<1> SUFFICES ASSUME ~crowded' PROVE SpawnInv'
  BY DEF SpawnInv
<1>1. UNCHANGED <<assigned, saved, runner, drafts>>
  BY RequestEffects DEF PlanInv
<1>2. PICK c : /\ req'[q] = c /\ \A p \in Requests \ {q} : req'[p] = req[p]
               /\ \/ OpensAs(q, c) \/ ReadsAs(q, c) \/ MovesTo(q, c)
                  \/ WritesBack(q, c) \/ SpawnsAs(q, c) \/ RecordsAs(q, c)
  BY RequestEffects DEF PlanInv
<1>3. ~crowded
  BY <1>2 DEF OpensAs, ReadsAs, MovesTo, WritesBack, SpawnsAs, RecordsAs, Untouched, Opens
<1>4. /\ TwoOpen /\ NoneSpawnsAside /\ SpentComesBackLate /\ SpentIsSafe
      /\ \A n \in Drafts : spawned[n] <= 1
  BY <1>3 DEF SpawnInv, SpawnOncePerPlan
<1>a. req[q] \in Call(RequestPcs) /\ RequestOK(req[q])
  BY DEF TypeOK, RequestsOK
<1>0. NoReq.pc = "free"
  BY DEF NoReq, NoRun
\* Two at most, still.
<1>5. TwoOpen'
  <2>1. CASE OpensAs(q, c)
    <3> DEFINE others == {p \in Requests \ {q} : req[p].pc # "free"}
    <3>1. crowded' = (crowded \/ \E p, r \in others : p # r)
      BY <2>1 DEF OpensAs, Opens
    <3>2. ~\E p, r \in others : p # r
      BY <3>1
    <3>3. \A p, r \in Requests \ {q} : p # r => req[p].pc = "free" \/ req[r].pc = "free"
      BY <3>2
    <3>4. \A p \in Requests \ {q} : req'[p].pc = req[p].pc
      BY <1>2
    <3> HIDE DEF others
    <3> SUFFICES ASSUME NEW x \in Requests, NEW y \in Requests, NEW z \in Requests,
                        x # y, y # z, x # z
                 PROVE  "free" \in {req'[x].pc, req'[y].pc, req'[z].pc}
      BY DEF TwoOpen
    <3> QED
      BY <3>3, <3>4
  <2>2. CASE ~OpensAs(q, c)
    <3>1. req[q].pc # "free"
      BY <1>2, <2>2 DEF ReadsAs, MovesTo, WritesBack, SpawnsAs, RecordsAs
    <3> QED
      BY <1>2, <1>4, <3>1 DEF TwoOpen
  <2> QED
    BY <2>1, <2>2
\* A new approval finds the task waiting; nothing else comes to spawn.
<1>6. c.pc = "spawn" => OpensAs(q, c) /\ status = "waiting" /\ status' = "waiting"
  BY <1>0, <1>2 DEF OpensAs, ReadsAs, MovesTo, WritesBack, SpawnsAs, RecordsAs, Patched
\* A request comes to carry a plan by reading it from a task that waits.
<1>7. CarriesPlan(q)' =>
        /\ ReadsAs(q, c) /\ status = "waiting" /\ status' = "waiting"
        /\ c.patch.plan = output.plan /\ c.patch.draft = output.draft
  <2> SUFFICES ASSUME CarriesPlan(q)'
               PROVE  /\ ReadsAs(q, c) /\ status = "waiting" /\ status' = "waiting"
                      /\ c.patch.plan = output.plan /\ c.patch.draft = output.draft
    OBVIOUS
  <2>1. c.pc = "update" /\ c.writes
    BY <1>2 DEF CarriesPlan
  <2>2. ReadsAs(q, c)
    BY <1>0, <1>2, <2>1 DEF OpensAs, MovesTo, WritesBack, SpawnsAs, RecordsAs
  <2>3. ~req[q].writes
    BY <2>2 DEF ReadsAs, PlanInv, StartsEmpty
  <2>4. req[q].writes \in BOOLEAN /\ OutputOK(req[q].patch) /\ OutputOK(output)
    BY <1>a DEF Call, RequestOK, TypeOK
  <2>5. c = Patched(req[q], req[q].to) /\ status' = status
    BY <2>2 DEF ReadsAs, Untouched
  <2>6. /\ status = "waiting" /\ c.patch.draft = output.draft /\ c.patch.plan = output.plan
    BY <2>1, <2>3, <2>4, <2>5, PatchedShows
  <2> QED
    BY <2>2, <2>5, <2>6
<1>8. \A p \in Requests \ {q} : CarriesPlan(p)' <=> CarriesPlan(p)
  BY <1>2 DEF CarriesPlan
\* The row may come out of 'waiting' only.
<1>9. status' = "waiting" => status = "waiting" /\ output' = output
  <2>1. req[q].to # "waiting"
    BY <1>a DEF RequestOK
  <2> QED
    BY <1>2, <2>1 DEF OpensAs, ReadsAs, MovesTo, WritesBack, SpawnsAs, RecordsAs, Untouched
\* Only a write-back that asks for it takes the task up again.
<1>10. status' \in {"todo", "in_progress"} =>
         \/ status \in {"todo", "in_progress"}
         \/ req[q].pc = "update" /\ req[q].to = "todo"
  <2>1. req[q].to \in {"todo", "done", "failed"}
    BY <1>a DEF RequestOK, Call
  <2> QED
    BY <1>2, <2>1 DEF OpensAs, ReadsAs, MovesTo, WritesBack, SpawnsAs, RecordsAs, Untouched
<1>11. NoneSpawnsAside'
  <2> SUFFICES ASSUME NEW p \in Requests, NEW r \in Requests, CarriesPlan(r)', req'[p].pc = "spawn",
                      status' \in {"todo", "in_progress"}
               PROVE  FALSE
    BY DEF NoneSpawnsAside
  <2>1. p # q /\ r # q
    BY <1>2, <1>6, <1>7
  <2>2. CarriesPlan(r) /\ req[p].pc = "spawn"
    BY <1>2, <1>8, <2>1
  <2>3. status \notin {"todo", "in_progress"}
    BY <1>4, <2>2 DEF NoneSpawnsAside
  <2>4. req[q].pc = "update" /\ p # r
    BY <1>10, <2>2, <2>3 DEF CarriesPlan
  <2>5. req[q].pc = "free"
    BY <1>4, <2>1, <2>2, <2>4, ThirdIsFree DEF CarriesPlan
  <2> QED
    BY <2>4, <2>5
\* The children of a plan come only where it waits unspent, or where nobody
\* else carries it.
<1>12. ASSUME SpawnsAs(q, c), output.plan
       PROVE  /\ output.draft \in Drafts /\ spawned[output.draft] = 0
              /\ \A n \in Drafts : spawned'[n] = IF n = output.draft THEN 1 ELSE spawned[n]
  <2>1. output.draft \in Drafts
    BY <1>12 DEF TypeOK, OutputOK, Output, Drafts
  <2>2. req[q].pc = "spawn"
    BY <1>12 DEF SpawnsAs
  <2>3. ~(spawned[output.draft] > 0)
    BY <1>4, <1>12, <2>2 DEF SpentIsSafe, Spent
  <2>4. spawned[output.draft] = 0
    BY <2>1, <2>3 DEF TypeOK
  <2>5. spawned' = [spawned EXCEPT ![output.draft] = @ + 1]
    BY <1>12 DEF SpawnsAs
  <2> QED
    BY <2>1, <2>4, <2>5 DEF TypeOK
<1>13. (SpawnsAs(q, c) /\ output.plan) \/ spawned' = spawned
  BY <1>2 DEF OpensAs, ReadsAs, MovesTo, WritesBack, SpawnsAs, RecordsAs, Untouched
<1>14. SpawnOncePerPlan'
  BY <1>4, <1>12, <1>13 DEF SpawnOncePerPlan
<1>15. SpentComesBackLate'
  <2> SUFFICES ASSUME NEW r \in Requests, CarriesPlan(r)', Spent(req[r].patch)'
               PROVE  /\ status' \in {"done", "failed"} /\ ~Working'
                      /\ \A p \in Requests \ {r} :
                           /\ req'[p].pc # "spawn"
                           /\ req'[p].pc \in {"status", "update"} => req'[p].to # "todo"
    BY DEF SpentComesBackLate
  <2>1. r # q
    <3> SUFFICES ASSUME r = q PROVE FALSE
      OBVIOUS
    <3>1. spawned' = spawned /\ status = "waiting" /\ c.patch.plan /\ output.plan
          /\ c.patch.draft = output.draft
      BY <1>2, <1>7 DEF ReadsAs, Untouched, CarriesPlan
    <3>2. Spent(output)
      BY <1>2, <3>1 DEF Spent
    <3> QED
      BY <1>4, <3>1, <3>2 DEF SpentIsSafe
  <2>2. CarriesPlan(r) /\ req'[r] = req[r]
    BY <1>2, <1>8, <2>1
  <2>3. Working' <=> Working
    BY <1>1 DEF Working
  <2>4. CASE Spent(req[r].patch)
    <3>1. /\ status \in {"done", "failed"} /\ ~Working
          /\ \A p \in Requests \ {r} :
               req[p].pc # "spawn" /\ (req[p].pc \in {"status", "update"} => req[p].to # "todo")
      BY <1>4, <2>2, <2>4 DEF SpentComesBackLate
    <3>2. req[q].to \in {"todo", "done", "failed"} /\ (req[q].pc = "update" => req[q].to # "todo")
      BY <1>a, <2>1, <3>1 DEF RequestOK, Call
    <3>3. status' \in {"done", "failed"}
      BY <1>2, <3>1, <3>2 DEF OpensAs, ReadsAs, MovesTo, WritesBack, SpawnsAs, RecordsAs, Untouched
    <3>4. c.pc # "spawn"
      BY <1>6, <3>1
    <3>5. c.pc \in {"status", "update"} => c.to # "todo"
      <4>1. ReadsAs(q, c) => c.to = req[q].to /\ req[q].to # "todo"
        BY <2>1, <3>1 DEF ReadsAs, Patched
      <4> QED
        BY <1>0, <1>2, <3>1, <4>1 DEF OpensAs, MovesTo, WritesBack, SpawnsAs, RecordsAs
    <3> QED
      BY <1>2, <2>3, <3>1, <3>3, <3>4, <3>5
  \* q has just inserted the children of the plan that r carries.
  <2>5. CASE ~Spent(req[r].patch)
    <3>1. SpawnsAs(q, c)
      BY <1>13, <2>2, <2>5 DEF Spent
    <3>2. req[q].pc = "spawn" /\ CanTransition(status, "done") /\ status' = "done" /\ c.pc = "log"
      BY <3>1 DEF SpawnsAs
    <3>3. status = "waiting"
      <4>1. status \notin {"todo", "in_progress"}
        BY <1>4, <2>2, <3>2 DEF NoneSpawnsAside
      <4> QED
        BY <3>2, <4>1 DEF CanTransition, Allowed, TypeOK, Status
    <3>4. ~Working
      BY <3>3 DEF PlanInv, RunIsAway
    <3>5. \A p \in Requests \ {r, q} : req'[p].pc = "free"
      BY <1>2, <1>4, <2>1, <2>2, <3>2, ThirdIsFree DEF CarriesPlan
    <3> QED
      BY <1>2, <2>3, <3>2, <3>4, <3>5
  <2> QED
    BY <2>4, <2>5
<1>16. SpentIsSafe'
  <2> SUFFICES ASSUME Spent(output)'
               PROVE  status' # "waiting" /\ \A p \in Requests : req'[p].pc # "spawn"
    BY DEF SpentIsSafe
  <2>1. spawned' = spawned
    BY <1>13 DEF SpawnsAs, Spent
  <2>2. CASE Spent(output)
    <3>1. status # "waiting" /\ \A p \in Requests : req[p].pc # "spawn"
      BY <1>4, <2>2 DEF SpentIsSafe
    <3> QED
      BY <1>2, <1>6, <1>9, <3>1
  \* q has written back the plan it carried.
  <2>3. CASE ~Spent(output)
    <3>1. WritesBack(q, c) /\ CarriesPlan(q) /\ Spent(req[q].patch)
      BY <1>2, <2>1, <2>3 DEF Spent, OpensAs, ReadsAs, MovesTo, WritesBack, SpawnsAs, RecordsAs,
         Untouched, CarriesPlan
    <3>2. \A p \in Requests \ {q} : req[p].pc # "spawn"
      BY <1>4, <3>1 DEF SpentComesBackLate
    <3>3. c.pc # "spawn" /\ status' # "waiting"
      BY <1>0, <1>a, <3>1 DEF WritesBack, RequestOK
    <3> QED
      BY <1>2, <3>2, <3>3
  <2> QED
    BY <2>2, <2>3
<1> QED
  BY <1>5, <1>11, <1>14, <1>15, <1>16 DEF SpawnInv

\* As long as no three requests have been open at once, the children of a plan
\* are inserted once: of two, the one that brings a spent plan back finds no
\* other whose approval could still spawn it.
THEOREM SpawnOnceSafe == Spec => []SpawnOncePerPlan
<1>1. Init => PlanInv /\ SpawnInv
  <2> SUFFICES ASSUME Init PROVE PlanInv /\ SpawnInv
    OBVIOUS
  <2>1. /\ Null.draft = 0 /\ ~Null.tool /\ ~Null.plan
        /\ NoReq.pc = "free" /\ ~NoReq.writes /\ NoReq.patch = Null
        /\ NoRun.pc = "free" /\ ~NoRun.writes /\ NoRun.patch = Null
    BY DEF NoReq, NoRun, Null
  <2>2. /\ status = "todo" /\ output = Null /\ saved = Null /\ runner = NoRun
        /\ \A q \in Requests : req[q] = NoReq
        /\ \A n \in Drafts : spawned[n] = 0
    BY DEF Init
  <2>3. PlanInv
    BY <2>1, <2>2 DEF PlanInv, OneIntent, DraftsAreFresh, NoDraftUnassigned, RunIsAway,
       StartsEmpty, Working, Failing, Writing
  <2>4. SpawnInv
    BY <2>1, <2>2 DEF SpawnInv, TwoOpen, NoneSpawnsAside, SpentComesBackLate, SpentIsSafe,
       SpawnOncePerPlan, CarriesPlan, Spent
  <2> QED
    BY <2>3, <2>4
<1>2. TypeOK /\ NoticeInv /\ PlanInv /\ SpawnInv /\ [Next]_vars => PlanInv' /\ SpawnInv'
  <2> SUFFICES ASSUME TypeOK, NoticeInv, PlanInv, SpawnInv, [Next]_vars
               PROVE  PlanInv' /\ SpawnInv'
    OBVIOUS
  <2>1. CASE \E q \in Requests : Request(q)
    BY <2>1, RequestKeepsPlanInv, RequestKeepsSpawnInv
  <2>2. CASE Run
    BY <2>2, RunKeepsPlanInv, RunKeepsSpawnInv
  <2>3. CASE (\E w \in Watchers : Watcher(w)) \/ UNCHANGED vars
    <3>1. /\ UNCHANGED <<status, assigned, saved, runner, req, drafts, spawned, crowded>>
          /\ output'.draft = output.draft /\ output'.tool = output.tool
          /\ output'.plan = output.plan
      BY <2>3, WatcherKeepsPlan
    <3>2. PlanInv'
      BY <3>1 DEF PlanInv, OneIntent, DraftsAreFresh, NoDraftUnassigned, RunIsAway,
         StartsEmpty, Working, Failing, Writing
    <3>3. SpawnInv'
      BY <3>1 DEF SpawnInv, TwoOpen, NoneSpawnsAside, SpentComesBackLate, SpentIsSafe,
         SpawnOncePerPlan, CarriesPlan, Spent, Working
    <3> QED
      BY <3>2, <3>3
  <2> QED
    BY <2>1, <2>2, <2>3 DEF Next
<1>3. PlanInv /\ SpawnInv => SpawnOncePerPlan
  BY DEF SpawnInv, SpawnOncePerPlan
<1> QED
  BY <1>1, <1>2, <1>3, GateTypeCorrect, NoticeAlways, PTL DEF Spec
=============================================================================
