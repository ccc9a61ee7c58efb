---------------------------- MODULE ThreadProofs ----------------------------
(***************************************************************************)
(* What holds of Thread for any agents, requests, replies, runs and        *)
(* faults, and any limit on the supersteps.                                *)
(***************************************************************************)
EXTENDS Thread, TLAPS, FiniteSetTheorems

-----------------------------------------------------------------------------
(* Numbers and sequences.                                                  *)

\* A set of numbers that is not empty has a least one.
LEMMA Least ==
  ASSUME NEW T \in SUBSET Nat, T # {}
  PROVE  \E m \in T : \A k \in T : m <= k
<1> DEFINE U == {1..k : k \in T}
<1>0. \A k \in T : 1..k \in SUBSET Nat /\ IsFiniteSet(1..k)
  <2> TAKE k \in T
  <2>1. k \in Int /\ 1 \in Int
    OBVIOUS
  <2>2. IsFiniteSet(1..k)
    BY <2>1, FS_Interval
  <2> QED
    BY <2>2
<1>1. U \subseteq FiniteSubsetsOf(Nat) /\ U # {}
  BY <1>0 DEF FiniteSubsetsOf
<1>2. PICK x \in U : \A y \in U : <<y, x>> \notin StrictSubsetOrdering(Nat)
  BY <1>1, FS_StrictSubsetOrderingWellFounded, WFMin
<1>3. PICK m \in T : x = 1..m
  OBVIOUS
<1>4. ASSUME NEW k \in T, k < m PROVE FALSE
  <2>1. 1..k \in U /\ <<1..k, 1..m>> \notin StrictSubsetOrdering(Nat)
    BY <1>2, <1>3
  <2>2. 1..k \subseteq 1..m /\ m \in 1..m /\ m \notin 1..k /\ 1..m \subseteq Nat
    BY <1>4
  <2> QED
    BY <2>1, <2>2 DEF StrictSubsetOrdering
<1> QED
  BY <1>4

\* Induction, over a set in place of a predicate.
LEMMA Induction ==
  ASSUME NEW T \in SUBSET Nat, 0 \in T, \A n \in T : n + 1 \in T
  PROVE  T = Nat
<1> SUFFICES ASSUME Nat \ T # {} PROVE FALSE
  OBVIOUS
<1>1. PICK m \in Nat \ T : \A k \in Nat \ T : m <= k
  BY Least
<1>2. m # 0 /\ m-1 \in Nat /\ m - 1 \in T
  BY <1>1
<1> QED
  BY <1>2

\* f is the function that Unseen defines, on the first m elements.
Filters(f, s, H, m) ==
  f = [n \in 0..m |-> IF n = 0 THEN <<>>
                      ELSE IF s[n] \in H THEN f[n - 1]
                      ELSE Append(f[n - 1], s[n])]

\* Its values.
LEMMA FiltersSteps ==
  ASSUME NEW s, NEW H, NEW m \in Nat, NEW f, Filters(f, s, H, m)
  PROVE  /\ f[0] = <<>>
         /\ \A n \in 1..m : f[n] = IF s[n] \in H THEN f[n - 1] ELSE Append(f[n - 1], s[n])
         /\ DOMAIN f = 0..m
<1>1. \A n \in 0..m : f[n] = IF n = 0 THEN <<>>
                      ELSE IF s[n] \in H THEN f[n - 1]
                      ELSE Append(f[n - 1], s[n])
  BY DEF Filters
<1> QED
  BY <1>1 DEF Filters

\* There is such a function, for every m.
LEMMA FiltersExists ==
  ASSUME NEW s, NEW H
  PROVE  \A m \in Nat : \E f : Filters(f, s, H, m)
<1> DEFINE T == {m \in Nat : \E f : Filters(f, s, H, m)}
<1>1. 0 \in T
  <2>1. Filters([n \in 0..0 |-> <<>>], s, H, 0)
    BY DEF Filters
  <2> QED
    BY <2>1
<1>2. ASSUME NEW m \in T PROVE m + 1 \in T
  <2>1. PICK f : Filters(f, s, H, m)
    OBVIOUS
  <2> DEFINE g == [n \in 0..(m + 1) |->
                     IF n = m + 1
                     THEN IF s[n] \in H THEN f[m] ELSE Append(f[m], s[n])
                     ELSE f[n]]
  <2>0. /\ f[0] = <<>> /\ m \in Nat
        /\ \A n \in 1..m : f[n] = IF s[n] \in H THEN f[n - 1] ELSE Append(f[n - 1], s[n])
    <3>1. m \in Nat
      OBVIOUS
    <3> QED
      BY <2>1, <3>1, FiltersSteps
  <2> HIDE DEF T
  <2>3. g[0] = <<>>
    BY <2>0
  <2>2. ASSUME NEW n \in 1..(m + 1)
        PROVE  g[n] = IF s[n] \in H THEN g[n - 1] ELSE Append(g[n - 1], s[n])
    <3>1. CASE n = m + 1
      BY <2>0, <3>1
    <3>2. CASE n # m + 1
      <4>1. /\ n \in 1..m /\ n - 1 \in 0..m /\ n - 1 # m + 1
            /\ n \in 0..(m + 1) /\ n - 1 \in 0..(m + 1)
        BY <2>0, <3>2
      <4>2. g[n] = f[n] /\ g[n - 1] = f[n - 1]
        BY <3>2, <4>1
      <4> QED
        BY <2>0, <4>1, <4>2
    <3> QED
      BY <3>1, <3>2
  <2>4. Filters(g, s, H, m + 1)
    <3>1. \A n \in 0..(m + 1) : g[n] = IF n = 0 THEN <<>>
                      ELSE IF s[n] \in H THEN g[n - 1]
                      ELSE Append(g[n - 1], s[n])
      BY <2>0, <2>2, <2>3
    <3>2. g = [n \in 0..(m + 1) |-> g[n]]
      OBVIOUS
    <3> HIDE DEF g
    <3> QED
      BY <3>1, <3>2 DEF Filters
  <2> QED
    BY <2>0, <2>4 DEF T
<1> HIDE DEF T
<1>3. T = Nat
  <2>1. T \in SUBSET Nat
    BY DEF T
  <2> QED
    BY <1>1, <1>2, <2>1, Induction
<1> QED
  BY <1>3 DEF T

\* What an element adds to a sequence.
LEMMA AppendedSet ==
  ASSUME NEW S, NEW t \in Seq(S), NEW e \in S
  PROVE  ToSet(Append(t, e)) = ToSet(t) \cup {e}
<1>1. /\ DOMAIN t = 1..Len(t) /\ DOMAIN Append(t, e) = 1..(Len(t) + 1)
      /\ \A i \in 1..Len(t) : Append(t, e)[i] = t[i]
      /\ Append(t, e)[Len(t) + 1] = e /\ Len(t) \in Nat
  OBVIOUS
<1>2. \A x : x \in ToSet(Append(t, e)) <=> \E i \in 1..(Len(t) + 1) : x = Append(t, e)[i]
  BY <1>1 DEF ToSet
<1>3. \A x : x \in ToSet(t) <=> \E i \in 1..Len(t) : x = t[i]
  BY <1>1 DEF ToSet
<1>4. \A i \in 1..(Len(t) + 1) : i = Len(t) + 1 \/ i \in 1..Len(t)
  BY <1>1
<1>5. \A x : x \in ToSet(Append(t, e)) => x \in ToSet(t) \cup {e}
  BY <1>1, <1>2, <1>3, <1>4
<1>6. \A x : x \in ToSet(t) \cup {e} => x \in ToSet(Append(t, e))
  BY <1>1, <1>2, <1>3
<1> QED
  BY <1>5, <1>6

\* What it keeps of a sequence.
LEMMA FiltersTyped ==
  ASSUME NEW S, NEW s \in Seq(S), NEW H, NEW f, Filters(f, s, H, Len(s))
  PROVE  f[Len(s)] \in Seq(S) /\ ToSet(f[Len(s)]) = ToSet(s) \ H
<1>0. /\ f[0] = <<>>
      /\ \A n \in 1..Len(s) : f[n] = IF s[n] \in H THEN f[n - 1]
                                       ELSE Append(f[n - 1], s[n])
  <2>1. \A n \in 0..Len(s) : f[n] = IF n = 0 THEN <<>>
                                    ELSE IF s[n] \in H THEN f[n - 1]
                                    ELSE Append(f[n - 1], s[n])
    BY DEF Filters
  <2> QED
    BY <2>1
<1> DEFINE Good(n) == /\ f[n] \in Seq(S)
                      /\ \A x : x \in ToSet(f[n]) <=> x \notin H /\ \E i \in 1..n : x = s[i]
           T == {n \in Nat : n <= Len(s) => Good(n)}
<1>1. 0 \in T
  <2>1. f[0] = <<>>
    BY <1>0
  <2>2. \A x : x \notin ToSet(<<>>)
    BY DEF ToSet
  <2>3. Good(0)
    BY <2>1, <2>2
  <2> HIDE DEF Good
  <2> QED
    BY <2>3
<1>2. ASSUME NEW n \in T PROVE n + 1 \in T
  <2> SUFFICES ASSUME n + 1 <= Len(s) PROVE Good(n + 1)
    OBVIOUS
  <2>1. Good(n)
    OBVIOUS
  <2>2. f[n + 1] = IF s[n + 1] \in H THEN f[n] ELSE Append(f[n], s[n + 1])
    BY <1>0
  <2>3. s[n + 1] \in S
    OBVIOUS
  <2>4. \A x : x \in ToSet(Append(f[n], s[n + 1])) <=> x \in ToSet(f[n]) \/ x = s[n + 1]
    BY <2>1, <2>3, AppendedSet
  <2> QED
    BY <2>1, <2>2, <2>3, <2>4
<1> HIDE DEF T, Good
<1>3. Len(s) \in T
  <2>1. T \in SUBSET Nat
    BY DEF T
  <2>2. T = Nat
    BY <1>1, <1>2, <2>1, Induction
  <2> QED
    BY <2>2
<1> QED
  BY <1>3 DEF T, Good, ToSet

\* Unseen is a sequence, of exactly what s holds and the other does not.
LEMMA UnseenIs ==
  ASSUME NEW S, NEW s \in Seq(S), NEW H
  PROVE  Unseen(s, H) \in Seq(S) /\ ToSet(Unseen(s, H)) = ToSet(s) \ H
<1> DEFINE f == CHOOSE f : Filters(f, s, H, Len(s))
<1>1. Unseen(s, H) = f[Len(s)]
  BY DEF Unseen, Filters
<1>2. Filters(f, s, H, Len(s))
  BY FiltersExists
<1> QED
  BY <1>1, <1>2, FiltersTyped

\* What a sequence adds to another.
LEMMA Concats ==
  ASSUME NEW S, NEW s \in Seq(S), NEW t \in Seq(S)
  PROVE  /\ s \o t \in Seq(S) /\ ToSet(s \o t) = ToSet(s) \cup ToSet(t)
         /\ Len(s \o t) = Len(s) + Len(t)
<1>1. /\ DOMAIN s = 1..Len(s) /\ DOMAIN t = 1..Len(t) /\ Len(s) \in Nat /\ Len(t) \in Nat
      /\ DOMAIN (s \o t) = 1..(Len(s) + Len(t))
      /\ \A i \in 1..Len(s) : (s \o t)[i] = s[i]
      /\ \A i \in 1..Len(t) : (s \o t)[Len(s) + i] = t[i]
  OBVIOUS
<1>2. \A i \in 1..(Len(s) + Len(t)) : i \in 1..Len(s) \/ i - Len(s) \in 1..Len(t)
  BY <1>1
<1>3. ASSUME NEW x \in ToSet(s \o t) PROVE x \in ToSet(s) \cup ToSet(t)
  <2>1. PICK i \in 1..(Len(s) + Len(t)) : x = (s \o t)[i]
    BY <1>1 DEF ToSet
  <2>2. CASE i \in 1..Len(s)
    BY <1>1, <2>1, <2>2 DEF ToSet
  <2>3. CASE i - Len(s) \in 1..Len(t)
    <3>1. (s \o t)[Len(s) + (i - Len(s))] = t[i - Len(s)] /\ Len(s) + (i - Len(s)) = i
      BY <1>1, <2>3
    <3> QED
      BY <1>1, <2>1, <2>3, <3>1 DEF ToSet
  <2> QED
    BY <1>2, <2>2, <2>3
<1>4. ASSUME NEW x \in ToSet(s) PROVE x \in ToSet(s \o t)
  <2>1. PICK i \in 1..Len(s) : x = s[i]
    BY <1>1 DEF ToSet
  <2>2. i \in 1..(Len(s) + Len(t))
    BY <1>1
  <2> QED
    BY <1>1, <2>1, <2>2 DEF ToSet
<1>5. ASSUME NEW x \in ToSet(t) PROVE x \in ToSet(s \o t)
  <2>1. PICK i \in 1..Len(t) : x = t[i]
    BY <1>1 DEF ToSet
  <2>2. Len(s) + i \in 1..(Len(s) + Len(t))
    BY <1>1
  <2> QED
    BY <1>1, <2>1, <2>2 DEF ToSet
<1> QED
  BY <1>3, <1>4, <1>5

-----------------------------------------------------------------------------
(* Types.                                                                  *)

\* A request on its way to the table carries a text of the user.
Asked ==
  \A q \in Requests : req[q].pc \in {"append", "read"} => req[q].text \in Replies
TInv == TypeOK /\ Asked

\* A superstep towards r.
LEMMA StepTyped ==
  ASSUME TypeOK, NEW r \in Run, r.steps = run.steps,
         r.pc = "agent" => r.next \in r.nodes, Step(r)
  PROVE  run' \in Run /\ (run'.pc = "agent" => run'.next \in run'.nodes)
<1>0. run \in Run /\ RecursionLimit \in Nat
  BY ThreadBounds DEF TypeOK
<1>1. CASE run.steps = RecursionLimit
  BY <1>0, <1>1 DEF Step, Run
<1>2. CASE run.steps # RecursionLimit
  <2>1. run' = [r EXCEPT !.steps = @ + 1]
    BY <1>2 DEF Step
  <2>2. r.steps + 1 \in 0..RecursionLimit
    BY <1>0, <1>2 DEF Run
  <2> QED
    BY <2>1, <2>2 DEF Run
<1> QED
  BY <1>1, <1>2

\* A request opens.
LEMMA OpensTyped ==
  ASSUME TInv, NEW q \in Requests, NEW r \in Request,
         r.pc \in {"append", "read"} => r.text \in Replies, Opens(q, r)
  PROVE  /\ req' \in [Requests -> Request] /\ overlap' \in BOOLEAN
         /\ Asked'
BY DEF TInv, TypeOK, Asked, Opens

\* The routes.
LEMMA RouteTyped ==
  ASSUME TInv, Route
  PROVE  TInv'
<1> USE ThreadBounds, ThreadNames DEF TInv, TypeOK, row, bounds, history
<1>1. CASE PostAppends
  BY <1>1 DEF PostAppends, Asked
<1>2. CASE PostDies
  <2>1. posting' \in Seq(Texts) /\ faults' \in Nat
    BY <1>2 DEF PostDies, Fault
  <2> QED
    BY <1>2, <2>1 DEF PostDies, Asked
<1>3. ASSUME NEW q \in Requests, NEW t \in Replies, FeedbackOpens(q, t)
      PROVE  TInv'
  <2> DEFINE r == [NoReq EXCEPT !.pc = "append", !.text = t]
  <2>1. r \in Request /\ r.text = t /\ Opens(q, r)
    BY <1>3 DEF FeedbackOpens, NoReq, Request
  <2>2. /\ req' \in [Requests -> Request] /\ overlap' \in BOOLEAN
        /\ Asked'
    BY <2>1, OpensTyped
  <2> QED
    BY <1>3, <2>2 DEF FeedbackOpens
<1>4. ASSUME NEW q \in Requests, FeedbackAppends(q)
      PROVE  TInv'
  <2>1. req[q].text \in Texts
    BY <1>4 DEF FeedbackAppends, Asked, Texts
  <2>2. req' \in [Requests -> Request] /\ Asked'
    BY <1>4 DEF FeedbackAppends, Asked, Request
  <2> QED
    BY <1>4, <2>1, <2>2 DEF FeedbackAppends
<1>5. ASSUME NEW q \in Requests, Decides(q)
      PROVE  TInv'
  <2>1. PICK to \in {"todo", "done", "failed"} :
             Opens(q, [NoReq EXCEPT !.pc = "write", !.to = to])
    BY <1>5 DEF Decides
  <2> DEFINE r == [NoReq EXCEPT !.pc = "write", !.to = to]
  <2>2. r \in Request /\ r.pc = "write" /\ Opens(q, r)
    BY <2>1 DEF NoReq, Request
  <2>3. /\ req' \in [Requests -> Request] /\ overlap' \in BOOLEAN
        /\ Asked'
    BY <2>2, OpensTyped
  <2> QED
    BY <1>5, <2>3 DEF Decides
<1>6. ASSUME NEW q \in Requests, RequestReads(q)
      PROVE  TInv'
  <2>1. req' \in [Requests -> Request] /\ Asked'
    BY <1>6 DEF RequestReads, Asked, Request, NoReq
  <2> QED
    BY <1>6, <2>1 DEF RequestReads
<1>7. ASSUME NEW q \in Requests, RequestWrites(q)
      PROVE  TInv'
  <2>1. req' \in [Requests -> Request] /\ Asked'
    BY <1>7 DEF RequestWrites, Asked, Request, NoReq
  <2>2. status' \in Status
    BY <1>7 DEF RequestWrites, Request, Status
  <2>3. acked' \in SUBSET Texts
    BY <1>7 DEF RequestWrites, Texts
  <2> QED
    BY <1>7, <2>1, <2>2, <2>3 DEF RequestWrites
<1>8. ASSUME NEW a \in Agents, Disable(a)
      PROVE  TInv'
  BY <1>8 DEF Disable, Fault, Asked
<1> QED
  BY <1>1, <1>2, <1>3, <1>4, <1>5, <1>6, <1>7, <1>8 DEF Route

\* A run starts with the enabled agents as nodes and all that is stored as due.
LEMMA ClaimsTyped ==
  ASSUME TInv, RunClaims
  PROVE  TInv'
<1> USE ThreadBounds, ThreadNames DEF TInv, TypeOK
<1>1. ToSet(stored) \subseteq Texts
  BY DEF ToSet
<1>2. run' \in Run /\ run'.pc = "seed"
  <2>1. /\ enabled \in SUBSET Agents /\ assigned \in Speakers
        /\ Nobody \in Speakers /\ 0 \in 0..RecursionLimit
    BY DEF Speakers
  <2>2. run' = [pc |-> "seed", nodes |-> enabled, task |-> assigned, next |-> Nobody,
                steps |-> 0, due |-> ToSet(stored), drafted |-> FALSE]
    BY DEF RunClaims, NoRun
  <2> QED
    BY <1>1, <2>1, <2>2 DEF Run
<1>3. status' \in Status /\ runs' \in 0..MaxRuns
  BY DEF RunClaims, Status
<1> QED
  BY <1>2, <1>3 DEF RunClaims, Rest, Asked, row, bounds, history

\* The thread is made, or continued with what it has not seen.
LEMMA SeedsTyped ==
  ASSUME TInv, RunSeeds
  PROVE  TInv'
<1> USE ThreadBounds, ThreadNames DEF TInv, TypeOK
<1>0. run.task \in Speakers /\ NoOutput \in Output
  BY DEF Run, Output, NoOutput, Speakers
<1>1. NewTexts \in Seq(Texts)
  BY UnseenIs DEF NewTexts
<1>2. Resumed \in Thread
  <2>1. thread.humans \o NewTexts \in Seq(Texts)
    BY <1>1 DEF Thread
  <2> QED
    BY <1>0, <2>1 DEF Resumed, Thread
<1>3. Seeded \in Thread
  <2>1. <<IF stored = <<>> THEN Brief ELSE Head(stored)>> \in Seq(Texts)
    BY DEF Texts
  <2> QED
    BY <1>0, <2>1 DEF Seeded, Thread, NoThread, Speakers
<1>4. thread' \in Thread
  BY <1>2, <1>3 DEF RunSeeds
<1>5. run' \in Run /\ run'.pc = "supervisor"
  BY DEF RunSeeds, Run
<1> QED
  BY <1>4, <1>5 DEF RunSeeds, Rest, Asked, row, bounds, history

\* What a step of the graph can disturb.
LEMMA GraphTyped ==
  ASSUME TInv, InGraph, Exhausted \/ UNCHANGED stuck,
         faults' \in Nat, thread' \in Thread, run' \in Run,
         run'.pc = "agent" => run'.next \in run'.nodes
  PROVE  TInv'
BY DEF TInv, TypeOK, Asked, InGraph, Exhausted, Rest, row, bounds, history

\* The edge leads to the agent only if the agent is a node.
LEMMA GoesTyped ==
  ASSUME TypeOK, NEW a \in Speakers, GoTo(a)
  PROVE  run' \in Run /\ (run'.pc = "agent" => run'.next \in run'.nodes)
<1> DEFINE to == CASE a \in run.nodes -> "agent"
                   [] a = "supervisor" -> "supervisor"
                   [] OTHER -> "error"
           r == [run EXCEPT !.next = a, !.pc = to]
<1>1. to \in {"agent", "supervisor", "error"} /\ (to = "agent" => a \in run.nodes)
  BY Zenon
<1>2. Step(r)
  BY DEF GoTo
<1> HIDE DEF to
<1>3. r \in Run /\ r.steps = run.steps /\ (r.pc = "agent" => r.next \in r.nodes)
  BY <1>1 DEF TypeOK, Run
<1> HIDE DEF r
<1> QED
  BY <1>2, <1>3, StepTyped

\* A superstep that leaves the choice of the agent alone.
LEMMA MovesTyped ==
  ASSUME TypeOK, NEW to \in {"supervisor", "report", "read"},
         Step([run EXCEPT !.pc = to])
  PROVE  run' \in Run /\ (run'.pc = "agent" => run'.next \in run'.nodes)
<1> DEFINE r == [run EXCEPT !.pc = to]
<1>1. r \in Run /\ r.steps = run.steps /\ r.pc # "agent" /\ Step(r)
  BY DEF TypeOK, Run
<1> HIDE DEF r
<1> QED
  BY <1>1, StepTyped

\* The graph.
LEMMA GraphStepTyped ==
  ASSUME TInv, GraphStep
  PROVE  TInv'
<1>0. TypeOK /\ thread \in Thread /\ run \in Run /\ faults \in Nat
      /\ enabled \subseteq Agents /\ runs \in 0..MaxRuns /\ 0 \in 0..MaxRuns
  BY ThreadBounds DEF TInv, TypeOK
<1>1. CASE SupervisorStops
  BY <1>0, <1>1, MovesTyped, GraphTyped DEF SupervisorStops
<1>2. CASE SupervisorFollowsPin
  <2>1. thread.pinned \in Speakers
    BY <1>0 DEF Thread
  <2> QED
    BY <1>0, <1>2, <2>1, GoesTyped, GraphTyped DEF SupervisorFollowsPin
<1>3. CASE SupervisorRoutes
  <2>1. \E a \in Speakers : GoTo(a)
    BY <1>0, <1>3 DEF SupervisorRoutes, Speakers
  <2>2. faults' \in Nat
    BY <1>0, <1>3 DEF SupervisorRoutes, Fault
  <2> QED
    BY <1>0, <1>3, <2>1, <2>2, GoesTyped, GraphTyped DEF SupervisorRoutes
<1>4. CASE SupervisorClarifies
  <2>1. [by |-> "supervisor", run |-> runs, report |-> runs] \in Output
    BY <1>0 DEF Output, Speakers
  <2>2. thread' \in Thread
    BY <1>0, <1>4, <2>1 DEF SupervisorClarifies, Thread
  <2> QED
    BY <1>0, <1>4, <2>2, MovesTyped, GraphTyped DEF SupervisorClarifies
<1>5. CASE SupervisorFinishes
  <2>1. thread' \in Thread
    BY <1>0, <1>5 DEF SupervisorFinishes, Thread
  <2> QED
    BY <1>0, <1>5, <2>1, MovesTyped, GraphTyped DEF SupervisorFinishes
<1>6. CASE AgentDrafts
  <2>1. Draft(run.next) \in Output
    BY <1>0 DEF Draft, Output, Run
  <2>2. thread' \in Thread
    BY <1>0, <1>6, <2>1 DEF AgentDrafts, Thread
  <2>3. run' \in Run /\ (run'.pc = "agent" => run'.next \in run'.nodes)
    <3> DEFINE r == [run EXCEPT !.pc = "supervisor", !.drafted = TRUE]
    <3>1. r \in Run /\ r.steps = run.steps /\ r.pc # "agent" /\ Step(r)
      BY <1>0, <1>6 DEF AgentDrafts, Run
    <3> HIDE DEF r
    <3> QED
      BY <1>0, <3>1, StepTyped
  <2> QED
    BY <1>0, <1>6, <2>2, <2>3, GraphTyped DEF AgentDrafts
<1>7. CASE Reports
  <2>1. thread' \in Thread
    <3>1. [thread EXCEPT !.last.report = thread.structured.run] \in Thread
      <4>1. thread.last \in Output /\ thread.structured.run \in 0..MaxRuns
        BY <1>0 DEF Thread, Output
      <4>2. [thread.last EXCEPT !.report = thread.structured.run] \in Output
        BY <4>1 DEF Output
      <4> QED
        BY <1>0, <4>2 DEF Thread
    <3> QED
      BY <1>0, <1>7, <3>1 DEF Reports
  <2> QED
    BY <1>0, <1>7, <2>1, MovesTyped, GraphTyped DEF Reports
<1>8. CASE GraphThrows
  <2>1. run' \in Run /\ run'.pc = "error"
    BY <1>0, <1>8 DEF GraphThrows, Run
  <2> QED
    BY <1>0, <1>8, <2>1, GraphTyped DEF GraphThrows, Fault
<1> QED
  BY <1>1, <1>2, <1>3, <1>4, <1>5, <1>6, <1>7, <1>8 DEF GraphStep

\* The outcome, the catch block, a death and the reclaim.
LEMMA OutcomeTyped ==
  ASSUME TInv, RunReads \/ RunWrites \/ RunErrs \/ RunFails \/ RunDies \/ RowReclaimed
  PROVE  TInv'
<1> USE ThreadBounds DEF TInv, TypeOK, Rest, row, bounds, history
<1>0. NoRun \in Run /\ NoRun.pc = "free"
  BY DEF NoRun, Run, Speakers
<1>1. CASE RunReads \/ RunErrs
  <2>1. run' \in Run /\ run'.pc # "agent"
    BY <1>0, <1>1 DEF RunReads, RunErrs, Run
  <2> QED
    BY <1>1, <2>1 DEF RunReads, RunErrs, Asked
<1>2. CASE RunWrites
  <2>1. To \in Status /\ thread.last \in Output /\ Stamped \in Speakers
        /\ thread.last.by \in Speakers
    BY DEF To, Status, Thread, Stamped, Output
  <2> QED
    BY <1>0, <1>2, <2>1 DEF RunWrites, Asked
<1>3. CASE RunFails
  BY <1>0, <1>3 DEF RunFails, Asked, Status
<1>4. CASE RunDies
  BY <1>0, <1>4 DEF RunDies, Asked, Fault
<1>5. CASE RowReclaimed
  BY <1>5 DEF RowReclaimed, Asked, Status
<1> QED
  BY <1>1, <1>2, <1>3, <1>4, <1>5

\* Every step.
LEMMA TypesKept == TInv /\ [Next]_vars => TInv'
<1> SUFFICES ASSUME TInv, [Next]_vars PROVE TInv'
  OBVIOUS
<1>1. CASE UNCHANGED vars
  BY <1>1 DEF TInv, TypeOK, Asked, vars, row, bounds, history
<1> QED
  BY <1>1, RouteTyped, ClaimsTyped, SeedsTyped, GraphStepTyped, OutcomeTyped
  DEF Next, RunStep

\* The row as it is inserted.
LEMMA InitTyped == Init => TInv
<1> SUFFICES ASSUME Init PROVE TInv
  OBVIOUS
<1> USE ThreadBounds, ThreadNames
<1>1. NoOutput \in Output
  BY DEF NoOutput, Output, Speakers
<1>2. thread \in Thread
  BY <1>1 DEF Init, NoThread, Thread, Speakers
<1>3. run \in Run /\ run.pc = "free"
  BY DEF Init, NoRun, Run, Speakers
<1>4. NoReq \in Request /\ NoReq.pc = "free"
  BY DEF NoReq, Request
<1>5. stored \in Seq(Texts) /\ posting \in Seq(Texts)
  <2>1. Brief \in Texts /\ Synthesized \in Texts
    BY DEF Texts
  <2>2. <<Brief>> \in Seq(Texts) /\ <<Synthesized>> \in Seq(Texts) /\ <<>> \in Seq(Texts)
    BY <2>1
  <2> QED
    BY <2>2 DEF Init
<1>6. runs \in 0..MaxRuns /\ acked \in SUBSET Texts
  BY DEF Init
<1>7. req \in [Requests -> Request] /\ Asked
  BY <1>4 DEF Init, Asked
<1> QED
  BY <1>1, <1>2, <1>3, <1>5, <1>6, <1>7 DEF Init, TInv, TypeOK, Asked, Status, Speakers

-----------------------------------------------------------------------------
(* The gate and the author.                                                *)

\* The fields of a run, of the thread and of its last output; faults count.
Shape ==
  /\ faults \in Nat
  /\ DOMAIN run = {"pc", "nodes", "task", "next", "steps", "due", "drafted"}
  /\ DOMAIN thread = {"seeded", "humans", "pinned", "last", "structured", "awaiting"}
  /\ DOMAIN thread.last = {"by", "run", "report"}

\* A run that has not seeded the thread has not drafted; the draft of one that
\* has waits at the gate.
DraftsWait == run.drafted => thread.awaiting /\ run.pc # "seed"

\* The agent whose draft the user was shown is on the row, in the run that
\* takes the row up, and in the thread once that run has seeded it: pinned,
\* with no output of another agent.
AuthorHolds ==
  author \in Agents =>
    /\ assigned = author
    /\ run.pc # "free" => run.task = author
    /\ run.pc \in {"supervisor", "agent", "report", "read", "write"} =>
         /\ thread.pinned = author
         /\ thread.last.by \in {Nobody, author}
    /\ run.pc = "supervisor" => thread.awaiting \/ thread.last.by = Nobody
    /\ run.pc \in {"report", "read", "write"} => thread.awaiting
    /\ run.pc = "agent" => run.next = author

IInv == Shape /\ DraftsWait /\ (faults = 0 => AuthorHolds)

\* Nothing has been drafted.
LEMMA InitInv == Init => IInv
<1> SUFFICES ASSUME Init PROVE IInv
  OBVIOUS
<1>1. run = NoRun /\ thread = NoThread /\ author = Nobody /\ faults = 0
  BY DEF Init
<1>2. Shape /\ DraftsWait
  BY <1>1 DEF Shape, DraftsWait, NoRun, NoThread, NoOutput
<1>3. AuthorHolds
  BY <1>1, ThreadNames DEF AuthorHolds
<1> QED
  BY <1>2, <1>3 DEF IInv

-----------------------------------------------------------------------------
(* What a superstep leaves of a run.                                       *)

\* The run goes to `to` or, beyond the limit, to the catch block.
LEMMA StepMoves ==
  ASSUME Shape, NEW to, Step([run EXCEPT !.pc = to])
  PROVE  /\ DOMAIN run' = DOMAIN run
         /\ run'.pc \in {to, "error"}
         /\ run'.task = run.task /\ run'.next = run.next
         /\ run'.due = run.due /\ run'.drafted = run.drafted
<1> DEFINE r == [run EXCEPT !.pc = to]
<1>1. /\ DOMAIN r = DOMAIN run /\ r.pc = to /\ r.task = run.task
      /\ r.next = run.next /\ r.due = run.due /\ r.drafted = run.drafted
  BY DEF Shape
<1>2. run' = [run EXCEPT !.pc = "error"] \/ run' = [r EXCEPT !.steps = @ + 1]
  BY DEF Step
<1> QED
  BY <1>1, <1>2 DEF Shape

\* The draft of the agent is noted.
LEMMA StepDrafts ==
  ASSUME Shape, Step([run EXCEPT !.pc = "supervisor", !.drafted = TRUE])
  PROVE  /\ DOMAIN run' = DOMAIN run
         /\ run'.pc \in {"supervisor", "error"}
         /\ run'.task = run.task /\ run'.due = run.due
<1> DEFINE r == [run EXCEPT !.pc = "supervisor", !.drafted = TRUE]
<1>1. /\ DOMAIN r = DOMAIN run /\ r.pc = "supervisor"
      /\ r.task = run.task /\ r.due = run.due
  BY DEF Shape
<1>2. run' = [run EXCEPT !.pc = "error"] \/ run' = [r EXCEPT !.steps = @ + 1]
  BY DEF Step
<1> QED
  BY <1>1, <1>2 DEF Shape

\* The edge after the supervisor leads to the agent it chose, if anywhere
\* else than to itself.
LEMMA Goes ==
  ASSUME Shape, NEW a, GoTo(a)
  PROVE  /\ DOMAIN run' = DOMAIN run
         /\ run'.pc \in {"agent", "supervisor", "error"}
         /\ run'.pc = "agent" => run'.next = a
         /\ run'.task = run.task /\ run'.due = run.due
         /\ run'.drafted = run.drafted
<1> DEFINE to == CASE a \in run.nodes -> "agent"
                   [] a = "supervisor" -> "supervisor"
                   [] OTHER -> "error"
           r == [run EXCEPT !.next = a, !.pc = to]
<1>1. to \in {"agent", "supervisor", "error"}
  BY Zenon
<1>2. Step(r)
  BY DEF GoTo
<1> HIDE DEF to
<1>3. /\ DOMAIN r = DOMAIN run /\ r.pc = to /\ r.task = run.task
      /\ r.next = a /\ r.due = run.due /\ r.drafted = run.drafted
  BY DEF Shape
<1>4. run' = [run EXCEPT !.pc = "error"] \/ run' = [r EXCEPT !.steps = @ + 1]
  BY <1>2 DEF Step
<1> QED
  BY <1>1, <1>3, <1>4 DEF Shape

-----------------------------------------------------------------------------
(* The steps.                                                              *)

\* A fault is counted.
LEMMA FaultCounts ==
  ASSUME Shape, Fault
  PROVE  faults' \in Nat /\ faults' # 0
BY DEF Shape, Fault

\* A request moves neither the run nor the thread nor the row's agent.
LEMMA RouteKeeps ==
  ASSUME IInv, Route
  PROVE  IInv'
<1>1. /\ UNCHANGED <<assigned, thread, run, author>>
      /\ faults' = faults \/ Fault
  BY DEF Route, PostAppends, PostDies, FeedbackOpens, FeedbackAppends, Decides,
         RequestReads, RequestWrites, Disable, Opens, row, bounds, history
<1>2. /\ faults' \in Nat
      /\ faults' = 0 => faults = 0
  BY <1>1, FaultCounts DEF IInv, Shape
<1> QED
  BY <1>1, <1>2 DEF IInv, Shape, DraftsWait, AuthorHolds

\* A run takes the row up.
LEMMA ClaimsKeep ==
  ASSUME IInv, RunClaims
  PROVE  IInv'
<1>1. /\ UNCHANGED <<assigned, thread, author, faults>>
      /\ DOMAIN run' = DOMAIN run
      /\ run'.pc = "seed" /\ run'.task = assigned /\ ~run'.drafted
  BY DEF RunClaims, NoRun, history, IInv, Shape
<1> QED
  BY <1>1 DEF IInv, Shape, DraftsWait, AuthorHolds

\* A run whose row has an agent pins it and drops the last output.
LEMMA SeedsKeep ==
  ASSUME IInv, RunSeeds
  PROVE  IInv'
<1>1. /\ UNCHANGED <<assigned, author, faults>>
      /\ run.pc = "seed" /\ run' = [run EXCEPT !.pc = "supervisor"]
      /\ thread' = IF thread.seeded THEN Resumed ELSE Seeded
  BY DEF RunSeeds, row, history, Rest
<1>2. /\ DOMAIN run' = DOMAIN run /\ run'.pc = "supervisor"
      /\ run'.task = run.task /\ ~run'.drafted
  BY <1>1 DEF IInv, Shape, DraftsWait
<1>3. /\ DOMAIN Resumed = DOMAIN thread
      /\ DOMAIN Resumed.last = {"by", "run", "report"}
      /\ run.task # Nobody =>
           Resumed.pinned = run.task /\ Resumed.last.by = Nobody
  BY DEF Resumed, NoOutput, IInv, Shape
<1>4. /\ DOMAIN Seeded = DOMAIN thread
      /\ DOMAIN Seeded.last = {"by", "run", "report"}
      /\ Seeded.pinned = run.task /\ Seeded.last.by = Nobody
  BY DEF Seeded, NoThread, NoOutput, IInv, Shape
<1>5. /\ DOMAIN thread' = DOMAIN thread
      /\ DOMAIN thread'.last = {"by", "run", "report"}
      /\ run.task # Nobody =>
           thread'.pinned = run.task /\ thread'.last.by = Nobody
  BY <1>1, <1>3, <1>4
<1>6. author \in Agents /\ faults = 0 => run.task = author /\ run.task # Nobody
  BY <1>1, ThreadNames DEF IInv, AuthorHolds
<1>7. Shape' /\ DraftsWait'
  BY <1>1, <1>2, <1>5 DEF IInv, Shape, DraftsWait
<1>8. faults' = 0 => AuthorHolds'
  BY <1>1, <1>2, <1>5, <1>6 DEF IInv, AuthorHolds
<1> QED
  BY <1>7, <1>8 DEF IInv

\* What no step of the graph touches.
LEMMA InGraphKeeps ==
  ASSUME InGraph
  PROVE  UNCHANGED <<assigned, author>>
BY DEF InGraph, row

\* The draft at the gate ends the run.
LEMMA StopsKeep ==
  ASSUME IInv, SupervisorStops
  PROVE  IInv'
<1>1. /\ run.pc = "supervisor" /\ thread.awaiting /\ UNCHANGED <<thread, faults>>
      /\ Step([run EXCEPT !.pc = "report"])
      /\ UNCHANGED <<assigned, author>>
  BY InGraphKeeps DEF SupervisorStops, Supervises, AtGate
<1>2. /\ DOMAIN run' = DOMAIN run /\ run'.pc \in {"report", "error"}
      /\ run'.task = run.task /\ run'.drafted = run.drafted
  BY <1>1, StepMoves DEF IInv
<1> QED
  BY <1>1, <1>2 DEF IInv, Shape, DraftsWait, AuthorHolds

\* The pinned agent is chosen.
LEMMA PinKeeps ==
  ASSUME IInv, SupervisorFollowsPin
  PROVE  IInv'
<1>1. /\ run.pc = "supervisor" /\ thread.last.by = Nobody
      /\ ~thread.awaiting /\ UNCHANGED <<thread, faults>>
      /\ GoTo(thread.pinned)
      /\ UNCHANGED <<assigned, author>>
  BY InGraphKeeps DEF SupervisorFollowsPin, Supervises, Pinned, AtGate
<1>2. /\ DOMAIN run' = DOMAIN run /\ run'.pc \in {"agent", "supervisor", "error"}
      /\ run'.pc = "agent" => run'.next = thread.pinned
      /\ run'.task = run.task /\ run'.drafted = run.drafted
  BY <1>1, Goes DEF IInv
<1> QED
  BY <1>1, <1>2 DEF IInv, Shape, DraftsWait, AuthorHolds

\* Only a thread without an author leaves the choice to the supervisor.
LEMMA AskedWithoutAuthor ==
  ASSUME IInv, Asks
  PROVE  /\ run.pc = "supervisor" /\ ~thread.awaiting
         /\ ~run.drafted
         /\ faults = 0 => author \notin Agents
<1>1. /\ run.pc = "supervisor" /\ ~thread.awaiting
      /\ thread.pinned = Nobody \/ thread.last.by # Nobody
  BY DEF Asks, Supervises, AtGate, Pinned
<1> QED
  BY <1>1, ThreadNames DEF IInv, DraftsWait, AuthorHolds

\* The supervisor chooses.
LEMMA RoutesKeep ==
  ASSUME IInv, SupervisorRoutes
  PROVE  IInv'
<1>1. /\ Asks /\ UNCHANGED <<thread, assigned, author>>
      /\ faults' = faults \/ Fault
      /\ \E a : GoTo(a)
  BY InGraphKeeps DEF SupervisorRoutes
<1>2. PICK a : GoTo(a)
  BY <1>1
<1>3. /\ DOMAIN run' = DOMAIN run /\ run'.pc \in {"agent", "supervisor", "error"}
      /\ run'.drafted = run.drafted
  BY <1>2, Goes DEF IInv
<1>4. faults' \in Nat /\ (faults' = 0 => faults = 0)
  BY <1>1, FaultCounts DEF IInv, Shape
<1> QED
  BY <1>1, <1>3, <1>4, AskedWithoutAuthor DEF IInv, Shape, DraftsWait, AuthorHolds

\* The supervisor asks the user, or is done.
LEMMA EndsKeep ==
  ASSUME IInv, SupervisorClarifies \/ SupervisorFinishes
  PROVE  IInv'
<1>1. /\ Asks /\ UNCHANGED <<assigned, author, faults>>
      /\ Step([run EXCEPT !.pc = "report"])
  BY InGraphKeeps DEF SupervisorClarifies, SupervisorFinishes
<1>2. /\ DOMAIN run' = DOMAIN run /\ run'.pc \in {"report", "error"}
      /\ run'.drafted = run.drafted
  BY <1>1, StepMoves DEF IInv
<1>3. /\ DOMAIN thread' = DOMAIN thread
      /\ DOMAIN thread'.last = {"by", "run", "report"}
  BY DEF SupervisorClarifies, SupervisorFinishes, IInv, Shape
<1> QED
  BY <1>1, <1>2, <1>3, AskedWithoutAuthor DEF IInv, Shape, DraftsWait, AuthorHolds

\* The agent leaves its draft at the gate.
LEMMA AgentKeeps ==
  ASSUME IInv, AgentDrafts
  PROVE  IInv'
<1>1. /\ run.pc = "agent" /\ UNCHANGED <<assigned, author, faults>>
      /\ Step([run EXCEPT !.pc = "supervisor", !.drafted = TRUE])
  BY InGraphKeeps DEF AgentDrafts
<1>2. /\ DOMAIN run' = DOMAIN run /\ run'.pc \in {"supervisor", "error"}
      /\ run'.task = run.task
  BY <1>1, StepDrafts DEF IInv
<1>3. /\ DOMAIN thread' = DOMAIN thread
      /\ DOMAIN thread'.last = {"by", "run", "report"}
      /\ thread'.pinned = thread.pinned /\ thread'.awaiting
      /\ thread'.last.by = run.next
  BY DEF AgentDrafts, Draft, IInv, Shape
<1> QED
  BY <1>1, <1>2, <1>3 DEF IInv, Shape, DraftsWait, AuthorHolds

\* A report is no output of its own.
LEMMA ReportKeeps ==
  ASSUME IInv, Reports
  PROVE  IInv'
<1>1. /\ run.pc = "report" /\ UNCHANGED <<assigned, author, faults>>
      /\ Step([run EXCEPT !.pc = "read"])
  BY InGraphKeeps DEF Reports
<1>2. /\ DOMAIN run' = DOMAIN run /\ run'.pc \in {"read", "error"}
      /\ run'.task = run.task /\ run'.drafted = run.drafted
  BY <1>1, StepMoves DEF IInv
<1>3. /\ DOMAIN thread' = DOMAIN thread
      /\ DOMAIN thread'.last = {"by", "run", "report"}
      /\ thread'.pinned = thread.pinned /\ thread'.awaiting = thread.awaiting
      /\ thread'.last.by = thread.last.by
  BY DEF Reports, IInv, Shape
<1> QED
  BY <1>1, <1>2, <1>3 DEF IInv, Shape, DraftsWait, AuthorHolds

\* The run leaves the graph for its outcome or the catch block.
LEMMA OutcomeKeeps ==
  ASSUME IInv, GraphThrows \/ RunReads \/ RunErrs \/ RunFails \/ RunDies
  PROVE  IInv'
<1>1. /\ UNCHANGED <<assigned, author, thread>>
      /\ faults' = faults \/ Fault
  BY InGraphKeeps DEF GraphThrows, RunReads, RunErrs, RunFails, RunDies, row, history
<1>2. faults' \in Nat /\ (faults' = 0 => faults = 0)
  BY <1>1, FaultCounts DEF IInv, Shape
<1>3. \/ run' = NoRun
      \/ \E to \in {"error", "write", "fail"} :
           /\ run.pc # "free" /\ run' = [run EXCEPT !.pc = to]
           /\ to = "write" => run.pc = "read"
  BY DEF GraphThrows, RunReads, RunErrs, RunFails, RunDies
<1>4. CASE run' = NoRun
  <2>1. DOMAIN run' = DOMAIN run /\ run'.pc = "free" /\ ~run'.drafted
    BY <1>4 DEF NoRun, IInv, Shape
  <2> QED
    BY <1>1, <1>2, <2>1 DEF IInv, Shape, DraftsWait, AuthorHolds
<1>5. ASSUME NEW to \in {"error", "write", "fail"}, run.pc # "free",
             run' = [run EXCEPT !.pc = to], to = "write" => run.pc = "read"
      PROVE  IInv'
  <2>1. /\ DOMAIN run' = DOMAIN run /\ run'.pc = to
        /\ run'.task = run.task /\ run'.drafted = run.drafted
    BY <1>5 DEF IInv, Shape
  <2> QED
    BY <1>1, <1>2, <1>5, <2>1 DEF IInv, Shape, DraftsWait, AuthorHolds
<1> QED
  BY <1>3, <1>4, <1>5

\* The run whose output is stored leaves its agent on the row.
LEMMA WritesKeep ==
  ASSUME IInv, RunWrites
  PROVE  IInv'
<1>1. /\ run.pc = "write" /\ run' = NoRun /\ UNCHANGED <<thread, faults>>
      /\ assigned' = IF thread.last.by = Nobody THEN assigned ELSE thread.last.by
      /\ author' = author \/ author' = thread.last.by
  BY DEF RunWrites, Stamped
<1>2. DOMAIN run' = DOMAIN run /\ run'.pc = "free" /\ ~run'.drafted
  BY <1>1 DEF NoRun, IInv, Shape
<1>3. author' \in Agents => author' # Nobody
  BY ThreadNames
<1>4. Shape' /\ DraftsWait'
  BY <1>1, <1>2 DEF IInv, Shape, DraftsWait
<1>5. ASSUME faults = 0, author' \in Agents
      PROVE  assigned' = author'
  BY <1>1, <1>3, <1>5 DEF IInv, AuthorHolds
<1> QED
  BY <1>1, <1>2, <1>4, <1>5 DEF IInv, AuthorHolds

\* Every step.
LEMMA NextInv == IInv /\ [Next]_vars => IInv'
<1> SUFFICES ASSUME IInv, [Next]_vars PROVE IInv'
  OBVIOUS
<1>1. CASE RowReclaimed \/ UNCHANGED vars
  <2>1. UNCHANGED <<assigned, thread, run, author, faults>>
    BY <1>1 DEF RowReclaimed, vars, row, bounds, history
  <2> QED
    BY <2>1 DEF IInv, Shape, DraftsWait, AuthorHolds
<1> QED
  BY <1>1, RouteKeeps, ClaimsKeep, SeedsKeep, StopsKeep, PinKeeps, RoutesKeep,
     EndsKeep, AgentKeeps, ReportKeeps, OutcomeKeeps, WritesKeep
  DEF Next, RunStep, GraphStep

-----------------------------------------------------------------------------
(* What a step of the graph leaves alone.                                  *)

\* From the seed of the thread to the outcome of the run.
InGraphPcs == {"supervisor", "agent", "report", "read", "write"}

\* A typed state has the fields the lemmas on supersteps ask for.
LEMMA TypedShape == TInv => Shape
BY DEF TInv, TypeOK, Shape, Run, Thread, Output

\* What no step of the graph moves, and where it leads.
LEMMA GraphMoves ==
  ASSUME TInv, GraphStep
  PROVE  /\ UNCHANGED <<status, assigned, output, stored, posting, req, runs,
                        acked, overlap>>
         /\ run.pc \in {"supervisor", "agent", "report"}
         /\ run'.pc \in {"supervisor", "agent", "report", "read", "error"}
         /\ run'.due = run.due /\ run'.task = run.task
         /\ thread'.seeded = thread.seeded /\ thread'.humans = thread.humans
         /\ thread'.pinned = thread.pinned
<1>0. thread \in Thread /\ run \in Run /\ enabled \subseteq Agents
  BY DEF TInv, TypeOK
<1>1. UNCHANGED <<status, assigned, output, stored, posting, req, runs, acked,
                  overlap>>
  BY DEF GraphStep, SupervisorStops, SupervisorFollowsPin, SupervisorRoutes,
         SupervisorClarifies, SupervisorFinishes, AgentDrafts, Reports, GraphThrows,
         InGraph, Rest, row
<1>2. run.pc \in {"supervisor", "agent", "report"}
  BY DEF GraphStep, SupervisorStops, SupervisorFollowsPin, SupervisorRoutes,
         SupervisorClarifies, SupervisorFinishes, AgentDrafts, Reports, GraphThrows,
         Supervises, Asks
<1>3. /\ thread'.seeded = thread.seeded /\ thread'.humans = thread.humans
      /\ thread'.pinned = thread.pinned
  <2>1. CASE SupervisorClarifies \/ SupervisorFinishes \/ AgentDrafts
    BY <1>0, <2>1 DEF SupervisorClarifies, SupervisorFinishes, AgentDrafts, Thread
  <2>2. CASE Reports
    BY <1>0, <2>2 DEF Reports, Thread
  <2>3. CASE UNCHANGED thread
    BY <2>3
  <2> QED
    BY <2>1, <2>2, <2>3 DEF GraphStep, SupervisorStops, SupervisorFollowsPin,
       SupervisorRoutes, GraphThrows
<1>4. /\ run'.pc \in {"supervisor", "agent", "report", "read", "error"}
      /\ run'.due = run.due /\ run'.task = run.task
  <2>1. CASE \E to \in {"supervisor", "report", "read"} : Step([run EXCEPT !.pc = to])
    BY <2>1, TypedShape, StepMoves
  <2>2. CASE \E a \in Speakers : GoTo(a)
    BY <2>2, TypedShape, Goes
  <2>3. CASE Step([run EXCEPT !.pc = "supervisor", !.drafted = TRUE])
    BY <2>3, TypedShape, StepDrafts
  <2>4. CASE GraphThrows
    BY <1>0, <2>4 DEF GraphThrows, Run
  <2>5. thread.pinned \in Speakers /\ enabled \subseteq Speakers /\ Nobody \in Speakers
    BY <1>0 DEF Thread, Speakers
  <2> QED
    BY <2>1, <2>2, <2>3, <2>4, <2>5
    DEF GraphStep, SupervisorStops, SupervisorFollowsPin, SupervisorRoutes,
         SupervisorClarifies, SupervisorFinishes, AgentDrafts, Reports
<1> QED
  BY <1>1, <1>2, <1>3, <1>4

-----------------------------------------------------------------------------
(* The messages.                                                           *)

\* What the row, the thread and the run keep of the messages.
ReadInv ==
  /\ ~thread.seeded =>
       /\ Len(stored) + Len(posting) <= 1
       /\ status # "waiting"
       /\ \A q \in Requests : req[q].pc # "append"
  /\ run.pc \in InGraphPcs => thread.seeded
  /\ run.pc = "seed" => run.due \subseteq ToSet(stored)
  /\ run.pc \in InGraphPcs => run.due \subseteq ToSet(thread.humans)

\* The user's messages are only added to.
LEMMA RouteReads ==
  ASSUME TInv, ReadInv, Route
  PROVE  ReadInv'
<1>0. stored \in Seq(Texts) /\ posting \in Seq(Texts)
  BY DEF TInv, TypeOK
<1>1. UNCHANGED <<thread, run>>
  BY DEF Route, PostAppends, PostDies, FeedbackOpens, FeedbackAppends, Decides,
         RequestReads, RequestWrites, Disable
<1>2. stored' \in Seq(Texts) /\ ToSet(stored) \subseteq ToSet(stored')
  <2>1. CASE PostAppends
    BY <1>0, <2>1, Concats DEF PostAppends
  <2>2. ASSUME NEW q \in Requests, FeedbackAppends(q)
        PROVE  stored' \in Seq(Texts) /\ ToSet(stored) \subseteq ToSet(stored')
    <3>1. req[q].text \in Texts /\ stored' = Append(stored, req[q].text)
      BY <2>2 DEF FeedbackAppends, TInv, Asked, Texts
    <3> QED
      BY <1>0, <3>1, AppendedSet
  <2>3. CASE UNCHANGED stored
    BY <1>0, <2>3
  <2> QED
    BY <2>1, <2>2, <2>3 DEF Route, PostDies, FeedbackOpens, Decides,
         RequestReads, RequestWrites, Disable
<1>3. ASSUME ~thread.seeded
      PROVE  /\ Len(stored') + Len(posting') <= 1
             /\ status' # "waiting"
             /\ \A q \in Requests : req'[q].pc # "append"
  <2>0. /\ Len(stored) + Len(posting) <= 1 /\ status # "waiting"
        /\ \A q \in Requests : req[q].pc # "append"
        /\ Len(stored) \in Nat /\ Len(posting) \in Nat
    BY <1>0, <1>3 DEF ReadInv
  <2>1. CASE PostAppends
    <3>1. Len(stored') = Len(stored) + Len(posting) /\ Len(posting') = 0
      BY <1>0, <2>1, Concats DEF PostAppends
    <3> QED
      BY <2>0, <2>1, <3>1 DEF PostAppends, row
  <2>2. CASE PostDies
    BY <2>0, <2>2 DEF PostDies, row
  <2>3. ASSUME NEW q \in Requests, RequestReads(q) \/ RequestWrites(q) \/ Decides(q)
        PROVE  /\ Len(stored') + Len(posting') <= 1
               /\ status' # "waiting"
               /\ \A p \in Requests : req'[p].pc # "append"
    <3>1. req \in [Requests -> Request]
      BY DEF TInv, TypeOK
    <3>2. stored' = stored /\ posting' = posting
      BY <2>3 DEF RequestReads, RequestWrites, Decides
    <3>3. status' # "waiting"
      BY <2>0, <2>3, <3>1 DEF RequestReads, RequestWrites, Decides, Request, row
    <3>4. \A p \in Requests : req'[p].pc # "append"
      <4>1. CASE RequestReads(q)
        BY <2>0, <4>1, <3>1 DEF RequestReads, NoReq, Request
      <4>2. CASE RequestWrites(q)
        BY <2>0, <4>2, <3>1 DEF RequestWrites, NoReq
      <4>3. CASE Decides(q)
        <5>1. PICK to \in {"todo", "done", "failed"} :
                req' = [req EXCEPT ![q] = [NoReq EXCEPT !.pc = "write", !.to = to]]
          BY <4>3 DEF Decides, Opens
        <5>2. req'[q].pc = "write"
          BY <3>1, <5>1 DEF NoReq
        <5> QED
          BY <2>0, <3>1, <5>1, <5>2
      <4> QED
        BY <2>3, <4>1, <4>2, <4>3
    <3> QED
      BY <2>0, <3>2, <3>3, <3>4
  <2>4. ASSUME NEW a \in Agents, Disable(a)
        PROVE  UNCHANGED <<stored, posting, status, req>>
    BY <2>4 DEF Disable, row
  <2> QED
    BY <2>0, <2>1, <2>2, <2>3, <2>4 DEF Route, FeedbackOpens, FeedbackAppends
<1> QED
  BY <1>1, <1>2, <1>3 DEF ReadInv

\* The thread a run starts with holds every message it is due: all that is
\* stored if the thread is resumed, the only one there is if it is new.
LEMMA SeedsRead ==
  ASSUME TInv, ReadInv, RunSeeds
  PROVE  thread'.seeded /\ run.due \subseteq ToSet(thread'.humans)
<1>0. /\ stored \in Seq(Texts) /\ posting \in Seq(Texts) /\ thread \in Thread
      /\ run.due \subseteq ToSet(stored)
  BY DEF TInv, TypeOK, ReadInv, RunSeeds
<1>1. CASE thread.seeded
  <2>1. NewTexts \in Seq(Texts) /\ ToSet(NewTexts) = ToSet(stored) \ ToSet(thread.humans)
    BY <1>0, UnseenIs DEF NewTexts
  <2>2. thread.humans \in Seq(Texts)
    BY <1>0 DEF Thread
  <2>3. ToSet(thread.humans \o NewTexts) = ToSet(thread.humans) \cup ToSet(NewTexts)
    BY <2>1, <2>2, Concats
  <2>4. thread'.humans = thread.humans \o NewTexts /\ thread'.seeded
    BY <1>0, <1>1 DEF RunSeeds, Resumed, Thread
  <2> QED
    BY <1>0, <2>1, <2>3, <2>4
<1>2. CASE ~thread.seeded
  <2>1. Len(stored) <= 1
    BY <1>0, <1>2 DEF ReadInv
  <2>2. /\ thread'.humans = <<IF stored = <<>> THEN Brief ELSE Head(stored)>>
        /\ thread'.seeded
    BY <1>2 DEF RunSeeds, Seeded, NoThread
  <2>3. ASSUME NEW x \in ToSet(stored) PROVE x \in ToSet(thread'.humans)
    <3>1. PICK i \in 1..Len(stored) : x = stored[i]
      BY <1>0, <2>3 DEF ToSet
    <3>2. i = 1 /\ stored # <<>> /\ x = Head(stored)
      BY <1>0, <2>1, <3>1
    <3>3. thread'.humans = <<x>>
      BY <2>2, <3>2
    <3> QED
      BY <3>3 DEF ToSet
  <2> QED
    BY <1>0, <2>2, <2>3
<1> QED
  BY <1>1, <1>2

\* Every step.
LEMMA ReadKept == TInv /\ ReadInv /\ [Next]_vars => ReadInv'
<1> SUFFICES ASSUME TInv, ReadInv, [Next]_vars PROVE ReadInv'
  OBVIOUS
<1>0. run \in Run /\ req \in [Requests -> Request]
  BY DEF TInv, TypeOK
<1>1. CASE RunClaims
  <2>1. run'.pc = "seed" /\ run'.due = ToSet(stored)
    BY <1>1 DEF RunClaims, NoRun
  <2> QED
    BY <1>1, <2>1 DEF ReadInv, RunClaims, Rest, InGraphPcs
<1>2. CASE RunSeeds
  <2>1. run'.pc = "supervisor" /\ run'.due = run.due
    BY <1>0, <1>2 DEF RunSeeds, Run
  <2> QED
    BY <1>2, <2>1, SeedsRead DEF ReadInv, InGraphPcs
<1>3. CASE GraphStep
  BY <1>3, GraphMoves DEF ReadInv, InGraphPcs
<1>4. CASE RunReads \/ RunErrs
  <2>1. /\ run.pc = "read" => run'.pc \in {"write", "error"} /\ run'.due = run.due
        /\ run.pc # "read" => run'.pc \in {"free", "fail"}
    BY <1>0, <1>4 DEF RunReads, RunErrs, Run, NoRun
  <2>2. UNCHANGED <<status, stored, posting, req, thread>>
    BY <1>4 DEF RunReads, RunErrs, Rest, row
  <2> QED
    BY <2>1, <2>2 DEF ReadInv, InGraphPcs
<1>5. CASE RunWrites \/ RunFails \/ RunDies \/ RowReclaimed
  <2>1. /\ UNCHANGED <<stored, posting, req, thread>>
        /\ run'.pc = "free" \/ run' = run
        /\ status' = "waiting" => status = "waiting" \/ run.pc = "write"
    BY <1>5 DEF RunWrites, RunFails, RunDies, RowReclaimed, Rest, NoRun, row
  <2> QED
    BY <2>1 DEF ReadInv, InGraphPcs
<1>6. CASE UNCHANGED vars
  BY <1>6 DEF ReadInv, vars, row
<1> QED
  BY <1>1, <1>2, <1>3, <1>4, <1>5, <1>6, RouteReads DEF Next, RunStep

\* At most one message is there or under way.
LEMMA InitRead == Init => ReadInv
<1> SUFFICES ASSUME Init PROVE ReadInv
  OBVIOUS
<1>1. ~thread.seeded /\ run.pc = "free" /\ status = "todo"
  BY DEF Init, NoThread, NoRun
<1>2. Len(stored) + Len(posting) <= 1
  <2>1. Len(<<>>) = 0 /\ Len(<<Brief>>) = 1 /\ Len(<<Synthesized>>) = 1
    OBVIOUS
  <2>2. /\ stored = <<>> \/ stored = <<Brief>>
        /\ posting = <<>> \/ posting = <<Brief>> \/ posting = <<Synthesized>>
        /\ stored = <<>> \/ posting = <<>>
    BY DEF Init
  <2>3. Len(stored) \in {0, 1} /\ Len(posting) \in {0, 1}
    BY <2>1, <2>2
  <2>4. Len(stored) = 0 \/ Len(posting) = 0
    BY <2>1, <2>2
  <2>5. \A m, n \in {0, 1} : m = 0 \/ n = 0 => m + n <= 1
    OBVIOUS
  <2> QED
    BY <2>3, <2>4, <2>5
<1>3. \A q \in Requests : req[q].pc = "free"
  BY DEF Init, NoReq
<1> QED
  BY <1>1, <1>2, <1>3 DEF ReadInv, InGraphPcs

\* Feedback that is answered is stored, and only a row at rest waits.
HeardInv ==
  /\ acked \subseteq ToSet(stored)
  /\ \A q \in Requests :
       req[q].text \in Replies =>
         /\ req[q].to = "todo"
         /\ req[q].pc \in {"read", "write"} => req[q].text \in ToSet(stored)
  /\ status = "waiting" => run.pc = "free"

\* What holds as long as requests do not overlap.
Calm ==
  /\ \A p, q \in Requests : req[p].pc # "free" /\ req[q].pc # "free" => p = q
  /\ \A q \in Requests :
       \/ req[q].pc \in {"append", "read"}
       \/ req[q].pc = "write" /\ req[q].to # "failed"
       => status = "waiting"
  /\ run.pc # "free" => acked \subseteq run.due
  /\ status = "waiting" => acked \subseteq ToSet(thread.humans)
HInv == HeardInv /\ (~overlap => Calm)

\* The requests: one that opens alone, its append, its answer.
LEMMA RouteHeard ==
  ASSUME TInv, HInv, Route
  PROVE  HInv'
<1>0. /\ stored \in Seq(Texts) /\ posting \in Seq(Texts)
      /\ req \in [Requests -> Request] /\ overlap \in BOOLEAN
  BY DEF TInv, TypeOK
<1>1. CASE PostAppends \/ PostDies \/ \E a \in Agents : Disable(a)
  <2>1. /\ UNCHANGED <<status, thread, req, run, acked, overlap>>
        /\ stored' = stored \/ stored' = stored \o posting
    BY <1>1 DEF PostAppends, PostDies, Disable, row, history
  <2>2. ToSet(stored) \subseteq ToSet(stored')
    <3>1. ToSet(stored \o posting) = ToSet(stored) \cup ToSet(posting)
      BY <1>0, Concats
    <3> QED
      BY <2>1, <3>1
  <2> QED
    BY <2>1, <2>2 DEF HInv, HeardInv, Calm
<1>2. ASSUME NEW q \in Requests, NEW r \in Request, Opens(q, r),
             UNCHANGED <<status, stored, thread, run, acked>>,
             r.pc \in {"append", "write"},
             r.pc = "append" => r.to = "todo",
             r.pc = "append" \/ r.to # "failed" => status = "waiting",
             r.pc = "write" => r.text \notin Replies
      PROVE  HInv'
  <2>1. req' = [req EXCEPT ![q] = r]
    BY <1>2 DEF Opens
  <2>2. HeardInv'
    BY <1>0, <1>2, <2>1 DEF HInv, HeardInv
  <2>3. ASSUME ~overlap' PROVE Calm'
    <3>1. ~overlap /\ \A p \in Requests \ {q} : req[p].pc = "free"
      BY <1>0, <1>2, <2>3 DEF Opens
    <3> QED
      BY <1>0, <1>2, <2>1, <3>1 DEF HInv, Calm
  <2> QED
    BY <2>2, <2>3 DEF HInv
<1>3. ASSUME NEW q \in Requests, NEW t \in Replies, FeedbackOpens(q, t)
      PROVE  HInv'
  <2> DEFINE r == [NoReq EXCEPT !.pc = "append", !.text = t]
  <2>1. r \in Request /\ r.pc = "append" /\ r.to = "todo"
    BY DEF NoReq, Request
  <2>2. /\ Opens(q, r) /\ status = "waiting"
        /\ UNCHANGED <<status, stored, thread, run, acked>>
    BY <1>3 DEF FeedbackOpens, row
  <2> HIDE DEF r
  <2> QED
    BY <1>2, <2>1, <2>2
<1>4. ASSUME NEW q \in Requests, Decides(q)
      PROVE  HInv'
  <2>1. PICK to \in {"todo", "done", "failed"} :
             /\ to # "failed" => status = "waiting"
             /\ Opens(q, [NoReq EXCEPT !.pc = "write", !.to = to])
    BY <1>4 DEF Decides
  <2> DEFINE r == [NoReq EXCEPT !.pc = "write", !.to = to]
  <2>2. r \in Request /\ r.pc = "write" /\ r.to = to /\ r.text = Nobody /\ Opens(q, r)
    BY <2>1 DEF NoReq, Request
  <2>3. UNCHANGED <<status, stored, thread, run, acked>> /\ Nobody \notin Replies
    BY <1>4, ThreadNames DEF Decides, row
  <2> HIDE DEF r
  <2> QED
    BY <1>2, <2>1, <2>2, <2>3
<1>5. ASSUME NEW q \in Requests, FeedbackAppends(q)
      PROVE  HInv'
  <2>1. /\ req[q].text \in Texts /\ req[q].text \in Replies
        /\ stored' = Append(stored, req[q].text)
    BY <1>5 DEF FeedbackAppends, TInv, Asked, Texts
  <2>2. ToSet(stored') = ToSet(stored) \cup {req[q].text}
    BY <1>0, <2>1, AppendedSet
  <2>3. /\ req' = [req EXCEPT ![q].pc = "read"] /\ req[q].pc = "append"
        /\ UNCHANGED <<status, thread, run, acked, overlap>>
    BY <1>5 DEF FeedbackAppends, row, history
  <2>4. HeardInv'
    BY <1>0, <2>1, <2>2, <2>3 DEF HInv, HeardInv, Request
  <2>5. ASSUME ~overlap PROVE Calm'
    BY <1>0, <2>1, <2>2, <2>3, <2>5 DEF HInv, Calm, Request
  <2> QED
    BY <2>3, <2>4, <2>5 DEF HInv
<1>6. ASSUME NEW q \in Requests, RequestReads(q)
      PROVE  HInv'
  <2>3. /\ req' = [req EXCEPT ![q] = IF CanTransition(status, @.to)
                                    THEN [@ EXCEPT !.pc = "write"] ELSE NoReq]
        /\ req[q].pc = "read"
        /\ UNCHANGED <<status, stored, thread, run, acked, overlap>>
    BY <1>6 DEF RequestReads, row, history
  <2>1. /\ \A p \in Requests \ {q} : req'[p] = req[p]
        /\ \/ req'[q] = NoReq
           \/ /\ req'[q].pc = "write" /\ req'[q].to = req[q].to
              /\ req'[q].text = req[q].text
    BY <1>0, <2>3 DEF Request
  <2>2. NoReq.pc = "free" /\ NoReq.text \notin Replies
    BY ThreadNames DEF NoReq
  <2>4. HeardInv'
    BY <1>0, <2>1, <2>2, <2>3 DEF HInv, HeardInv
  <2>5. ASSUME ~overlap PROVE Calm'
    BY <1>0, <2>1, <2>2, <2>3, <2>5 DEF HInv, Calm
  <2> QED
    BY <2>3, <2>4, <2>5 DEF HInv
<1>7. ASSUME NEW q \in Requests, RequestWrites(q)
      PROVE  HInv'
  <2>1. /\ req' = [req EXCEPT ![q] = NoReq] /\ req[q].pc = "write"
        /\ status' = req[q].to /\ acked' = acked \cup ({req[q].text} \cap Replies)
        /\ UNCHANGED <<stored, thread, run, overlap>>
    BY <1>7 DEF RequestWrites
  <2>2. NoReq.pc = "free" /\ NoReq.text \notin Replies /\ req[q].to # "waiting"
    BY <1>0, ThreadNames DEF NoReq, Request
  <2>4. HeardInv'
    BY <1>0, <2>1, <2>2 DEF HInv, HeardInv
  <2>5. ASSUME ~overlap PROVE Calm'
    <3>1. \A p \in Requests : req'[p].pc = "free"
      BY <1>0, <2>1, <2>2, <2>5 DEF HInv, Calm
    <3>2. run.pc # "free" => acked' = acked
      BY <1>0, <2>1, <2>5 DEF HInv, HeardInv, Calm
    <3> QED
      BY <1>0, <2>1, <2>2, <2>5, <3>1, <3>2 DEF HInv, Calm
  <2> QED
    BY <2>1, <2>4, <2>5 DEF HInv
<1> QED
  BY <1>1, <1>3, <1>4, <1>5, <1>6, <1>7 DEF Route

\* Every step: a run takes up all that is answered, and its draft waits on it.
LEMMA HeardKept == TInv /\ ReadInv /\ HInv /\ [Next]_vars => HInv'
<1> SUFFICES ASSUME TInv, ReadInv, HInv, [Next]_vars PROVE HInv'
  OBVIOUS
<1>0. run \in Run /\ req \in [Requests -> Request]
  BY DEF TInv, TypeOK
<1>1. CASE RunClaims
  <2>1. /\ run'.pc = "seed" /\ run'.due = ToSet(stored)
        /\ status = "todo" /\ status' = "in_progress"
    BY <1>1 DEF RunClaims, NoRun
  <2>2. UNCHANGED <<req, stored, thread, acked, overlap>>
    BY <1>1 DEF RunClaims, Rest, history
  <2> QED
    BY <2>1, <2>2 DEF HInv, HeardInv, Calm
<1>2. CASE RunSeeds
  <2>1. run.pc # "free" /\ run'.pc = "supervisor" /\ run'.due = run.due
    BY <1>0, <1>2 DEF RunSeeds, Run
  <2>2. UNCHANGED <<status, req, stored, acked, overlap>>
    BY <1>2 DEF RunSeeds, Rest, history, row
  <2> QED
    BY <2>1, <2>2 DEF HInv, HeardInv, Calm
<1>3. CASE GraphStep
  BY <1>3, GraphMoves DEF HInv, HeardInv, Calm
<1>4. CASE RunReads \/ RunErrs
  <2>1. /\ run.pc # "free"
        /\ run'.pc = "free" \/ run'.due = run.due
    BY <1>0, <1>4 DEF RunReads, RunErrs, Run, NoRun
  <2>2. UNCHANGED <<status, stored, req, thread, acked, overlap>>
    BY <1>4 DEF RunReads, RunErrs, Rest, row, history
  <2> QED
    BY <2>1, <2>2 DEF HInv, HeardInv, Calm
<1>5. CASE RunWrites
  <2>1. /\ run.pc = "write" /\ run'.pc = "free"
        /\ run.due \subseteq ToSet(thread.humans)
        /\ UNCHANGED <<stored, req, thread, acked, overlap>>
    BY <1>5 DEF RunWrites, Rest, NoRun, ReadInv, InGraphPcs
  <2> QED
    BY <2>1 DEF HInv, HeardInv, Calm
<1>6. CASE RunFails \/ RunDies \/ RowReclaimed
  <2>1. /\ UNCHANGED <<stored, req, thread, acked, overlap>>
        /\ (run.pc # "free" /\ run'.pc = "free") \/ run' = run
        /\ status' = status \/ status' # "waiting"
        /\ run.pc # "free" \/ status = "in_progress"
    BY <1>6 DEF RunFails, RunDies, RowReclaimed, Rest, NoRun, row, history
  <2> QED
    BY <2>1 DEF HInv, HeardInv, Calm
<1>7. CASE UNCHANGED vars
  BY <1>7 DEF HInv, HeardInv, Calm, vars, row, history
<1> QED
  BY <1>1, <1>2, <1>3, <1>4, <1>5, <1>6, <1>7, RouteHeard DEF Next, RunStep

\* Nothing has been answered.
LEMMA InitHeard == Init => HInv
<1> SUFFICES ASSUME Init PROVE HInv
  OBVIOUS
<1>1. \A q \in Requests : req[q].pc = "free" /\ req[q].text \notin Replies
  BY ThreadNames DEF Init, NoReq
<1> QED
  BY <1>1 DEF Init, HInv, HeardInv, Calm, NoRun

-----------------------------------------------------------------------------
(* The report.                                                             *)

\* The run carries the row's agent, a supervisor that has one is bound to it,
\* and a draft at the gate is the structured output.
TaskInv ==
  /\ run.pc # "free" => run.task = assigned
  /\ thread.awaiting => thread.last.by # Nobody
  /\ run.pc = "supervisor" /\ assigned # Nobody =>
       thread.awaiting \/ (thread.last.by = Nobody /\ thread.pinned = assigned)
  /\ run.pc = "supervisor" /\ thread.awaiting =>
       /\ thread.structured = thread.last
       /\ thread.last.by \in Interviewers => thread.last.report = thread.last.run
  /\ thread.structured.by = Nobody => thread.last.report = thread.last.run

\* A row without an agent has never waited: only a discard is open on it.
UnnamedRow ==
  assigned = Nobody =>
    /\ status # "waiting"
    /\ \A q \in Requests : /\ req[q].pc \notin {"append", "read"}
                           /\ req[q].pc = "write" => req[q].to = "failed"
    /\ run.pc # "free" => status \in {"in_progress", "failed"}

\* A draft whose row has no agent is in a run that has not ended, or failed.
UnnamedDraft ==
  assigned = Nobody /\ thread.structured.by # Nobody =>
    /\ run.pc = "free" => status \in {"failed", "done"}
    /\ run.pc # "seed"
    /\ run.pc = "supervisor" => thread.awaiting

\* The report of an output tells of the run that made it.
Told(o) == o.by = Nobody \/ o.report = o.run

\* What the report-writer finds, what it leaves and what the row stores.
ReportInv ==
  /\ run.pc = "report" =>
       IF thread.structured.by \in Interviewers \cup {Nobody} THEN Told(thread.last)
       ELSE thread.last.by = Nobody \/ thread.structured.run = thread.last.run
  /\ run.pc \in {"read", "write"} => Told(thread.last)
  /\ Told(output)

RInv == TaskInv /\ UnnamedRow /\ (faults = 0 => UnnamedDraft /\ ReportInv)

\* A request leaves the run, the thread and the output alone.
LEMMA RouteTells ==
  ASSUME TInv, RInv, Route
  PROVE  RInv'
<1>0. req \in [Requests -> Request] /\ faults \in Nat
  BY DEF TInv, TypeOK
<1>1. UNCHANGED <<assigned, output, thread, run>>
  BY DEF Route, PostAppends, PostDies, FeedbackOpens, FeedbackAppends, Decides,
         RequestReads, RequestWrites, Disable, row
<1>2. faults' = 0 => faults = 0
  <2>1. faults' = faults \/ Fault
    BY DEF Route, PostAppends, PostDies, FeedbackOpens, FeedbackAppends, Decides,
           RequestReads, RequestWrites, Disable, bounds
  <2> QED
    BY <1>0, <2>1 DEF Fault
<1>3. /\ UnnamedRow'
      /\ assigned = Nobody => status' = status \/ status' = "failed"
  <2> SUFFICES ASSUME assigned = Nobody
               PROVE  /\ status' = status \/ status' = "failed"
                      /\ \A q \in Requests :
                           /\ req'[q].pc \notin {"append", "read"}
                           /\ req'[q].pc = "write" => req'[q].to = "failed"
    BY <1>1 DEF RInv, UnnamedRow
  <2>0. /\ status # "waiting"
        /\ \A q \in Requests : /\ req[q].pc \notin {"append", "read"}
                               /\ req[q].pc = "write" => req[q].to = "failed"
    BY DEF RInv, UnnamedRow
  <2>1. ASSUME NEW q \in Requests, Decides(q)
        PROVE  /\ status' = status
               /\ \A p \in Requests :
                    /\ req'[p].pc \notin {"append", "read"}
                    /\ req'[p].pc = "write" => req'[p].to = "failed"
    <3>1. req' = [req EXCEPT ![q] = [NoReq EXCEPT !.pc = "write", !.to = "failed"]]
      BY <2>0, <2>1 DEF Decides, Opens
    <3>2. req'[q].pc = "write" /\ req'[q].to = "failed"
      BY <1>0, <3>1 DEF NoReq
    <3>3. \A p \in Requests : p # q => req'[p] = req[p]
      BY <1>0, <3>1
    <3> QED
      BY <2>0, <2>1, <3>2, <3>3 DEF Decides, row
  <2>2. ASSUME NEW q \in Requests, RequestWrites(q)
        PROVE  /\ status' = "failed"
               /\ \A p \in Requests :
                    /\ req'[p].pc \notin {"append", "read"}
                    /\ req'[p].pc = "write" => req'[p].to = "failed"
    <3>1. req' = [req EXCEPT ![q] = NoReq] /\ NoReq.pc = "free"
      BY <2>2 DEF RequestWrites, NoReq
    <3> QED
      BY <1>0, <2>0, <2>2, <3>1 DEF RequestWrites
  <2>3. ASSUME NEW q \in Requests,
               \/ FeedbackAppends(q) \/ RequestReads(q)
               \/ \E t \in Replies : FeedbackOpens(q, t)
        PROVE  FALSE
    BY <2>0, <2>3 DEF FeedbackAppends, RequestReads, FeedbackOpens
  <2>4. CASE PostAppends \/ PostDies \/ \E a \in Agents : Disable(a)
    BY <2>0, <2>4 DEF PostAppends, PostDies, Disable, row
  <2> QED
    BY <2>1, <2>2, <2>3, <2>4 DEF Route
<1>4. TaskInv'
  BY <1>1 DEF RInv, TaskInv
<1>5. UnnamedDraft => UnnamedDraft'
  BY <1>1, <1>3 DEF UnnamedDraft
<1>6. ReportInv => ReportInv'
  BY <1>1 DEF ReportInv, Told
<1> QED
  BY <1>2, <1>3, <1>4, <1>5, <1>6 DEF RInv

\* A resumed thread whose row has an agent forgets the last output.
LEMMA SeedsTell ==
  ASSUME TInv, RInv, RunSeeds
  PROVE  RInv'
<1>0. run \in Run /\ thread \in Thread
  BY DEF TInv, TypeOK
<1>1. /\ UNCHANGED <<status, assigned, output, req, faults>>
      /\ run.pc = "seed" /\ run'.pc = "supervisor" /\ run'.task = run.task
      /\ run.task = assigned
  BY <1>0 DEF RunSeeds, Rest, row, Run, RInv, TaskInv
<1>2. /\ ~thread'.awaiting
      /\ thread'.structured = thread.structured \/ thread'.structured = NoOutput
      /\ assigned # Nobody => thread'.last = NoOutput /\ thread'.pinned = assigned
      /\ \/ thread'.last = NoOutput
         \/ thread'.last = thread.last /\ thread'.structured = thread.structured
  BY <1>0, <1>1 DEF RunSeeds, Resumed, Seeded, NoThread, Thread
<1>3. NoOutput.by = Nobody /\ NoOutput.report = NoOutput.run
  BY DEF NoOutput
<1>4. TaskInv'
  BY <1>1, <1>2, <1>3 DEF RInv, TaskInv
<1>5. UnnamedRow'
  BY <1>1 DEF RInv, UnnamedRow
<1>6. UnnamedDraft => UnnamedDraft'
  BY <1>1, <1>2, <1>3 DEF UnnamedDraft
<1>7. ReportInv => ReportInv'
  BY <1>1 DEF ReportInv, Told
<1> QED
  BY <1>1, <1>4, <1>5, <1>6, <1>7 DEF RInv

\* Without an agent on the row the supervisor asks the user or ends; then no
\* draft is in the thread, and what it leaves tells of itself.
LEMMA AsksTells ==
  ASSUME TInv, RInv, SupervisorClarifies \/ SupervisorFinishes
  PROVE  RInv'
<1>0. run \in Run /\ thread \in Thread
  BY DEF TInv, TypeOK
<1>1. /\ UNCHANGED <<status, assigned, output, req, faults>>
      /\ run.pc = "supervisor" /\ Asks /\ Step([run EXCEPT !.pc = "report"])
  BY DEF SupervisorClarifies, SupervisorFinishes, Asks, Supervises, InGraph, Rest, row
<1>2. run'.pc \in {"report", "error"} /\ run'.task = run.task
  BY <1>1, TypedShape, StepMoves
<1>3. /\ ~thread.awaiting /\ assigned = Nobody
  BY <1>1 DEF Asks, AtGate, Pinned, RInv, TaskInv
<1>4. /\ thread'.structured = thread.structured
      /\ thread'.awaiting => thread'.last.by # Nobody
      /\ thread'.last = thread.last \/ thread'.last.report = thread'.last.run
  <2>1. CASE SupervisorClarifies
    BY <1>0, <2>1, ThreadNames DEF SupervisorClarifies, Thread
  <2>2. CASE SupervisorFinishes
    BY <1>0, <2>2 DEF SupervisorFinishes, Thread
  <2> QED
    BY <2>1, <2>2
<1>5. TaskInv'
  BY <1>1, <1>2, <1>4 DEF RInv, TaskInv
<1>6. UnnamedRow'
  BY <1>1, <1>2 DEF RInv, UnnamedRow
<1>7. UnnamedDraft => UnnamedDraft'
  BY <1>1, <1>2, <1>3, <1>4 DEF UnnamedDraft
<1>8. UnnamedDraft /\ ReportInv => ReportInv'
  <2> SUFFICES ASSUME UnnamedDraft, ReportInv PROVE ReportInv'
    OBVIOUS
  <2>1. thread.structured.by = Nobody
    BY <1>1, <1>3 DEF UnnamedDraft
  <2>2. Told(thread'.last)
    BY <1>4, <2>1 DEF Told, RInv, TaskInv
  <2> QED
    BY <1>1, <1>2, <1>4, <2>1, <2>2 DEF ReportInv
<1> QED
  BY <1>1, <1>5, <1>6, <1>7, <1>8 DEF RInv

\* A draft is the structured output as well.
LEMMA DraftsTell ==
  ASSUME TInv, RInv, AgentDrafts
  PROVE  RInv'
<1>0. run \in Run /\ thread \in Thread
  BY DEF TInv, TypeOK
<1>1. /\ UNCHANGED <<status, assigned, output, req, faults>>
      /\ run.pc = "agent" /\ Step([run EXCEPT !.pc = "supervisor", !.drafted = TRUE])
      /\ run.next \in Agents
  BY <1>0 DEF AgentDrafts, InGraph, Rest, row, Run, TInv, TypeOK
<1>2. run'.pc \in {"supervisor", "error"} /\ run'.task = run.task
  BY <1>1, TypedShape, StepDrafts
<1>3. /\ thread'.awaiting /\ thread'.last = Draft(run.next)
      /\ thread'.structured = Draft(run.next)
  BY <1>0 DEF AgentDrafts, Thread
<1>4. /\ Draft(run.next).by = run.next /\ run.next # Nobody
      /\ run.next \in Interviewers => Draft(run.next).report = Draft(run.next).run
  BY <1>1, ThreadNames DEF Draft
<1>5. TaskInv'
  BY <1>1, <1>2, <1>3, <1>4 DEF RInv, TaskInv
<1>6. UnnamedRow'
  BY <1>1, <1>2 DEF RInv, UnnamedRow
<1>7. UnnamedDraft'
  BY <1>1, <1>2, <1>3 DEF UnnamedDraft
<1>8. ReportInv => ReportInv'
  BY <1>1, <1>2 DEF ReportInv, Told
<1> QED
  BY <1>1, <1>5, <1>6, <1>7, <1>8 DEF RInv

\* The report is written of the structured output.
LEMMA ReportsTell ==
  ASSUME TInv, RInv, Reports
  PROVE  RInv'
<1>0. run \in Run /\ thread \in Thread /\ thread.last \in Output
  BY DEF TInv, TypeOK, Thread
<1>1. /\ UNCHANGED <<status, assigned, output, req, faults>>
      /\ run.pc = "report" /\ Step([run EXCEPT !.pc = "read"])
  BY DEF Reports, InGraph, Rest, row
<1>2. run'.pc \in {"read", "error"} /\ run'.task = run.task
  BY <1>1, TypedShape, StepMoves
<1>3. /\ thread'.structured = thread.structured /\ thread'.awaiting = thread.awaiting
      /\ thread'.last.by = thread.last.by /\ thread'.last.run = thread.last.run
      /\ IF thread.structured.by \in Interviewers \cup {Nobody} \/ thread.last.by = Nobody
         THEN thread'.last = thread.last
         ELSE thread'.last.report = thread.structured.run
  BY <1>0 DEF Reports, Thread, Output
<1>5. TaskInv'
  BY <1>1, <1>2, <1>3 DEF RInv, TaskInv
<1>6. UnnamedRow'
  BY <1>1, <1>2 DEF RInv, UnnamedRow
<1>7. UnnamedDraft => UnnamedDraft'
  BY <1>1, <1>2, <1>3 DEF UnnamedDraft
<1>8. ReportInv => ReportInv'
  BY <1>1, <1>2, <1>3 DEF ReportInv, Told
<1> QED
  BY <1>1, <1>5, <1>6, <1>7, <1>8 DEF RInv

\* The supervisor stops at the gate, or goes on to an agent.
LEMMA StopsTell ==
  ASSUME TInv, RInv, SupervisorStops
  PROVE  RInv'
<1>0. run \in Run /\ thread \in Thread
  BY DEF TInv, TypeOK
<1>1. /\ UNCHANGED <<status, assigned, output, req, faults, thread>>
      /\ run.pc = "supervisor" /\ thread.awaiting /\ Step([run EXCEPT !.pc = "report"])
  BY DEF SupervisorStops, Supervises, AtGate, InGraph, Rest, row
<1>2. run'.pc \in {"report", "error"} /\ run'.task = run.task
  BY <1>1, TypedShape, StepMoves
<1>5. TaskInv'
  BY <1>1, <1>2 DEF RInv, TaskInv
<1>6. UnnamedRow'
  BY <1>1, <1>2 DEF RInv, UnnamedRow
<1>7. UnnamedDraft => UnnamedDraft'
  BY <1>1, <1>2 DEF UnnamedDraft
<1>8. ReportInv => ReportInv'
  <2>1. /\ thread.structured = thread.last /\ thread.last.by # Nobody
        /\ thread.last.by \in Interviewers => thread.last.report = thread.last.run
    BY <1>1 DEF RInv, TaskInv
  <2> QED
    BY <1>1, <1>2, <2>1 DEF ReportInv, Told
<1> QED
  BY <1>1, <1>5, <1>6, <1>7, <1>8 DEF RInv

\* The supervisor chooses, or a node throws.
LEMMA GoesTell ==
  ASSUME TInv, RInv, SupervisorFollowsPin \/ SupervisorRoutes \/ GraphThrows
  PROVE  RInv'
<1>0. run \in Run /\ thread \in Thread /\ enabled \subseteq Agents /\ faults \in Nat
  BY DEF TInv, TypeOK
<1>1. /\ UNCHANGED <<status, assigned, output, req, thread>>
      /\ faults' = 0 => faults = 0 /\ faults' = faults
  BY <1>0 DEF SupervisorFollowsPin, SupervisorRoutes, GraphThrows, InGraph, Rest, row, Fault
<1>2. /\ run'.pc \in {"agent", "supervisor", "error"} /\ run'.task = run.task
      /\ run.pc # "free" /\ (run'.pc = "supervisor" => run.pc = "supervisor")
  <2>1. CASE SupervisorFollowsPin \/ SupervisorRoutes
    <3>1. \E a \in Speakers : GoTo(a)
      <4>1. thread.pinned \in Speakers /\ enabled \subseteq Speakers /\ Nobody \in Speakers
        BY <1>0 DEF Thread, Speakers
      <4> QED
        BY <2>1, <4>1 DEF SupervisorFollowsPin, SupervisorRoutes
    <3> QED
      BY <2>1, <3>1, TypedShape, Goes
      DEF SupervisorFollowsPin, SupervisorRoutes, Supervises, Asks
  <2>2. CASE GraphThrows
    BY <1>0, <2>2 DEF GraphThrows, Run
  <2> QED
    BY <2>1, <2>2
<1>5. TaskInv'
  BY <1>1, <1>2 DEF RInv, TaskInv
<1>6. UnnamedRow'
  BY <1>1, <1>2 DEF RInv, UnnamedRow
<1>7. UnnamedDraft => UnnamedDraft'
  BY <1>1, <1>2 DEF UnnamedDraft
<1>8. ReportInv => ReportInv'
  BY <1>1, <1>2 DEF ReportInv, Told
<1> QED
  BY <1>1, <1>5, <1>6, <1>7, <1>8 DEF RInv

\* The outcome is stored; a row left without an agent is done.
LEMMA WritesTell ==
  ASSUME TInv, RInv, RunWrites
  PROVE  RInv'
<1>0. run \in Run /\ thread \in Thread /\ faults \in Nat
  BY DEF TInv, TypeOK
<1>1. /\ UNCHANGED <<req, thread, faults>> /\ run'.pc = "free"
      /\ run.pc = "write"
      /\ status' = IF thread.awaiting THEN "waiting" ELSE "done"
      /\ output' = thread.last
      /\ assigned' = IF thread.last.by = Nobody THEN assigned ELSE thread.last.by
  BY DEF RunWrites, Rest, NoRun, To, Stamped
<1>2. assigned' = Nobody => assigned = Nobody /\ thread.last.by = Nobody
  BY <1>1
<1>3. assigned' = Nobody => status' = "done"
  BY <1>1, <1>2 DEF RInv, TaskInv
<1>5. TaskInv'
  BY <1>1 DEF RInv, TaskInv
<1>6. UnnamedRow'
  BY <1>1, <1>2, <1>3 DEF RInv, UnnamedRow
<1>7. UnnamedDraft'
  BY <1>1, <1>3 DEF UnnamedDraft
<1>8. ReportInv => ReportInv'
  BY <1>1 DEF ReportInv, Told
<1> QED
  BY <1>1, <1>5, <1>6, <1>7, <1>8 DEF RInv

\* A run that leaves no outcome, and one that has not started.
LEMMA OthersTell ==
  ASSUME TInv, RInv,
         \/ RunClaims \/ RunReads \/ RunErrs \/ RunFails \/ RunDies
         \/ RowReclaimed \/ UNCHANGED vars
  PROVE  RInv'
<1>0. run \in Run /\ thread \in Thread /\ faults \in Nat
  BY DEF TInv, TypeOK
<1>1. CASE RunClaims
  <2>1. /\ UNCHANGED <<assigned, output, thread, req, faults>>
        /\ status = "todo" /\ status' = "in_progress" /\ run.pc = "free"
        /\ run'.pc = "seed" /\ run'.task = assigned
    BY <1>1 DEF RunClaims, NoRun, Rest
  <2>5. TaskInv' /\ UnnamedRow'
    BY <2>1 DEF RInv, TaskInv, UnnamedRow
  <2>6. UnnamedDraft => UnnamedDraft'
    BY <2>1 DEF UnnamedDraft
  <2>7. ReportInv => ReportInv'
    BY <2>1 DEF ReportInv, Told
  <2> QED
    BY <2>1, <2>5, <2>6, <2>7 DEF RInv
<1>2. CASE RunReads \/ RunErrs \/ RunFails
  <2>1. /\ UNCHANGED <<assigned, output, thread, req, faults>>
        /\ run.pc # "free"
        /\ \/ run'.pc = "free"
           \/ run'.pc \in {"write", "error", "fail"} /\ run'.task = run.task
        /\ run'.pc = "write" => run.pc = "read"
        /\ status' = status \/ (run'.pc = "free" /\ status' = "failed")
    BY <1>0, <1>2 DEF RunReads, RunErrs, RunFails, Rest, NoRun, row, Run
  <2>2. run'.pc = "free" => status' = "failed" \/ ~CanTransition(status, "failed")
    BY <1>0, <1>2 DEF RunReads, RunErrs, RunFails, Run
  <2>3. CanTransition("in_progress", "failed")
    BY DEF CanTransition, Allowed
  <2>5. TaskInv' /\ UnnamedRow'
    BY <2>1 DEF RInv, TaskInv, UnnamedRow
  <2>6. UnnamedDraft => UnnamedDraft'
    BY <2>1, <2>2, <2>3 DEF UnnamedDraft, RInv, UnnamedRow
  <2>7. ReportInv => ReportInv'
    BY <2>1 DEF ReportInv, Told
  <2> QED
    BY <2>1, <2>5, <2>6, <2>7 DEF RInv
<1>3. CASE RunDies
  <2>1. /\ UNCHANGED <<status, assigned, output, thread, req>>
        /\ run'.pc = "free" /\ faults' # 0
    BY <1>0, <1>3 DEF RunDies, NoRun, Rest, Fault, row
  <2> QED
    BY <2>1 DEF RInv, TaskInv, UnnamedRow
<1>4. CASE RowReclaimed
  <2>1. /\ UNCHANGED <<assigned, output, thread, req, faults, run>>
        /\ run.pc = "free" /\ status = "in_progress" /\ status' = "todo"
    BY <1>4 DEF RowReclaimed, Rest
  <2> QED
    BY <2>1 DEF RInv, TaskInv, UnnamedRow, UnnamedDraft, ReportInv, Told
<1>5. CASE UNCHANGED vars
  BY <1>5 DEF RInv, TaskInv, UnnamedRow, UnnamedDraft, ReportInv, Told, vars, row, bounds
<1> QED
  BY <1>1, <1>2, <1>3, <1>4, <1>5

\* Every step.
LEMMA TellsKept == TInv /\ RInv /\ [Next]_vars => RInv'
BY RouteTells, SeedsTell, AsksTells, DraftsTell, ReportsTell, StopsTell, GoesTell,
   WritesTell, OthersTell DEF Next, RunStep, GraphStep

\* Nothing has been said.
LEMMA InitTells == Init => RInv
<1> SUFFICES ASSUME Init PROVE RInv
  OBVIOUS
<1>1. \A q \in Requests : req[q].pc = "free"
  BY DEF Init, NoReq
<1> QED
  BY <1>1 DEF Init, RInv, TaskInv, UnnamedRow, UnnamedDraft, ReportInv, Told,
     NoRun, NoThread, NoOutput

-----------------------------------------------------------------------------
(* The theorems.                                                           *)

\* The checkpoint, the run, the messages and the output keep their types: what
\* is taken up was written by somebody, and no counter leaves its range.
THEOREM ThreadTypeCorrect == Spec => []TypeOK
<1>1. TInv => TypeOK
  BY DEF TInv
<1> QED
  BY InitTyped, TypesKept, <1>1, PTL DEF Spec

\* An agent drafts with all that the user had sent when the run was claimed,
\* whatever overlaps, fails or dies.
THEOREM AgentHasReadSafe == Spec => []AgentHasReadTheUser
<1>1. ReadInv => AgentHasReadTheUser
  BY DEF ReadInv, AgentHasReadTheUser, InGraphPcs
<1> QED
  BY InitTyped, TypesKept, InitRead, ReadKept, <1>1, PTL DEF Spec

\* Feedback that was answered is in the thread of the draft the user is shown
\* next, when requests do not overlap.
THEOREM FeedbackHeardSafe == Spec => []FeedbackIsHeard
<1>1. HInv => FeedbackIsHeard
  BY DEF HInv, Calm, FeedbackIsHeard
<1> QED
  BY InitTyped, TypesKept, InitRead, ReadKept, InitHeard, HeardKept, <1>1, PTL DEF Spec

\* While nothing fails, the stored report tells of the output it comes with.
THEOREM ReportTellsSafe == Spec => []ReportTellsOfOutput
<1>1. RInv => ReportTellsOfOutput
  BY DEF RInv, ReportInv, Told, ReportTellsOfOutput
<1> QED
  BY InitTyped, TypesKept, InitTells, TellsKept, <1>1, PTL DEF Spec

\* A run in which an agent drafted does not finish the task: its draft waits
\* at the gate, whatever the supervisor chooses and whatever fails.
THEOREM DraftStopsSafe == Spec => DraftStopsAtGate
<1>1. IInv /\ [Next]_vars =>
        [status # "done" /\ status' = "done" /\ run.pc = "write" /\ run'.pc = "free"
           => ~run.drafted]_vars
  <2> SUFFICES ASSUME IInv, Next, status # "done", status' = "done",
                      run.pc = "write", run'.pc = "free", run.drafted
               PROVE  FALSE
    OBVIOUS
  <2>1. thread.awaiting
    BY DEF IInv, DraftsWait
  <2>2. RunWrites \/ RunDies
    <3>1. CASE Route \/ RowReclaimed
      <4>1. UNCHANGED run
        BY <3>1 DEF Route, PostAppends, PostDies, FeedbackOpens, FeedbackAppends,
               Decides, RequestReads, RequestWrites, Disable, RowReclaimed
      <4> QED
        BY <4>1
    <3>2. CASE RunClaims \/ RunSeeds \/ RunReads \/ RunErrs \/ RunFails
      BY <3>2 DEF RunClaims, RunSeeds, RunReads, RunErrs, RunFails
    <3>3. CASE GraphStep
      BY <3>3 DEF GraphStep, SupervisorStops, SupervisorFollowsPin, SupervisorRoutes,
             SupervisorClarifies, SupervisorFinishes, AgentDrafts, Reports,
             GraphThrows, Asks, Supervises
    <3> QED
      BY <3>1, <3>2, <3>3 DEF Next, RunStep
  <2> QED
    BY <2>1, <2>2 DEF RunWrites, RunDies, To, row
<1> QED
  BY InitInv, NextInv, <1>1, PTL DEF Spec, DraftStopsAtGate

\* While nothing fails, a draft that is sent back is redrafted by the agent
\* that wrote it.
THEOREM ReturnsToAuthorSafe == Spec => []FeedbackReturnsToAuthor
<1>1. IInv => FeedbackReturnsToAuthor
  BY DEF IInv, AuthorHolds, FeedbackReturnsToAuthor
<1> QED
  BY InitInv, NextInv, <1>1, PTL DEF Spec
=============================================================================
