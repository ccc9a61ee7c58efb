--------------------------- MODULE EventBusProofs ---------------------------
(***************************************************************************)
(* What holds of the two components that live on the event bus: the worker *)
(* that 'task.ready' wakes (WorkerPool), for every limit and number of     *)
(* open ticks, and the stream that 'task.log' feeds (LogStream), for every *)
(* number of lines, connections and failures and every page.               *)
(***************************************************************************)
EXTENDS WorkerPool, LogStream, FiniteSetTheorems, TLAPS

-----------------------------------------------------------------------------
(* WorkerPool: types.                                                      *)

\* Where the while condition leads: claiming once more, or out of the tick.
LEMMA LoopTestCases ==
  ASSUME TypeOK, NEW k \in Ticks, NEW n \in Nat, LoopTest(k, n)
  PROVE  \/ n < Max /\ pc' = [pc EXCEPT ![k] = "claiming"] /\ UNCHANGED <<timers, handle>>
         \/ n >= Max /\ Leave(k, "returns")
BY MaxPositive DEF TypeOK, LoopTest

\* Leaving a tick re-arms the poll unless the worker is stopped.
LEMMA LeaveEffect ==
  ASSUME TypeOK, NEW k \in Ticks, NEW how, Leave(k, how)
  PROVE  /\ pc' = [pc EXCEPT ![k] = "idle"]
         /\ timers' \in Nat
         /\ handle' \in {"null", "pending", "fired"}
         /\ handle' = "pending" => timers' > 0
         /\ ~stopped => timers' > 0
BY DEF TypeOK, Leave, ScheduleNext

\* The counters never go below zero, and a pending handle names a real timeout.
THEOREM PoolTypeCorrect == Spec => []TypeOK
<1>1. Init => TypeOK
  <2> SUFFICES ASSUME Init PROVE TypeOK
    OBVIOUS
  <2>1. stopped \in BOOLEAN /\ exited \in BOOLEAN
    BY Zenon DEF Init
  <2>2. pc \in [Ticks -> {"idle", "reclaiming", "claiming"}]
    BY DEF Init
  <2>3. inflight = 0 /\ timers = 1 /\ handle = "pending" /\ ready = 0
        /\ jobs = 0 /\ kicks = 0 /\ faults = 0
    BY DEF Init
  <2> QED
    BY <2>1, <2>2, <2>3 DEF TypeOK
<1>2. TypeOK /\ [Next]_vars => TypeOK'
  <2> SUFFICES ASSUME TypeOK, [Next]_vars PROVE TypeOK'
    OBVIOUS
  <2>1. ASSUME NEW k \in Ticks, TimerFires(k) PROVE TypeOK'
    BY <2>1 DEF TypeOK, TimerFires, env
  <2>2. ASSUME NEW k \in Ticks, Kick(k) PROVE TypeOK'
    BY <2>2 DEF TypeOK, Kick, Cancel
  <2>3. ASSUME NEW k \in Ticks, Reclaimed(k) PROVE TypeOK'
    <3>1. LoopTest(k, inflight)
      BY <2>3 DEF Reclaimed
    <3> QED
      BY <2>3, <3>1, LoopTestCases, LeaveEffect DEF TypeOK, Reclaimed, env
  <2>4. ASSUME NEW k \in Ticks, Claimed(k) PROVE TypeOK'
    <3>1. LoopTest(k, inflight + 1) /\ inflight + 1 \in Nat
      BY <2>4 DEF Claimed, TypeOK
    <3> QED
      BY <2>4, <3>1, LoopTestCases, LeaveEffect DEF TypeOK, Claimed, env
  <2>5. ASSUME NEW k \in Ticks, NothingToClaim(k) PROVE TypeOK'
    BY <2>5, LeaveEffect DEF TypeOK, NothingToClaim, env
  <2>6. ASSUME NEW k \in Ticks, TickThrows(k) PROVE TypeOK'
    BY <2>6, LeaveEffect DEF TypeOK, TickThrows
  <2>7. CASE RunEnds
    BY <2>7 DEF TypeOK, RunEnds, env
  <2>8. CASE Stop
    BY <2>8 DEF TypeOK, Stop, Cancel, env
  <2>9. CASE Exit
    <3>1. exited' \in BOOLEAN
      BY <2>9, Zenon DEF Exit
    <3> QED
      BY <2>9, <3>1 DEF TypeOK, Exit, env
  <2>10. CASE JobArrives
    BY <2>10 DEF TypeOK, JobArrives
  <2>11. CASE UNCHANGED vars
    BY <2>11 DEF TypeOK, vars, env
  <2> QED
    BY <2>1, <2>2, <2>3, <2>4, <2>5, <2>6, <2>7, <2>8, <2>9, <2>10, <2>11 DEF Next, Tick
<1> QED
  BY <1>1, <1>2, PTL DEF Spec

-----------------------------------------------------------------------------
(* The bound on open runners.                                              *)

\* Counting the ticks that await a claim, as one of them starts or stops.
LEMMA ClaimingCounts ==
  /\ Cardinality(Claiming) \in Nat
  /\ Cardinality(Claiming) <= Cardinality(Ticks)
  /\ Cardinality(Ticks) \in Nat
  /\ \A k \in Claiming : Cardinality(Claiming \ {k}) = Cardinality(Claiming) - 1
<1>1. Claiming \subseteq Ticks
  BY DEF Claiming
<1>2. IsFiniteSet(Claiming)
  BY <1>1, TicksFinite, FS_Subset
<1> QED
  BY <1>1, <1>2, TicksFinite, FS_Subset, FS_CardinalityType, FS_RemoveElement

\* The same for the next state.
LEMMA ClaimingCountsNext ==
  ASSUME TypeOK'
  PROVE  /\ Cardinality(Claiming') \in Nat
         /\ Cardinality(Claiming') <= Cardinality(Ticks)
<1>1. Claiming' \subseteq Ticks
  BY DEF Claiming
<1> QED
  BY <1>1, TicksFinite, FS_Subset, FS_CardinalityType

\* Runners and ticks about to add one never exceed Max - 1 plus one per tick:
\* a tick enters a claim only below Max, and a claim turns a tick into a
\* runner or, below Max again, leaves both at most as many.
THEOREM OverlapSafe == Spec => []OverlapBound
<1>1. Init => OverlapBound
  <2> SUFFICES ASSUME Init PROVE OverlapBound
    OBVIOUS
  <2>1. Claiming = {}
    BY DEF Init, Claiming
  <2>2. Cardinality(Ticks) \in Nat /\ Cardinality(Ticks) # 0
    BY TicksFinite, FS_CardinalityType, FS_EmptySet
  <2> QED
    BY <2>1, <2>2, FS_EmptySet, MaxPositive DEF Init, OverlapBound
<1>2. TypeOK /\ TypeOK' /\ OverlapBound /\ [Next]_vars => OverlapBound'
  <2> SUFFICES ASSUME TypeOK, TypeOK', OverlapBound, [Next]_vars PROVE OverlapBound'
    OBVIOUS
  <2> USE MaxPositive, ClaimingCounts, ClaimingCountsNext DEF OverlapBound
  <2>1. ASSUME Claiming' = Claiming, inflight' <= inflight PROVE OverlapBound'
    BY <2>1 DEF TypeOK
  <2>2. ASSUME inflight' < Max PROVE OverlapBound'
    BY <2>2 DEF TypeOK
  <2>3. ASSUME NEW k \in Claiming, Claiming' = Claiming \ {k}, inflight' <= inflight + 1
        PROVE  OverlapBound'
    BY <2>3 DEF TypeOK
  <2>4. ASSUME NEW k \in Ticks, pc' = [pc EXCEPT ![k] = "idle"]
        PROVE  Claiming' = Claiming \ {k}
    BY <2>4 DEF Claiming, TypeOK
  <2>5. ASSUME NEW k \in Ticks, TimerFires(k) \/ Kick(k) PROVE OverlapBound'
    <3>1. Claiming' = Claiming
      BY <2>5 DEF TimerFires, Kick, Open, Claiming, TypeOK
    <3> QED
      BY <2>1, <2>5, <3>1 DEF TimerFires, Kick, TypeOK
  <2>6. ASSUME NEW k \in Ticks, Reclaimed(k) PROVE OverlapBound'
    <3>1. CASE inflight < Max
      BY <2>2, <2>6, <3>1 DEF Reclaimed
    <3>2. CASE inflight >= Max
      <4>1. Leave(k, "returns") /\ k \notin Claiming
        BY <2>6, <3>2, LoopTestCases DEF Reclaimed, TypeOK, Claiming
      <4>2. Claiming' = Claiming
        BY <2>4, <4>1, LeaveEffect
      <4> QED
        BY <2>1, <2>6, <4>2 DEF Reclaimed, TypeOK
    <3> QED
      BY <3>1, <3>2 DEF TypeOK
  <2>7. ASSUME NEW k \in Ticks, Claimed(k) PROVE OverlapBound'
    <3>1. inflight' = inflight + 1 /\ inflight + 1 \in Nat /\ k \in Claiming
      BY <2>7 DEF Claimed, TypeOK, Claiming
    <3>2. CASE inflight + 1 < Max
      BY <2>2, <3>1, <3>2
    <3>3. CASE inflight + 1 >= Max
      <4>1. Leave(k, "returns")
        BY <2>7, <3>1, <3>3, LoopTestCases DEF Claimed
      <4>2. Claiming' = Claiming \ {k}
        BY <2>4, <4>1, LeaveEffect
      <4> QED
        BY <2>3, <3>1, <4>2
    <3> QED
      BY <3>1, <3>2, <3>3
  <2>8. ASSUME NEW k \in Ticks, NothingToClaim(k) \/ TickThrows(k) PROVE OverlapBound'
    <3>1. Claiming' = Claiming \ {k} /\ inflight' = inflight
      BY <2>4, <2>8, LeaveEffect DEF NothingToClaim, TickThrows
    <3>2. CASE k \in Claiming
      BY <2>3, <3>1, <3>2 DEF TypeOK
    <3>3. CASE k \notin Claiming
      BY <2>1, <3>1, <3>3 DEF TypeOK
    <3> QED
      BY <3>2, <3>3
  <2>9. CASE RunEnds \/ Stop \/ Exit \/ JobArrives \/ UNCHANGED vars
    BY <2>1, <2>9 DEF RunEnds, Stop, Exit, JobArrives, vars, Claiming, TypeOK
  <2> QED
    BY <2>5, <2>6, <2>7, <2>8, <2>9 DEF Next, Tick
<1> QED
  BY <1>1, <1>2, PoolTypeCorrect, PTL DEF Spec

-----------------------------------------------------------------------------
(* The poll loop does not die.                                             *)

\* Before stop() there is always a timeout set or a tick open that sets one.
THEOREM PollLoopSafe == Spec => []PollLoopAlive
<1> USE DEF PollLoopAlive, OpenTicks, Open
<1>1. Init => PollLoopAlive
  BY DEF Init
<1>2. TypeOK /\ PollLoopAlive /\ [Next]_vars => PollLoopAlive'
  <2> SUFFICES ASSUME TypeOK, PollLoopAlive, [Next]_vars, ~stopped' PROVE PollLoopAlive'
    OBVIOUS
  <2>1. ASSUME NEW k \in Ticks, TimerFires(k) \/ Kick(k) PROVE PollLoopAlive'
    <3>1. pc'[k] = "reclaiming"
      BY <2>1 DEF TimerFires, Kick, TypeOK
    <3> QED
      BY <3>1
  <2>2. ASSUME NEW k \in Ticks, Tick(k) PROVE PollLoopAlive'
    <3>1. ~stopped
      BY <2>2 DEF Tick, Reclaimed, Claimed, NothingToClaim, TickThrows
    <3>2. pc'[k] = "claiming" \/ timers' > 0
      BY <2>2, <3>1 DEF Tick, Reclaimed, Claimed, NothingToClaim, TickThrows, LoopTest,
                        Leave, ScheduleNext, TypeOK
    <3> QED
      BY <3>2
  <2>3. CASE RunEnds \/ Stop \/ Exit \/ JobArrives \/ UNCHANGED vars
    BY <2>3 DEF RunEnds, Stop, Exit, JobArrives, vars
  <2> QED
    BY <2>1, <2>2, <2>3 DEF Next
<1> QED
  BY <1>1, <1>2, PoolTypeCorrect, PTL DEF Spec

-----------------------------------------------------------------------------
(* LogStream: numbers in order.                                            *)

\* A set of numbers that is not empty has a least one.
LEMMA Least ==
  ASSUME NEW T \in SUBSET Nat, T # {}
  PROVE  \E m \in T : \A k \in T : m <= k
<1> DEFINE U == {1..k : k \in T}
<1>0. \A k \in T : 1..k \in SUBSET Nat /\ IsFiniteSet(1..k)
  <2> TAKE k \in T
  <2>1. k \in Int /\ 1 \in Int
    OBVIOUS
  <2>2. IsFiniteSet(1..k)
    BY <2>1, FS_Interval
  <2> QED
    BY <2>2
<1>1. U \subseteq FiniteSubsetsOf(Nat) /\ U # {}
  BY <1>0 DEF FiniteSubsetsOf
<1>2. PICK x \in U : \A y \in U : <<y, x>> \notin StrictSubsetOrdering(Nat)
  BY <1>1, FS_StrictSubsetOrderingWellFounded, WFMin
<1>3. PICK m \in T : x = 1..m
  OBVIOUS
<1>4. ASSUME NEW k \in T, k < m PROVE FALSE
  <2>1. 1..k \in U /\ <<1..k, 1..m>> \notin StrictSubsetOrdering(Nat)
    BY <1>2, <1>3
  <2>2. 1..k \subseteq 1..m /\ m \in 1..m /\ m \notin 1..k /\ 1..m \subseteq Nat
    BY <1>4
  <2> QED
    BY <2>1, <2>2 DEF StrictSubsetOrdering
<1> QED
  BY <1>4

\* Induction, over a set in place of a predicate.
LEMMA Induction ==
  ASSUME NEW T \in SUBSET Nat, 0 \in T, \A n \in T : n + 1 \in T
  PROVE  T = Nat
<1> SUFFICES ASSUME Nat \ T # {} PROVE FALSE
  OBVIOUS
<1>1. PICK m \in Nat \ T : \A k \in Nat \ T : m <= k
  BY Least
<1>2. m # 0 /\ m-1 \in Nat /\ m - 1 \in T
  BY <1>1
<1> QED
  BY <1>2

\* f is the function that InOrder defines.
Orders(f, S, m) ==
  f = [n \in 0..m |-> IF n = 0 THEN <<>>
                      ELSE IF n \in S THEN Append(f[n - 1], n) ELSE f[n - 1]]

\* Its values.
LEMMA OrdersSteps ==
  ASSUME NEW S, NEW m \in Nat, NEW f, Orders(f, S, m)
  PROVE  /\ f[0] = <<>>
         /\ \A n \in 1..m : f[n] = IF n \in S THEN Append(f[n - 1], n) ELSE f[n - 1]
<1>1. \A n \in 0..m : f[n] = IF n = 0 THEN <<>>
                      ELSE IF n \in S THEN Append(f[n - 1], n) ELSE f[n - 1]
  BY DEF Orders
<1> QED
  BY <1>1

\* There is such a function, for every m.
LEMMA OrdersExists ==
  ASSUME NEW S
  PROVE  \A m \in Nat : \E f : Orders(f, S, m)
<1> DEFINE T == {m \in Nat : \E f : Orders(f, S, m)}
<1>1. 0 \in T
  <2>1. Orders([n \in 0..0 |-> <<>>], S, 0)
    BY DEF Orders
  <2> QED
    BY <2>1
<1>2. ASSUME NEW m \in T PROVE m + 1 \in T
  <2>1. PICK f : Orders(f, S, m)
    OBVIOUS
  <2> DEFINE g == [n \in 0..(m + 1) |->
                     IF n = m + 1 THEN IF n \in S THEN Append(f[m], n) ELSE f[m]
                     ELSE f[n]]
  <2>2. /\ f[0] = <<>> /\ m \in Nat
        /\ \A n \in 1..m : f[n] = IF n \in S THEN Append(f[n - 1], n) ELSE f[n - 1]
    <3>1. m \in Nat
      OBVIOUS
    <3> QED
      BY <2>1, <3>1, OrdersSteps
  <2> HIDE DEF T
  <2>3. g[0] = <<>>
    BY <2>2
  <2>4. ASSUME NEW n \in 1..(m + 1)
        PROVE  g[n] = IF n \in S THEN Append(g[n - 1], n) ELSE g[n - 1]
    <3>1. CASE n = m + 1
      BY <2>2, <3>1
    <3>2. CASE n # m + 1
      <4>1. /\ n \in 1..m /\ n - 1 \in 0..m /\ n - 1 # m + 1
            /\ n \in 0..(m + 1) /\ n - 1 \in 0..(m + 1)
        BY <2>2, <3>2
      <4>2. g[n] = f[n] /\ g[n - 1] = f[n - 1]
        BY <3>2, <4>1
      <4> QED
        BY <2>2, <4>1, <4>2
    <3> QED
      BY <3>1, <3>2
  <2>5. Orders(g, S, m + 1)
    <3>1. \A n \in 0..(m + 1) : g[n] = IF n = 0 THEN <<>>
                      ELSE IF n \in S THEN Append(g[n - 1], n) ELSE g[n - 1]
      BY <2>2, <2>3, <2>4
    <3>2. g = [n \in 0..(m + 1) |-> g[n]]
      OBVIOUS
    <3> HIDE DEF g
    <3> QED
      BY <3>1, <3>2 DEF Orders
  <2> QED
    BY <2>2, <2>5 DEF T
<1> HIDE DEF T
<1>3. T = Nat
  <2>1. T \in SUBSET Nat
    BY DEF T
  <2> QED
    BY <1>1, <1>2, <2>1, Induction
<1> QED
  BY <1>3 DEF T

\* The sequence holds the numbers of S up to m, each once, growing.
Ordered(r, S, m) ==
  /\ r \in Seq(Nat)
  /\ \A a \in 1..Len(r) : r[a] \in S /\ r[a] \in 1..m
  /\ \A i \in 1..m : i \in S => \E a \in 1..Len(r) : r[a] = i
  /\ \A a, b \in 1..Len(r) : a < b => r[a] < r[b]

LEMMA InOrderIs ==
  ASSUME NEW S, NEW m \in Nat
  PROVE  Ordered(InOrder(S, m), S, m)
<1> DEFINE f == CHOOSE f : Orders(f, S, m)
<1>1. InOrder(S, m) = f[m]
  BY DEF InOrder, Orders
<1>2. Orders(f, S, m)
  BY OrdersExists
<1> HIDE DEF f
<1>3. /\ f[0] = <<>>
      /\ \A n \in 1..m : f[n] = IF n \in S THEN Append(f[n - 1], n) ELSE f[n - 1]
  BY <1>2, OrdersSteps
<1> DEFINE T == {n \in Nat : n <= m => Ordered(f[n], S, n)}
<1>4. 0 \in T
  <2>1. f[0] = <<>> /\ <<>> \in Seq(Nat) /\ Len(<<>>) = 0
    BY <1>3
  <2>2. Ordered(f[0], S, 0)
    BY <2>1 DEF Ordered
  <2> QED
    BY <2>2
<1>5. ASSUME NEW n \in T PROVE n + 1 \in T
  <2> SUFFICES ASSUME n + 1 <= m PROVE Ordered(f[n + 1], S, n + 1)
    OBVIOUS
  <2>1. Ordered(f[n], S, n) /\ n \in Nat
    OBVIOUS
  <2>2. f[n + 1] = IF n + 1 \in S THEN Append(f[n], n + 1) ELSE f[n]
    BY <1>3
  <2> DEFINE r == f[n]
  <2>a. /\ r \in Seq(Nat) /\ n \in Nat
        /\ \A a \in 1..Len(r) : r[a] \in S /\ r[a] \in 1..n
        /\ \A i \in 1..n : i \in S => \E a \in 1..Len(r) : r[a] = i
        /\ \A a, b \in 1..Len(r) : a < b => r[a] < r[b]
    BY <2>1 DEF Ordered
  <2>b. f[n] = r
    OBVIOUS
  <2> HIDE DEF T, r
  <2>3. CASE n + 1 \notin S
    <3>1. \A i \in 1..(n + 1) : i = n + 1 \/ i \in 1..n
      BY <2>1
    <3> QED
      BY <2>a, <2>b, <2>2, <2>3, <3>1 DEF Ordered
  <2>4. CASE n + 1 \in S
    <3> DEFINE t == Append(r, n + 1)
    <3>1. /\ t \in Seq(Nat) /\ Len(t) = Len(r) + 1 /\ Len(r) \in Nat
          /\ \A a \in 1..Len(r) : t[a] = r[a]
          /\ t[Len(r) + 1] = n + 1
      BY <2>a
    <3>2. \A a \in 1..Len(t) : a \in 1..Len(r) \/ a = Len(r) + 1
      BY <3>1
    <3> HIDE DEF t
    <3>3. \A a \in 1..Len(t) : t[a] \in S /\ t[a] \in 1..(n + 1)
      <4>1. ASSUME NEW a \in 1..Len(r) PROVE r[a] \in S /\ r[a] \in 1..(n + 1)
        BY <2>a
      <4>2. n + 1 \in 1..(n + 1)
        BY <2>a
      <4>3. TAKE a \in 1..Len(t)
      <4>4. CASE a \in 1..Len(r)
        BY <3>1, <4>1, <4>4
      <4>5. CASE a = Len(r) + 1
        BY <2>4, <3>1, <4>2, <4>5
      <4> QED
        BY <3>2, <4>4, <4>5
    <3>4. ASSUME NEW i \in 1..(n + 1), i \in S PROVE \E a \in 1..Len(t) : t[a] = i
      <4>1. CASE i = n + 1
        BY <3>1, <4>1
      <4>2. CASE i # n + 1
        <5>1. PICK a \in 1..Len(r) : r[a] = i
          BY <2>a, <3>4, <4>2
        <5> QED
          <6>1. a \in 1..Len(t) /\ t[a] = i
            BY <3>1, <5>1
          <6> QED
            BY <6>1
      <4> QED
        BY <4>1, <4>2
    <3>5. ASSUME NEW a \in 1..Len(t), NEW b \in 1..Len(t), a < b PROVE t[a] < t[b]
      <4>1. a \in 1..Len(r) /\ t[a] = r[a] /\ r[a] \in 1..n
        BY <2>a, <3>1, <3>2, <3>5
      <4>2. CASE b \in 1..Len(r)
        BY <2>a, <3>1, <3>5, <4>1, <4>2
      <4>3. CASE b = Len(r) + 1
        <5>1. t[b] = n + 1 /\ r[a] <= n
          BY <3>1, <4>1, <4>3
        <5> QED
          BY <2>a, <4>1, <5>1
      <4> QED
        BY <3>2, <4>2, <4>3
    <3>6. f[n + 1] = t
      BY <2>b, <2>2, <2>4 DEF t
    <3> QED
      BY <3>1, <3>3, <3>4, <3>5, <3>6 DEF Ordered
  <2> QED
    BY <2>3, <2>4
<1> HIDE DEF T
<1>6. m \in T
  <2>1. T \in SUBSET Nat
    BY DEF T
  <2>2. T = Nat
    BY <1>4, <1>5, <2>1, Induction
  <2> QED
    BY <2>2
<1> QED
  BY <1>1, <1>6 DEF T

-----------------------------------------------------------------------------
(* LogStream: types, and the two clocks.                                   *)

\* Cut to the millisecond, a reading is not later.
LEMMA CutIsEarlier ==
  ASSUME NEW t \in Nat
  PROVE  Ms(t) \in Nat /\ Reading(Ms(t)) <= t /\ Ms(t) <= t
BY LogStreamBounds DEF Ms, Reading

\* The database's clock is read once for each line.
ClockInv == now <= Start + Fine * Len(log)

\* The lines lie in the order of created_at.
LogInOrder ==
  /\ \A i \in DOMAIN log : log[i].created <= now
  /\ \A i, j \in DOMAIN log : i < j => log[i].created < log[j].created

\* The rows of a replay are lines, in that order; nothing is on the wire unless
\* the handler has written to it.
RowsInLog ==
  /\ \A n \in DOMAIN conn.rows : conn.rows[n] \in DOMAIN log
  /\ \A m, n \in DOMAIN conn.rows : m < n => conn.rows[m] < conn.rows[n]
WireIsLive == conn.pc # "live" => wire = <<>>

StreamInv == StreamTypeOK /\ ClockInv /\ LogInOrder /\ RowsInLog /\ WireIsLive

LEMMA BoundsAre ==
  /\ Fine \in Nat /\ Skew \in Nat /\ Page \in Nat /\ MaxLines \in Nat
  /\ Start \in Nat /\ MaxTime \in Nat /\ MaxId \in Nat
  /\ MaxTime = Start + Fine * MaxLines /\ MaxTime <= MaxId /\ Start <= MaxTime
<1>1. Fine \in Nat /\ Skew \in Nat /\ Page \in Nat /\ MaxLines \in Nat
  BY LogStreamBounds
<1>2. Start \in Nat
  BY <1>1 DEF Start
<1>3. Fine * MaxLines \in Nat
  BY <1>1
<1> QED
  BY <1>1, <1>2, <1>3 DEF MaxTime, MaxId

\* As many readings as that do not pass MaxTime.
LEMMA ClockFits ==
  ASSUME NEW n \in Nat, n <= MaxLines, NEW t \in Nat, t <= Start + Fine * n
  PROVE  t <= MaxTime
<1>1. ASSUME NEW a \in Nat, NEW b \in Nat, a <= b PROVE Fine * a <= Fine * b
  BY <1>1, BoundsAre
<1>2. Fine * n <= Fine * MaxLines /\ Fine * n \in Nat /\ Fine * MaxLines \in Nat
  BY <1>1, BoundsAre
<1> QED
  BY <1>2, BoundsAre

\* One reading more, for one line more.
LEMMA OneReading ==
  ASSUME NEW n \in Nat, NEW t \in Nat, t <= Start + Fine * n,
         NEW u \in (t + 1)..(t + Fine)
  PROVE  u \in Nat /\ u > t /\ u <= Start + Fine * (n + 1)
<1>1. Fine * (n + 1) = Fine * n + Fine /\ Fine * n \in Nat
  BY BoundsAre
<1> QED
  BY <1>1, BoundsAre

\* A step that changes at most where the lines stand, and reads no clock.
SameLines ==
  /\ log' \in Seq(Line) /\ Len(log') = Len(log)
  /\ \A i \in DOMAIN log : log'[i].created = log[i].created
  /\ now' = now

LEMMA SameLinesKeep ==
  ASSUME StreamInv, SameLines
  PROVE  ClockInv' /\ LogInOrder' /\ DOMAIN log' = DOMAIN log
<1>1. DOMAIN log' = DOMAIN log
  BY DEF SameLines, StreamInv, StreamTypeOK
<1>2. ClockInv'
  BY DEF SameLines, StreamInv, ClockInv
<1> QED
  BY <1>1, <1>2 DEF SameLines, StreamInv, LogInOrder

\* The calls of appendTaskLog move lines along.
LEMMA LineMoves ==
  ASSUME StreamInv, NEW i \in DOMAIN log, NEW x \in {"stored", "published", "gone"},
         log' = [log EXCEPT ![i].pc = x]
  PROVE  /\ log' \in Seq(Line) /\ Len(log') = Len(log) /\ DOMAIN log' = DOMAIN log
         /\ \A j \in DOMAIN log : log'[j].created = log[j].created
         /\ \A j \in DOMAIN log : log'[j].pc = IF j = i THEN x ELSE log[j].pc
<1>1. log \in Seq(Line) /\ DOMAIN log = 1..Len(log) /\ Len(log) \in Nat
  BY DEF StreamInv, StreamTypeOK
<1>2. log' = [log EXCEPT ![i] = [log[i] EXCEPT !.pc = x]]
  OBVIOUS
<1>3. log[i] \in Line
  BY <1>1
<1>4. [log[i] EXCEPT !.pc = x] \in Line /\ [log[i] EXCEPT !.pc = x].pc = x
      /\ [log[i] EXCEPT !.pc = x].created = log[i].created
  BY <1>3 DEF Line
<1> QED
  BY <1>1, <1>2, <1>4

\* A line is sent.
LEMMA SendsTyped ==
  ASSUME StreamInv, AppendSends
  PROVE  /\ StreamInv'
         /\ Len(log') = Len(log) + 1 /\ DOMAIN log' = 1..Len(log') /\ DOMAIN log = 1..Len(log)
         /\ log'[Len(log')] = [created |-> now', pc |-> "sent"]
         /\ \A i \in DOMAIN log : log'[i] = log[i]
         /\ now' > now /\ Len(log) \in Nat /\ now \in Nat /\ now' \in Nat
<1>1. log \in Seq(Line) /\ DOMAIN log = 1..Len(log) /\ Len(log) \in Nat /\ Len(log) < MaxLines
      /\ now \in Nat /\ Start <= now
  BY BoundsAre DEF AppendSends, StreamInv, StreamTypeOK
<1>2. PICK u \in (now + 1)..(now + Fine) : now' = u
  BY DEF AppendSends, Reads
<1>5. now' \in Nat /\ now' > now /\ now' <= Start + Fine * (Len(log) + 1)
  BY <1>1, <1>2, OneReading DEF StreamInv, ClockInv
<1>6. now' <= MaxTime
  <2>1. Len(log) + 1 \in Nat /\ Len(log) + 1 <= MaxLines
    BY <1>1, BoundsAre
  <2> QED
    BY <1>5, <2>1, ClockFits
<1> DEFINE l == [created |-> now', pc |-> "sent"]
<1>7. l \in Line /\ l.pc = "sent" /\ l.created = now'
  BY <1>1, <1>5, <1>6, BoundsAre DEF Line
<1>8. log' = Append(log, l)
  BY DEF AppendSends
<1> HIDE DEF l
<1>9. /\ log' \in Seq(Line) /\ Len(log') = Len(log) + 1 /\ DOMAIN log' = 1..(Len(log) + 1)
      /\ \A i \in DOMAIN log : log'[i] = log[i]
      /\ log'[Len(log) + 1] = l
  BY <1>1, <1>7, <1>8
<1>10. \A i \in DOMAIN log' : i \in DOMAIN log \/ i = Len(log) + 1
  BY <1>1, <1>9
<1>12. ClockInv'
  BY <1>5, <1>9 DEF ClockInv
<1>13. LogInOrder'
  <2>1. /\ \A i \in DOMAIN log : log'[i].created <= now /\ now < now' /\ log[i].created \in Nat
        /\ log'[Len(log) + 1].created = now'
    <3>1. \A i \in DOMAIN log : log[i] \in Line /\ log[i].created <= now
      BY <1>1 DEF StreamInv, LogInOrder
    <3>2. \A x \in Line : x.created \in Nat
      BY DEF Line
    <3> QED
      BY <1>5, <1>7, <1>9, <3>1, <3>2
  <2>2. \A i, j \in DOMAIN log : i < j => log'[i].created < log'[j].created
    BY <1>9 DEF StreamInv, LogInOrder
  <2>3. \A i \in DOMAIN log' : log'[i].created <= now'
    BY <1>1, <1>5, <1>9, <1>10, <2>1
  <2>4. ASSUME NEW i \in DOMAIN log', NEW j \in DOMAIN log', i < j
        PROVE  log'[i].created < log'[j].created
    <3>1. i \in DOMAIN log
      BY <1>1, <1>9, <1>10, <2>4
    <3>2. CASE j \in DOMAIN log
      BY <2>2, <2>4, <3>1, <3>2
    <3>3. CASE j = Len(log) + 1
      <4>1. log'[i].created <= now /\ log'[j].created = now' /\ log'[i].created \in Nat
        BY <1>9, <2>1, <3>1, <3>3
      <4> QED
        BY <1>1, <1>5, <4>1
    <3> QED
      BY <1>10, <3>2, <3>3
  <2> QED
    BY <2>3, <2>4 DEF LogInOrder
<1>14. UNCHANGED <<kind, conn, wire, got, lastId, cursor, connects, failures>>
  BY DEF AppendSends, client, bounds
<1>15. atRisk' \in SUBSET Lines
  <2>1. Len(log) + 1 \in Lines /\ atRisk \in SUBSET Lines
    BY <1>1, BoundsAre DEF Lines, StreamInv, StreamTypeOK
  <2>2. atRisk' = atRisk \/ atRisk' = atRisk \cup {Len(log) + 1}
    BY DEF AppendSends
  <2> QED
    BY <2>1, <2>2
<1>16. StreamTypeOK'
  <2>1. now' \in Start..MaxTime /\ Len(log') <= MaxLines
    BY <1>1, <1>5, <1>6, <1>9, BoundsAre
  <2> QED
    BY <1>9, <1>14, <1>15, <2>1 DEF StreamInv, StreamTypeOK
<1>17. RowsInLog' /\ WireIsLive'
  BY <1>1, <1>9, <1>14 DEF StreamInv, RowsInLog, WireIsLive
<1> QED
  BY <1>1, <1>5, <1>7, <1>9, <1>12, <1>13, <1>16, <1>17 DEF StreamInv, l

\* What the query returns: lines in order, and of the matching ones all, or
\* the first; what it leaves out lies after them.
LEMMA RowsAre ==
  ASSUME StreamInv
  PROVE  /\ Rows \in Seq(Lines) /\ Len(Rows) <= Page /\ LeftOut \in SUBSET Lines
         /\ \A n \in DOMAIN Rows : Rows[n] \in DOMAIN log
         /\ \A m, n \in DOMAIN Rows : m < n => Rows[m] < Rows[n]
         /\ \A i \in DOMAIN log : Visible(i) /\ Newer(i, conn.since) =>
              \/ \E n \in DOMAIN Rows : Rows[n] = i
              \/ i \in LeftOut /\ \A n \in DOMAIN Rows : Rows[n] < i
<1> DEFINE S == {i \in DOMAIN log : Visible(i) /\ Newer(i, conn.since)}
           M == Matching
<1>1. /\ DOMAIN log = 1..Len(log) /\ Len(log) \in Nat /\ Len(log) <= MaxLines
      /\ Page \in Nat /\ MaxLines \in Nat
  BY BoundsAre DEF StreamInv, StreamTypeOK
<1>2. Ordered(M, S, Len(log))
  BY <1>1, InOrderIs DEF Matching
<1>3. /\ M \in Seq(Nat) /\ DOMAIN M = 1..Len(M) /\ Len(M) \in Nat
      /\ \A a \in 1..Len(M) : M[a] \in 1..Len(log)
      /\ \A i \in DOMAIN log : i \in S => \E a \in 1..Len(M) : M[a] = i
      /\ \A a, b \in 1..Len(M) : a < b => M[a] < M[b]
  BY <1>1, <1>2 DEF Ordered
<1>4. Beyond <=> Len(M) > Page
  BY DEF Beyond
<1>5. Rows = IF Beyond THEN SubSeq(M, 1, Page) ELSE M
  BY DEF Rows
<1>6. \A i \in DOMAIN log : i \in S <=> Visible(i) /\ Newer(i, conn.since)
  OBVIOUS
<1>7. \A i : i \in LeftOut <=> \E n \in (Page + 1)..Len(M) : M[n] = i
  BY DEF LeftOut
<1> HIDE DEF S, M
<1>a. LeftOut \in SUBSET Lines
  <2>1. \A n \in (Page + 1)..Len(M) : n \in 1..Len(M)
    BY <1>1, <1>3
  <2>2. \A n \in (Page + 1)..Len(M) : M[n] \in Lines
    BY <1>1, <1>3, <2>1 DEF Lines
  <2> QED
    BY <1>7, <2>2
<1>8. CASE ~Beyond
  <2>1. Rows = M /\ Len(M) <= Page
    BY <1>3, <1>1, <1>4, <1>5, <1>8
  <2>2. M \in Seq(Lines)
    BY <1>1, <1>3 DEF Lines
  <2>3. \A i \in DOMAIN log : Visible(i) /\ Newer(i, conn.since) => \E n \in DOMAIN Rows : Rows[n] = i
    BY <1>3, <1>6, <2>1
  <2> QED
    BY <1>1, <1>3, <1>a, <2>1, <2>2, <2>3
<1>9. CASE Beyond
  <2> DEFINE R == SubSeq(M, 1, Page)
  <2>1. /\ Rows = R /\ Len(R) = Page /\ DOMAIN R = 1..Page
        /\ \A a \in 1..Page : R[a] = M[a] /\ a \in 1..Len(M)
        /\ R \in Seq(Nat)
    BY <1>1, <1>3, <1>4, <1>5, <1>9
  <2> HIDE DEF R
  <2>2. \A a \in 1..Page : R[a] \in 1..Len(log)
    BY <1>3, <2>1
  <2>3. R \in Seq(Lines)
    BY <1>1, <2>1, <2>2 DEF Lines
  <2>4. \A a, b \in 1..Page : a < b => R[a] < R[b]
    BY <1>3, <2>1
  <2>5. ASSUME NEW i \in DOMAIN log, Visible(i), Newer(i, conn.since)
        PROVE  (\E n \in DOMAIN R : R[n] = i)
               \/ (i \in LeftOut /\ \A n \in DOMAIN R : R[n] < i)
    <3>1. PICK a \in 1..Len(M) : M[a] = i
      BY <1>3, <1>6, <2>5
    <3>2. CASE a \in 1..Page
      BY <2>1, <3>1, <3>2
    <3>3. CASE a \notin 1..Page
      <4>1. a \in (Page + 1)..Len(M) /\ \A n \in 1..Page : n < a
        BY <1>1, <1>3, <3>3
      <4>2. i \in LeftOut
        BY <1>7, <3>1, <4>1
      <4>3. \A n \in DOMAIN R : R[n] < i
        BY <1>3, <2>1, <3>1, <4>1
      <4> QED
        BY <4>2, <4>3
    <3> QED
      BY <3>2, <3>3
  <2> QED
    BY <1>1, <1>a, <2>1, <2>2, <2>3, <2>4, <2>5
<1> QED
  BY <1>8, <1>9, <1>4 DEF Beyond

\* A line is published: what the wire and the lines at risk become.
LEMMA PublishEffect ==
  ASSUME StreamInv, NEW i \in DOMAIN log, AppendPublishes(i)
  PROVE  \E e \in Event :
           /\ e.line = i
           /\ conn.pc = "live" => /\ wire' = Append(wire, e)
                                  /\ atRisk' = atRisk \cup Overtaken(e) \cup conn.left
           /\ conn.pc # "live" =>
                /\ wire' = wire
                /\ atRisk' = IF conn.pc = "queried" /\ i \notin Range(conn.rows)
                             THEN atRisk \cup {i} ELSE atRisk
<1>1. PICK n \in Stamps :
        LET e == [line |-> i, id |-> n] IN
        IF conn.pc = "live"
        THEN wire' = Append(wire, e) /\ atRisk' = atRisk \cup Overtaken(e) \cup conn.left
        ELSE /\ wire' = wire
             /\ atRisk' = IF conn.pc = "queried" /\ i \notin Range(conn.rows)
                          THEN atRisk \cup {i} ELSE atRisk
  BY DEF AppendPublishes
<1>2. PICK e : e = [line |-> i, id |-> n]
  OBVIOUS
<1>3. i \in Lines /\ n \in 0..MaxId
  BY BoundsAre DEF StreamInv, StreamTypeOK, Lines, Stamps
<1>4. e \in Event /\ e.line = i
  BY <1>2, <1>3 DEF Event
<1>5. IF conn.pc = "live"
      THEN wire' = Append(wire, e) /\ atRisk' = atRisk \cup Overtaken(e) \cup conn.left
      ELSE /\ wire' = wire
           /\ atRisk' = IF conn.pc = "queried" /\ i \notin Range(conn.rows)
                        THEN atRisk \cup {i} ELSE atRisk
  BY <1>1, <1>2
<1> QED
  BY <1>4, <1>5, Zenon

LEMMA PublishTyped ==
  ASSUME StreamInv, NEW i \in DOMAIN log, AppendPublishes(i)
  PROVE  SameLines /\ StreamInv'
<1>1. log \in Seq(Line) /\ DOMAIN log = 1..Len(log) /\ Len(log) \in Nat /\ Len(log) <= MaxLines
      /\ atRisk \in SUBSET Lines /\ conn \in Conn /\ wire \in Seq(Event)
  BY DEF StreamInv, StreamTypeOK
<1>2. DOMAIN log \subseteq Lines /\ conn.left \in SUBSET Lines
  BY <1>1, BoundsAre DEF Lines, Conn
<1>3. log[i].pc = "stored" /\ log' = [log EXCEPT ![i].pc = "published"] /\ now' = now
  BY DEF AppendPublishes
<1>4. SameLines
  <2>1. /\ log' \in Seq(Line) /\ Len(log') = Len(log)
        /\ \A j \in DOMAIN log : log'[j].created = log[j].created
    BY <1>3, LineMoves
  <2> QED
    BY <1>3, <2>1 DEF SameLines
<1>5. PICK e \in Event :
        /\ e.line = i
        /\ conn.pc = "live" => /\ wire' = Append(wire, e)
                               /\ atRisk' = atRisk \cup Overtaken(e) \cup conn.left
        /\ conn.pc # "live" =>
             /\ wire' = wire
             /\ atRisk' = IF conn.pc = "queried" /\ i \notin Range(conn.rows)
                          THEN atRisk \cup {i} ELSE atRisk
  BY PublishEffect
<1>6. wire' \in Seq(Event) /\ (conn.pc # "live" => wire' = wire)
  <2>1. Append(wire, e) \in Seq(Event)
    BY <1>1
  <2>2. conn.pc = "live" => wire' = Append(wire, e)
    BY <1>5
  <2>3. conn.pc # "live" => wire' = wire
    BY <1>5
  <2> QED
    BY <1>1, <2>1, <2>2, <2>3
<1>7. atRisk' \in SUBSET Lines
  <2>1. Overtaken(e) \in SUBSET Lines /\ i \in Lines
    BY <1>2 DEF Overtaken
  <2> QED
    BY <1>1, <1>2, <1>5, <2>1
<1>8. UNCHANGED <<kind, conn, got, lastId, cursor, connects, failures>>
  BY DEF AppendPublishes, client, bounds
<1>9. StreamTypeOK'
  <2>1. log' \in Seq(Line) /\ Len(log') <= MaxLines /\ now' \in Start..MaxTime
    BY <1>4 DEF SameLines, StreamInv, StreamTypeOK
  <2> QED
    BY <1>6, <1>7, <1>8, <2>1 DEF StreamInv, StreamTypeOK
<1>10. ClockInv' /\ LogInOrder' /\ DOMAIN log' = DOMAIN log
  BY <1>4, SameLinesKeep
<1>11. RowsInLog' /\ WireIsLive'
  BY <1>6, <1>8, <1>10 DEF StreamInv, RowsInLog, WireIsLive
<1> QED
  BY <1>4, <1>9, <1>10, <1>11 DEF StreamInv

\* The other steps of appends, the process's death among them.
LEMMA AppendTyped ==
  ASSUME StreamInv, \/ \E i \in DOMAIN log : AppendStores(i) \/ AppendFails(i)
                    \/ ProcessDies
  PROVE  /\ SameLines /\ StreamInv'
         /\ \A i \in DOMAIN log :
              \/ log'[i].pc = log[i].pc
              \/ Underway(i) /\ (ProcessDies \/ log'[i].pc \in {"stored", "gone"})
<1>1. log \in Seq(Line) /\ DOMAIN log = 1..Len(log) /\ Len(log) \in Nat
  BY DEF StreamInv, StreamTypeOK
<1>2. ASSUME NEW i \in DOMAIN log, AppendStores(i) \/ AppendFails(i)
      PROVE  /\ SameLines /\ UNCHANGED <<kind, conn, wire, got, lastId, cursor, connects, atRisk>>
             /\ failures' \in Nat
             /\ \A j \in DOMAIN log : log'[j].pc = log[j].pc
                                      \/ (Underway(j) /\ log'[j].pc \in {"stored", "gone"})
  <2>1. PICK x \in {"stored", "gone"} : log' = [log EXCEPT ![i].pc = x]
    BY <1>2 DEF AppendStores, AppendFails
  <2>2. /\ log' \in Seq(Line) /\ Len(log') = Len(log)
        /\ \A j \in DOMAIN log : log'[j].created = log[j].created
        /\ \A j \in DOMAIN log : log'[j].pc = IF j = i THEN x ELSE log[j].pc
    BY <2>1, LineMoves
  <2>3. log[i].pc = "sent" /\ now' = now
    BY <1>2 DEF AppendStores, AppendFails
  <2>4. SameLines
    BY <2>2, <2>3 DEF SameLines
  <2>5. UNCHANGED <<kind, conn, wire, got, lastId, cursor, connects, atRisk>>
        /\ failures' \in Nat
    BY <1>2 DEF AppendStores, AppendFails, client, bounds, Fails, StreamInv, StreamTypeOK
  <2>6. \A j \in DOMAIN log : log'[j].pc = log[j].pc
                              \/ (Underway(j) /\ log'[j].pc \in {"stored", "gone"})
    BY <2>2, <2>3 DEF Underway
  <2> QED
    BY <2>4, <2>5, <2>6
<1>3. ASSUME ProcessDies
      PROVE  /\ SameLines /\ conn' = Closed /\ wire' = <<>> /\ failures' \in Nat
             /\ UNCHANGED <<kind, got, lastId, cursor, connects, atRisk>>
             /\ \A j \in DOMAIN log : Underway(j) \/ log'[j].pc = log[j].pc
  <2>1. PICK failed \in SUBSET DOMAIN log :
          log' = [i \in DOMAIN log |->
                    IF ~Underway(i) THEN log[i]
                    ELSE [log[i] EXCEPT !.pc = IF i \in failed THEN "gone" ELSE "silent"]]
    BY <1>3 DEF ProcessDies
  <2>2. ASSUME NEW i \in DOMAIN log
        PROVE  /\ log'[i] \in Line /\ log'[i].created = log[i].created
               /\ Underway(i) \/ log'[i].pc = log[i].pc
    <3>0. log[i] \in Line
      BY <1>1
    <3>1. CASE ~Underway(i)
      BY <2>1, <3>0, <3>1
    <3>2. CASE Underway(i)
      <4>1. PICK x \in {"gone", "silent"} : log'[i] = [log[i] EXCEPT !.pc = x]
        BY <2>1, <3>2
      <4> QED
        BY <3>0, <3>2, <4>1 DEF Line, Underway
    <3> QED
      BY <3>1, <3>2
  <2>3. DOMAIN log' = 1..Len(log)
    BY <1>1, <2>1
  <2>4. log' \in Seq(Line) /\ Len(log') = Len(log)
    <3>1. log' = [i \in 1..Len(log) |-> log'[i]]
      BY <1>1, <2>1
    <3>2. log' \in [1..Len(log) -> Line]
      BY <1>1, <2>2, <3>1
    <3> QED
      BY <1>1, <3>2
  <2>5. now' = now
    BY <1>3 DEF ProcessDies
  <2>6. SameLines
    BY <2>2, <2>4, <2>5 DEF SameLines
  <2>7. /\ conn' = Closed /\ wire' = <<>> /\ failures' \in Nat
        /\ UNCHANGED <<kind, got, lastId, cursor, connects, atRisk>>
    BY <1>3 DEF ProcessDies, client, Fails, StreamInv, StreamTypeOK
  <2> QED
    BY <2>2, <2>6, <2>7
<1>4. SameLines
  BY <1>2, <1>3
<1>5. /\ kind' = kind /\ got' = got /\ lastId' = lastId /\ cursor' = cursor
      /\ connects' = connects /\ atRisk' = atRisk /\ failures' \in Nat
      /\ (conn' = conn /\ wire' = wire) \/ (conn' = Closed /\ wire' = <<>>)
  BY <1>2, <1>3
<1>6. Closed \in Conn /\ Closed.rows = <<>> /\ Closed.pc = "closed"
  BY BoundsAre DEF Closed, Conn
<1>7. StreamTypeOK'
  <2>1. log' \in Seq(Line) /\ Len(log') <= MaxLines /\ now' \in Start..MaxTime
    BY <1>4 DEF SameLines, StreamInv, StreamTypeOK
  <2>2. Len(Closed.rows) <= Page /\ <<>> \in Seq(Event)
    BY <1>6, BoundsAre
  <2>3. conn' \in Conn /\ wire' \in Seq(Event) /\ Len(conn'.rows) <= Page
    BY <1>5, <1>6, <2>2 DEF StreamInv, StreamTypeOK
  <2>4. /\ kind' \in {"task", "tenant"} /\ got' \in SUBSET Event
        /\ lastId' \in 0..MaxId /\ cursor' \in 0..MaxId /\ connects' \in Nat
        /\ atRisk' \in SUBSET Lines
    BY <1>5, Zenon DEF StreamInv, StreamTypeOK
  <2> QED
    BY <1>5, <2>1, <2>3, <2>4 DEF StreamTypeOK
<1>8. RowsInLog' /\ WireIsLive'
  <2>1. DOMAIN log' = DOMAIN log
    BY <1>4, SameLinesKeep
  <2> QED
    BY <1>5, <1>6, <2>1 DEF StreamInv, RowsInLog, WireIsLive
<1>9. ClockInv' /\ LogInOrder'
  BY <1>4, SameLinesKeep
<1>10. \A i \in DOMAIN log :
         \/ log'[i].pc = log[i].pc
         \/ Underway(i) /\ (ProcessDies \/ log'[i].pc \in {"stored", "gone"})
  BY <1>2, <1>3
<1> QED
  BY <1>4, <1>7, <1>8, <1>9, <1>10 DEF StreamInv

\* The handler and the client.
LEMMA HandlerTyped ==
  ASSUME StreamInv, \/ StreamOpens \/ StreamQueries \/ StreamReplays \/ Disconnects
                    \/ ClientReceives \/ ClientReads \/ ClientReloads
  PROVE  StreamInv' /\ log' = log /\ now' = now /\ atRisk \subseteq atRisk'
<1>0. /\ log \in Seq(Line) /\ conn \in Conn /\ wire \in Seq(Event) /\ got \in SUBSET Event
      /\ lastId \in 0..MaxId /\ cursor \in 0..MaxId /\ MaxId \in Nat /\ Page \in Nat
      /\ Closed \in Conn /\ Closed.rows = <<>> /\ Closed.pc = "closed"
  BY BoundsAre DEF StreamInv, StreamTypeOK, Closed, Conn
<1> DEFINE Fits == /\ conn' \in Conn /\ Len(conn'.rows) <= Page
                   /\ wire' \in Seq(Event) /\ got' \in SUBSET Event
                   /\ lastId' \in 0..MaxId /\ cursor' \in 0..MaxId
                   /\ connects' \in Nat
<1>b. atRisk \subseteq atRisk' /\ atRisk' \in SUBSET Lines
  <2>1. atRisk \in SUBSET Lines /\ DOMAIN log \subseteq Lines
    BY <1>0, BoundsAre DEF Lines, StreamInv, StreamTypeOK
  <2>2. CASE StreamReplays
    <3>1. \A e : Overtaken(e) \subseteq DOMAIN log
      BY DEF Overtaken
    <3> QED
      BY <2>1, <2>2, <3>1 DEF StreamReplays
  <2>3. CASE ~StreamReplays
    BY <2>1, <2>3 DEF StreamOpens, StreamQueries, Disconnects, ClientReceives, ClientReads,
       ClientReloads
  <2> QED
    BY <2>2, <2>3
<1>a. /\ Len(conn.rows) <= Page /\ connects \in Nat /\ 0 \in 0..MaxId
      /\ Len(<<>>) <= Page /\ <<>> \in Seq(Event) /\ <<>> \in Seq(Lines)
  BY <1>0 DEF StreamInv, StreamTypeOK
<1>1. log' = log /\ now' = now /\ kind' = kind /\ failures' = failures
  BY DEF StreamOpens, StreamQueries, StreamReplays, Disconnects, ClientReceives, ClientReads,
         ClientReloads, bounds
<1>2. ClockInv' /\ LogInOrder'
  BY <1>1 DEF StreamInv, ClockInv, LogInOrder
\* It remains to see to the connection, the wire and the client.
<1>3. Fits /\ RowsInLog' /\ WireIsLive' => StreamInv'
  <2>1. Fits => StreamTypeOK'
    BY <1>1, <1>b DEF StreamInv, StreamTypeOK, Fits
  <2> QED
    BY <1>2, <2>1 DEF StreamInv
<1> HIDE DEF Fits
<1>4. CASE StreamOpens
  <2>1. Since \in 0..MaxId
    BY <1>0 DEF Since
  <2>2. conn' = [Closed EXCEPT !.pc = "opened", !.since = Since]
    BY <1>4 DEF StreamOpens
  <2>3. conn' \in Conn /\ conn'.rows = <<>> /\ conn'.pc = "opened"
    BY <1>0, <2>1, <2>2 DEF Closed, Conn
  <2>4. UNCHANGED <<wire, got, lastId, cursor>> /\ connects' = connects + 1 /\ conn.pc = "closed"
    BY <1>4 DEF StreamOpens, client
  <2>5. RowsInLog' /\ WireIsLive'
    BY <2>3, <2>4 DEF StreamInv, RowsInLog, WireIsLive
  <2>6. connects' \in Nat /\ Len(conn'.rows) <= Page
    BY <1>a, <2>3, <2>4
  <2>7. Fits
    BY <1>0, <2>3, <2>4, <2>6 DEF Fits
  <2> QED
    BY <1>1, <1>b, <1>3, <2>5, <2>7
<1>5. CASE StreamQueries
  <2>1. conn' = [conn EXCEPT !.pc = "queried", !.rows = Rows, !.left = LeftOut]
        /\ UNCHANGED <<wire, got, lastId, cursor, connects>> /\ conn.pc = "opened"
    BY <1>5 DEF StreamQueries, client, bounds
  <2>2. conn' \in Conn /\ conn'.rows = Rows /\ conn'.pc = "queried"
    BY <1>0, <2>1, RowsAre DEF Conn
  <2>3. RowsInLog' /\ WireIsLive'
    BY <1>1, <2>1, <2>2, RowsAre DEF StreamInv, RowsInLog, WireIsLive
  <2>4. Fits
    BY <1>0, <1>a, <2>1, <2>2, RowsAre DEF Fits
  <2> QED
    BY <1>1, <1>b, <1>3, <2>3, <2>4
<1>6. CASE StreamReplays
  <2>1. conn' = [conn EXCEPT !.pc = "live", !.since = 0, !.rows = <<>>]
        /\ UNCHANGED <<got, lastId, cursor, connects>>
        /\ wire' = [n \in DOMAIN conn.rows |->
                      [line |-> conn.rows[n], id |-> Ms(log[conn.rows[n]].created)]]
    BY <1>6 DEF StreamReplays, client, bounds
  <2>2. conn' \in Conn /\ conn'.rows = <<>> /\ conn'.pc = "live"
    BY <1>0, <1>a, <2>1 DEF Conn
  <2>3. ASSUME NEW n \in DOMAIN conn.rows
        PROVE  [line |-> conn.rows[n], id |-> Ms(log[conn.rows[n]].created)] \in Event
    <3>1. conn.rows[n] \in Lines /\ conn.rows[n] \in DOMAIN log
      BY <1>0, <2>3 DEF StreamInv, RowsInLog, Conn
    <3>2. log[conn.rows[n]].created \in 1..MaxTime
      <4>1. log[conn.rows[n]] \in Line
        BY <1>0, <3>1
      <4>2. \A x \in Line : x.created \in 1..MaxTime
        BY DEF Line
      <4> QED
        BY <4>1, <4>2
    <3>3. Ms(log[conn.rows[n]].created) \in 0..MaxId
      <4>1. PICK t \in 1..MaxTime : t = log[conn.rows[n]].created
        BY <3>2
      <4>2. Ms(t) \in Nat /\ Ms(t) <= t
        BY <1>0, CutIsEarlier
      <4>3. Ms(t) \in 0..MaxId
        BY <4>1, <4>2, BoundsAre
      <4> QED
        BY <4>1, <4>3
    <3> QED
      BY <3>1, <3>3 DEF Event
  <2>4. wire' \in Seq(Event)
    <3>1. DOMAIN conn.rows = 1..Len(conn.rows) /\ Len(conn.rows) \in Nat
      BY <1>0 DEF Conn
    <3>2. wire' \in [1..Len(conn.rows) -> Event]
      BY <2>1, <2>3, <3>1
    <3> QED
      BY <3>1, <3>2
  <2>5. RowsInLog' /\ WireIsLive'
    BY <2>2 DEF RowsInLog, WireIsLive
  <2>6. Fits
    BY <1>0, <1>a, <2>1, <2>2, <2>4 DEF Fits
  <2> QED
    BY <1>1, <1>b, <1>3, <2>5, <2>6
<1>7. CASE Disconnects
  <2>1. conn' = Closed /\ wire' = <<>> /\ UNCHANGED <<got, lastId, cursor, connects>>
    BY <1>7 DEF Disconnects, client, bounds
  <2>2. RowsInLog' /\ WireIsLive'
    BY <1>0, <2>1 DEF RowsInLog, WireIsLive
  <2>3. Fits
    BY <1>0, <1>a, <2>1 DEF Fits
  <2> QED
    BY <1>1, <1>b, <1>3, <2>2, <2>3
<1>8. CASE ClientReceives
  <2>1. /\ wire # <<>> /\ got' = got \cup {Head(wire)} /\ lastId' = Head(wire).id
        /\ wire' = Tail(wire) /\ UNCHANGED <<conn, cursor, connects>>
    BY <1>8 DEF ClientReceives, bounds
  <2>2. Head(wire) \in Event /\ Tail(wire) \in Seq(Event)
    BY <1>0, <2>1
  <2>3. RowsInLog' /\ WireIsLive'
    BY <1>1, <2>1 DEF StreamInv, RowsInLog, WireIsLive
  <2>4. Head(wire).id \in 0..MaxId
    BY <2>2 DEF Event
  <2>5. Fits
    BY <1>0, <1>a, <2>1, <2>2, <2>4 DEF Fits
  <2> QED
    BY <1>1, <1>b, <1>3, <2>3, <2>5
<1>9. CASE ClientReads \/ ClientReloads
  <2>1. UNCHANGED <<conn, wire, got, connects>> /\ lastId' \in {0, lastId} /\ cursor' \in {cursor, lastId}
    BY <1>9 DEF ClientReads, ClientReloads, bounds
  <2>2. RowsInLog' /\ WireIsLive'
    BY <1>1, <2>1 DEF StreamInv, RowsInLog, WireIsLive
  <2>3. Fits
    BY <1>0, <1>a, <2>1 DEF Fits
  <2> QED
    BY <1>1, <1>b, <1>3, <2>2, <2>3
<1> QED
  BY <1>1, <1>b, <1>4, <1>5, <1>6, <1>7, <1>8, <1>9

\* Every step keeps the types and the order of the log.
LEMMA StreamStep ==
  ASSUME StreamInv, [StreamNext]_streamVars
  PROVE  StreamInv'
<1>1. CASE AppendSends
  BY <1>1, SendsTyped
<1>2. ASSUME NEW i \in DOMAIN log, AppendPublishes(i) PROVE StreamInv'
  BY <1>2, PublishTyped
<1>3. CASE (\E i \in DOMAIN log : AppendStores(i) \/ AppendFails(i)) \/ ProcessDies
  BY <1>3, AppendTyped
<1>4. CASE \/ StreamOpens \/ StreamQueries \/ StreamReplays \/ Disconnects
           \/ ClientReceives \/ ClientReads \/ ClientReloads
  BY <1>4, HandlerTyped
<1>5. CASE UNCHANGED streamVars
  BY <1>5 DEF streamVars, client, bounds, StreamInv, StreamTypeOK, ClockInv,
     LogInOrder, RowsInLog, WireIsLive
<1> QED
  BY <1>1, <1>2, <1>3, <1>4, <1>5 DEF StreamNext

LEMMA StreamAlways == StreamSpec => []StreamInv
<1>1. StreamInit => StreamInv
  <2> SUFFICES ASSUME StreamInit PROVE StreamInv
    OBVIOUS
  <2>1. Closed \in Conn /\ Closed.rows = <<>> /\ Closed.pc = "closed"
    BY BoundsAre DEF Closed, Conn
  <2>2. StreamTypeOK
    <3>1. /\ kind \in {"task", "tenant"} /\ now = Start /\ log = <<>> /\ conn = Closed
          /\ wire = <<>> /\ got = {} /\ lastId = 0 /\ cursor = 0 /\ connects = 0
          /\ failures = 0 /\ atRisk = {}
      BY DEF StreamInit
    <3>2. /\ Start \in Start..MaxTime /\ 0 \in 0..MaxId /\ 0 \in Nat /\ <<>> \in Seq(Line) /\ Len(<<>>) = 0
          /\ 0 <= MaxLines /\ 0 <= Page /\ <<>> \in Seq(Event) /\ {} \in SUBSET Event
      BY <2>1, BoundsAre
    <3> HIDE DEF StreamInit
    <3>3. Len(conn.rows) <= Page /\ Len(log) <= MaxLines
      BY <2>1, <3>1, <3>2
    <3> QED
      BY <2>1, <3>1, <3>2, <3>3 DEF StreamTypeOK
  <2>3. log = <<>> /\ now = Start /\ conn = Closed /\ wire = <<>>
    BY DEF StreamInit
  <2>5. ClockInv
    <3>1. Len(log) = 0 /\ Fine * 0 = 0
      BY <2>3, BoundsAre
    <3> QED
      BY <2>3, <3>1, BoundsAre DEF ClockInv
  <2>6. LogInOrder /\ RowsInLog /\ WireIsLive
    BY <2>1, <2>3 DEF LogInOrder, RowsInLog, WireIsLive
  <2> QED
    BY <2>2, <2>5, <2>6 DEF StreamInv
<1> QED
  BY <1>1, StreamStep, PTL DEF StreamSpec

\* Lines, events and positions keep their types; the database's clock, read once
\* for a line, never runs past its bound, whatever the process's says; and a
\* replay is no longer than its page.
THEOREM StreamTypeCorrect == StreamSpec => []StreamTypeOK
<1>1. StreamInv => StreamTypeOK
  BY DEF StreamInv
<1> QED
  BY <1>1, StreamAlways, PTL

-----------------------------------------------------------------------------
(* LogStream: what the client is shown.                                    *)

\* The line is stored and the call that appended it has ended.
Settled(i) == log[i].pc \in {"published", "silent"}

\* The client must not miss the line.
Counts(i) == i \notin atRisk /\ log[i].pc # "gone"

\* The client would miss the line if it had the event: its line is a later one,
\* or a replay that starts at its id comes after the line.
Covered(i, e) == i # e.line /\ (i < e.line \/ Passes(e, log[i].created))

EventsInLog ==
  /\ \A e \in got : e.line \in DOMAIN log
  /\ \A n \in DOMAIN wire : wire[n].line \in DOMAIN log

\* The client has the line; or will have it, before the event at n.
Received(i) == \E e \in got : e.line = i
Sent(i, n) == \E m \in DOMAIN wire : m < n /\ wire[m].line = i

\* Whatever a replay may start at is the id of an event that was received.
Positions == \A s \in {lastId, cursor, conn.since} : s # 0 => \E e \in got : e.id = s

\* Nothing that counts is missing behind what the client has, behind what it
\* will receive, and on a live stream, but for what its replay left out, at all.
GotClosed ==
  \A e \in got : \A i \in DOMAIN log : Counts(i) /\ Covered(i, e) => Received(i)
WireClosed ==
  \A n \in DOMAIN wire : \A i \in DOMAIN log :
    Counts(i) /\ Covered(i, wire[n]) => Received(i) \/ Sent(i, n)
LiveShowsAll ==
  conn.pc = "live" =>
    \A i \in DOMAIN log : Settled(i) /\ i \notin atRisk =>
      Received(i) \/ Sent(i, Len(wire) + 1) \/ i \in conn.left

\* Of the lines after the position a replay has read all, or the first.
RowsComplete ==
  conn.pc = "queried" =>
    \A i \in DOMAIN log : Settled(i) /\ i \notin atRisk /\ Newer(i, conn.since) =>
      \/ \E n \in DOMAIN conn.rows : conn.rows[n] = i
      \/ i \in conn.left /\ \A n \in DOMAIN conn.rows : conn.rows[n] < i

Whole == /\ EventsInLog /\ Positions
         /\ GotClosed /\ WireClosed /\ LiveShowsAll /\ RowsComplete

\* What the types say where they are needed.
LEMMA StreamFacts ==
  ASSUME StreamInv
  PROVE  /\ log \in Seq(Line) /\ DOMAIN log = 1..Len(log) /\ Len(log) \in Nat
         /\ wire \in Seq(Event) /\ DOMAIN wire = 1..Len(wire) /\ Len(wire) \in Nat
         /\ now \in Nat /\ conn \in Conn
         /\ DOMAIN conn.rows = 1..Len(conn.rows) /\ Len(conn.rows) \in Nat
         /\ \A n \in DOMAIN conn.rows : conn.rows[n] \in Nat
         /\ \A i \in DOMAIN log : log[i] \in Line /\ log[i].created \in Nat /\ log[i].created > 0
         /\ \A n \in DOMAIN wire : wire[n] \in Event /\ wire[n].line \in Nat /\ wire[n].id \in Nat
         /\ \A e \in got : e \in Event /\ e.line \in Nat /\ e.id \in Nat
         /\ \A s \in Nat : Reading(s) \in Nat
<1>1. /\ log \in Seq(Line) /\ DOMAIN log = 1..Len(log) /\ Len(log) \in Nat
      /\ wire \in Seq(Event) /\ DOMAIN wire = 1..Len(wire) /\ Len(wire) \in Nat
      /\ got \in SUBSET Event /\ conn \in Conn
  BY DEF StreamInv, StreamTypeOK
<1>2. now \in Nat
  BY BoundsAre DEF StreamInv, StreamTypeOK
<1>3. \A x \in Line : x.created \in Nat /\ x.created > 0
  BY BoundsAre DEF Line
<1>4. \A e \in Event : e.line \in Nat /\ e.id \in Nat
  BY BoundsAre DEF Event, Lines
<1>5. conn.rows \in Seq(Lines)
  BY <1>1 DEF Conn
<1>6. \A n \in DOMAIN conn.rows : conn.rows[n] \in Nat
  BY <1>5, BoundsAre DEF Lines
<1>7. \A s \in Nat : Reading(s) \in Nat
  BY BoundsAre DEF Reading
<1>8. \A i \in DOMAIN log : log[i] \in Line
  BY <1>1
<1>9. \A n \in DOMAIN wire : wire[n] \in Event
  BY <1>1
<1>10. DOMAIN conn.rows = 1..Len(conn.rows) /\ Len(conn.rows) \in Nat
  BY <1>5
<1> QED
  BY <1>1, <1>2, <1>3, <1>4, <1>6, <1>7, <1>8, <1>9, <1>10

\* A line that counts and is not after the position of the replay was received:
\* the position is the id of an event received, and nothing is missing behind
\* that event.
LEMMA OldIsReceived ==
  ASSUME StreamInv, Whole, NEW i \in DOMAIN log, Counts(i), ~Newer(i, conn.since)
  PROVE  Received(i)
<1>1. log[i].created \in Nat /\ log[i].created > 0
  BY StreamFacts
<1>2. conn.since # 0
  <2>1. Reading(0) = 0
    BY BoundsAre DEF Reading
  <2> QED
    BY <1>1, <2>1 DEF Newer
<1>3. PICK e \in got : e.id = conn.since
  BY <1>2 DEF Whole, Positions
<1>4. Passes(e, log[i].created)
  <2>1. e.id \in Nat /\ Reading(e.id) \in Nat
    BY StreamFacts
  <2> QED
    BY <1>1, <1>3, <2>1 DEF Newer, Passes
<1>5. CASE i = e.line
  BY <1>5 DEF Received
<1>6. CASE i # e.line
  BY <1>4, <1>6 DEF Covered, Whole, GotClosed
<1> QED
  BY <1>5, <1>6

\* What counted before: the lines at risk become more, and a line that is gone
\* stays gone.
OnlyMore ==
  /\ DOMAIN log \subseteq DOMAIN log' /\ atRisk \subseteq atRisk'
  /\ \A i \in DOMAIN log : log'[i].created = log[i].created
  /\ \A i \in DOMAIN log : log[i].pc = "gone" => log'[i].pc = "gone"

LEMMA CountedBefore ==
  ASSUME OnlyMore
  PROVE  /\ \A i \in DOMAIN log : Counts(i)' => Counts(i)
         /\ \A i \in DOMAIN log : \A e : i # e.line /\ (i < e.line \/ Passes(e, log'[i].created))
                                         => Covered(i, e)
         /\ \A i \in DOMAIN log : Newer(i, conn.since) <=> log'[i].created > Reading(conn.since)
BY DEF OnlyMore, Counts, Covered, Newer

\* A step that stamps no event, moves no connection and settles no line.
LEMMA NothingSettles ==
  ASSUME Whole, UNCHANGED <<conn, wire, got, lastId, cursor>>, OnlyMore,
         \A i \in DOMAIN log' : Settled(i)' => i \in DOMAIN log /\ Settled(i),
         \A i \in DOMAIN log' \ DOMAIN log : ~Counts(i)'
            \/ \A e \in got \cup Range(wire) : e.line \in DOMAIN log => ~Covered(i, e)'
  PROVE  Whole'
<1>1. \A i : Received(i)' = Received(i)
  BY DEF Received
<1>2. \A i, n : Sent(i, n)' = Sent(i, n)
  BY DEF Sent
<1>3. EventsInLog' /\ Positions'
  BY DEF Whole, EventsInLog, Positions, OnlyMore
<1>4. ASSUME NEW e \in got \cup Range(wire), e.line \in DOMAIN log, NEW i \in DOMAIN log',
             Counts(i)', i # e.line, i < e.line \/ Passes(e, log'[i].created)
      PROVE  i \in DOMAIN log /\ Counts(i) /\ Covered(i, e)
  <2>1. i \in DOMAIN log
    BY <1>4 DEF Covered, Passes, Reading
  <2> QED
    BY <1>4, <2>1, CountedBefore
<1>5. GotClosed'
  <2> SUFFICES ASSUME NEW e \in got, NEW i \in DOMAIN log', Counts(i)',
                      i # e.line, i < e.line \/ Passes(e, log'[i].created)
               PROVE  Received(i)
    BY <1>1 DEF GotClosed, Covered, Passes, Reading
  <2>1. e.line \in DOMAIN log
    BY DEF Whole, EventsInLog
  <2>2. i \in DOMAIN log /\ Counts(i) /\ Covered(i, e)
    BY <1>4, <2>1
  <2> QED
    BY <2>2 DEF Whole, GotClosed
<1>6. WireClosed'
  <2> SUFFICES ASSUME NEW n \in DOMAIN wire, NEW i \in DOMAIN log', Counts(i)',
                      i # wire[n].line, i < wire[n].line \/ Passes(wire[n], log'[i].created)
               PROVE  Received(i) \/ Sent(i, n)
    BY <1>1, <1>2 DEF WireClosed, Covered, Passes, Reading
  <2>1. wire[n].line \in DOMAIN log /\ wire[n] \in Range(wire)
    BY DEF Whole, EventsInLog, Range
  <2>2. i \in DOMAIN log /\ Counts(i) /\ Covered(i, wire[n])
    BY <1>4, <2>1
  <2> QED
    BY <2>2 DEF Whole, WireClosed
<1>7. LiveShowsAll'
  BY <1>1, <1>2 DEF Whole, LiveShowsAll, OnlyMore
<1>8. RowsComplete'
  <2>1. \A i \in DOMAIN log : Newer(i, conn.since)' => Newer(i, conn.since)
    BY DEF Newer, Reading, OnlyMore
  <2> QED
    BY <2>1 DEF Whole, RowsComplete, OnlyMore
<1> QED
  BY <1>3, <1>5, <1>6, <1>7, <1>8 DEF Whole

\* A line is sent; an event behind which it lies puts it at risk.
LEMMA SendsWhole ==
  ASSUME StreamInv, Whole, AppendSends
  PROVE  Whole'
<1>1. /\ Len(log') = Len(log) + 1 /\ DOMAIN log' = 1..Len(log') /\ DOMAIN log = 1..Len(log)
      /\ log'[Len(log')] = [created |-> now', pc |-> "sent"]
      /\ \A i \in DOMAIN log : log'[i] = log[i]
      /\ Len(log) \in Nat
  BY SendsTyped
<1>2. \A i \in DOMAIN log' : i \in DOMAIN log \/ i = Len(log')
  BY <1>1
<1>3. UNCHANGED <<conn, wire, got, lastId, cursor>>
  BY DEF AppendSends, client
<1>4. atRisk \subseteq atRisk'
      /\ ((\E e \in got \cup Range(wire) : Passes(e, now')) => Len(log) + 1 \in atRisk')
  BY DEF AppendSends
<1>5. OnlyMore
  BY <1>1, <1>4 DEF OnlyMore
<1>6. \A i \in DOMAIN log' : Settled(i)' => i \in DOMAIN log /\ Settled(i)
  BY <1>1, <1>2 DEF Settled
<1>7. ASSUME NEW i \in DOMAIN log' \ DOMAIN log, Counts(i)',
             NEW e \in got \cup Range(wire), e.line \in DOMAIN log
      PROVE  ~Covered(i, e)'
  <2>1. i = Len(log) + 1 /\ log'[i].created = now' /\ ~(i < e.line)
    BY <1>1, <1>2, <1>7
  <2>2. ~Passes(e, now')
    BY <1>4, <1>7, <2>1 DEF Counts
  <2> QED
    BY <2>1, <2>2 DEF Covered, Passes, Reading
<1> QED
  BY <1>3, <1>5, <1>6, <1>7, NothingSettles

\* The INSERT commits, or fails: the line is still under way, or gone.
LEMMA MovesWhole ==
  ASSUME StreamInv, Whole, NEW i \in DOMAIN log, AppendStores(i) \/ AppendFails(i)
  PROVE  Whole'
<1>1. PICK x \in {"stored", "gone"} : log' = [log EXCEPT ![i].pc = x]
  BY DEF AppendStores, AppendFails
<1>2. /\ Len(log') = Len(log) /\ DOMAIN log' = DOMAIN log
      /\ \A j \in DOMAIN log : log'[j].created = log[j].created
      /\ \A j \in DOMAIN log : log'[j].pc = IF j = i THEN x ELSE log[j].pc
  BY <1>1, LineMoves
<1>3. log[i].pc = "sent" /\ UNCHANGED <<conn, wire, got, lastId, cursor, atRisk>>
  BY DEF AppendStores, AppendFails, client
<1>4. OnlyMore
  BY <1>2, <1>3 DEF OnlyMore
<1>5. \A j \in DOMAIN log' : Settled(j)' => j \in DOMAIN log /\ Settled(j)
  BY <1>2 DEF Settled
<1> QED
  BY <1>2, <1>3, <1>4, <1>5, NothingSettles

\* The process dies: lines settle, and no connection is left to show them.
LEMMA DeathWhole ==
  ASSUME StreamInv, Whole, ProcessDies
  PROVE  Whole'
<1>1. /\ SameLines /\ DOMAIN log' = DOMAIN log
      /\ \A i \in DOMAIN log : Underway(i) \/ log'[i].pc = log[i].pc
  BY AppendTyped, SameLinesKeep
<1>2. conn' = Closed /\ wire' = <<>> /\ UNCHANGED <<got, lastId, cursor, atRisk>>
  BY DEF ProcessDies, client
<1>3. OnlyMore
  BY <1>1, <1>2 DEF OnlyMore, SameLines, Underway
<1>4. conn'.pc = "closed" /\ conn'.since = 0 /\ DOMAIN wire' = {}
  BY <1>2 DEF Closed
<1>5. EventsInLog' /\ Positions'
  BY <1>1, <1>2, <1>4 DEF Whole, EventsInLog, Positions
<1>6. GotClosed'
  <2> SUFFICES ASSUME NEW e \in got, NEW i \in DOMAIN log, Counts(i)',
                      i # e.line, i < e.line \/ Passes(e, log'[i].created)
               PROVE  Received(i)
    BY <1>1, <1>2 DEF GotClosed, Received, Covered, Passes, Reading
  <2>1. Counts(i) /\ Covered(i, e)
    BY <1>3, CountedBefore
  <2> QED
    BY <2>1 DEF Whole, GotClosed
<1>7. WireClosed' /\ LiveShowsAll' /\ RowsComplete'
  BY <1>4 DEF WireClosed, LiveShowsAll, RowsComplete
<1> QED
  BY <1>5, <1>6, <1>7 DEF Whole

\* A line is published, to a live connection, or to nobody.
LEMMA PublishesWhole ==
  ASSUME StreamInv, Whole, NEW i \in DOMAIN log, AppendPublishes(i)
  PROVE  Whole'
<1>1. /\ log[i].pc = "stored" /\ log' = [log EXCEPT ![i].pc = "published"]
      /\ UNCHANGED <<conn, got, lastId, cursor>>
  BY DEF AppendPublishes, client
<1>2. /\ Len(log') = Len(log) /\ DOMAIN log' = DOMAIN log
      /\ \A j \in DOMAIN log : log'[j].created = log[j].created
      /\ \A j \in DOMAIN log : log'[j].pc = IF j = i THEN "published" ELSE log[j].pc
  BY <1>1, LineMoves
<1>3. PICK e \in Event :
        /\ e.line = i
        /\ conn.pc = "live" => /\ wire' = Append(wire, e)
                               /\ atRisk' = atRisk \cup Overtaken(e) \cup conn.left
        /\ conn.pc # "live" =>
             /\ wire' = wire
             /\ atRisk' = IF conn.pc = "queried" /\ i \notin Range(conn.rows)
                          THEN atRisk \cup {i} ELSE atRisk
  BY PublishEffect
<1>4. /\ conn.pc = "live" => Overtaken(e) \subseteq atRisk' /\ conn.left \subseteq atRisk'
      /\ conn.pc = "queried" /\ i \notin Range(conn.rows) => i \in atRisk'
      /\ atRisk \subseteq atRisk'
  BY <1>3
<1>5. OnlyMore
  BY <1>1, <1>2, <1>4 DEF OnlyMore
<1>6. \A j \in DOMAIN log : Settled(j)' => j = i \/ Settled(j)
  BY <1>2 DEF Settled
<1>7. \A j : Received(j)' = Received(j)
  BY <1>1 DEF Received
<1>8. wire \in Seq(Event) /\ DOMAIN wire = 1..Len(wire) /\ Len(wire) \in Nat
  BY StreamFacts
<1>9. /\ \A n \in DOMAIN wire : n \in DOMAIN wire' /\ wire'[n] = wire[n]
      /\ \A n \in DOMAIN wire' : n \in DOMAIN wire
                                 \/ (n = Len(wire) + 1 /\ conn.pc = "live" /\ wire'[n] = e)
      /\ conn.pc = "live" => Len(wire') = Len(wire) + 1 /\ Len(wire) + 1 \in DOMAIN wire'
                             /\ wire'[Len(wire) + 1] = e
  <2>1. CASE conn.pc = "live"
    <3>1. wire' = Append(wire, e)
      BY <1>3, <2>1
    <3>2. /\ DOMAIN wire' = 1..(Len(wire) + 1) /\ Len(wire') = Len(wire) + 1
          /\ \A n \in 1..Len(wire) : wire'[n] = wire[n]
          /\ wire'[Len(wire) + 1] = e
      BY <1>8, <3>1
    <3>3. \A n \in 1..(Len(wire) + 1) : n \in 1..Len(wire) \/ n = Len(wire) + 1
      BY <1>8
    <3>4. \A n \in 1..Len(wire) : n \in 1..(Len(wire) + 1)
      BY <1>8
    <3>5. Len(wire) + 1 \in 1..(Len(wire) + 1)
      BY <1>8
    <3>6. \A n \in DOMAIN wire : n \in DOMAIN wire' /\ wire'[n] = wire[n]
      BY <1>8, <3>2, <3>4
    <3>7. \A n \in DOMAIN wire' : n \in DOMAIN wire
                                  \/ (n = Len(wire) + 1 /\ conn.pc = "live" /\ wire'[n] = e)
      BY <1>8, <2>1, <3>2, <3>3
    <3>8. Len(wire') = Len(wire) + 1 /\ Len(wire) + 1 \in DOMAIN wire' /\ wire'[Len(wire) + 1] = e
      BY <3>2, <3>5
    <3> QED
      BY <3>6, <3>7, <3>8
  <2>2. CASE conn.pc # "live"
    BY <1>3, <2>2
  <2> QED
    BY <2>1, <2>2
<1>10. EventsInLog'
  BY <1>1, <1>2, <1>3, <1>9 DEF Whole, EventsInLog
<1>11. Positions'
  BY <1>1 DEF Whole, Positions
<1>12. \A j \in DOMAIN log : Counts(j)' => Counts(j)
  BY <1>5, CountedBefore
<1>13. \A j \in DOMAIN log : \A x :
         j # x.line /\ (j < x.line \/ Passes(x, log'[j].created)) => Covered(j, x)
  BY <1>5, CountedBefore
<1>14. GotClosed'
  <2> SUFFICES ASSUME NEW x \in got, NEW j \in DOMAIN log, Counts(j)',
                      j # x.line, j < x.line \/ Passes(x, log'[j].created)
               PROVE  Received(j)
    BY <1>1, <1>2, <1>7 DEF GotClosed, Covered, Passes, Reading
  <2>1. Counts(j) /\ Covered(j, x)
    BY <1>12, <1>13
  <2> QED
    BY <2>1 DEF Whole, GotClosed
<1>15. \A j : \A n \in 1..(Len(wire) + 1) : Sent(j, n) => Sent(j, n)'
  BY <1>9 DEF Sent
\* What the new event covers is under way, and at risk; or has settled, and was
\* shown, or left out, and at risk.
<1>16. ASSUME conn.pc = "live", NEW j \in DOMAIN log, Counts(j)', Covered(j, e)
       PROVE  Received(j) \/ Sent(j, Len(wire) + 1)
  <2>1. Counts(j) /\ j \notin atRisk'
    BY <1>12, <1>16 DEF Counts
  <2>2. ~Underway(j)
    BY <1>4, <1>16, <2>1 DEF Overtaken, Covered
  <2>3. Settled(j)
    <3>1. log[j].pc \in {"sent", "stored", "published", "silent", "gone"}
      <4>1. log[j] \in Line
        BY StreamFacts
      <4> QED
        BY <4>1 DEF Line
    <3> QED
      BY <2>1, <2>2, <3>1 DEF Counts, Underway, Settled
  <2> QED
    BY <1>4, <1>16, <2>1, <2>3 DEF Whole, LiveShowsAll, Counts
<1>17. WireClosed'
  <2> SUFFICES ASSUME NEW n \in DOMAIN wire', NEW j \in DOMAIN log, Counts(j)',
                      j # wire'[n].line, j < wire'[n].line \/ Passes(wire'[n], log'[j].created)
               PROVE  Received(j) \/ Sent(j, n)'
    BY <1>2, <1>7 DEF WireClosed, Covered, Passes, Reading
  <2>0. Covered(j, wire'[n])
    BY <1>13
  <2>1. CASE n \in DOMAIN wire
    <3>1. wire'[n] = wire[n]
      BY <1>9, <2>1
    <3>2. Counts(j) /\ Covered(j, wire[n])
      BY <1>12, <2>0, <3>1
    <3>3. Received(j) \/ Sent(j, n)
      BY <2>1, <3>2 DEF Whole, WireClosed
    <3>4. n \in 1..(Len(wire) + 1)
      BY <1>8, <2>1
    <3> QED
      BY <1>15, <3>3, <3>4
  <2>2. CASE n \notin DOMAIN wire
    <3>1. n = Len(wire) + 1 /\ conn.pc = "live" /\ wire'[n] = e
      BY <1>9, <2>2
    <3>2. n \in 1..(Len(wire) + 1)
      BY <1>8, <3>1
    <3>3. Received(j) \/ Sent(j, n)
      BY <1>16, <2>0, <3>1
    <3> QED
      BY <1>15, <3>2, <3>3
  <2> QED
    BY <2>1, <2>2
<1>18. LiveShowsAll'
  <2> SUFFICES ASSUME conn.pc = "live", NEW j \in DOMAIN log, Settled(j)', j \notin atRisk'
               PROVE  \/ Received(j) \/ j \in conn.left
                      \/ \E m \in DOMAIN wire' : m < Len(wire) + 2 /\ wire'[m].line = j
    <3>1. Len(wire') + 1 = Len(wire) + 2 \/ conn.pc # "live"
      BY <1>8, <1>9
    <3> QED
      BY <1>1, <1>2, <1>7, <3>1 DEF LiveShowsAll, Sent
  <2>1. CASE j = i
    <3>1. /\ Len(wire) + 1 \in DOMAIN wire' /\ Len(wire) + 1 < Len(wire) + 2
          /\ wire'[Len(wire) + 1].line = j
      BY <1>3, <1>8, <1>9, <2>1
    <3> QED
      BY <3>1
  <2>2. CASE j # i
    <3>1. Received(j) \/ Sent(j, Len(wire) + 1) \/ j \in conn.left
      BY <1>4, <1>6, <2>2 DEF Whole, LiveShowsAll
    <3>2. Sent(j, Len(wire) + 1) =>
            \E m \in DOMAIN wire' : m < Len(wire) + 2 /\ wire'[m].line = j
      BY <1>8, <1>9 DEF Sent
    <3> QED
      BY <3>1, <3>2
  <2> QED
    BY <2>1, <2>2
<1>19. RowsComplete'
  <2> SUFFICES ASSUME conn.pc = "queried", NEW j \in DOMAIN log, Settled(j)', j \notin atRisk',
                      Newer(j, conn.since)
               PROVE  \/ \E n \in DOMAIN conn.rows : conn.rows[n] = j
                      \/ j \in conn.left /\ \A n \in DOMAIN conn.rows : conn.rows[n] < j
    <3>1. \A j \in DOMAIN log : Newer(j, conn.since)' = Newer(j, conn.since)
      BY <1>1, <1>2 DEF Newer, Reading
    <3> QED
      BY <1>1, <1>2, <3>1 DEF RowsComplete
  <2>1. CASE j = i
    BY <1>4, <2>1 DEF Range
  <2>2. CASE j # i
    BY <1>4, <1>6, <2>2 DEF Whole, RowsComplete
  <2> QED
    BY <2>1, <2>2
<1> QED
  BY <1>10, <1>11, <1>14, <1>17, <1>18, <1>19 DEF Whole

\* The handler and the client leave the log alone.
LEMMA LogStays ==
  ASSUME log' = log, atRisk \subseteq atRisk'
  PROVE  /\ \A i \in DOMAIN log : Counts(i)' => Counts(i)
         /\ \A i \in DOMAIN log : Settled(i)' = Settled(i)
         /\ \A i \in DOMAIN log : i \notin atRisk' => i \notin atRisk
         /\ \A i \in DOMAIN log : \A e : e' = e => Covered(i, e)' = Covered(i, e)
BY DEF Counts, Settled, Covered, Passes, Reading

\* So what was received stays whole, as long as nothing more is.
LEMMA GotStays ==
  ASSUME Whole, log' = log, atRisk \subseteq atRisk', got' = got
  PROVE  GotClosed' /\ \A i : Received(i)' = Received(i)
<1>1. \A i : Received(i)' = Received(i)
  BY DEF Received
<1>2. GotClosed'
  <2> SUFFICES ASSUME NEW e \in got, NEW i \in DOMAIN log, Counts(i)',
                      i # e.line, i < e.line \/ Passes(e, log[i].created)
               PROVE  Received(i)
    BY <1>1 DEF GotClosed, Covered, Passes, Reading
  <2>1. Counts(i) /\ Covered(i, e)
    BY LogStays DEF Covered
  <2> QED
    BY <2>1 DEF Whole, GotClosed
<1> QED
  BY <1>1, <1>2

\* And so does the wire.
LEMMA WireStays ==
  ASSUME Whole, log' = log, atRisk \subseteq atRisk', got' = got, wire' = wire
  PROVE  WireClosed' /\ EventsInLog' /\ \A i, n : Sent(i, n)' = Sent(i, n)
<1>1. \A i, n : Sent(i, n)' = Sent(i, n)
  BY DEF Sent
<1>2. \A i : Received(i)' = Received(i)
  BY GotStays
<1>3. EventsInLog'
  BY DEF Whole, EventsInLog
<1>4. WireClosed'
  <2> SUFFICES ASSUME NEW n \in DOMAIN wire, NEW i \in DOMAIN log, Counts(i)',
                      i # wire[n].line, i < wire[n].line \/ Passes(wire[n], log[i].created)
               PROVE  Received(i) \/ Sent(i, n)
    BY <1>1, <1>2 DEF WireClosed, Covered, Passes, Reading
  <2>1. Counts(i) /\ Covered(i, wire[n])
    BY LogStays DEF Covered
  <2> QED
    BY <2>1 DEF Whole, WireClosed
<1> QED
  BY <1>1, <1>3, <1>4

\* A connection opens where the client says it stopped.
LEMMA OpensWhole ==
  ASSUME StreamInv, Whole, StreamOpens
  PROVE  Whole'
<1>1. /\ conn' = [Closed EXCEPT !.pc = "opened", !.since = Since]
      /\ UNCHANGED <<log, wire, got, lastId, cursor, atRisk>>
  BY DEF StreamOpens, client
<1>2. conn'.pc = "opened" /\ conn'.since = Since
  BY <1>1 DEF Closed
<1>3. GotClosed' /\ WireClosed' /\ EventsInLog'
  BY <1>1, GotStays, WireStays
<1>4. Positions'
  <2>1. Since \in {lastId, cursor, 0}
    BY DEF Since
  <2> QED
    BY <1>1, <1>2, <2>1 DEF Whole, Positions
<1>5. LiveShowsAll' /\ RowsComplete'
  BY <1>2 DEF LiveShowsAll, RowsComplete
<1> QED
  BY <1>3, <1>4, <1>5 DEF Whole

\* A replay reads its rows.
LEMMA QueriesWhole ==
  ASSUME StreamInv, Whole, StreamQueries
  PROVE  Whole'
<1>1. /\ conn' = [conn EXCEPT !.pc = "queried", !.rows = Rows, !.left = LeftOut]
      /\ UNCHANGED <<log, wire, got, lastId, cursor, atRisk>>
  BY DEF StreamQueries, client
<1>2. conn'.pc = "queried" /\ conn'.rows = Rows /\ conn'.left = LeftOut /\ conn'.since = conn.since
  BY <1>1, StreamFacts DEF Conn
<1>3. GotClosed' /\ WireClosed' /\ EventsInLog'
  BY <1>1, GotStays, WireStays
<1>4. Positions'
  BY <1>1, <1>2 DEF Whole, Positions
<1>5. LiveShowsAll'
  BY <1>2 DEF LiveShowsAll
<1>6. RowsComplete'
  <2>1. \A i \in DOMAIN log : Settled(i) => Visible(i)
    BY DEF Settled, Visible
  <2>2. \A i : Newer(i, conn.since)' = Newer(i, conn.since)
    BY <1>1, <1>2 DEF Newer, Reading
  <2>3. \A i \in DOMAIN log : Settled(i) /\ Newer(i, conn.since) =>
          \/ \E n \in DOMAIN Rows : Rows[n] = i
          \/ i \in LeftOut /\ \A n \in DOMAIN Rows : Rows[n] < i
    BY <2>1, RowsAre
  <2>4. \A i \in DOMAIN log : Settled(i)' = Settled(i)
    BY <1>1, LogStays
  <2> QED
    BY <1>1, <1>2, <2>2, <2>3, <2>4 DEF RowsComplete
<1> QED
  BY <1>3, <1>4, <1>5, <1>6 DEF Whole

\* The rows are written, and the handler subscribes.  What an earlier row left
\* out was received, for it lies before the position; or is under way, and is
\* at risk from now on.
LEMMA ReplaysWhole ==
  ASSUME StreamInv, Whole, StreamReplays
  PROVE  Whole'
<1>1. /\ conn.pc = "queried"
      /\ conn' = [conn EXCEPT !.pc = "live", !.since = 0, !.rows = <<>>]
      /\ UNCHANGED <<log, got, lastId, cursor>>
  BY DEF StreamReplays, client
<1>2. conn'.pc = "live" /\ conn'.since = 0 /\ conn'.left = conn.left
  BY <1>1, StreamFacts DEF Conn
<1>3. atRisk \subseteq atRisk'
  BY HandlerTyped
<1> DEFINE r == conn.rows
<1>4. /\ DOMAIN r = 1..Len(r) /\ Len(r) \in Nat
      /\ \A n \in DOMAIN r : r[n] \in Nat /\ r[n] \in DOMAIN log
      /\ \A m, n \in DOMAIN r : m < n => r[m] < r[n]
  <2>1. DOMAIN r = 1..Len(r) /\ Len(r) \in Nat /\ \A n \in DOMAIN r : r[n] \in Nat
    BY StreamFacts
  <2> QED
    BY <2>1 DEF StreamInv, RowsInLog
<1>5. /\ DOMAIN wire' = DOMAIN r /\ Len(wire') = Len(r)
      /\ \A n \in DOMAIN r : wire'[n] = [line |-> r[n], id |-> Ms(log[r[n]].created)]
  <2>1. wire' = [n \in DOMAIN r |-> [line |-> r[n], id |-> Ms(log[r[n]].created)]]
    BY DEF StreamReplays
  <2> HIDE DEF r
  <2> QED
    BY <1>4, <2>1
<1>6. ASSUME NEW n \in DOMAIN r, NEW i \in DOMAIN log, i \in Overtaken(wire'[n]),
             \A m \in DOMAIN r : r[m] # i
      PROVE  i \in atRisk'
  <2>1. wire'[n] \in Range(wire') /\ i \notin Range(conn.rows)
    BY <1>5, <1>6 DEF Range
  <2>2. atRisk' = atRisk \cup {j \in UNION {Overtaken(e) : e \in Range(wire')} :
                                 j \notin Range(conn.rows)}
    BY DEF StreamReplays
  <2> QED
    BY <1>6, <2>1, <2>2
<1>7. GotClosed' /\ \A i : Received(i)' = Received(i)
  BY <1>1, <1>3, GotStays
<1>8. Positions'
  BY <1>1, <1>2 DEF Whole, Positions
<1>9. RowsComplete'
  BY <1>2 DEF RowsComplete
<1>10. \A i \in DOMAIN log : Settled(i) /\ i \notin atRisk =>
         \/ Received(i)
         \/ \E n \in DOMAIN r : r[n] = i
         \/ i \in conn.left /\ \A n \in DOMAIN r : r[n] < i
  <2> TAKE i \in DOMAIN log
  <2> HAVE Settled(i) /\ i \notin atRisk
  <2>1. Counts(i)
    BY DEF Counts, Settled
  <2> QED
    BY <1>1, <2>1, OldIsReceived DEF Whole, RowsComplete
<1> HIDE DEF r
<1>11. EventsInLog'
  BY <1>1, <1>4, <1>5 DEF Whole, EventsInLog
\* A row's id does not pass a later line.
<1>12. ASSUME NEW n \in DOMAIN r, NEW i \in DOMAIN log,
              i # wire'[n].line, i < wire'[n].line \/ Passes(wire'[n], log[i].created)
       PROVE  i < r[n]
  <2>1. PICK j \in DOMAIN log : j = r[n]
    BY <1>4
  <2>2. wire'[n].line = j /\ wire'[n].id = Ms(log[j].created)
    BY <1>5, <2>1
  <2>3. log[i].created \in Nat /\ log[j].created \in Nat /\ i \in Nat /\ j \in Nat
    BY StreamFacts
  <2>4. Reading(Ms(log[j].created)) <= log[j].created /\ Reading(Ms(log[j].created)) \in Nat
    BY <2>3, CutIsEarlier, StreamFacts
  <2>5. j < i => log[j].created < log[i].created
    BY DEF StreamInv, LogInOrder
  <2>6. i < j \/ log[i].created <= Reading(Ms(log[j].created))
    BY <1>12, <2>2 DEF Passes
  <2> QED
    BY <1>12, <2>1, <2>2, <2>3, <2>4, <2>5, <2>6
<1>13. WireClosed'
  <2> SUFFICES ASSUME NEW n \in DOMAIN r, NEW i \in DOMAIN log, Counts(i)',
                      i # wire'[n].line, i < wire'[n].line \/ Passes(wire'[n], log[i].created)
               PROVE  Received(i) \/ \E m \in DOMAIN r : m < n /\ r[m] = i
    BY <1>1, <1>5, <1>7 DEF WireClosed, Sent, Covered, Passes, Reading
  <2>1. i < r[n] /\ r[n] \in Nat /\ i \in Nat
    <3>1. i < r[n]
      BY <1>12
    <3>2. i \in Nat
      BY StreamFacts
    <3> QED
      BY <1>4, <3>1, <3>2
  <2>2. Counts(i) /\ i \notin atRisk' /\ i \notin atRisk
    BY <1>1, <1>3, LogStays DEF Counts
  <2>3. ASSUME NEW m \in DOMAIN r, r[m] = i PROVE m < n
    <3>1. m \in Nat /\ n \in Nat /\ r[n] \in Nat /\ r[m] \in Nat
      BY <1>4
    <3>2. n < m => r[n] < r[m]
      BY <1>4
    <3> QED
      BY <2>1, <2>3, <3>1, <3>2
  <2>4. CASE \E m \in DOMAIN r : r[m] = i
    BY <2>3, <2>4
  <2>5. CASE ~\E m \in DOMAIN r : r[m] = i
    <3>1. ~Underway(i)
      <4>1. SUFFICES ASSUME Underway(i) PROVE FALSE
        OBVIOUS
      <4>2. i \in Overtaken(wire'[n])
        BY <4>1 DEF Overtaken
      <4> QED
        BY <1>6, <2>2, <2>5, <4>2
    <3>2. Settled(i)
      <4>1. log[i] \in Line
        BY StreamFacts
      <4>2. log[i].pc \in {"sent", "stored", "published", "silent", "gone"}
        BY <4>1 DEF Line
      <4> QED
        BY <2>2, <3>1, <4>2 DEF Counts, Underway, Settled
    <3>3. ~(r[n] < i)
      BY <2>1
    <3> QED
      BY <1>10, <2>2, <2>5, <3>2, <3>3
  <2> QED
    BY <2>4, <2>5
<1>14. LiveShowsAll'
  <2> SUFFICES ASSUME NEW i \in DOMAIN log, Settled(i), i \notin atRisk
               PROVE  Received(i) \/ i \in conn.left \/ \E m \in DOMAIN r : m < Len(r) + 1 /\ r[m] = i
    BY <1>1, <1>2, <1>3, <1>5, <1>7, LogStays DEF LiveShowsAll, Sent
  <2>1. \A m \in DOMAIN r : m < Len(r) + 1
    BY <1>4
  <2> QED
    BY <1>10, <2>1
<1> QED
  BY <1>7, <1>8, <1>9, <1>11, <1>13, <1>14 DEF Whole

\* The client receives the first event on the wire.
LEMMA ReceivesWhole ==
  ASSUME StreamInv, Whole, ClientReceives
  PROVE  Whole'
<1>1. /\ wire # <<>> /\ got' = got \cup {Head(wire)} /\ lastId' = Head(wire).id
      /\ wire' = Tail(wire) /\ UNCHANGED <<log, conn, cursor, atRisk>>
  BY DEF ClientReceives
<1>2. wire \in Seq(Event) /\ DOMAIN wire = 1..Len(wire) /\ Len(wire) \in Nat
  BY StreamFacts
<1>3. /\ Head(wire) = wire[1] /\ 1 \in DOMAIN wire
      /\ Len(wire') = Len(wire) - 1 /\ DOMAIN wire' = 1..(Len(wire) - 1)
      /\ \A n \in 1..(Len(wire) - 1) : wire'[n] = wire[n + 1] /\ n + 1 \in DOMAIN wire
  BY <1>1, <1>2
<1>4. \A i \in DOMAIN log : Counts(i)' = Counts(i) /\ Settled(i)' = Settled(i)
  BY <1>1 DEF Counts, Settled
<1>5. \A i : Received(i) \/ wire[1].line = i => Received(i)'
  BY <1>1, <1>3 DEF Received
<1>6. ASSUME NEW i, NEW n \in 1..Len(wire), Received(i) \/ Sent(i, n + 1)
      PROVE  Received(i)' \/ \E m \in DOMAIN wire' : m < n /\ wire'[m].line = i
  <2>1. CASE Received(i)
    BY <1>5, <2>1
  <2>2. CASE Sent(i, n + 1)
    <3>1. PICK m \in DOMAIN wire : m < n + 1 /\ wire[m].line = i
      BY <2>2 DEF Sent
    <3>2. CASE m = 1
      BY <1>5, <3>1, <3>2
    <3>3. CASE m # 1
      <4>1. m - 1 \in 1..(Len(wire) - 1) /\ m - 1 < n /\ (m - 1) + 1 = m
        BY <1>2, <1>6, <3>1, <3>3
      <4>2. m - 1 \in DOMAIN wire' /\ wire'[m - 1].line = i
        BY <1>3, <3>1, <4>1
      <4> QED
        BY <4>1, <4>2
    <3> QED
      BY <3>2, <3>3
  <2> QED
    BY <1>6, <2>1, <2>2
<1>7. EventsInLog'
  <2>1. \A e \in got' : e.line \in DOMAIN log
    BY <1>1, <1>3 DEF Whole, EventsInLog
  <2>2. \A n \in DOMAIN wire' : wire'[n].line \in DOMAIN log
    BY <1>3 DEF Whole, EventsInLog
  <2> QED
    BY <1>1, <2>1, <2>2 DEF EventsInLog
<1>8. Positions'
  <2>1. \E e \in got' : e.id = lastId'
    BY <1>1
  <2>2. \A s \in {cursor, conn.since} : s # 0 => \E e \in got' : e.id = s
    BY <1>1 DEF Whole, Positions
  <2> QED
    BY <1>1, <2>1, <2>2 DEF Positions
<1>9. GotClosed'
  <2> SUFFICES ASSUME NEW e \in got', NEW i \in DOMAIN log, Counts(i), Covered(i, e)
               PROVE  Received(i)'
    BY <1>1, <1>4 DEF GotClosed, Covered, Passes, Reading
  <2>1. CASE e \in got
    BY <1>5, <2>1 DEF Whole, GotClosed
  <2>2. CASE e \notin got
    <3>1. e = wire[1]
      BY <1>1, <1>3, <2>2
    <3>2. Received(i) \/ Sent(i, 1)
      BY <1>3, <3>1 DEF Whole, WireClosed
    <3>3. ~Sent(i, 1)
      <4>1. \A m \in 1..Len(wire) : ~(m < 1)
        BY <1>2
      <4> QED
        BY <1>2, <4>1 DEF Sent
    <3> QED
      BY <1>5, <3>2, <3>3
  <2> QED
    BY <2>1, <2>2
<1>10. WireClosed'
  <2> SUFFICES ASSUME NEW n \in DOMAIN wire', NEW i \in DOMAIN log, Counts(i),
                      i # wire'[n].line, i < wire'[n].line \/ Passes(wire'[n], log[i].created)
               PROVE  Received(i)' \/ \E m \in DOMAIN wire' : m < n /\ wire'[m].line = i
    BY <1>1, <1>4 DEF WireClosed, Sent, Covered, Passes, Reading
  <2>1. n \in 1..Len(wire) /\ n + 1 \in DOMAIN wire /\ wire'[n] = wire[n + 1]
    BY <1>2, <1>3
  <2>2. Received(i) \/ Sent(i, n + 1)
    BY <2>1 DEF Whole, WireClosed, Covered
  <2> QED
    BY <1>6, <2>1, <2>2
<1>11. LiveShowsAll'
  <2> SUFFICES ASSUME conn.pc = "live", NEW i \in DOMAIN log, Settled(i), i \notin atRisk
               PROVE  \/ Received(i)' \/ i \in conn.left
                      \/ \E m \in DOMAIN wire' : m < Len(wire) /\ wire'[m].line = i
    <3>1. Len(wire') + 1 = Len(wire)
      BY <1>2, <1>3
    <3> QED
      BY <1>1, <1>4, <3>1 DEF LiveShowsAll, Sent
  <2>1. Received(i) \/ Sent(i, Len(wire) + 1) \/ i \in conn.left
    BY DEF Whole, LiveShowsAll
  <2>2. Len(wire) \in 1..Len(wire)
    BY <1>2, <1>3
  <2> QED
    BY <1>6, <2>1, <2>2
<1>12. RowsComplete'
  BY <1>1, <1>4 DEF Whole, RowsComplete, Newer, Reading
<1> QED
  BY <1>7, <1>8, <1>9, <1>10, <1>11, <1>12 DEF Whole

\* The connection closes; the user reads; the page is loaded anew.
LEMMA RestWhole ==
  ASSUME StreamInv, Whole, Disconnects \/ ClientReads \/ ClientReloads
  PROVE  Whole'
<1>1. /\ UNCHANGED <<log, got, atRisk>>
      /\ lastId' \in {0, lastId} /\ cursor' \in {cursor, lastId}
      /\ UNCHANGED <<conn, wire>> \/ (conn' = Closed /\ wire' = <<>>)
  BY DEF Disconnects, ClientReads, ClientReloads, client
<1>2. GotClosed' /\ \A i : Received(i)' = Received(i)
  BY <1>1, GotStays
<1>3. \A i \in DOMAIN log : Settled(i)' = Settled(i)
  BY <1>1, LogStays
<1>4. CASE UNCHANGED <<conn, wire>>
  <2>1. Positions'
    BY <1>1, <1>4 DEF Whole, Positions
  <2>2. EventsInLog' /\ WireClosed' /\ \A i, n : Sent(i, n)' = Sent(i, n)
    BY <1>1, <1>4, WireStays
  <2>3. LiveShowsAll'
    BY <1>1, <1>2, <1>3, <1>4, <2>2 DEF Whole, LiveShowsAll
  <2>4. RowsComplete'
    BY <1>1, <1>3, <1>4 DEF Whole, RowsComplete, Newer, Reading
  <2> QED
    BY <1>2, <2>1, <2>2, <2>3, <2>4 DEF Whole
<1>5. CASE conn' = Closed /\ wire' = <<>>
  <2>1. conn'.pc = "closed" /\ conn'.since = 0 /\ DOMAIN wire' = {}
    BY <1>5 DEF Closed
  <2>2. Positions' /\ EventsInLog'
    BY <1>1, <2>1 DEF Whole, Positions, EventsInLog
  <2>3. WireClosed' /\ LiveShowsAll' /\ RowsComplete'
    BY <2>1 DEF WireClosed, LiveShowsAll, RowsComplete
  <2> QED
    BY <1>2, <2>2, <2>3 DEF Whole
<1> QED
  BY <1>1, <1>4, <1>5

\* Every step keeps the client whole, but for the lines it puts at risk.
LEMMA WholeStep ==
  ASSUME StreamInv, Whole, [StreamNext]_streamVars
  PROVE  Whole'
<1>1. CASE AppendSends
  BY <1>1, SendsWhole
<1>2. ASSUME NEW i \in DOMAIN log, AppendPublishes(i) PROVE Whole'
  BY <1>2, PublishesWhole
<1>3. ASSUME NEW i \in DOMAIN log, AppendStores(i) \/ AppendFails(i) PROVE Whole'
  BY <1>3, MovesWhole
<1>4. CASE ProcessDies
  BY <1>4, DeathWhole
<1>5. CASE \/ StreamOpens \/ StreamQueries \/ StreamReplays \/ Disconnects
           \/ ClientReceives \/ ClientReads \/ ClientReloads
  BY <1>5, OpensWhole, QueriesWhole, ReplaysWhole, ReceivesWhole, RestWhole
<1>6. CASE UNCHANGED streamVars
  <2>1. UNCHANGED <<log, conn, wire, got, lastId, cursor, atRisk>>
    BY <1>6 DEF streamVars, client
  <2> QED
    BY <2>1 DEF Whole, EventsInLog, Positions, GotClosed, WireClosed, LiveShowsAll,
       RowsComplete, Received, Sent, Settled, Counts, Covered, Passes, Newer, Reading
<1> QED
  BY <1>1, <1>2, <1>3, <1>4, <1>5, <1>6 DEF StreamNext

\* The client is shown no line before every earlier one that was stored, and a
\* live stream has shown them all but what its replay left out; the lines that
\* may be missing are the ones put at risk, of the four kinds the property
\* names: for every number of lines, appends, connections, crashes, reloads and
\* reads, every page, every fineness of the database's clock and every distance
\* of the process's clock from it.
THEOREM NothingSkippedSafe == StreamSpec => []NothingIsSkipped
<1>1. StreamInit => Whole
  <2> SUFFICES ASSUME StreamInit PROVE Whole
    OBVIOUS
  <2>1. /\ log = <<>> /\ wire = <<>> /\ got = {} /\ lastId = 0 /\ cursor = 0
        /\ conn.pc = "closed" /\ conn.since = 0
    BY DEF StreamInit, Closed
  <2>2. DOMAIN log = {} /\ DOMAIN wire = {}
    BY <2>1
  <2> QED
    BY <2>1, <2>2 DEF Whole, EventsInLog, Positions, GotClosed, WireClosed, LiveShowsAll,
       RowsComplete
<1>2. StreamInv /\ Whole /\ [StreamNext]_streamVars => Whole'
  BY WholeStep
<1>3. StreamInv /\ Whole => NothingIsSkipped
  <2> SUFFICES ASSUME StreamInv, Whole, NEW i \in DOMAIN log \ atRisk, Settled(i),
                      (conn.pc = "live" /\ i \notin conn.left) \/ \E j \in Shown : i < j
               PROVE  i \in Shown
    BY DEF NothingIsSkipped, Settled
  <2>0. Counts(i)
    BY DEF Counts, Settled
  <2>1. \A e : e \in got \cup Range(wire) <=> e \in got \/ \E n \in DOMAIN wire : wire[n] = e
    BY DEF Range
  <2>2. ASSUME NEW n, Received(i) \/ Sent(i, n) PROVE i \in Shown
    <3>1. CASE Received(i)
      BY <2>1, <3>1 DEF Received, Shown
    <3>2. CASE Sent(i, n)
      BY <2>1, <3>2 DEF Sent, Shown
    <3> QED
      BY <2>2, <3>1, <3>2
  <2>3. CASE conn.pc = "live" /\ i \notin conn.left
    BY <2>2, <2>3 DEF Whole, LiveShowsAll
  <2>4. ASSUME NEW j \in Shown, i < j PROVE i \in Shown
    <3>1. PICK e \in got \cup Range(wire) : j = e.line
      BY <2>4 DEF Shown
    <3>2. Covered(i, e)
      <4>1. i \in Nat
        BY StreamFacts
      <4>2. e.line \in Nat
        BY <2>1, <3>1, StreamFacts
      <4> QED
        BY <2>4, <3>1, <4>1, <4>2 DEF Covered
    <3>3. CASE e \in got
      BY <2>0, <2>2, <3>2, <3>3 DEF Whole, GotClosed
    <3>4. ASSUME NEW n \in DOMAIN wire, wire[n] = e PROVE i \in Shown
      BY <2>0, <2>2, <3>2, <3>4 DEF Whole, WireClosed
    <3> QED
      BY <2>1, <3>1, <3>3, <3>4
  <2> QED
    BY <2>3, <2>4
<1> QED
  BY <1>1, <1>2, <1>3, StreamAlways, PTL DEF StreamSpec
=============================================================================
