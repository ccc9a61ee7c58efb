---------------------------- MODULE HiringProofs ----------------------------
(***************************************************************************)
(* What holds of Hiring for every number of requests, runs, labels and     *)
(* secrets.                                                                *)
(***************************************************************************)
EXTENDS Hiring, TLAPS

\* A row is named by the PUT that made it, and an open PUT has made none yet.
SecretsAreFresh ==
  /\ \A x \in rows : x.id <= issued
  /\ \A q \in Requests : req[q].pc = "put" =>
       /\ req[q].secret \in 1..issued
       /\ \A x \in rows : x.id # req[q].secret
       /\ \A p \in Requests \ {q} : req[p].pc = "put" => req[p].secret # req[q].secret

TypeInv == TypeOK /\ SecretsAreFresh

\* What a PUT or an activation does to the requests.
Moved(q, r) == req'[q] = r /\ \A p \in Requests \ {q} : req'[p] = req[p]

\* Storing a well-formed request.
LEMMA Stored ==
  ASSUME req \in [Requests -> Request], NEW q \in Requests, NEW r \in Request,
         req' = [req EXCEPT ![q] = r]
  PROVE  req' \in [Requests -> Request] /\ Moved(q, r)
BY DEF Moved

\* A closed slot, and an activation with a label.
LEMMA Slots ==
  /\ NoReq \in Request /\ NoReq.pc = "free"
  /\ NoRun \in Run
  /\ \A l \in AnyLabel : /\ [NoReq EXCEPT !.pc = "activate", !.label = l] \in Request
                         /\ [NoReq EXCEPT !.pc = "activate", !.label = l].pc = "activate"
<1>1. 0 \in 0..MaxSecrets /\ Omitted \in AnyLabel
  BY HiringBounds DEF AnyLabel
<1> QED
  BY <1>1 DEF NoReq, NoRun, Request, Run

\* A request that ends or activates leaves the secrets of the others fresh.
LEMMA StillFresh ==
  ASSUME SecretsAreFresh, issued \in Nat, issued' = issued,
         NEW q \in Requests, NEW r, r.pc # "put", Moved(q, r),
         \A y \in rows' : (\E x \in rows : x.id = y.id)
                           \/ (req[q].pc = "put" /\ y.id = req[q].secret)
  PROVE  SecretsAreFresh'
<1>1. \A p \in Requests : req'[p].pc = "put" => p # q /\ req'[p] = req[p]
  BY DEF Moved
<1>2. \A y \in rows' : y.id <= issued'
  BY DEF SecretsAreFresh
<1>3. ASSUME NEW p \in Requests, req'[p].pc = "put"
      PROVE  /\ req'[p].secret \in 1..issued'
             /\ \A y \in rows' : y.id # req'[p].secret
             /\ \A o \in Requests \ {p} : req'[o].pc = "put" => req'[o].secret # req'[p].secret
  <2>1. p # q /\ req'[p] = req[p] /\ req[p].pc = "put"
    BY <1>1, <1>3
  <2>2. ASSUME NEW y \in rows' PROVE y.id # req[p].secret
    <3>1. CASE \E x \in rows : x.id = y.id
      BY <2>1, <3>1 DEF SecretsAreFresh
    <3>2. CASE req[q].pc = "put" /\ y.id = req[q].secret
      BY <2>1, <3>2 DEF SecretsAreFresh
    <3> QED
      BY <3>1, <3>2
  <2> QED
    BY <1>1, <2>1, <2>2 DEF SecretsAreFresh
<1> QED
  BY <1>2, <1>3 DEF SecretsAreFresh

\* What PutUpdates leaves of the table: the same rows, one with a new secret.
LEMMA Updated ==
  ASSUME TypeOK, NEW q \in Requests, PutUpdates(q), SecretsAreFresh
  PROVE  /\ rows' \in SUBSET Row
         /\ \A y \in rows' : \E x \in rows :
              /\ x.id = y.id /\ x.label = y.label
              /\ y = x \/ (x.id = req[q].target /\ y.secret = req[q].secret)
         /\ \A x, y \in rows' : x.id = y.id \/ (x.label = y.label /\ x.label # Omitted)
                                  => x = y
<1> DEFINE f(x) == IF x.id = req[q].target THEN [x EXCEPT !.secret = req[q].secret] ELSE x
<1>1. req[q].secret \in Secrets
  BY HiringBounds DEF PutUpdates, SecretsAreFresh, TypeOK, Secrets
<1>2. \A x \in rows : /\ f(x) \in Row /\ f(x).id = x.id /\ f(x).label = x.label
                      /\ f(x) = x \/ (x.id = req[q].target /\ f(x).secret = req[q].secret)
  BY <1>1 DEF TypeOK, Row
<1>3. rows' = {f(x) : x \in rows}
  BY DEF PutUpdates
<1> HIDE DEF f
<1>4. \A y \in rows' : \E x \in rows : y = f(x)
  BY <1>3
<1>5. rows' \in SUBSET Row
  BY <1>2, <1>4
<1>6. \A x, y \in rows : x.id = y.id \/ (x.label = y.label /\ x.label # Omitted) => x = y
  BY DEF TypeOK
<1> QED
  BY <1>2, <1>4, <1>5, <1>6

\* What PutInserts adds to the table.
LEMMA Inserted ==
  ASSUME TypeOK, NEW q \in Requests, PutInserts(q), SecretsAreFresh
  PROVE  \E y \in Row : /\ rows' = rows \cup {y}
                        /\ y.id = req[q].secret /\ y.label = req[q].label
                        /\ y.secret = req[q].secret
                        /\ \A x \in rows : /\ x.id # y.id
                                           /\ x.label = y.label => x.label = Omitted
<1> DEFINE y == [id |-> req[q].secret, label |-> req[q].label, secret |-> req[q].secret]
<1>1. req[q].secret \in Secrets /\ req[q].label \in AnyLabel
  BY HiringBounds DEF PutInserts, SecretsAreFresh, TypeOK, Secrets, Request
<1>2. y \in Row
  BY <1>1 DEF Row
<1>3. \A x \in rows : x.id # y.id /\ (x.label = y.label => x.label = Omitted)
  BY DEF PutInserts, SecretsAreFresh, Taken
<1> QED
  BY <1>2, <1>3 DEF PutInserts

\* Rows, configuration and requests stay well formed, and a secret is new
\* until its PUT has stored it.
LEMMA HiringTypeInv == Spec => []TypeInv
<1> USE HiringBounds, HiringNames
<1>1. Init => TypeInv
  <2> SUFFICES ASSUME Init PROVE TypeInv
    OBVIOUS
  <2>1. Omitted \in AnyLabel /\ 0 \in 0..MaxSecrets
    BY DEF AnyLabel
  <2>2. config \in Config /\ use \in Use /\ clashed \in BOOLEAN
    BY <2>1 DEF Init, Config, Use, NoUse
  <2> QED
    BY <2>1, <2>2, Slots DEF Init, TypeInv, TypeOK, SecretsAreFresh
<1>2. TypeInv /\ [Next]_vars => TypeInv'
  <2> SUFFICES ASSUME TypeInv, [Next]_vars PROVE TypeInv'
    OBVIOUS
  <2>a. TypeOK /\ SecretsAreFresh /\ issued \in Nat /\ \A x \in rows : x.id \in Nat
    BY DEF TypeInv, TypeOK, Row, Secrets
  <2>1. ASSUME NEW q \in Requests, PutReads(q) PROVE TypeInv'
    <3>0. PICK l \in AnyLabel : \E t \in {x.id : x \in Found(l)} \cup {0} :
             req' = [req EXCEPT ![q] = [pc |-> "put", label |-> l, secret |-> issued + 1,
                                        target |-> t]]
      BY <2>1 DEF PutReads
    <3>1. PICK t \in {x.id : x \in Found(l)} \cup {0} :
             req' = [req EXCEPT ![q] = [pc |-> "put", label |-> l, secret |-> issued + 1,
                                        target |-> t]]
      BY <3>0
    <3>2. t \in 0..MaxSecrets /\ issued + 1 \in 1..MaxSecrets /\ issued' = issued + 1
      BY <2>a, <2>1 DEF PutReads, Found, TypeOK, Row, Secrets
    <3> DEFINE r == [pc |-> "put", label |-> l, secret |-> issued + 1, target |-> t]
    <3>3. r \in Request /\ r.pc = "put" /\ r.secret = issued + 1
      BY <3>2 DEF Request
    <3>4. req' \in [Requests -> Request] /\ Moved(q, r)
      BY <2>a, <3>1, <3>3, Stored DEF TypeOK
    <3> HIDE DEF r
    <3>5. SecretsAreFresh'
      <4>1. rows' = rows
        BY <2>1 DEF PutReads
      <4> QED
        BY <2>a, <3>2, <3>3, <3>4, <4>1 DEF SecretsAreFresh, Moved
    <3>6. clashed' \in BOOLEAN
      BY <2>a, <2>1, Zenon DEF PutReads, TypeOK
    <3> QED
      BY <2>a, <2>1, <3>2, <3>4, <3>5, <3>6 DEF PutReads, TypeInv, TypeOK
  <2>2. ASSUME NEW q \in Requests, PutUpdates(q) PROVE TypeInv'
    <3>1. req' \in [Requests -> Request] /\ Moved(q, NoReq)
      BY <2>a, <2>2, Stored, Slots DEF PutUpdates, Answer, TypeOK
    <3>2. acked' \in [AnyLabel -> 0..MaxSecrets]
      BY <2>a, <2>2 DEF PutUpdates, TypeOK, Request
    <3>3. SecretsAreFresh'
      <4>1. issued' = issued
        BY <2>2 DEF PutUpdates, Answer
      <4> QED
        BY <2>a, <2>2, <3>1, <4>1, Updated, Slots, StillFresh
    <3> QED
      BY <2>a, <2>2, <3>1, <3>2, <3>3, Updated DEF PutUpdates, Answer, TypeInv, TypeOK
  <2>3. ASSUME NEW q \in Requests, PutInserts(q) PROVE TypeInv'
    <3>1. req' \in [Requests -> Request] /\ Moved(q, NoReq)
      BY <2>a, <2>3, Stored, Slots DEF PutInserts, Answer, TypeOK
    <3>2. acked' \in [AnyLabel -> 0..MaxSecrets]
      BY <2>a, <2>3 DEF PutInserts, TypeOK, Request
    <3>3. PICK y \in Row : /\ rows' = rows \cup {y} /\ y.id = req[q].secret
                           /\ \A x \in rows : /\ x.id # y.id
                                              /\ x.label = y.label => x.label = Omitted
      BY <2>a, <2>3, Inserted
    <3>4. SecretsAreFresh'
      <4>1. issued' = issued /\ req[q].pc = "put"
        BY <2>3 DEF PutInserts, Answer
      <4> QED
        BY <2>a, <3>1, <3>3, <4>1, Slots, StillFresh
    <3>5. \A x, z \in rows' : x.id = z.id \/ (x.label = z.label /\ x.label # Omitted)
                                => x = z
      BY <2>a, <3>3 DEF TypeOK
    <3> QED
      BY <2>a, <2>3, <3>1, <3>2, <3>3, <3>4, <3>5 DEF PutInserts, Answer, TypeInv, TypeOK
  <2>4. ASSUME NEW q \in Requests, PutCollides(q) \/ ActivateWrites(q) PROVE TypeInv'
    <3>1. req' \in [Requests -> Request] /\ Moved(q, NoReq)
      BY <2>a, <2>4, Stored, Slots DEF PutCollides, Answer, ActivateWrites, TypeOK
    <3>2. UNCHANGED <<rows, run, use, issued, changes, acked, clashed, named>>
      BY <2>4 DEF PutCollides, Answer, ActivateWrites
    <3>3. config' \in Config
      BY <2>a, <2>4 DEF PutCollides, Answer, ActivateWrites, TypeOK, Config, Request
    <3>4. SecretsAreFresh'
      BY <2>a, <3>1, <3>2, Slots, StillFresh
    <3> QED
      BY <2>a, <3>1, <3>2, <3>3, <3>4 DEF TypeInv, TypeOK
  <2>5. ASSUME NEW q \in Requests, ActivateChecks(q) PROVE TypeInv'
    <3>1. PICK l \in AnyLabel :
             req' = [req EXCEPT ![q] = [NoReq EXCEPT !.pc = "activate", !.label = l]]
      BY <2>5 DEF ActivateChecks
    <3>2. PICK r \in Request : r.pc = "activate" /\ req' = [req EXCEPT ![q] = r]
      BY <3>1, Slots
    <3>3. req' \in [Requests -> Request] /\ Moved(q, r)
      BY <2>a, <3>2, Stored DEF TypeOK
    <3>4. UNCHANGED <<rows, config, run, use, issued, acked, clashed, named>> /\ changes' \in Nat
      BY <2>a, <2>5 DEF ActivateChecks, Change, TypeOK
    <3>5. SecretsAreFresh'
      BY <2>a, <3>2, <3>3, <3>4 DEF SecretsAreFresh, Moved
    <3> QED
      BY <2>a, <3>3, <3>4, <3>5 DEF TypeInv, TypeOK
  <2>6. ASSUME NEW x \in rows, Delete(x) PROVE TypeInv'
    <3>1. /\ rows' = rows \ {x} /\ acked' = [acked EXCEPT ![x.label] = 0]
          /\ changes' \in Nat /\ UNCHANGED <<config, req, run, use, issued, named>>
      BY <2>a, <2>6 DEF Delete, Change, TypeOK
    <3>2. clashed' \in BOOLEAN
      BY <2>a, <2>6, Zenon DEF Delete, TypeOK
    <3>3. acked' \in [AnyLabel -> 0..MaxSecrets]
      <4>1. acked \in [AnyLabel -> 0..MaxSecrets] /\ 0 \in 0..MaxSecrets
        BY <2>a DEF TypeOK
      <4> QED
        BY <3>1, <4>1
    <3>4. SecretsAreFresh'
      BY <2>a, <3>1 DEF SecretsAreFresh
    <3>5. /\ rows' \in SUBSET Row
          /\ \A y, z \in rows' : y.id = z.id \/ (y.label = z.label /\ y.label # Omitted)
                                  => y = z
      BY <2>a, <3>1 DEF TypeOK
    <3> QED
      BY <2>a, <3>1, <3>2, <3>3, <3>4, <3>5 DEF TypeInv, TypeOK
  <2>7. CASE Deactivate
    <3>1. config' \in Config /\ changes' \in Nat
      BY <2>a, <2>7 DEF Deactivate, Change, TypeOK, Config
    <3> QED
      BY <2>a, <2>7, <3>1 DEF Deactivate, TypeInv, TypeOK, SecretsAreFresh
  <2>8. ASSUME NEW r \in Runs, RunBuilds(r) \/ ApprovalBuilds(r) \/ RunEnds(r) PROVE TypeInv'
    <3>1. run' \in [Runs -> Run]
      <4>1. [pc |-> "built", label |-> config.label] \in Run
        BY <2>a DEF TypeOK, Config, Run
      <4>2. run' = [run EXCEPT ![r] = [pc |-> "built", label |-> config.label]]
            \/ run' = [run EXCEPT ![r] = NoRun]
        BY <2>8 DEF RunBuilds, ApprovalBuilds, Build, RunEnds
      <4> QED
        BY <2>a, <4>1, <4>2, Slots DEF TypeOK
    <3>2. UNCHANGED <<rows, config, req, use, issued, changes, acked, clashed, named>>
      BY <2>8 DEF RunBuilds, ApprovalBuilds, Build, RunEnds
    <3> QED
      BY <2>a, <3>1, <3>2 DEF TypeInv, TypeOK, SecretsAreFresh
  <2>9. ASSUME NEW r \in Runs, ToolCalls(r) PROVE TypeInv'
    <3>1. PICK x \in Candidates(run[r].label) :
             use' = [label |-> run[r].label, secret |-> x.secret,
                     owed |-> acked[run[r].label], clashed |-> clashed,
                     named |-> named]
      BY <2>9 DEF ToolCalls
    <3>2. use' \in Use
      BY <2>a, <3>1 DEF TypeOK, Candidates, Row, Secrets, Use, Run
    <3>3. run' \in [Runs -> Run]
      BY <2>a, <2>9, Slots DEF ToolCalls, TypeOK
    <3>4. UNCHANGED <<rows, config, req, issued, changes, acked, clashed, named>>
      BY <2>9 DEF ToolCalls
    <3> QED
      BY <2>a, <3>2, <3>3, <3>4 DEF TypeInv, TypeOK, SecretsAreFresh
  <2>10. CASE UNCHANGED vars
    BY <2>a, <2>10 DEF vars, TypeInv, TypeOK, SecretsAreFresh
  <2> QED
    BY <2>1, <2>2, <2>3, <2>4, <2>5, <2>6, <2>7, <2>8, <2>9, <2>10 DEF Next
<1> QED
  BY <1>1, <1>2, PTL DEF Spec

\* The credentials table keeps its unique index; requests, runs and the
\* agent's configuration stay well formed.
THEOREM HiringTypeCorrect == Spec => []TypeOK
<1>1. TypeInv => TypeOK
  BY DEF TypeInv
<1> QED
  BY <1>1, HiringTypeInv, PTL

-----------------------------------------------------------------------------
(* Rotation.                                                               *)

\* The label of the row a PUT updates or inserts, as it looks it up.
LookedUp(l) == IF l = Omitted THEN Blank ELSE l

\* As long as PUTs overlap neither each other nor a deletion, one PUT is open
\* and the table is as it has read it.
PutIsAlone ==
  ~clashed => \A q \in Requests : req[q].pc = "put" =>
    /\ \A p \in Requests \ {q} : req[p].pc # "put"
    /\ req[q].target # 0 =>
         \E x \in rows : x.id = req[q].target /\ x.label = LookedUp(req[q].label)

\* No row has a secret older than the one answered last for its label.
RowsAreCurrent ==
  ~clashed => \A x \in rows : x.label \in Labels => x.secret >= acked[x.label]

RotationInv == PutIsAlone /\ RowsAreCurrent /\ NamedRotationTakesHold

\* Every step keeps the rows as new as what was answered.
LEMMA RotationStep == TypeInv /\ RotationInv /\ [Next]_vars => RotationInv'
<1> SUFFICES ASSUME TypeInv, RotationInv, [Next]_vars PROVE RotationInv'
  OBVIOUS
<1> USE HiringNames DEF LookedUp
<1>a. TypeOK /\ SecretsAreFresh /\ PutIsAlone /\ RowsAreCurrent /\ NamedRotationTakesHold
  BY DEF TypeInv, RotationInv
<1>b. UNCHANGED use => NamedRotationTakesHold'
  BY <1>a DEF NamedRotationTakesHold, Current
<1>1. ASSUME NEW q \in Requests, PutReads(q) PROVE RotationInv'
  <2>0. PICK l \in AnyLabel : \E t \in {x.id : x \in Found(l)} \cup {0} :
           req' = [req EXCEPT ![q] = [pc |-> "put", label |-> l, secret |-> issued + 1,
                                      target |-> t]]
    BY <1>1 DEF PutReads
  <2>1. PICK t \in {x.id : x \in Found(l)} \cup {0} :
           req' = [req EXCEPT ![q] = [pc |-> "put", label |-> l, secret |-> issued + 1,
                                      target |-> t]]
    BY <2>0
  <2>2. /\ req'[q].pc = "put" /\ req'[q].label = l /\ req'[q].target = t
        /\ \A p \in Requests \ {q} : req'[p] = req[p]
    BY <1>a, <2>1 DEF TypeOK
  <2>3. UNCHANGED <<rows, acked, use>> /\ (~clashed' => ~clashed)
    BY <1>1 DEF PutReads
  <2>4. ~clashed' => \A p \in Requests : req[p].pc # "put"
    BY <1>1 DEF PutReads
  <2>5. t # 0 => \E x \in rows : x.id = t /\ x.label = LookedUp(l)
    BY DEF Found
  <2> QED
    BY <1>a, <1>b, <2>2, <2>3, <2>4, <2>5 DEF RotationInv, PutIsAlone, RowsAreCurrent
<1>2. ASSUME NEW q \in Requests, PutUpdates(q) PROVE RotationInv'
  <2>1. /\ Moved(q, NoReq) /\ UNCHANGED <<use, clashed>>
        /\ req[q].pc = "put" /\ req[q].target # 0
        /\ acked' = [acked EXCEPT ![req[q].label] = req[q].secret]
    BY <1>a, <1>2, Stored, Slots DEF PutUpdates, Answer, TypeOK
  <2>2. PutIsAlone'
    BY <1>a, <2>1, Slots DEF PutIsAlone, Moved
  <2>3. ASSUME ~clashed, NEW y \in rows', y.label \in Labels
        PROVE  y.secret >= acked'[y.label]
    <3>1. PICK x \in rows : /\ x.id = y.id /\ x.label = y.label
                            /\ y = x \/ (x.id = req[q].target /\ y.secret = req[q].secret)
      BY <1>a, <1>2, Updated
    <3>2. PICK z \in rows : z.id = req[q].target /\ z.label = LookedUp(req[q].label)
      BY <1>a, <2>1, <2>3 DEF PutIsAlone
    <3>3. /\ \A u, v \in rows : u.id = v.id \/ (u.label = v.label /\ u.label # Omitted) => u = v
          /\ req[q].label \in AnyLabel /\ req[q].secret \in Nat
          /\ acked \in [AnyLabel -> 0..MaxSecrets]
      BY <1>a DEF TypeOK, Request
    <3>4. CASE y.label = req[q].label
      <4>1. x = z
        BY <2>3, <3>1, <3>2, <3>3, <3>4
      <4>2. y.secret = req[q].secret
        <5>1. y = x => x.id = req[q].target
          BY <3>2, <4>1
        <5>2. \E u \in rows : y = [u EXCEPT !.secret = req[q].secret]
                 \/ (y = u /\ u.id # req[q].target)
          BY <1>2 DEF PutUpdates
        <5>3. y.id = req[q].target
          BY <3>1, <3>2, <4>1
        <5> QED
          BY <1>a, <5>2, <5>3 DEF TypeOK, Row
      <4> QED
        BY <2>1, <3>3, <3>4, <4>2
    <3>5. CASE y.label # req[q].label
      <4>1. x.id # req[q].target
        BY <2>3, <3>1, <3>2, <3>3, <3>5
      <4>2. y = x /\ acked'[y.label] = acked[y.label]
        BY <2>1, <2>3, <3>1, <3>3, <3>5, <4>1 DEF AnyLabel
      <4> QED
        BY <1>a, <2>3, <4>2 DEF RowsAreCurrent
    <3> QED
      BY <3>4, <3>5
  <2>4. RowsAreCurrent'
    BY <2>1, <2>3 DEF RowsAreCurrent
  <2> QED
    BY <1>b, <2>1, <2>2, <2>4 DEF RotationInv
<1>3. ASSUME NEW q \in Requests, PutInserts(q) PROVE RotationInv'
  <2>1. /\ Moved(q, NoReq) /\ UNCHANGED <<use, clashed>>
        /\ req[q].pc = "put"
        /\ acked' = [acked EXCEPT ![req[q].label] = req[q].secret]
    BY <1>a, <1>3, Stored, Slots DEF PutInserts, Answer, TypeOK
  <2>2. PICK y \in Row : /\ rows' = rows \cup {y} /\ y.label = req[q].label
                         /\ y.secret = req[q].secret
                         /\ \A x \in rows : x.label = y.label => x.label = Omitted
    BY <1>a, <1>3, Inserted
  <2>3. PutIsAlone'
    BY <1>a, <2>1, Slots DEF PutIsAlone, Moved
  <2>4. ASSUME ~clashed, NEW x \in rows', x.label \in Labels
        PROVE  x.secret >= acked'[x.label]
    <3>1. /\ req[q].label \in AnyLabel /\ req[q].secret \in Nat
          /\ acked \in [AnyLabel -> 0..MaxSecrets] /\ x.label \in AnyLabel
      BY <1>a, <2>4 DEF TypeOK, Request, AnyLabel
    <3>2. CASE x = y
      BY <2>1, <2>2, <3>1, <3>2
    <3>3. CASE x \in rows
      BY <1>a, <2>1, <2>2, <2>4, <3>1, <3>3 DEF RowsAreCurrent
    <3> QED
      BY <2>2, <3>2, <3>3
  <2>5. RowsAreCurrent'
    BY <2>1, <2>4 DEF RowsAreCurrent
  <2> QED
    BY <1>b, <2>1, <2>3, <2>5 DEF RotationInv
<1>4. ASSUME NEW q \in Requests, PutCollides(q) \/ ActivateWrites(q) PROVE RotationInv'
  <2>1. Moved(q, NoReq) /\ UNCHANGED <<rows, acked, use, clashed>>
    BY <1>a, <1>4, Stored, Slots DEF PutCollides, Answer, ActivateWrites, TypeOK
  <2>2. \A p \in Requests : req'[p].pc = "put" => p # q /\ req'[p] = req[p]
    BY <2>1, Slots DEF Moved
  <2>3. PutIsAlone'
    BY <1>a, <2>1, <2>2 DEF PutIsAlone
  <2> QED
    BY <1>a, <1>b, <2>1, <2>3 DEF RotationInv, RowsAreCurrent
<1>5. ASSUME NEW q \in Requests, ActivateChecks(q) PROVE RotationInv'
  <2>1. PICK r \in Request : r.pc = "activate" /\ req' = [req EXCEPT ![q] = r]
    BY <1>5, Slots DEF ActivateChecks
  <2>2. Moved(q, r) /\ UNCHANGED <<rows, acked, use, clashed>>
    BY <1>a, <1>5, <2>1, Stored DEF ActivateChecks, TypeOK
  <2> QED
    BY <1>a, <1>b, <2>1, <2>2 DEF RotationInv, PutIsAlone, RowsAreCurrent, Moved
<1>6. ASSUME NEW x \in rows, Delete(x) PROVE RotationInv'
  <2>1. /\ rows' = rows \ {x} /\ acked' = [acked EXCEPT ![x.label] = 0]
        /\ UNCHANGED <<req, use>>
        /\ ~clashed' => ~clashed /\ \A p \in Requests : req[p].pc # "put"
    BY <1>6 DEF Delete
  <2>2. ASSUME ~clashed', NEW y \in rows', y.label \in Labels
        PROVE  y.secret >= acked'[y.label]
    <3>1. y \in rows /\ y.secret >= acked[y.label]
      BY <1>a, <2>1, <2>2 DEF RowsAreCurrent
    <3>2. acked'[y.label] \in {0, acked[y.label]} /\ y.secret \in Nat
      BY <1>a, <2>1, <2>2, <3>1 DEF TypeOK, AnyLabel, Row, Secrets
    <3> QED
      BY <3>1, <3>2
  <2> QED
    BY <1>b, <2>1, <2>2 DEF RotationInv, PutIsAlone, RowsAreCurrent
<1>7. ASSUME NEW r \in Runs, ToolCalls(r) PROVE RotationInv'
  <2>1. PICK x \in Candidates(run[r].label) :
           use' = [label |-> run[r].label, secret |-> x.secret,
                   owed |-> acked[run[r].label], clashed |-> clashed,
                     named |-> named]
    BY <1>7 DEF ToolCalls
  <2>2. run[r].label \in Labels => x.label = run[r].label
    BY DEF Candidates
  <2>3. NamedRotationTakesHold'
    BY <1>a, <2>1, <2>2 DEF NamedRotationTakesHold, Current, RowsAreCurrent, Candidates
  <2> QED
    BY <1>a, <1>7, <2>3 DEF ToolCalls, RotationInv, PutIsAlone, RowsAreCurrent
<1>8. CASE \/ Deactivate
           \/ \E r \in Runs : RunBuilds(r) \/ ApprovalBuilds(r) \/ RunEnds(r)
           \/ UNCHANGED vars
  <2>1. UNCHANGED <<rows, req, use, acked, clashed>>
    BY <1>8 DEF Deactivate, RunBuilds, ApprovalBuilds, Build, RunEnds, vars
  <2> QED
    BY <1>a, <1>b, <2>1 DEF RotationInv, PutIsAlone, RowsAreCurrent
<1> QED
  BY <1>1, <1>2, <1>3, <1>4, <1>5, <1>6, <1>7, <1>8 DEF Next

\* Unless PUTs overlap each other or a deletion, no tool call of an agent
\* configured with a label is made with a secret older than the one answered
\* last under that label, whenever the agent was built.
THEOREM NamedRotationSafe == Spec => []NamedRotationTakesHold
<1>1. Init => RotationInv
  <2> SUFFICES ASSUME Init PROVE RotationInv
    OBVIOUS
  <2>1. rows = {} /\ \A q \in Requests : req[q].pc # "put"
    BY Slots DEF Init
  <2>2. use.label = Omitted
    BY DEF Init, NoUse
  <2> QED
    BY <2>1, <2>2, HiringNames
    DEF RotationInv, PutIsAlone, RowsAreCurrent, NamedRotationTakesHold
<1>2. RotationInv => NamedRotationTakesHold
  BY DEF RotationInv
<1> QED
  BY <1>1, <1>2, RotationStep, HiringTypeInv, PTL DEF Spec
=============================================================================
