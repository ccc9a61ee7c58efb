--------------------------- MODULE ToolLoopProofs ---------------------------
(***************************************************************************)
(* What holds of ToolLoop for every roster, every number of rounds and     *)
(* every number of calls in a message: in particular that it implements    *)
(* AgentTurn.                                                              *)
(***************************************************************************)
EXTENDS ToolLoop, TLAPS

\* The agents and the roles they run in.
LEMMA Names ==
  /\ Agents = {"article-writer", "seo-article-with-eeat", "seo-strategist",
               "product-planner", "product-designer", "market-researcher",
               "shopify-publisher"}
  /\ Roles = {"article-writer", "seo-strategist", "product-planner",
              "product-designer", "market-researcher", "shopify-publisher",
              "eeat-interviewer"}
  /\ Loopers = {"article-writer", "seo-strategist", "product-planner",
                "product-designer", "market-researcher"}
<1>1. Agents = {"article-writer", "seo-article-with-eeat", "seo-strategist",
                "product-planner", "product-designer", "market-researcher",
                "shopify-publisher"}
  BY DEF Agents, Switches
<1>2. Roles = {"article-writer", "seo-strategist", "product-planner",
               "product-designer", "market-researcher", "shopify-publisher",
               "eeat-interviewer"}
  BY <1>1 DEF Roles
<1> QED
  BY <1>1, <1>2 DEF Loopers

\* The publisher's budget is the only empty one.
LEMMA Budgets ==
  /\ MaxHops \in [Roles -> Nat]
  /\ MaxHops["shopify-publisher"] = 0
<1>1. MaxHops["shopify-publisher"] = 0
  BY Names DEF MaxHops
<1>2. MaxHops \in [Roles -> Nat]
  BY Names DEF MaxHops
<1> QED
  BY <1>1, <1>2

\* The role of an agent of the task.
LEMMA RoleIsKnown ==
  ASSUME agent \in Agents
  PROVE  /\ Role \in Roles
         /\ Role = "product-planner" => agent = "product-planner"
BY Names DEF Role

-----------------------------------------------------------------------------
(* The inductive invariant.                                                *)

\* A turn begins with nothing of the last one.
StartIsFresh ==
  pc = "start" => role = "none" /\ hop = 0 /\ calls = 0 /\ spawns = {}

\* The loop ends with the submit that uses up the rejections.
RejectsAreLeft == pc \in {"start", "model", "calls"} => rejects < MaxRejects

\* Only a message of the model asks for a tool.
CallsWereAsked == pc = "calls" => hop > 0

\* Only the interviewer asks for structured output.
InterviewerAsks == pc = "structured" => role = "eeat-interviewer"

\* A submitted deliverable is preceded by the research it needs.
SubmitsAreEarned ==
  pc = "submitted" =>
    /\ calls >= MinToolHops
    /\ hop > 0 \/ MaxHops[role] = 0

\* The planner does not run without the worker it plans for.
PlannersAreStaffed ==
  role = "product-planner" => "product-designer" \in roster

IInv ==
  /\ TypeOK
  /\ StartIsFresh /\ RejectsAreLeft /\ CallsWereAsked /\ InterviewerAsks
  /\ SubmitsAreEarned /\ PlannersAreStaffed

LEMMA InitInv == Init => IInv
<1> SUFFICES ASSUME Init PROVE IInv
  OBVIOUS
<1> USE DEF Init
<1>1. TypeOK
  <2>1. output \in Output
    BY DEF Null, Output, Keys
  <2>2. "none" \notin Roles
    BY Names
  <2>3. /\ round \in 1..MaxRounds /\ hop \in Nat /\ calls \in Nat
        /\ todo \in 0..MaxBatch /\ ~(todo > 0)
        /\ nudges \in 0..MaxNudges /\ rejects \in 0..MaxRejects
    BY BoundsAreNaturals DEF MaxNudges, MaxRejects
  <2>4. /\ agent \in Agents /\ on \subseteq Switches[agent] /\ roster \in Rosters
        /\ pc = "start" /\ pc \in Pcs /\ role = "none"
        /\ drawn \in BOOLEAN /\ spawns \in SUBSET (Agents \cup {"nobody"})
        /\ orphaned \in BOOLEAN /\ untidy \in BOOLEAN
    BY DEF Pcs
  <2> HIDE DEF Init
  <2> QED
    BY <2>1, <2>2, <2>3, <2>4 DEF TypeOK
<1>2. StartIsFresh /\ RejectsAreLeft /\ CallsWereAsked /\ InterviewerAsks
      /\ SubmitsAreEarned /\ PlannersAreStaffed
  BY DEF StartIsFresh, RejectsAreLeft, CallsWereAsked, InterviewerAsks,
         SubmitsAreEarned, PlannersAreStaffed, MaxRejects
<1> QED
  BY <1>1, <1>2 DEF IInv

\* What all the calls of the model share: one call of the budget is used.
LEMMA AsksCount ==
  ASSUME TypeOK, Asks
  PROVE  /\ role \in Loopers /\ role \in Roles
         /\ hop' = hop + 1 /\ hop' \in Nat /\ hop' > 0
         /\ hop < MaxHops[role] /\ hop' <= MaxHops[role]
         /\ todo = 0 /\ pc = "model"
<1>1. pc = "model" /\ hop < MaxHops[role] /\ hop' = hop + 1
  BY DEF Asks
<1>2. role \in Loopers /\ role \in Roles /\ hop \in Nat /\ todo = 0
  BY <1>1, Names DEF TypeOK
<1>3. MaxHops[role] \in Nat
  BY <1>2, Budgets
<1> QED
  BY <1>1, <1>2, <1>3

LEMMA NextInv == IInv /\ [Next]_vars => IInv'
<1> SUFFICES ASSUME IInv, [Next]_vars PROVE IInv'
  OBVIOUS
<1> USE DEF IInv, Keep, task, loop, history
<1>1. CASE Start
  <2> USE <1>1 DEF Start
  <2>0. /\ role' = Role /\ role' \in Roles
        /\ role' = "product-planner" => "product-designer" \in roster
    <3>1. agent \in Agents
      BY DEF TypeOK
    <3> QED
      BY <3>1, RoleIsKnown DEF Staffed
  <2>a. MaxHops[role'] \in Nat /\ (role' = "shopify-publisher" => MaxHops[role'] = 0)
    BY <2>0, Budgets
  <2>b. /\ pc' \in {"model", "structured", "submitted"}
        /\ pc' = "model" => role' \in Loopers
        /\ pc' = "structured" => role' = "eeat-interviewer"
        /\ pc' = "submitted" => role' = "shopify-publisher"
    BY <2>0
  <2>c. hop = 0 /\ calls = 0
    BY DEF StartIsFresh
  <2> HIDE <1>1 DEF Start
  <2>d. pc = "start" /\ UNCHANGED <<loop, spawns, history>> /\ Keep
    BY <1>1 DEF Start
  <2>1. TypeOK'
    BY <2>0, <2>a, <2>b, <2>c, <2>d DEF TypeOK, Pcs
  <2> QED
    BY <2>1, <2>0, <2>a, <2>b, <2>c, <2>d DEF StartIsFresh, RejectsAreLeft, CallsWereAsked, InterviewerAsks,
           SubmitsAreEarned, PlannersAreStaffed, Staffed, MinToolHops
<1>2. CASE Refuse
  <2> USE <1>2 DEF Refuse
  <2>1. TypeOK'
    BY Names DEF TypeOK, Pcs
  <2> QED
    BY <2>1 DEF StartIsFresh, RejectsAreLeft, CallsWereAsked, InterviewerAsks,
           SubmitsAreEarned, PlannersAreStaffed
<1>3. CASE ModelNudged
  <2> USE <1>3 DEF ModelNudged, GoesOn
  <2>1. TypeOK'
    BY AsksCount, Names DEF TypeOK, Pcs, NudgeAllowed, MaxNudges
  <2> QED
    BY <2>1, AsksCount DEF StartIsFresh, RejectsAreLeft, CallsWereAsked, InterviewerAsks,
           SubmitsAreEarned, PlannersAreStaffed
<1>4. CASE ModelTrailsOff
  <2> USE <1>4 DEF ModelTrailsOff, Stops
  <2>1. TypeOK'
    BY AsksCount, Names DEF TypeOK, Pcs
  <2> QED
    BY <2>1, AsksCount DEF StartIsFresh, RejectsAreLeft, CallsWereAsked, InterviewerAsks,
           SubmitsAreEarned, PlannersAreStaffed
<1>5. CASE \E msg \in Messages : ModelSubmitsEarly(msg)
  <2> PICK msg \in Messages : ModelSubmitsEarly(msg)
    BY <1>5
  <2> USE DEF ModelSubmitsEarly, GoesOn, Noted, Beside
  <2>1. TypeOK'
    BY AsksCount, Names DEF TypeOK, Pcs
  <2> QED
    BY <2>1, AsksCount DEF StartIsFresh, RejectsAreLeft, CallsWereAsked, InterviewerAsks,
           SubmitsAreEarned, PlannersAreStaffed
<1>6. CASE \E msg \in Messages : ModelSubmitsInvalid(msg)
  <2> PICK msg \in Messages : ModelSubmitsInvalid(msg)
    BY <1>6
  <2> USE DEF ModelSubmitsInvalid, GoesOn, Stops, Noted, Beside
  <2>0. pc = "model" /\ rejects' \in 0..MaxRejects
    BY AsksCount DEF TypeOK, RejectsAreLeft, MaxRejects
  <2>a. untidy' \in BOOLEAN /\ orphaned' \in BOOLEAN /\ pc' \in {"plain", "model"}
    BY DEF TypeOK
  <2>1. TypeOK'
    BY <2>0, <2>a, AsksCount DEF TypeOK, Pcs
  <2> QED
    BY <2>1, AsksCount DEF StartIsFresh, RejectsAreLeft, CallsWereAsked, InterviewerAsks,
           SubmitsAreEarned, PlannersAreStaffed, MaxRejects, TypeOK
<1>7. CASE \E msg \in Messages : ModelSubmits(msg)
  <2> PICK msg \in Messages : ModelSubmits(msg)
    BY <1>7
  <2> USE DEF ModelSubmits, Stops, Noted
  <2>1. TypeOK'
    BY AsksCount, Names DEF TypeOK, Pcs
  <2> QED
    BY <2>1, AsksCount DEF StartIsFresh, RejectsAreLeft, CallsWereAsked, InterviewerAsks,
           SubmitsAreEarned, PlannersAreStaffed, TypeOK, TooEarly, MinToolHops
<1>8. CASE \E msg \in Messages : ModelCallsTools(msg)
  <2> PICK msg \in Messages : ModelCallsTools(msg)
    BY <1>8
  <2> USE DEF ModelCallsTools, Noted, Beside
  <2>0. todo' \in 0..MaxBatch
    BY BoundsAreNaturals DEF Messages
  <2>a. /\ untidy' \in BOOLEAN /\ orphaned' \in BOOLEAN /\ pc' \in {"calls", "model"}
        /\ pc' = "calls" <=> todo' > 0
    BY <2>0 DEF TypeOK
  <2>1. TypeOK'
    BY <2>0, <2>a, AsksCount DEF TypeOK, Pcs
  <2> QED
    BY <2>1, AsksCount DEF StartIsFresh, RejectsAreLeft, CallsWereAsked, InterviewerAsks,
           SubmitsAreEarned, PlannersAreStaffed
<1>9. CASE CallTool
  <2> USE <1>9 DEF CallTool
  <2>0. /\ todo' \in 0..MaxBatch /\ calls' \in Nat /\ pc' \in {"model", "calls"}
        /\ pc' = "calls" <=> todo' > 0
    BY BoundsAreNaturals DEF TypeOK
  <2>a. drawn' \in BOOLEAN
    <3>1. drawn' = drawn \/ drawn' = TRUE
      BY Zenon
    <3> QED
      BY <3>1 DEF TypeOK
  <2>1. TypeOK'
    BY <2>0, <2>a, Names, BoundsAreNaturals DEF TypeOK, Pcs
  <2> QED
    BY <2>1 DEF StartIsFresh, RejectsAreLeft, CallsWereAsked, InterviewerAsks,
           SubmitsAreEarned, PlannersAreStaffed
<1>10. CASE BudgetSpent
  <2> USE <1>10 DEF BudgetSpent
  <2>1. TypeOK'
    BY Names DEF TypeOK, Pcs
  <2> QED
    BY <2>1 DEF StartIsFresh, RejectsAreLeft, CallsWereAsked, InterviewerAsks,
           SubmitsAreEarned, PlannersAreStaffed
<1>11. CASE StructuredAnswers
  <2> USE <1>11 DEF StructuredAnswers
  <2>1. TypeOK'
    BY Names, Budgets DEF TypeOK, Pcs
  <2> QED
    BY <2>1 DEF StartIsFresh, RejectsAreLeft, CallsWereAsked, InterviewerAsks,
           SubmitsAreEarned, PlannersAreStaffed, MinToolHops, TypeOK
<1>12. CASE StructuredFails
  <2> USE <1>12 DEF StructuredFails
  <2>1. TypeOK'
    BY Names, Budgets DEF TypeOK, Pcs
  <2> QED
    BY <2>1 DEF StartIsFresh, RejectsAreLeft, CallsWereAsked, InterviewerAsks,
           SubmitsAreEarned, PlannersAreStaffed
<1>13. CASE PlainThrows
  <2> USE <1>13 DEF PlainThrows
  <2>1. TypeOK'
    BY Names DEF TypeOK, Pcs
  <2> QED
    BY <2>1 DEF StartIsFresh, RejectsAreLeft, CallsWereAsked, InterviewerAsks,
           SubmitsAreEarned, PlannersAreStaffed
<1>14. CASE CoverThrows
  <2> USE <1>14 DEF CoverThrows
  <2>1. TypeOK'
    BY Names DEF TypeOK, Pcs
  <2> QED
    BY <2>1 DEF StartIsFresh, RejectsAreLeft, CallsWereAsked, InterviewerAsks,
           SubmitsAreEarned, PlannersAreStaffed
<1>15. CASE UnknownWorkerThrows
  <2> USE <1>15 DEF UnknownWorkerThrows
  <2>1. TypeOK'
    BY Names DEF TypeOK, Pcs
  <2> QED
    BY <2>1 DEF StartIsFresh, RejectsAreLeft, CallsWereAsked, InterviewerAsks,
           SubmitsAreEarned, PlannersAreStaffed
<1>16. CASE AwaitThrows
  <2> USE <1>16 DEF AwaitThrows
  <2>1. TypeOK'
    BY Names, BoundsAreNaturals DEF TypeOK, Pcs
  <2> QED
    BY <2>1 DEF StartIsFresh, RejectsAreLeft, CallsWereAsked, InterviewerAsks,
           SubmitsAreEarned, PlannersAreStaffed
<1>17. CASE Deliver
  <2> USE <1>17 DEF Deliver
  <2>0. output' \in Output /\ spawns' \in SUBSET (Agents \cup {"nobody"})
    <3>1. role \in Roles
      BY DEF TypeOK
    <3>2. StoredKeys \subseteq Keys
      BY DEF StoredKeys, Keys
    <3>3. DraftPictures \subseteq 1..MaxRounds
      BY DEF DraftPictures, PreviousPictures, TypeOK, Output
    <3>4. \A peers \in Picks : peers \subseteq Agents
      BY PeersAreAgents, Names DEF Picks, TypeOK, Publishers
    <3> QED
      BY <3>2, <3>3, <3>4 DEF Output
  <2>1. TypeOK'
    BY <2>0, Names DEF TypeOK, Pcs
  <2> QED
    BY <2>1 DEF StartIsFresh, RejectsAreLeft, CallsWereAsked, InterviewerAsks,
           SubmitsAreEarned, PlannersAreStaffed
<1>18. CASE NextRound
  <2> USE <1>18 DEF NextRound, Fresh
  <2>0. /\ round' \in 1..MaxRounds /\ hop' \in Nat /\ calls' \in Nat
        /\ todo' \in 0..MaxBatch /\ ~(todo' > 0)
        /\ nudges' \in 0..MaxNudges /\ rejects' \in 0..MaxRejects
    BY BoundsAreNaturals DEF TypeOK, MaxNudges, MaxRejects
  <2>a. role' = "none" /\ role' \notin Roles
    BY Names
  <2>1. TypeOK'
    BY <2>0, <2>a DEF TypeOK, Pcs
  <2> QED
    BY <2>1 DEF StartIsFresh, RejectsAreLeft, CallsWereAsked, InterviewerAsks,
           SubmitsAreEarned, PlannersAreStaffed, MaxRejects
<1>19. CASE UNCHANGED vars
  <2> USE <1>19 DEF vars
  <2>1. TypeOK'
    BY Names DEF TypeOK, Pcs
  <2> QED
    BY <2>1 DEF StartIsFresh, RejectsAreLeft, CallsWereAsked, InterviewerAsks,
           SubmitsAreEarned, PlannersAreStaffed, MinToolHops
<1> QED
  BY <1>1, <1>2, <1>3, <1>4, <1>5, <1>6, <1>7, <1>8, <1>9, <1>10, <1>11, <1>12, <1>13, <1>14, <1>15, <1>16, <1>17, <1>18, <1>19 DEF Next, Turn, Loop

\* The variables keep their types: no turn makes more calls of the model than
\* its agent's budget.
THEOREM ToolLoopTypeCorrect == Spec => []TypeOK
<1>1. IInv => TypeOK
  BY DEF IInv
<1> QED
  BY InitInv, NextInv, <1>1, PTL DEF Spec

-----------------------------------------------------------------------------
(* The transcript.                                                         *)

\* What a message leaves unanswered makes it untidy.
LEMMA NextTidy == TidyCallsAreAnswered /\ [Next]_vars => TidyCallsAreAnswered'
<1> SUFFICES ASSUME TidyCallsAreAnswered, [Next]_vars PROVE TidyCallsAreAnswered'
  OBVIOUS
<1> USE DEF TidyCallsAreAnswered
<1>1. CASE ModelNudged \/ ModelTrailsOff
  BY <1>1 DEF ModelNudged, ModelTrailsOff, GoesOn, Stops
<1>2. CASE \E msg \in Messages : ModelSubmitsEarly(msg)
  <2> PICK msg \in Messages : ModelSubmitsEarly(msg)
    BY <1>2
  <2>1. /\ orphaned' = (orphaned \/ Beside(msg))
        /\ msg.submit # "none" /\ Noted(msg)
    BY DEF ModelSubmitsEarly, GoesOn, TooEarly
  <2> QED
    BY <2>1 DEF Noted, Beside
<1>3. CASE \E msg \in Messages : ModelSubmitsInvalid(msg)
  <2> PICK msg \in Messages : ModelSubmitsInvalid(msg)
    BY <1>3
  <2>1. /\ orphaned' = (orphaned \/ Beside(msg)) \/ orphaned' = orphaned
        /\ msg.submit = "invalid" /\ Noted(msg)
    BY DEF ModelSubmitsInvalid, GoesOn, Stops
  <2> QED
    BY <2>1 DEF Noted, Beside
<1>4. CASE \E msg \in Messages : ModelSubmits(msg)
  <2> PICK msg \in Messages : ModelSubmits(msg)
    BY <1>4
  <2>1. UNCHANGED orphaned /\ Noted(msg)
    BY DEF ModelSubmits, Stops
  <2> QED
    BY <2>1 DEF Noted
<1>5. CASE \E msg \in Messages : ModelCallsTools(msg)
  BY <1>5 DEF ModelCallsTools, Noted
<1>6. CASE \/ Start \/ Refuse \/ CallTool \/ BudgetSpent \/ StructuredAnswers
           \/ StructuredFails \/ PlainThrows \/ CoverThrows
           \/ UnknownWorkerThrows \/ AwaitThrows \/ Deliver \/ UNCHANGED vars
  <2>1. UNCHANGED history
    BY <1>6 DEF Start, Refuse, CallTool, BudgetSpent, StructuredAnswers,
          StructuredFails, PlainThrows, CoverThrows, UnknownWorkerThrows,
          AwaitThrows, Deliver, vars
  <2> QED
    BY <2>1 DEF history
<1>7. CASE NextRound
  BY <1>7 DEF NextRound, Fresh
<1> QED
  BY <1>1, <1>2, <1>3, <1>4, <1>5, <1>6, <1>7 DEF Next, Turn, Loop

\* Only an unknown tool or a submit beside other calls leaves a call of the
\* transcript unanswered.
THEOREM TidySafe == Spec => []TidyCallsAreAnswered
<1>1. Init => TidyCallsAreAnswered
  BY DEF Init, TidyCallsAreAnswered
<1> QED
  BY <1>1, NextTidy, PTL DEF Spec

-----------------------------------------------------------------------------
(* The refinement.                                                         *)

\* While the turn works its terms stand.
LEMMA TermsStand ==
  ASSUME UNCHANGED <<on, roster, role>>
  PROVE  UNCHANGED Terms
BY DEF Terms, MinToolHops

\* A call of the model is AgentTurn's Ask.
LEMMA AskIsAsk ==
  ASSUME IInv, Asks, pc' \notin {"start", "drafted", "failed"},
         UNCHANGED <<on, roster, role, calls, spawns>>
  PROVE  Promise!Ask
<1>1. Phase = "working" /\ Phase' = "working"
  BY AsksCount DEF Phase, IInv
<1>2. Terms.budget = MaxHops[role]
  BY AsksCount, Names DEF Terms, IInv
<1> QED
  BY <1>1, <1>2, TermsStand, AsksCount DEF Promise!Ask, IInv

\* Every step is a step of AgentTurn or does not touch what it is about.
LEMMA StepIsPromised ==
  IInv /\ IInv' /\ [Next]_vars => [Promise!Next]_Promise!vars
<1> SUFFICES ASSUME IInv, IInv', [Next]_vars PROVE [Promise!Next]_Promise!vars
  OBVIOUS
<1> USE DEF Keep, task, loop, history
<1>1. CASE Start
  <2>1. Phase = "idle" /\ Phase' = "working"
    BY <1>1 DEF Start, Phase
  <2> QED
    BY <1>1, <2>1 DEF Start, Promise!Next, Promise!Begin
<1>2. CASE \/ Refuse \/ PlainThrows \/ CoverThrows \/ UnknownWorkerThrows
           \/ AwaitThrows
  <2>1. /\ pc \notin {"drafted", "failed"} /\ pc' = "failed"
        /\ UNCHANGED <<hop, calls, spawns>>
    BY <1>2 DEF Refuse, PlainThrows, CoverThrows, UnknownWorkerThrows, AwaitThrows
  <2>2. Phase \in {"idle", "working"} /\ Phase' = "failed"
    BY <2>1 DEF Phase
  <2> QED
    BY <2>1, <2>2 DEF Promise!Next, Promise!Fail
<1>3. CASE \/ ModelNudged \/ ModelTrailsOff
           \/ \E msg \in Messages :
                \/ ModelSubmitsEarly(msg) \/ ModelSubmitsInvalid(msg)
                \/ ModelSubmits(msg) \/ ModelCallsTools(msg)
  <2>1. /\ Asks /\ pc' \in {"model", "calls", "plain", "submitted"}
        /\ UNCHANGED <<on, roster, role, calls, spawns>>
    BY <1>3 DEF ModelNudged, ModelTrailsOff, ModelSubmitsEarly,
          ModelSubmitsInvalid, ModelSubmits, ModelCallsTools, GoesOn, Stops
  <2> QED
    BY <2>1, AskIsAsk DEF Promise!Next
<1>4. CASE StructuredAnswers \/ StructuredFails
  <2>1. /\ pc = "structured" /\ hop < MaxHops[role] /\ hop' = hop + 1
        /\ pc' \in {"submitted", "plain", "structured"}
        /\ UNCHANGED <<on, roster, role, calls, spawns>>
    BY <1>4 DEF StructuredAnswers, StructuredFails
  <2>2. Phase = "working" /\ Phase' = "working"
    BY <2>1 DEF Phase
  <2>3. Terms.budget = MaxHops[role]
    BY <2>1, Names DEF Terms, IInv, TypeOK
  <2> QED
    BY <2>1, <2>2, <2>3, TermsStand DEF Promise!Next, Promise!Ask
<1>5. CASE CallTool
  <2>1. /\ pc = "calls" /\ pc' \in {"model", "calls"} /\ calls' = calls + 1
        /\ UNCHANGED <<on, roster, role, hop, spawns>>
    BY <1>5 DEF CallTool
  <2>2. Phase = "working" /\ Phase' = "working"
    BY <2>1 DEF Phase
  <2> QED
    BY <2>1, <2>2, TermsStand DEF Promise!Next, Promise!Look, IInv, CallsWereAsked
<1>6. CASE BudgetSpent
  <2>1. /\ pc = "model" /\ pc' = "plain"
        /\ UNCHANGED <<on, roster, role, hop, calls, spawns>>
    BY <1>6 DEF BudgetSpent
  <2>2. UNCHANGED Phase
    BY <2>1 DEF Phase
  <2> QED
    BY <2>1, <2>2, TermsStand DEF Promise!vars
<1>7. CASE Deliver
  <2>1. /\ pc = "submitted" /\ pc' = "drafted" /\ spawns' \in Picks
        /\ UNCHANGED <<on, roster, role, hop, calls>>
    BY <1>7 DEF Deliver
  <2>2. Phase = "working" /\ Phase' = "drafted"
    BY <2>1 DEF Phase
  <2>3. role # "none"
    BY <2>1, Names DEF IInv, TypeOK
  <2>4. /\ Terms.budget = MaxHops[role] /\ Terms.need = MinToolHops
        /\ Terms.workers = roster
    BY <2>3 DEF Terms
  <2>5. spawns' \in SUBSET roster
    BY <2>1 DEF Picks, IInv, PlannersAreStaffed
  <2> QED
    BY <2>1, <2>2, <2>4, <2>5, TermsStand
    DEF Promise!Next, Promise!Deliver, IInv, SubmitsAreEarned
<1>8. CASE NextRound
  <2>1. Phase = "drafted" /\ Phase' = "idle"
    BY <1>8 DEF NextRound, Phase
  <2> QED
    BY <1>8, <2>1 DEF NextRound, Fresh, Promise!Next, Promise!Again
<1>9. CASE UNCHANGED vars
  BY <1>9, TermsStand DEF vars, Promise!vars, Phase
<1> QED
  BY <1>1, <1>2, <1>3, <1>4, <1>5, <1>6, <1>7, <1>8, <1>9 DEF Next, Turn, Loop

\* Whatever the model answers, an agent keeps what AgentTurn promises.
THEOREM PromiseKept == Spec => KeepsPromise
<1>1. Init => Promise!Init
  BY DEF Init, Promise!Init, Phase
<1> QED
  BY <1>1, InitInv, NextInv, StepIsPromised, PTL
  DEF Spec, KeepsPromise, Promise!Spec
=============================================================================
