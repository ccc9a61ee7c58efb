------------------------------ MODULE ToolLoop ------------------------------
(***************************************************************************)
(* The turns one task's agent takes: the tool loop it shares with the      *)
(* other agents, the checks each agent makes before and after that loop,   *)
(* and the output the next turn starts from.                               *)
(*                                                                         *)
(* The model is the environment: at every call it answers with any mix of  *)
(* calls to tools it has, calls to tools it does not have, and a submit    *)
(* whose arguments fit the schema or do not.  Text, prompts and schemas    *)
(* are abstracted to that.  One action is one call of the model or of a    *)
(* tool with the code up to the next one.                                  *)
(***************************************************************************)
EXTENDS Naturals

CONSTANTS
  MaxBatch,   \* bound: calls to known tools in one message of the model
  MaxRounds,  \* bound: turns of the task, the first and its feedback rounds
  Rosters     \* the sets of enabled peer agents a tenant may have

ASSUME BoundsAreNaturals == MaxBatch \in Nat /\ MaxRounds \in Nat \ {0}

VARIABLES
  agent,      \* the agent the task is assigned to
  on,         \* its switches that are on
  roster,     \* ctx.availableExecutionAgents
  output,     \* tasks.output, as the runner stored the last draft
  round,      \* turns begun or about to begin
  role,       \* who runs in this turn
  pc,         \* where the turn is
  hop,        \* model calls made in this turn
  calls,      \* calls.length: tools invoked in this turn
  todo,       \* known calls of the last message still to be made
  nudges,     \* coercionRetries
  rejects,    \* schemaRetries
  drawn,      \* a tool call of this turn returned a picture
  spawns,     \* the workers named by the draft's spawnTasks
  orphaned,   \* history: the transcript holds a call that is never answered
  untidy      \* history: a message named an unknown tool, or mixed a submit
              \* with other calls
task    == <<agent, on, roster>>
loop    == <<hop, calls, todo, nudges, rejects, drawn>>
history == <<orphaned, untidy>>
vars == <<task, output, round, role, pc, loop, spawns, history>>

\* What switches an agent's turns: a search key, image storage, the EEAT step.
Switches ==
  [a \in {"article-writer", "seo-article-with-eeat", "seo-strategist",
          "product-planner", "product-designer", "market-researcher",
          "shopify-publisher"} |->
     CASE a = "seo-article-with-eeat" -> {"serper", "images", "eeat"}
       [] a = "article-writer" -> {"serper", "images"}
       [] a = "product-designer" -> {"images"}
       [] a = "shopify-publisher" -> {}
       [] OTHER -> {"serper"}]

Agents == DOMAIN Switches

ASSUME PeersAreAgents == \A peers \in Rosters : peers \subseteq Agents

Roles  == (Agents \ {"seo-article-with-eeat"}) \cup {"eeat-interviewer"}
Loopers == Roles \ {"eeat-interviewer", "shopify-publisher"}

Workers == {"article-writer", "product-designer", "shopify-publisher"}
Publishers == {"shopify-publisher"}

\* maxHops of the agents that run the tool loop, maxRetries of the one that
\* asks for structured output; the publisher calls no model.
MaxHops ==
  [r \in Roles |-> CASE r = "article-writer" -> 10
                     [] r = "product-designer" -> 6
                     [] r = "market-researcher" -> 14
                     [] r = "eeat-interviewer" -> 3
                     [] r = "shopify-publisher" -> 0
                     [] OTHER -> 8]

MaxNudges  == 1
MaxRejects == 2

MinToolHops ==
  IF "serper" \in on
     /\ role \in {"seo-strategist", "product-planner", "market-researcher"}
  THEN 1 ELSE 0

\* The tools bound beside the submit tool: fetching pages needs no key.
HasTools ==
  CASE role \in {"article-writer", "market-researcher"} -> TRUE
    [] role = "product-designer" -> "images" \in on
    [] OTHER -> "serper" \in on

\* The rows the runner stores: top-level keys, and the pictures of the draft,
\* each named by the turn that drew it.
Keys == {"artifact", "content", "eeatPending", "payload"}
Output == [keys : SUBSET Keys, pictures : SUBSET (1..MaxRounds)]
Null == [keys |-> {}, pictures |-> {}]

Pcs == {"start", "model", "calls", "structured", "submitted", "plain",
        "drafted", "failed"}

TypeOK ==
  /\ agent \in Agents /\ on \subseteq Switches[agent] /\ roster \in Rosters
  /\ output \in Output /\ round \in 1..MaxRounds
  /\ role \in Roles \cup {"none"} /\ pc \in Pcs
  /\ pc \in {"model", "calls"} => role \in Loopers
  /\ pc \notin {"start", "failed"} => role \in Roles
  /\ hop \in Nat
  /\ role \in Roles => hop <= MaxHops[role]
  /\ calls \in Nat /\ todo \in 0..MaxBatch
  /\ pc = "calls" <=> todo > 0
  /\ nudges \in 0..MaxNudges /\ rejects \in 0..MaxRejects
  /\ drawn \in BOOLEAN /\ spawns \in SUBSET (Agents \cup {"nobody"})
  /\ orphaned \in BOOLEAN /\ untidy \in BOOLEAN

Fresh ==
  /\ role' = "none" /\ hop' = 0 /\ calls' = 0 /\ todo' = 0
  /\ nudges' = 0 /\ rejects' = 0 /\ drawn' = FALSE
  /\ spawns' = {} /\ orphaned' = FALSE /\ untidy' = FALSE

Init ==
  /\ agent \in Agents /\ on \in SUBSET Switches[agent] /\ roster \in Rosters
  /\ output = Null /\ round = 1 /\ pc = "start"
  /\ role = "none" /\ hop = 0 /\ calls = 0 /\ todo = 0
  /\ nudges = 0 /\ rejects = 0 /\ drawn = FALSE
  /\ spawns = {} /\ orphaned = FALSE /\ untidy = FALSE

Keep == UNCHANGED <<task, output, round>>

-----------------------------------------------------------------------------
(* Before the loop.                                                        *)

\* The workflow agent interviews until an output with eeatPending is on the
\* row; asked but unanswered falls through to the writer as well.
Role ==
  IF agent # "seo-article-with-eeat" THEN agent
  ELSE IF "eeat" \notin on \/ "eeatPending" \in output.keys THEN "article-writer"
  ELSE "eeat-interviewer"

\* build() and the first lines of invoke(): agents that plan for others
\* refuse to run without them.
Staffed ==
  /\ agent = "seo-strategist" => roster # {}
  /\ agent = "product-planner" => "product-designer" \in roster
  /\ agent = "product-designer" => roster \cap Publishers # {}

Start ==
  /\ pc = "start" /\ Staffed
  /\ role' = Role
  /\ \/ Role \in Loopers /\ pc' = "model"
     \/ Role = "eeat-interviewer" /\ pc' = "structured"
     \/ Role = "shopify-publisher" /\ pc' = "submitted"
  /\ UNCHANGED <<loop, spawns, history>> /\ Keep

Refuse ==
  /\ pc = "start" /\ ~Staffed
  /\ pc' = "failed"
  /\ UNCHANGED <<role, loop, spawns, history>> /\ Keep

-----------------------------------------------------------------------------
(* runToolLoop.                                                            *)

\* A message of the model with tool calls: how many to tools it has, whether
\* one to a tool it does not have, and what it submits.
Messages ==
  [known : IF HasTools THEN 0..MaxBatch ELSE {0}, unknown : BOOLEAN,
   submit : {"none", "invalid", "valid"}]

Asks == pc = "model" /\ hop < MaxHops[role] /\ hop' = hop + 1

\* The loop goes on with `left` calls of the message never to be answered.
GoesOn(left) ==
  /\ pc' = "model"
  /\ orphaned' = (orphaned \/ left)

Stops(to) == pc' = to /\ UNCHANGED orphaned

Noted(msg) ==
  untidy' = (untidy \/ msg.unknown \/ (msg.submit # "none" /\ msg.known > 0))

\* Others than the submit that a rejected submit leaves unanswered.
Beside(msg) == msg.known > 0 \/ msg.unknown

\* Mutant: nudges as long as calls of the model are left.
NudgeAllowed_Uncapped == hop + 1 < MaxHops[role]

\* hop counts this call already: another must be left.
NudgeAllowed == nudges < MaxNudges /\ hop + 1 < MaxHops[role]

\* No tool calls: one nudge to submit, if a call of the model is left for it.
ModelNudged ==
  /\ Asks /\ NudgeAllowed
  /\ nudges' = nudges + 1
  /\ GoesOn(FALSE)
  /\ UNCHANGED <<role, calls, todo, rejects, drawn, spawns, untidy>> /\ Keep

ModelTrailsOff ==
  /\ Asks /\ ~NudgeAllowed
  /\ Stops("plain")
  /\ UNCHANGED <<role, calls, todo, nudges, rejects, drawn, spawns, untidy>>
  /\ Keep

\* Mutant: the minimum is not asked for.
TooEarly_Mutant(msg) == FALSE

TooEarly(msg) == msg.submit # "none" /\ calls < MinToolHops

\* "Error: research first": answered, and nothing bounds how often but hops.
ModelSubmitsEarly(msg) ==
  /\ Asks /\ TooEarly(msg)
  /\ GoesOn(Beside(msg)) /\ Noted(msg)
  /\ UNCHANGED <<role, calls, todo, nudges, rejects, drawn, spawns>> /\ Keep

\* Mutant: the rejected submit is not answered.
ModelSubmitsInvalid_Mutant(msg) ==
  /\ Asks /\ msg.submit = "invalid" /\ ~TooEarly(msg)
  /\ rejects' = rejects + 1
  /\ IF rejects' >= MaxRejects THEN Stops("plain") ELSE GoesOn(TRUE)
  /\ Noted(msg)
  /\ UNCHANGED <<role, calls, todo, nudges, drawn, spawns>> /\ Keep

ModelSubmitsInvalid(msg) ==
  /\ Asks /\ msg.submit = "invalid" /\ ~TooEarly(msg)
  /\ rejects' = rejects + 1
  /\ IF rejects' >= MaxRejects THEN Stops("plain") ELSE GoesOn(Beside(msg))
  /\ Noted(msg)
  /\ UNCHANGED <<role, calls, todo, nudges, drawn, spawns>> /\ Keep

ModelSubmits(msg) ==
  /\ Asks /\ msg.submit = "valid" /\ ~TooEarly(msg)
  /\ Stops("submitted") /\ Noted(msg)
  /\ UNCHANGED <<role, calls, todo, nudges, rejects, drawn, spawns>> /\ Keep

\* Calls to tools only.  An unknown name is skipped without an answer.
ModelCallsTools(msg) ==
  /\ Asks /\ msg.submit = "none" /\ Beside(msg)
  /\ todo' = msg.known
  /\ pc' = IF msg.known > 0 THEN "calls" ELSE "model"
  /\ orphaned' = (orphaned \/ msg.unknown) /\ Noted(msg)
  /\ UNCHANGED <<role, calls, nudges, rejects, drawn, spawns>> /\ Keep

\* The next call of the message.  A tool that throws is answered with an
\* error envelope and counts as a call; a picture comes back only from the
\* designer's image tools.
CallTool ==
  /\ pc = "calls"
  /\ calls' = calls + 1 /\ todo' = todo - 1
  /\ pc' = IF todo = 1 THEN "model" ELSE "calls"
  /\ \/ drawn' = drawn
     \/ role = "product-designer" /\ drawn' = TRUE
  /\ UNCHANGED <<role, hop, nudges, rejects, spawns, history>> /\ Keep

\* Mutant: an off-by-one in the end of the loop.
BudgetSpent_OffByOne ==
  /\ pc = "model" /\ hop > MaxHops[role]
  /\ pc' = "plain"
  /\ UNCHANGED <<role, loop, spawns, history>> /\ Keep

BudgetSpent ==
  /\ pc = "model" /\ hop = MaxHops[role]
  /\ pc' = "plain"
  /\ UNCHANGED <<role, loop, spawns, history>> /\ Keep

\* invokeStructured: an answer that parses, or can be repaired, ends it.
StructuredAnswers ==
  /\ pc = "structured" /\ hop < MaxHops[role]
  /\ hop' = hop + 1 /\ pc' = "submitted"
  /\ UNCHANGED <<role, calls, todo, nudges, rejects, drawn, spawns, history>>
  /\ Keep

StructuredFails ==
  /\ pc = "structured" /\ hop < MaxHops[role]
  /\ hop' = hop + 1
  /\ pc' = IF hop + 1 = MaxHops[role] THEN "plain" ELSE "structured"
  /\ UNCHANGED <<role, calls, todo, nudges, rejects, drawn, spawns, history>>
  /\ Keep

Loop ==
  \/ ModelNudged
  \/ ModelTrailsOff
  \/ \E msg \in Messages :
       \/ ModelSubmitsEarly(msg)
       \/ ModelSubmitsInvalid(msg)
       \/ ModelSubmits(msg)
       \/ ModelCallsTools(msg)
  \/ CallTool
  \/ BudgetSpent
  \/ StructuredAnswers
  \/ StructuredFails

-----------------------------------------------------------------------------
(* After the loop.                                                         *)

\* Every agent throws on a result that was not submitted, invokeStructured
\* the error of its last attempt.
PlainThrows ==
  /\ pc = "plain"
  /\ pc' = "failed"
  /\ UNCHANGED <<role, loop, spawns, history>> /\ Keep

\* The article is submitted, its cover cannot be drawn: the turn throws.
CoverThrows ==
  /\ pc = "submitted" /\ role = "article-writer" /\ "images" \in on
  /\ pc' = "failed"
  /\ UNCHANGED <<role, loop, spawns, history>> /\ Keep

\* The model, the log or the search for reference images fails: no catch.
AwaitThrows ==
  /\ pc \in {"model", "calls", "structured", "submitted"}
  /\ pc' = "failed" /\ todo' = 0
  /\ UNCHANGED <<role, hop, calls, nudges, rejects, drawn, spawns, history>>
  /\ Keep

\* Mutant: the strategist's choice of workers is taken as it is.
Picks_Mutant ==
  IF role = "seo-strategist" THEN SUBSET (Workers \cup {"nobody"}) ELSE {{}}

\* The workers a draft may ask for: the strategist's model names them, one
\* unknown name throws; the planner asks for the designer, the designer for
\* every publisher.
Picks ==
  IF role = "seo-strategist" THEN SUBSET roster
  ELSE IF role = "product-planner" THEN {{"product-designer"}}
  ELSE IF role = "product-designer" THEN {roster \cap Publishers}
  ELSE {{}}

UnknownWorkerThrows ==
  /\ pc = "submitted" /\ role = "seo-strategist"
  /\ pc' = "failed"
  /\ UNCHANGED <<role, loop, spawns, history>> /\ Keep

\* The pictures the designer starts from: taskOutput.payload.content.
PreviousPictures ==
  IF {"payload", "content"} \subseteq output.keys THEN output.pictures ELSE {}

DraftPictures ==
  IF role # "product-designer" THEN {}
  ELSE IF drawn THEN {round} ELSE PreviousPictures

\* The runner spreads the agent's payload into the row: its keys are at the
\* top level.
StoredKeys ==
  {"artifact"} \cup
  CASE role = "eeat-interviewer" -> {"eeatPending"}
    [] role \in {"product-designer", "shopify-publisher"} -> {"content"}
    [] OTHER -> {}

Deliver ==
  /\ pc = "submitted"
  /\ pc' = "drafted"
  /\ spawns' \in Picks
  /\ output' = [keys |-> StoredKeys, pictures |-> DraftPictures]
  /\ UNCHANGED <<task, round, role, loop, history>>

\* Feedback, an answer or a rerun: the task runs its agent again.
NextRound ==
  /\ pc = "drafted" /\ round < MaxRounds
  /\ round' = round + 1 /\ pc' = "start"
  /\ Fresh
  /\ UNCHANGED <<task, output>>

Turn ==
  \/ Start \/ Refuse
  \/ Loop
  \/ PlainThrows \/ CoverThrows \/ UnknownWorkerThrows
  \/ Deliver

Next == Turn \/ AwaitThrows \/ NextRound

Spec == Init /\ [][Next]_vars

\* The promises the turn awaits are settled: a call of the model or of a tool
\* returns.  That one throws instead is never counted on.
FairSpec == Spec /\ WF_vars(Turn)

-----------------------------------------------------------------------------
(* Properties.                                                             *)

\* While the model names only tools it has and submits alone, every tool call
\* of the transcript is answered before the model is asked again; the code
\* answers a submit so that calls "don't hang as orphans" (tool-loop.ts).
TidyCallsAreAnswered == ~untidy => ~orphaned

\* The same of every turn.
CallsAreAnswered == ~orphaned

Terms ==
  IF role = "none" THEN [budget |-> 0, need |-> 0, workers |-> {}]
  ELSE [budget |-> MaxHops[role], need |-> MinToolHops, workers |-> roster]

Phase == IF pc = "start" THEN "idle"
         ELSE IF pc \in {"drafted", "failed"} THEN pc
         ELSE "working"

Promise == INSTANCE AgentTurn WITH
  phase <- Phase, terms <- Terms, turns <- hop, looked <- calls,
  spawns <- spawns

\* Whatever the model answers, an agent keeps what AgentTurn promises: its
\* budget of model calls, research before the deliverable ("Force at least
\* one search hop when serper is available", market-researcher/index.ts), one
\* draft for workers the tenant has, or an error.
KeepsPromise == Promise!Spec

\* A turn never hangs in the loop: it ends with a draft or an error.
TurnEnds == []<>(pc \in {"drafted", "failed"})

\* "If no tools called: imageUrls retains previousImageUrls (copy-only
\* feedback)" (product-designer/index.ts): a designer's round that drew
\* nothing shows the pictures of the draft before it.
CopyOnlyRoundKeepsPictures ==
  [][pc' = "drafted" /\ pc = "submitted" /\ role = "product-designer"
     /\ ~drawn => output'.pictures = output.pictures]_vars
=============================================================================
