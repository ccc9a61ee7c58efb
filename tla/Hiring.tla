------------------------------- MODULE Hiring -------------------------------
(***************************************************************************)
(* One agent a tenant hires and dismisses, the credentials of the provider *)
(* it requires, and the tool calls that look a credential up: the agent    *)
(* registry, the credentials routes and the Shopify client.                *)
(*                                                                         *)
(* A secret is the number of the PUT that brought it.  Prompts, tool       *)
(* whitelists and the rest of an agent's configuration are left out, and a *)
(* credential has its store's address.                                     *)
(***************************************************************************)
EXTENDS Naturals, FiniteSets

CONSTANTS
  Requests,   \* API requests that may be open at once
  Runs,       \* runs and approvals that may have the agent built at once
  Labels,     \* labels a credential may be given by name
  Blank,      \* the empty label
  Omitted,    \* no label: undefined in a request, NULL in a row
  MaxSecrets, \* bound: PUTs of a credential
  MaxChanges  \* bound: activations, deactivations and deletions

ASSUME HiringBounds == MaxSecrets \in Nat /\ MaxChanges \in Nat
ASSUME HiringNames ==
  Blank \notin Labels /\ Omitted \notin Labels /\ Blank # Omitted

VARIABLES
  rows,      \* tenant_credentials of the provider
  config,    \* the agent_configs row of the agent
  req,       \* the API requests
  run,       \* who has the agent built
  use,       \* history: the tool call made last
  issued, changes,   \* counters of the bounds
  acked,     \* history: per label, the secret put last and answered; 0 for none
  clashed,   \* history: a PUT has overlapped another or a deletion
  named      \* history: a PUT has come with a label
vars == <<rows, config, req, run, use, issued, changes, acked, clashed, named>>

AnyLabel == Labels \cup {Blank, Omitted}
Secrets == 1..MaxSecrets

Row == [id : Secrets, label : AnyLabel, secret : Secrets]
Config == [pc : {"none", "enabled", "disabled"}, label : AnyLabel]

\* target: the row a PUT has found, 0 for none.
Request == [pc : {"free", "put", "activate"}, label : AnyLabel,
            secret : 0..MaxSecrets, target : 0..MaxSecrets]
NoReq == [pc |-> "free", label |-> Omitted, secret |-> 0, target |-> 0]
Run == [pc : {"free", "built"}, label : AnyLabel]
NoRun == [pc |-> "free", label |-> Omitted]

\* owed: what had been answered for the label by the time of the call; clashed
\* and named: what had happened by then.
Use == [label : AnyLabel, secret : 0..MaxSecrets, owed : 0..MaxSecrets,
        clashed : BOOLEAN, named : BOOLEAN]
NoUse == [label |-> Omitted, secret |-> 0, owed |-> 0, clashed |-> FALSE, named |-> FALSE]

\* A label is in the table once, NULL as often as it is put.
TypeOK ==
  /\ rows \in SUBSET Row
  /\ \A x, y \in rows : x.id = y.id \/ (x.label = y.label /\ x.label # Omitted) => x = y
  /\ config \in Config
  /\ req \in [Requests -> Request] /\ run \in [Runs -> Run] /\ use \in Use
  /\ issued \in 0..MaxSecrets /\ changes \in Nat
  /\ acked \in [AnyLabel -> 0..MaxSecrets] /\ clashed \in BOOLEAN
  /\ named \in BOOLEAN

Init ==
  /\ rows = {} /\ config = [pc |-> "none", label |-> Omitted]
  /\ req = [q \in Requests |-> NoReq] /\ run = [r \in Runs |-> NoRun]
  /\ use = NoUse /\ issued = 0 /\ changes = 0
  /\ acked = [l \in AnyLabel |-> 0] /\ clashed = FALSE /\ named = FALSE

Change == changes < MaxChanges /\ changes' = changes + 1

-----------------------------------------------------------------------------
(* The credentials routes.                                                 *)

\* A PUT without a label looks for the empty one, which NULL is not.
Found(l) == {x \in rows : x.label = IF l = Omitted THEN Blank ELSE l}

\* PUT /credentials/:provider: the SELECT.
PutReads(q) ==
  /\ req[q].pc = "free" /\ issued < MaxSecrets /\ issued' = issued + 1
  /\ \E l \in AnyLabel : \E t \in {x.id : x \in Found(l)} \cup {0} :
       /\ t = 0 <=> Found(l) = {}
       /\ req' = [req EXCEPT ![q] = [pc |-> "put", label |-> l,
                                     secret |-> issued + 1, target |-> t]]
       /\ named' = (named \/ l # Omitted)
  /\ clashed' = (clashed \/ \E p \in Requests : req[p].pc = "put")
  /\ UNCHANGED <<rows, config, run, use, changes, acked>>

Answer(q) ==
  /\ req' = [req EXCEPT ![q] = NoReq]
  /\ UNCHANGED <<config, run, use, issued, changes, clashed, named>>

\* The UPDATE of the row found, answered alike if it is gone by now.
PutUpdates(q) ==
  /\ req[q].pc = "put" /\ req[q].target # 0
  /\ rows' = {IF x.id = req[q].target THEN [x EXCEPT !.secret = req[q].secret] ELSE x
                : x \in rows}
  /\ acked' = [acked EXCEPT ![req[q].label] = req[q].secret]
  /\ Answer(q)

\* Mutant: no unique index.
Taken_Never(l) == FALSE

\* The unique index on (tenant, provider, label).
Taken(l) == l # Omitted /\ \E x \in rows : x.label = l

\* The INSERT.
PutInserts(q) ==
  /\ req[q].pc = "put" /\ req[q].target = 0 /\ ~Taken(req[q].label)
  /\ rows' = rows \cup {[id |-> req[q].secret, label |-> req[q].label,
                         secret |-> req[q].secret]}
  /\ acked' = [acked EXCEPT ![req[q].label] = req[q].secret]
  /\ Answer(q)

\* It meets a row another PUT has made since: 500.
PutCollides(q) ==
  /\ req[q].pc = "put" /\ req[q].target = 0 /\ Taken(req[q].label)
  /\ UNCHANGED <<rows, acked>>
  /\ Answer(q)

\* DELETE /credentials/:id.
Delete(x) ==
  /\ x \in rows /\ Change
  /\ rows' = rows \ {x}
  /\ acked' = [acked EXCEPT ![x.label] = 0]
  /\ clashed' = (clashed \/ \E p \in Requests : req[p].pc = "put")
  /\ UNCHANGED <<config, req, run, use, issued, named>>

-----------------------------------------------------------------------------
(* The agent registry.                                                     *)

\* assertCredentialsBound: any row of the provider will do.
Bound == rows # {}

\* activate: the checklist.
ActivateChecks(q) ==
  /\ req[q].pc = "free" /\ Bound /\ Change
  /\ \E l \in AnyLabel :
       req' = [req EXCEPT ![q] = [NoReq EXCEPT !.pc = "activate", !.label = l]]
  /\ UNCHANGED <<rows, config, run, use, issued, acked, clashed, named>>

\* Its upsert.
ActivateWrites(q) ==
  /\ req[q].pc = "activate"
  /\ config' = [pc |-> "enabled", label |-> req[q].label]
  /\ req' = [req EXCEPT ![q] = NoReq]
  /\ UNCHANGED <<rows, run, use, issued, changes, acked, clashed, named>>

\* deactivate is an UPDATE: an agent without a row stays as it is.
Deactivate ==
  /\ config.pc = "enabled" /\ Change
  /\ config' = [config EXCEPT !.pc = "disabled"]
  /\ UNCHANGED <<rows, req, run, use, issued, acked, clashed, named>>

\* listForTenant: an agent without a row is there.
Listed == config.pc # "disabled"

\* What getActivationStatus says.
ShownEnabled == config.pc = "enabled"

\* loadConfig, and build with the label it names.  An approved tool call is
\* carried out whether the agent is listed still or not.
Build(r) ==
  /\ run[r].pc = "free"
  /\ run' = [run EXCEPT ![r] = [pc |-> "built", label |-> config.label]]
  /\ UNCHANGED <<rows, config, req, use, issued, changes, acked, clashed, named>>
RunBuilds(r) == Listed /\ Build(r)
ApprovalBuilds(r) == ~Listed /\ Build(r)

\* Mutant: the label is not part of the query.
Candidates_AnyLabel(l) == rows

\* getShopifyCredentials: any row of the provider, or the one with the label.
Candidates(l) == {x \in rows : l \in {Blank, Omitted, x.label}}

ToolCalls(r) ==
  /\ run[r].pc = "built"
  /\ \E x \in Candidates(run[r].label) :
       use' = [label |-> run[r].label, secret |-> x.secret,
               owed |-> acked[run[r].label], clashed |-> clashed, named |-> named]
  /\ run' = [run EXCEPT ![r] = NoRun]
  /\ UNCHANGED <<rows, config, req, issued, changes, acked, clashed, named>>

\* No row, or whoever had the agent built ends without a call.
RunEnds(r) ==
  /\ run[r].pc = "built"
  /\ run' = [run EXCEPT ![r] = NoRun]
  /\ UNCHANGED <<rows, config, req, use, issued, changes, acked, clashed, named>>

Next ==
  \/ \E q \in Requests :
       \/ PutReads(q) \/ PutUpdates(q) \/ PutInserts(q) \/ PutCollides(q)
       \/ ActivateChecks(q) \/ ActivateWrites(q)
  \/ \E x \in rows : Delete(x)
  \/ Deactivate
  \/ \E r \in Runs :
       RunBuilds(r) \/ ApprovalBuilds(r) \/ ToolCalls(r) \/ RunEnds(r)

Spec == Init /\ [][Next]_vars

-----------------------------------------------------------------------------
Current == use.secret >= use.owed

\* A rotated secret takes hold: once a PUT under a label has been answered, no
\* tool call of an agent configured with that label is made with an older one,
\* whenever the agent was built, as long as PUTs do not overlap each other or a
\* deletion.
NamedRotationTakesHold == use.label \in Labels /\ ~use.clashed => Current

\* "One credential per provider"; PUT is an "upsert" (docs/API_GUIDE.md:736,
\* :753): the same for a tenant who, by the time of the call, has never put a
\* credential with a label, so that each of its PUTs replaces the one before.
RotationTakesHold == ~use.named /\ ~use.clashed => Current
=============================================================================
