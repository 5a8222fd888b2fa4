---------------------------- MODULE Administration ----------------------------
(***************************************************************************)
(* What operators change under /v1/operator and /v1/oauth: the agents, the *)
(* safety policies of the apps and the catalogue of scopes (modules        *)
(* operatorAgents, operatorSafetyPolicies and oauthScopes of src/src).     *)
(*                                                                         *)
(* Every change reads before it writes, and no read takes a lock: an agent *)
(* is read for the audit entry, a policy for the fields a PUT leaves out,  *)
(* a policy's id and app and a scope's id to answer a conflict.  The       *)
(* transactions are READ COMMITTED, so another change may commit between   *)
(* the statements; only the primary keys and the unique index on a         *)
(* policy's app_id then stand in the way.  The last statements, the write  *)
(* and its audit entry, and the commit are one step.                       *)
(*                                                                         *)
(* Abstractions.  A policy has as many fields as it takes to tell apart    *)
(* one that is given and one that is left out.  A timestamp is whether it  *)
(* is set.  Ids that the code mints are given in the input, where no other *)
(* request names them.  Idempotency keys are the subject of EventIngestion *)
(* and differ here.                                                        *)
(***************************************************************************)
EXTENDS Integers, FiniteSets, Sequences, SequencesExt

CONSTANTS
  Requests,   \* requests of operators
  Agents,     \* ids of agents
  Policies,   \* ids of safety policies
  Apps,       \* apps a policy may be about
  Fields,     \* the fields of a policy a PUT may leave out
  Values,     \* what is put in them
  Default,    \* what an insert puts in a field that is left out
  ScopeIds,   \* ids of scopes
  ScopeRows,  \* what may be defined under them
  Names,      \* display names of agents
  Inputs,     \* what a request may be
  Scenarios,  \* bound: the requests that are sent together
  Catalogue,  \* [ScopeIds -> ScopeRows \cup {None}]: the scopes at the start
  None        \* absent

AgentStatuses == {"active", "suspended", "retired"}

ASSUME CatalogueAssumption ==
  /\ Catalogue \in [ScopeIds -> ScopeRows \cup {None}] /\ None \notin ScopeRows
  /\ Scenarios \subseteq [Requests -> Inputs]
  /\ Default \notin Values /\ None \notin Values \cup {Default}
  /\ Names \cap AgentStatuses = {} /\ None \notin Names \cup AgentStatuses

\* Rows of agents and safety_policies.
AgentRows ==
  [status : AgentStatuses, name : Names, suspendedAt : BOOLEAN, retiredAt : BOOLEAN]
PolicyRows == [app : Apps, value : [Fields -> Values \cup {Default}]]

ASSUME RowAssumption == None \notin AgentRows \cup PolicyRows

\* What the schemas of the bodies let through.
ASSUME InputAssumption ==
  \A x \in Inputs : x.admin =>
    /\ x.kind \in {"register", "change"} => x.on \in Agents
    /\ x.kind = "register" => x.body.name \in Names
    /\ x.kind = "change" => x.body.status \in AgentStatuses \cup {None}
                            /\ x.body.name \in Names \cup {None}
    /\ x.kind = "put" => /\ x.on \in Policies /\ x.body.app \in Apps
                         /\ x.body.value \in [Fields -> Values \cup {None}]
    /\ x.kind = "define" => x.on \in ScopeIds /\ x.body \in ScopeRows

VARIABLES
  input,     \* what each request is
  stage,     \* where it is
  answer,    \* what it was answered
  kept,      \* the row it has read
  agent,     \* agents
  policy,    \* safety_policies
  scope,     \* oauth_scopes
  trail,     \* the audit entries of each agent
  given,     \* history: what was last put in each field of a policy
  overtaken  \* history: rows written between the read and the write of another

tableVars == <<agent, policy, scope, trail>>
adminVars == <<input, stage, answer, kept, tableVars, given, overtaken>>

NewAgent(name) ==
  [status |-> "active", name |-> name, suspendedAt |-> FALSE, retiredAt |-> FALSE]

AdminInit ==
  /\ input \in Scenarios
  /\ stage = [r \in Requests |-> "new"]
  /\ answer = [r \in Requests |-> 0]
  /\ kept = [r \in Requests |-> None]
  /\ \E S \in SUBSET Agents, n \in Names :
       /\ \A r \in Requests : input[r].kind = "register" => input[r].on \notin S
       /\ agent = [a \in Agents |-> IF a \in S THEN NewAgent(n) ELSE None]
  /\ policy = [p \in Policies |-> None]
  /\ scope = Catalogue
  /\ trail = [a \in Agents |-> IF agent[a] = None THEN << >> ELSE
                <<[from |-> None, to |-> "active"]>>]
  /\ given = [p \in Policies |-> [f \in Fields |-> None]]
  /\ overtaken = {}

-------------------------------------------------------------------------------
Kind(r) == input[r].kind
On(r) == input[r].on
Body(r) == input[r].body

Answered(r, code) ==
  /\ stage' = [stage EXCEPT ![r] = "done"]
  /\ answer' = [answer EXCEPT ![r] = code]
  /\ kept' = [kept EXCEPT ![r] = None]

Goes(r, s, row) ==
  /\ stage' = [stage EXCEPT ![r] = s]
  /\ kept' = [kept EXCEPT ![r] = row]
  /\ UNCHANGED answer

Read(r, kind) == stage[r] = "new" /\ Kind(r) = kind /\ input[r].admin

\* The row another request still holds as it was: it is overtaken.
Overtake(r, row, id) ==
  overtaken' = IF row # kept[r] THEN overtaken \cup {id} ELSE overtaken

\* requireAdminScope.
Refuse(r) ==
  /\ stage[r] = "new" /\ ~input[r].admin
  /\ Answered(r, 403)
  /\ UNCHANGED <<input, tableVars, given, overtaken>>

\* Anything fails: the transaction is rolled back, 500.
Fail(r) ==
  /\ stage[r] # "done"
  /\ Answered(r, 500)
  /\ UNCHANGED <<input, tableVars, given, overtaken>>

-------------------------------------------------------------------------------
(* Agents.                                                                 *)

\* An app's own agent needs an owner, a third party's its OAuth client.
Complete(b) ==
  /\ b.class = "portfolio_app" => b.owner # None
  /\ b.class = "third_party_oauth" => b.client # None

\* An id is minted for one registration only.
ASSUME MintedAssumption ==
  \A t \in Scenarios : \A r, q \in Requests :
    /\ r # q /\ t[r].kind = "register" /\ t[q].kind = "register"
    /\ Complete(t[r].body) /\ Complete(t[q].body)
    => t[r].on # t[q].on

RegisterAgent(r) ==
  /\ Read(r, "register")
  /\ IF Complete(Body(r))
     THEN /\ agent' = [agent EXCEPT ![On(r)] = NewAgent(Body(r).name)]
          /\ trail' = [trail EXCEPT ![On(r)] = Append(@, [from |-> None, to |-> "active"])]
          /\ Answered(r, 201)
     ELSE Answered(r, 400) /\ UNCHANGED <<agent, trail>>
  /\ UNCHANGED <<input, policy, scope, given, overtaken>>

ReadAgent(r) ==
  /\ Read(r, "change")
  /\ IF agent[On(r)] = None THEN Answered(r, 404)
     ELSE Goes(r, "read", agent[On(r)])
  /\ UNCHANGED <<input, tableVars, given, overtaken>>

\* Mutant of Patched: reactivation forgets the time of suspension.
PatchedStill(row, b) ==
  [row EXCEPT !.status = IF b.status = None THEN @ ELSE b.status,
              !.name = IF b.name = None THEN @ ELSE b.name,
              !.suspendedAt = @ \/ b.status = "suspended",
              !.retiredAt = @ \/ b.status = "retired"]

\* Suspension sets suspended_at and activation clears it; retired_at is kept.
Patched(row, b) ==
  [row EXCEPT !.status = IF b.status = None THEN @ ELSE b.status,
              !.name = IF b.name = None THEN @ ELSE b.name,
              !.suspendedAt = (@ /\ b.status # "active") \/ b.status = "suspended",
              !.retiredAt = @ \/ b.status = "retired"]

\* One entry for a status that is given, one for a name that is another than
\* the one read.
Entries(r) ==
  (IF Body(r).status = None THEN << >>
   ELSE <<[from |-> kept[r].status, to |-> Body(r).status]>>)
  \o (IF Body(r).name \in {None, kept[r].name} THEN << >>
      ELSE <<[from |-> kept[r].name, to |-> Body(r).name]>>)

UpdateAgent(r) ==
  /\ stage[r] = "read" /\ Kind(r) = "change"
  /\ agent' = [agent EXCEPT ![On(r)] = Patched(@, Body(r))]
  /\ trail' = [trail EXCEPT ![On(r)] = @ \o Entries(r)]
  /\ Overtake(r, agent[On(r)], On(r))
  /\ Answered(r, 200)
  /\ UNCHANGED <<input, policy, scope, given>>

-------------------------------------------------------------------------------
(* Safety policies: PUT, and POST with an id of its own.                   *)

Of(app) == {p \in Policies : policy[p] # None /\ policy[p].app = app}

\* The body names the policy of the path.
MismatchedId(r) ==
  /\ Read(r, "put") /\ Body(r).id # On(r)
  /\ Answered(r, 400)
  /\ UNCHANGED <<input, tableVars, given, overtaken>>

\* Mutant of Frozen: the app of an existing policy is not compared.
NeverFrozen(row, b) == FALSE

Frozen(row, b) == row # None /\ row.app # b.app

ReadPolicy(r) ==
  LET row == policy[On(r)]
  IN /\ Read(r, "put") /\ Body(r).id = On(r)
     /\ IF Frozen(row, Body(r)) THEN Answered(r, 409)
        ELSE Goes(r, IF row = None THEN "unknown" ELSE "read", row)
     /\ UNCHANGED <<input, tableVars, given, overtaken>>

ReadPolicyOfApp(r) ==
  /\ stage[r] = "unknown"
  /\ IF Of(Body(r).app) # {} THEN Answered(r, 409) ELSE Goes(r, "free", None)
  /\ UNCHANGED <<input, tableVars, given, overtaken>>

Give(r) ==
  given' = [given EXCEPT ![On(r)] =
    [f \in Fields |-> IF Body(r).value[f] = None THEN @[f] ELSE Body(r).value[f]]]

\* Neither the primary key nor the unique index on app_id is taken.
Free(p, app) == policy[p] = None /\ Of(app) = {}

InsertPolicy(r) ==
  /\ stage[r] = "free"
  /\ IF Free(On(r), Body(r).app)
     THEN /\ policy' = [policy EXCEPT ![On(r)] =
               [app |-> Body(r).app,
                value |-> [f \in Fields |-> IF Body(r).value[f] = None THEN Default
                                            ELSE Body(r).value[f]]]]
          /\ Give(r) /\ Answered(r, 201)
     ELSE Answered(r, 500) /\ UNCHANGED <<policy, given>>
  /\ UNCHANGED <<input, agent, scope, trail, overtaken>>

Merged(row, b) ==
  [f \in Fields |-> IF b.value[f] = None THEN row.value[f] ELSE b.value[f]]

\* The fields that are left out are those read, not those in the row now.
ReplacePolicy(r) ==
  /\ stage[r] = "read" /\ Kind(r) = "put"
  /\ policy' = [policy EXCEPT ![On(r)].value = Merged(kept[r], Body(r))]
  /\ Give(r)
  /\ Overtake(r, policy[On(r)], On(r))
  /\ Answered(r, 200)
  /\ UNCHANGED <<input, agent, scope, trail>>

-------------------------------------------------------------------------------
(* Scopes: read outside the transaction that inserts.                      *)

ReadScope(r) ==
  /\ Read(r, "define")
  /\ IF scope[On(r)] # None THEN Answered(r, 409) ELSE Goes(r, "read", None)
  /\ UNCHANGED <<input, tableVars, given, overtaken>>

InsertScope(r) ==
  /\ stage[r] = "read" /\ Kind(r) = "define"
  /\ IF scope[On(r)] = None
     THEN scope' = [scope EXCEPT ![On(r)] = Body(r)] /\ Answered(r, 201)
     ELSE Answered(r, 500) /\ UNCHANGED scope
  /\ UNCHANGED <<input, agent, policy, trail, given, overtaken>>

Administer(r) ==
  \/ Refuse(r) \/ Fail(r)
  \/ RegisterAgent(r) \/ ReadAgent(r) \/ UpdateAgent(r)
  \/ MismatchedId(r) \/ ReadPolicy(r) \/ ReadPolicyOfApp(r) \/ InsertPolicy(r) \/ ReplacePolicy(r)
  \/ ReadScope(r) \/ InsertScope(r)

-------------------------------------------------------------------------------
(* Properties.                                                             *)

\* Entry n of a trail is the last that tells of one of T.
Latest(es, n, T) ==
  es[n].to \in T /\ \A m \in DOMAIN es : m > n => es[m].to \notin T

\* Entries m and n tell of one of T, and none between them does.
Adjacent(es, m, n, T) ==
  /\ m < n /\ es[m].to \in T /\ es[n].to \in T
  /\ \A k \in DOMAIN es : m < k /\ k < n => es[k].to \notin T

\* The audit trail of an agent leads to what the agent is: its last entry about
\* the status names its status, suspended_at is set exactly when the last of
\* suspension and activation was a suspension, and retired_at when it was ever
\* retired.  Each entry starts where the one before about the same ended, and
\* the last about the name names its name.  Only an agent that was changed
\* between the read and the write of another change may have an entry that
\* starts elsewhere, or a name that no entry tells of.
AgentsAreAudited ==
  \A a \in Agents : agent[a] # None =>
    LET es == trail[a]
    IN /\ \E n \in DOMAIN es : Latest(es, n, AgentStatuses) /\ es[n].to = agent[a].status
       /\ \E n \in DOMAIN es : /\ Latest(es, n, {"active", "suspended"})
                               /\ agent[a].suspendedAt <=> es[n].to = "suspended"
       /\ agent[a].retiredAt <=> \E n \in DOMAIN es : es[n].to = "retired"
       /\ a \notin overtaken =>
            /\ \A T \in {AgentStatuses, Names}, m, n \in DOMAIN es :
                 Adjacent(es, m, n, T) => es[n].from = es[m].to
            /\ \A n \in DOMAIN es : Latest(es, n, Names) => es[n].to = agent[a].name

\* An app has one policy whoever puts and posts at once; every PUT that was
\* answered with success named the app its policy is about; a successful POST
\* or PUT of a new id made the only policy of its app.  A field has what was
\* last put in it, unless a PUT that left it out was overtaken by one that
\* gave it and put back what it had read.
PoliciesAreWhatWasPut ==
  /\ \A app \in Apps : Cardinality(Of(app)) <= 1
  /\ \A r \in Requests : Kind(r) = "put" /\ answer[r] \in {200, 201} =>
       policy[On(r)].app = Body(r).app
  /\ \A r, q \in Requests :
       /\ r # q /\ Kind(r) = "put" /\ Kind(q) = "put"
       /\ answer[r] = 201 /\ answer[q] = 201
       => On(r) # On(q) /\ Body(r).app # Body(q).app
  /\ \A p \in Policies \ overtaken : policy[p] # None =>
       \A f \in Fields :
         policy[p].value[f] = IF given[p][f] = None THEN Default ELSE given[p][f]
===============================================================================
