------------------------------- MODULE Issuance -------------------------------
(***************************************************************************)
(* Issuing a delegated authority (POST /v1/authorities, issueAuthority of  *)
(* src/src/modules/authorities/service.ts) while operators change agents   *)
(* and scopes (module Administration), behind the hooks of module Access.  *)
(*                                                                         *)
(* The handler reads the agent, then the scopes, checks what is asked      *)
(* against them, verifies a step-up token where a scope is high-stakes,    *)
(* has Identiti sign the claims over HTTP, only then inserts the row with  *)
(* its audit entry, and answers when that has committed.  Nothing spans    *)
(* these steps: what was read may have changed, the answer of Identiti may *)
(* be lost after it signed, the insert may fail after that, and the        *)
(* caller's answer may be lost after the commit.                           *)
(*                                                                         *)
(* Identiti is external: it signs each step-up once and may refuse for     *)
(* reasons of its own.  Abstractions.  The jti of a request's claims is    *)
(* the request; a ULID is minted every time.  A step-up token is what      *)
(* jose's verification says of it.  The signer is configured.  A retry     *)
(* under the same key is module KeyedRequest's.                            *)
(* AuthorityLifecycle continues with the row.                              *)
(***************************************************************************)
EXTENDS Administration

CONSTANTS
  Issuances,  \* requests for an authority
  Accounts,   \* customers
  Grants,     \* what may be asked for
  Asked,      \* bound: [Issuances -> Grants] that are sent together
  RailsWithAudience, \* RAIL_AUDIENCE: rails whose API is an audience
  Helpan,     \* Helpan's own audience
  Credentials \* app_credentials

INSTANCE Access

\* What the schemas of POST /v1/authorities and of POST /v1/oauth/scopes and the
\* constraint on app_credentials.status let through.
ASSUME GrantAssumption ==
  /\ Asked \subseteq [Issuances -> Grants]
  /\ \A g \in Grants :
       /\ g.account \in Accounts /\ g.agent \in Agents /\ g.ttl \in Nat
       /\ g.asks # {}
       /\ \A s \in g.asks : s.id \in ScopeIds /\ {s.amount, s.period} \subseteq Nat \cup {None}

ASSUME ScopeAssumption ==
  \A row \in ScopeRows : row.ttl \in Nat /\ {row.amount, row.period} \subseteq Nat \cup {None}

ASSUME CredentialAssumption ==
  \A app \in DOMAIN Credentials : Credentials[app].status \in {"active", "suspended"}

\* What may be signed, and rows of delegated_authorities.
StepUps == {None} \cup {g.stepUp.jti : g \in {h \in Grants : h.stepUp # None}}
TokenClaims ==
  [sub : Accounts, agent : Agents, scopes : {g.asks : g \in Grants}, ttl : Nat,
   aud : SUBSET ({Helpan} \cup RailsWithAudience), stepUp : StepUps]
AuthorityRows ==
  [account : Accounts, agent : Agents, scopes : {g.asks : g \in Grants}, ttl : Nat,
   stepUp : StepUps, status : {"active"}]

ASSUME AuthorityAssumption == None \notin TokenClaims \cup AuthorityRows

VARIABLES
  grant,      \* what each request asks for
  at,         \* where it is
  reply,      \* what it was answered
  claims,     \* the claims it has built
  signed,     \* Identiti: the claims it has signed, by jti
  spent,      \* Identiti: the step-ups it has consumed
  authority,  \* delegated_authorities, by jti
  wasActive   \* history: whether the agent was active at some moment since

issueVars == <<grant, at, reply, claims, signed, spent, authority>>
vars == <<adminVars, issueVars, wasActive>>

Init ==
  /\ AdminInit
  /\ grant \in Asked
  /\ at = [i \in Issuances |-> "new"]
  /\ reply = [i \in Issuances |-> "none"]
  /\ claims = [i \in Issuances |-> None]
  /\ signed = [i \in Issuances |-> None]
  /\ spent = {}
  /\ authority = [i \in Issuances |-> None]
  /\ wasActive = [i \in Issuances |-> FALSE]

-------------------------------------------------------------------------------
(* The checks.                                                             *)

Who(g) ==
  Authenticated([path |-> "/authorities", header |-> g.header, appId |-> g.appId, key |-> g.key])

\* A customer issues for their own account, a service with the issue scope.
Authorised(g) ==
  IF Who(g).customer # None THEN Who(g).customer = g.account
  ELSE Holds(Who(g), "helpan:authorities:issue")

ActiveAgent(a) == agent[a] # None /\ agent[a].status = "active"

\* Mutant of Usable: a scope need not be active.
UsableKnown(id) == scope[id] # None

Usable(id) == scope[id] # None /\ scope[id].status = "active"

\* classifyScope.
HighStakes(row) ==
  \/ row.friction = "high"
  \/ row.category \in {"write_money", "write_identity", "read_behavioural"}

StepUpRequired(g) == \E s \in g.asks : HighStakes(scope[s.id])

tightestTtl(g) == CHOOSE t \in {scope[s.id].ttl : s \in g.asks} :
                    \A s \in g.asks : t <= scope[s.id].ttl

UnderCeiling(limit, ceiling) == limit = None \/ ceiling = None \/ limit <= ceiling

WithinCeilings(g) ==
  \A s \in g.asks : /\ UnderCeiling(s.amount, scope[s.id].amount)
                    /\ UnderCeiling(s.period, scope[s.id].period)

\* createStepUpVerifier: signature, issuer, audience and expiry hold, and the
\* token names an id and a subject.
Verified(t) == t.genuine /\ t.jti # None /\ t.sub # None

\* What the checks after the agent's come to, in their order.
Checked(g) ==
  IF \E s \in g.asks : ~Usable(s.id) THEN "SCOPE_INVALID"
  ELSE IF g.ttl > tightestTtl(g) THEN "TTL_EXCEEDS_MAX"
  ELSE IF ~WithinCeilings(g) THEN "AMOUNT_EXCEEDS_SCOPE_CEILING"
  ELSE IF ~StepUpRequired(g) THEN "ok"
  ELSE IF g.stepUp = None THEN "STEP_UP_REQUIRED"
  ELSE IF ~Verified(g.stepUp) \/ g.stepUp.sub # g.account THEN "STEP_UP_TOKEN_INVALID"
  ELSE "ok"

-------------------------------------------------------------------------------
(* The claims.                                                             *)

Audience(g) ==
  {Helpan} \cup ({scope[s.id].rail : s \in g.asks} \cap RailsWithAudience)

\* The step-up is named only where it was required.
Claims(g) ==
  [sub |-> g.account, agent |-> g.agent, scopes |-> g.asks, ttl |-> g.ttl,
   aud |-> Audience(g), stepUp |-> IF StepUpRequired(g) THEN g.stepUp.jti ELSE None]

\* Identiti's code for an answer that is not a token.
mapSignerErrorCode(code) ==
  CASE code = "step_up_token_already_used" -> "STEP_UP_TOKEN_ALREADY_USED"
    [] code \in {"step_up_token_unknown", "step_up_token_subject_mismatch"} ->
         "STEP_UP_TOKEN_INVALID"
    [] code = "expiry_out_of_bounds" -> "TTL_EXCEEDS_MAX"
    [] code = "customer_not_found" -> "ACCOUNT_NOT_FOUND"
    [] OTHER -> "ISSUANCE_SIGNING_FAILED"

\* Refusals for a state of Identiti the request cannot see, and the errors of
\* the HTTP client: unreachable, not JSON, an unexpected body.
OtherRefusals == {"step_up_token_unknown", "expiry_out_of_bounds", "customer_not_found",
                  "IDENTITI_SIGN_UNREACHABLE"}

-------------------------------------------------------------------------------
(* The handler.                                                            *)

Replied(i, code) ==
  /\ at' = [at EXCEPT ![i] = "done"]
  /\ reply' = [reply EXCEPT ![i] = code]

GoesOn(i, s) == at' = [at EXCEPT ![i] = s] /\ UNCHANGED reply

Authenticate(i) ==
  /\ at[i] = "new"
  /\ IF Who(grant[i]).code = "ok" THEN GoesOn(i, "known") ELSE Replied(i, Who(grant[i]).code)
  /\ UNCHANGED <<adminVars, grant, claims, signed, spent, authority, wasActive>>

CheckAgent(i) ==
  /\ at[i] = "known"
  /\ IF ~Authorised(grant[i]) THEN Replied(i, "FORBIDDEN")
     ELSE IF ~ActiveAgent(grant[i].agent) THEN Replied(i, "AGENT_INVALID")
     ELSE GoesOn(i, "agent")
  /\ wasActive' = [wasActive EXCEPT ![i] = ActiveAgent(grant[i].agent)]
  /\ UNCHANGED <<adminVars, grant, claims, signed, spent, authority>>

CheckScopes(i) ==
  LET verdict == Checked(grant[i])
  IN /\ at[i] = "agent"
     /\ IF verdict = "ok"
        THEN GoesOn(i, "claims") /\ claims' = [claims EXCEPT ![i] = Claims(grant[i])]
        ELSE Replied(i, verdict) /\ UNCHANGED claims
     /\ UNCHANGED <<adminVars, grant, signed, spent, authority, wasActive>>

Unspent(jti) == jti = None \/ jti \notin spent

\* Identiti receives the claims and signs; its answer arrives or is lost.
Sign(i) ==
  /\ at[i] = "claims" /\ Unspent(claims[i].stepUp)
  /\ signed' = [signed EXCEPT ![i] = claims[i]]
  /\ spent' = spent \cup ({claims[i].stepUp} \ {None})
  /\ GoesOn(i, "signed") \/ Replied(i, mapSignerErrorCode("IDENTITI_SIGN_UNREACHABLE"))
  /\ UNCHANGED <<adminVars, grant, claims, authority, wasActive>>

RefuseToSign(i) ==
  /\ at[i] = "claims"
  /\ \E code \in OtherRefusals \cup
                   (IF Unspent(claims[i].stepUp) THEN {} ELSE {"step_up_token_already_used"}) :
       Replied(i, mapSignerErrorCode(code))
  /\ UNCHANGED <<adminVars, grant, claims, signed, spent, authority, wasActive>>

\* The transaction that inserts the row, its audit entry and its event commits.
\* The row carries what was asked and the id of the claims.
StoreAuthority(i) ==
  /\ at[i] = "signed"
  /\ authority' = [authority EXCEPT ![i] =
       [account |-> grant[i].account, agent |-> grant[i].agent, scopes |-> grant[i].asks,
        ttl |-> grant[i].ttl, stepUp |-> claims[i].stepUp, status |-> "active"]]
  /\ GoesOn(i, "stored")
  /\ UNCHANGED <<adminVars, grant, claims, signed, spent, wasActive>>

\* The token, once the idempotency plugin has stored the answer.
AnswerCreated(i) ==
  /\ at[i] = "stored"
  /\ Replied(i, "created")
  /\ UNCHANGED <<adminVars, grant, claims, signed, spent, authority, wasActive>>

\* Told of an error that says nothing of the outcome, or not told: the process
\* died.
Unknowing == {"INTERNAL_ERROR", "unanswered"}

\* A read or the transaction fails, or the process dies before the commit: what
\* was signed stays signed.
LoseAuthority(i) ==
  /\ at[i] \in {"known", "agent", "claims", "signed"}
  /\ \E code \in Unknowing : Replied(i, code)
  /\ UNCHANGED <<adminVars, grant, claims, signed, spent, authority, wasActive>>

\* Mutant of LoseAnswer: what fails after the commit is caught with the errors
\* of the signature.
LoseAnswerAsRefusal(i) ==
  /\ at[i] = "stored"
  /\ Replied(i, mapSignerErrorCode("IDENTITI_SIGN_UNREACHABLE"))
  /\ UNCHANGED <<adminVars, grant, claims, signed, spent, authority, wasActive>>

\* The news of the commit or the store of the answer fails, or the process dies
\* after the commit: the row stays.
LoseAnswer(i) ==
  /\ at[i] = "stored"
  /\ \E code \in Unknowing : Replied(i, code)
  /\ UNCHANGED <<adminVars, grant, claims, signed, spent, authority, wasActive>>

Issue(i) ==
  \/ Authenticate(i) \/ CheckAgent(i) \/ CheckScopes(i) \/ Sign(i) \/ RefuseToSign(i)
  \/ StoreAuthority(i) \/ AnswerCreated(i) \/ LoseAuthority(i) \/ LoseAnswer(i)

\* An agent that becomes active is so for the requests under way.
NoteActive ==
  wasActive' = [i \in Issuances |->
    wasActive[i] \/ (at[i] \notin {"new", "known", "done"} /\
      agent'[grant[i].agent] # None /\ agent'[grant[i].agent].status = "active")]

Next ==
  \/ \E i \in Issuances : Issue(i)
  \/ (\E r \in Requests : Administer(r)) /\ UNCHANGED issueVars /\ NoteActive

Spec == Init /\ [][Next]_vars

-------------------------------------------------------------------------------
(* Properties.                                                             *)

\* What an authority lets an agent do stays within the catalogue whatever
\* operators did meanwhile: its agent was active at some moment since the
\* request's check, its scopes are in the catalogue and active, its life is
\* within each scope's, the limits it states are within the scopes' ceilings,
\* and if any scope is high-stakes a genuine step-up of the very account was
\* spent on it.  A limit that is left out is not bounded by a ceiling.  It was
\* asked for under an idempotency key by the account itself, with a live token
\* meant for Helpan, or by an active app that may issue.
IssuedUnderTheCatalogue ==
  \A i \in Issuances : authority[i] # None =>
    LET row == authority[i]
    IN /\ wasActive[i]
       /\ \A s \in row.scopes :
            /\ scope[s.id] # None /\ scope[s.id].status = "active"
            /\ row.ttl \in 0 .. scope[s.id].ttl
            /\ None \notin {s.amount, scope[s.id].amount} => s.amount \in 0 .. scope[s.id].amount
            /\ None \notin {s.period, scope[s.id].period} => s.period \in 0 .. scope[s.id].period
            /\ HighStakes(scope[s.id]) => row.stepUp \in spent
       /\ row.stepUp # None => grant[i].stepUp.genuine /\ grant[i].stepUp.sub = row.account
       /\ grant[i].key # None
       /\ LET h == grant[i].header
          IN \/ /\ h.scheme = "bearer" /\ h.token.genuine /\ h.token.forUs
                /\ ~h.token.expired /\ h.token.sub = row.account
             \/ /\ h.scheme = "hmac" /\ h.matches /\ h.fresh
                /\ Credentials[h.app].status = "active"
                /\ "helpan:authorities:issue" \in Credentials[h.app].scopes

\* What a caller may conclude.  Told of an authority, there is a row, and a token
\* signed for the same account, agent, scopes, life and step-up.  Refused with
\* any code but that of a signature nobody heard of, there is neither a row nor
\* a token, and no step-up went into one; and with that code there is no row.
\* Only an internal error or no answer leaves the caller in doubt: then a row
\* may be there with a token nobody was given, or a token with no row.
TokensAndRows ==
  \A i \in Issuances :
    /\ reply[i] = "created" => authority[i] # None
    /\ authority[i] # None =>
         /\ at[i] = "stored" \/ reply[i] \in {"created"} \cup Unknowing
         /\ signed[i] # None
         /\ <<signed[i].sub, signed[i].agent, signed[i].scopes, signed[i].ttl, signed[i].stepUp>>
              = <<authority[i].account, authority[i].agent, authority[i].scopes,
                  authority[i].ttl, authority[i].stepUp>>
    /\ signed[i] # None /\ at[i] = "done" /\ authority[i] = None =>
         reply[i] \in {"ISSUANCE_SIGNING_FAILED"} \cup Unknowing
===============================================================================
