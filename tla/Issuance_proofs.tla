---------------------------- MODULE Issuance_proofs ----------------------------
(***************************************************************************)
(* Proofs about Issuance and, with it, Administration.  Every handler acts *)
(* on what it has read in earlier statements; the invariants say what of   *)
(* that still holds when it writes.                                        *)
(***************************************************************************)
EXTENDS Issuance, SequenceTheorems, FiniteSetTheorems, WellFoundedInduction, TLAPS

\* A claim the handler has reached: before its insert, or by its row.
Reached(i, S) == at[i] \in S \/ authority[i] # None

\* What the checks of grant g found of the catalogue, and the claims c say.
\* Rows of the catalogue never change, so it is still true when c is signed.
Allowed(g, c) ==
  /\ c \in TokenClaims
  /\ c.sub = g.account /\ c.agent = g.agent /\ c.scopes = g.asks /\ c.ttl = g.ttl
  /\ \A s \in g.asks :
       /\ scope[s.id] \in ScopeRows /\ scope[s.id].status = "active"
       /\ g.ttl <= scope[s.id].ttl
       /\ UnderCeiling(s.amount, scope[s.id].amount)
       /\ UnderCeiling(s.period, scope[s.id].period)
       /\ HighStakes(scope[s.id]) => c.stepUp # None
  /\ c.stepUp # None => g.stepUp.genuine /\ g.stepUp.sub = g.account

RequestSound(i) ==
  /\ at[i] # "done" => reply[i] = "none"
  /\ reply[i] = "created" \/ at[i] = "stored" => authority[i] # None
  /\ authority[i] # None =>
       at[i] = "stored" \/ (at[i] = "done" /\ reply[i] \in {"created"} \cup Unknowing)
  /\ at[i] \in {"new", "known", "agent", "claims"} => signed[i] = None
  /\ at[i] = "signed" => signed[i] # None
  /\ signed[i] # None /\ at[i] = "done" /\ authority[i] = None =>
       reply[i] \in {"ISSUANCE_SIGNING_FAILED"} \cup Unknowing
  /\ signed[i] # None => /\ signed[i] = claims[i]
                         /\ claims[i].stepUp # None => claims[i].stepUp \in spent
  /\ Reached(i, {"known", "agent", "claims", "signed"}) => Who(grant[i]).code = "ok"
  /\ Reached(i, {"agent", "claims", "signed"}) => Authorised(grant[i]) /\ wasActive[i]
  /\ Reached(i, {"claims", "signed"}) => Allowed(grant[i], claims[i])
  /\ authority[i] # None =>
       /\ signed[i] # None
       /\ authority[i] = [account |-> grant[i].account, agent |-> grant[i].agent,
                          scopes |-> grant[i].asks, ttl |-> grant[i].ttl,
                          stepUp |-> claims[i].stepUp, status |-> "active"]

Places == {"new", "known", "agent", "claims", "signed", "stored", "done"}

IssueTyped ==
  /\ grant \in Asked
  /\ at \in [Issuances -> Places]
  /\ reply = [i \in Issuances |-> reply[i]]
  /\ claims \in [Issuances -> TokenClaims \cup {None}]
  /\ signed \in [Issuances -> TokenClaims \cup {None}]
  /\ authority \in [Issuances -> AuthorityRows \cup {None}]
  /\ wasActive \in [Issuances -> BOOLEAN]

CatalogueTyped == input \in Scenarios /\ scope \in [ScopeIds -> ScopeRows \cup {None}]

IssueInv ==
  CatalogueTyped /\ IssueTyped /\ \A i \in Issuances : RequestSound(i)

-------------------------------------------------------------------------------
(* Who asks.                                                               *)

LEMMA CustomerOfToken ==
  ASSUME NEW q, q.path = "/authorities"
  PROVE  LET who == CustomerJwt(q)
         IN  /\ who.code = "ok" /\ who.customer # None =>
                  /\ q.header # None /\ q.header.scheme = "bearer"
                  /\ TokenVerdict(q.header.token) = "ok"
                  /\ who.customer = q.header.token.sub
             /\ who.tenant = None
             /\ who.code # "created"
  <1>1. classifyPath(q.path) = "optional"
    BY DEF classifyPath
  <1>2. TokenVerdict(q.header.token) # "created"
    BY DEF TokenVerdict
  <1> QED
    BY <1>1, <1>2 DEF CustomerJwt, Anonymous, Stopped, IsBearer

LEMMA CallerIs ==
  ASSUME NEW q, q.path = "/authorities"
  PROVE  LET who == Authenticated(q)
         IN  /\ who.code = "ok" =>
                  /\ q.key # None
                  /\ who.customer # None =>
                       /\ q.header.scheme = "bearer"
                       /\ TokenVerdict(q.header.token) = "ok"
                       /\ who.customer = q.header.token.sub
                  /\ who.customer = None /\ who.tenant # None =>
                       /\ q.header.scheme = "hmac"
                       /\ SignatureVerdict(q.header) = "ok"
                       /\ who.tenant = q.header.app
             /\ who.code # "created"
  <1> DEFINE c == CustomerJwt(q)
             h == Hmac(q, c)
  <1>1. SignatureVerdict(q.header) # "created"
    BY DEF SignatureVerdict
  <1>2. /\ c.code = "ok" /\ c.customer # None =>
             /\ q.header.scheme = "bearer"
             /\ TokenVerdict(q.header.token) = "ok"
             /\ c.customer = q.header.token.sub
        /\ c.tenant = None /\ c.code # "created"
    BY CustomerOfToken
  <1> HIDE DEF c
  <1>3. /\ h.code = "ok" =>
             /\ h.customer # None =>
                  /\ q.header.scheme = "bearer"
                  /\ TokenVerdict(q.header.token) = "ok"
                  /\ h.customer = q.header.token.sub
             /\ h.customer = None /\ h.tenant # None =>
                  /\ q.header.scheme = "hmac"
                  /\ SignatureVerdict(q.header) = "ok"
                  /\ h.tenant = q.header.app
        /\ h.code # "created"
    BY <1>1, <1>2 DEF Hmac, Anonymous, Stopped, IsSigned
  <1> HIDE DEF h
  <1>4. Authenticated(q) = Keyed(q, h)
    BY DEF Authenticated, c, h
  <1> QED
    BY <1>3, <1>4 DEF Keyed, Anonymous, Stopped

\* Whom a request comes from that passes the hooks and the handler's own check.
LEMMA Identified ==
  ASSUME NEW g, Who(g).code = "ok", Authorised(g)
  PROVE  /\ g.key # None
         /\ LET h == g.header
            IN \/ /\ h.scheme = "bearer" /\ h.token.genuine /\ h.token.forUs
                  /\ ~h.token.expired /\ h.token.sub = g.account
               \/ /\ h.scheme = "hmac" /\ h.matches /\ h.fresh
                  /\ Credentials[h.app].status = "active"
                  /\ "helpan:authorities:issue" \in Credentials[h.app].scopes
  <1> DEFINE q == [path |-> "/authorities", header |-> g.header, appId |-> g.appId, key |-> g.key]
             who == Who(g)
  <1>1. /\ q.path = "/authorities" /\ q.key = g.key /\ q.header = g.header
        /\ who = Authenticated(q)
    BY DEF Who
  <1> HIDE DEF q, who
  <1>2. /\ g.key # None
        /\ who.customer # None =>
             /\ g.header.scheme = "bearer"
             /\ TokenVerdict(g.header.token) = "ok"
             /\ who.customer = g.header.token.sub
        /\ who.customer = None /\ who.tenant # None =>
             /\ g.header.scheme = "hmac"
             /\ SignatureVerdict(g.header) = "ok"
             /\ who.tenant = g.header.app
    BY <1>1, CallerIs DEF who
  <1>3. CASE who.customer # None
    <2>1. g.header.token.sub = g.account
      BY <1>2, <1>3 DEF Authorised, who
    <2> QED
      BY <1>2, <1>3, <2>1 DEF TokenVerdict
  <1>4. CASE who.customer = None
    <2>1. who.tenant # None /\ "helpan:authorities:issue" \in Lookup(who.tenant).scopes
      BY <1>4 DEF Authorised, Holds, who
    <2>2. /\ g.header.matches /\ g.header.fresh
          /\ Lookup(g.header.app) # None /\ Lookup(g.header.app).status # "suspended"
      BY <1>2, <1>4, <2>1 DEF SignatureVerdict
    <2>3. g.header.app \in DOMAIN Credentials /\ Lookup(g.header.app) = Credentials[g.header.app]
      BY <2>2 DEF Lookup
    <2> QED
      BY <1>2, <1>4, <2>1, <2>2, <2>3, CredentialAssumption
  <1> QED
    BY <1>3, <1>4

-------------------------------------------------------------------------------
(* What the checks found.                                                  *)

LEMMA LeastOf ==
  ASSUME NEW T, T \subseteq Nat, T # {}
  PROVE  \E x \in T : \A y \in T : x <= y
  <1>1. PICK x \in T : \A y \in T : ~ (<<y, x>> \in OpToRel(<, Nat))
    BY NatLessThanWellFounded, WFMin
  <1>2. \A y \in T : ~ (y < x)
    BY <1>1 DEF OpToRel
  <1> QED
    BY <1>2

LEMMA TightestTtl ==
  ASSUME NEW g \in Grants, \A s \in g.asks : scope[s.id] \in ScopeRows
  PROVE  /\ tightestTtl(g) \in Nat
         /\ \A s \in g.asks : tightestTtl(g) <= scope[s.id].ttl
  <1> DEFINE T == {scope[s.id].ttl : s \in g.asks}
  <1>1. T \subseteq Nat /\ T # {}
    BY ScopeAssumption, GrantAssumption
  <1>2. \E t \in T : \A u \in T : t <= u
    BY <1>1, LeastOf
  <1>3. \E t \in T : \A s \in g.asks : t <= scope[s.id].ttl
    BY <1>2
  <1> QED
    BY <1>1, <1>3 DEF tightestTtl

LEMMA ClaimsAllowed ==
  ASSUME CatalogueTyped, NEW g \in Grants, Checked(g) = "ok"
  PROVE  Allowed(g, Claims(g))
  <1> DEFINE c == Claims(g)
  <1>1. \A s \in g.asks : Usable(s.id)
    BY DEF Checked
  <1>2. \A s \in g.asks : scope[s.id] \in ScopeRows /\ scope[s.id].status = "active"
    BY <1>1, GrantAssumption DEF Usable, CatalogueTyped
  <1>3. ~ (g.ttl > tightestTtl(g)) /\ WithinCeilings(g)
    BY DEF Checked
  <1>4. \A s \in g.asks : g.ttl <= scope[s.id].ttl
    <2> SUFFICES ASSUME NEW s \in g.asks PROVE g.ttl <= scope[s.id].ttl
      OBVIOUS
    <2>1. /\ g.ttl \in Nat /\ tightestTtl(g) \in Nat /\ scope[s.id].ttl \in Nat
          /\ tightestTtl(g) <= scope[s.id].ttl
      BY <1>2, TightestTtl, ScopeAssumption, GrantAssumption
    <2> QED
      BY <1>3, <2>1
  <1>5. StepUpRequired(g) => /\ g.stepUp # None /\ g.stepUp.jti # None
                             /\ g.stepUp.genuine /\ g.stepUp.sub = g.account
    BY DEF Checked, Verified
  <1>6. c.stepUp = IF StepUpRequired(g) THEN g.stepUp.jti ELSE None
    BY DEF Claims
  <1>7. c \in TokenClaims
    <2>1. c.stepUp \in StepUps
      BY <1>5, <1>6 DEF StepUps
    <2>2. Audience(g) \in SUBSET ({Helpan} \cup RailsWithAudience)
      BY DEF Audience
    <2> QED
      BY <2>1, <2>2, GrantAssumption DEF Claims, TokenClaims
  <1>8. \A s \in g.asks : HighStakes(scope[s.id]) => c.stepUp # None
    BY <1>5, <1>6 DEF StepUpRequired
  <1>9. c.stepUp # None => g.stepUp.genuine /\ g.stepUp.sub = g.account
    BY <1>5, <1>6
  <1>10. c.sub = g.account /\ c.agent = g.agent /\ c.scopes = g.asks /\ c.ttl = g.ttl
    BY DEF Claims
  <1> QED
    BY <1>2, <1>3, <1>4, <1>7, <1>8, <1>9, <1>10 DEF Allowed, WithinCeilings

\* What is found once stays found: rows of the catalogue never change.
LEMMA StaysAllowed ==
  ASSUME NEW g \in Grants, NEW c, Allowed(g, c),
         \A id \in ScopeIds : scope[id] \in ScopeRows => scope'[id] = scope[id]
  PROVE  Allowed(g, c)'
  BY GrantAssumption DEF Allowed

LEMMA VerdictIsNoSuccess ==
  ASSUME NEW g
  PROVE  Checked(g) # "created"
  BY DEF Checked

LEMMA SignerErrors == \A code : mapSignerErrorCode(code) # "created"
  BY DEF mapSignerErrorCode

LEMMA CallerCode ==
  ASSUME NEW g
  PROVE  Who(g).code # "created"
  <1> DEFINE q == [path |-> "/authorities", header |-> g.header, appId |-> g.appId, key |-> g.key]
  <1>1. q.path = "/authorities" /\ Who(g) = Authenticated(q)
    BY DEF Who
  <1> HIDE DEF q
  <1> QED
    BY <1>1, CallerIs

-------------------------------------------------------------------------------
(* Steps.                                                                  *)

LEMMA InitIssueInv == Init => IssueInv
  <1> SUFFICES ASSUME Init PROVE IssueInv
    OBVIOUS
  <1>1. CatalogueTyped
    BY CatalogueAssumption DEF Init, AdminInit, CatalogueTyped
  <1>2. IssueTyped
    BY DEF Init, IssueTyped, Places
  <1>3. \A i \in Issuances : RequestSound(i)
    BY DEF Init, RequestSound, Reached
  <1> QED
    BY <1>1, <1>2, <1>3 DEF IssueInv

\* What keeps a request sound that does not move.
LEMMA SoundStays ==
  ASSUME NEW i \in Issuances, RequestSound(i), grant[i] \in Grants, UNCHANGED grant,
         at'[i] = at[i], reply'[i] = reply[i], claims'[i] = claims[i],
         signed'[i] = signed[i], authority'[i] = authority[i],
         wasActive[i] => wasActive'[i], spent \subseteq spent',
         \A id \in ScopeIds : scope[id] \in ScopeRows => scope'[id] = scope[id]
  PROVE  RequestSound(i)'
  <1>1. Allowed(grant[i], claims[i]) => Allowed(grant[i], claims[i])'
    BY StaysAllowed
  <1> QED
    BY <1>1 DEF RequestSound, Reached

LEMMA GrantOf ==
  ASSUME IssueTyped, NEW i \in Issuances
  PROVE  grant[i] \in Grants
  BY GrantAssumption DEF IssueTyped

\* A step of request i leaves the others, and the catalogue, alone.
LEMMA OneMoves ==
  ASSUME IssueInv, NEW i \in Issuances, IssueTyped', RequestSound(i)',
         UNCHANGED <<input, scope, grant>>, spent \subseteq spent',
         \A j \in Issuances : j # i =>
           /\ at'[j] = at[j] /\ reply'[j] = reply[j] /\ claims'[j] = claims[j]
           /\ signed'[j] = signed[j] /\ authority'[j] = authority[j]
           /\ wasActive'[j] = wasActive[j]
  PROVE  IssueInv'
  <1>1. ASSUME NEW j \in Issuances, j # i PROVE RequestSound(j)'
    BY <1>1, SoundStays, GrantOf DEF IssueInv
  <1> QED
    BY <1>1 DEF IssueInv, CatalogueTyped

\* A request that is answered with an error.
LEMMA Refused ==
  ASSUME IssueInv, NEW i \in Issuances, at[i] \notin {"stored", "done"},
         NEW code, Replied(i, code), code # "created",
         at[i] = "signed" => code \in Unknowing,
         UNCHANGED <<input, scope, grant, claims, signed, spent, authority>>,
         wasActive' \in [Issuances -> BOOLEAN],
         \A j \in Issuances : j # i => wasActive'[j] = wasActive[j]
  PROVE  IssueInv'
  <1>1. /\ at'[i] = "done" /\ reply'[i] = code /\ at' \in [Issuances -> Places]
        /\ reply' = [j \in Issuances |-> reply'[j]]
        /\ \A j \in Issuances : j # i => at'[j] = at[j] /\ reply'[j] = reply[j]
    BY DEF Replied, IssueInv, IssueTyped, Places
  <1>2. RequestSound(i) /\ authority[i] = None
    BY DEF IssueInv, RequestSound
  <1>3. signed[i] # None => at[i] = "signed"
    BY <1>2 DEF RequestSound, IssueInv, IssueTyped, Places
  <1>4. RequestSound(i)'
    BY <1>1, <1>2, <1>3 DEF RequestSound, Reached
  <1>5. IssueTyped'
    BY <1>1 DEF IssueInv, IssueTyped
  <1> QED
    BY <1>1, <1>4, <1>5, OneMoves

\* A request that goes on, with what the step has established.
LEMMA GoesOnSound ==
  ASSUME IssueInv, NEW i \in Issuances, NEW s \in {"known", "agent", "claims"},
         at[i] \in {"new", "known", "agent"}, GoesOn(i, s),
         UNCHANGED <<input, scope, grant, signed, spent, authority>>,
         claims' \in [Issuances -> TokenClaims \cup {None}],
         wasActive' \in [Issuances -> BOOLEAN],
         \A j \in Issuances : j # i => claims'[j] = claims[j] /\ wasActive'[j] = wasActive[j],
         Who(grant[i]).code = "ok",
         s \in {"agent", "claims"} => Authorised(grant[i]) /\ wasActive'[i],
         s = "claims" => Allowed(grant[i], claims[i])'
  PROVE  IssueInv'
  <1>1. /\ at'[i] = s /\ reply' = reply /\ at' \in [Issuances -> Places]
        /\ \A j \in Issuances : j # i => at'[j] = at[j]
    BY DEF GoesOn, IssueInv, IssueTyped, Places
  <1>2. RequestSound(i) /\ authority[i] = None /\ signed[i] = None /\ reply[i] = "none"
    BY DEF IssueInv, RequestSound
  <1>3. RequestSound(i)'
    BY <1>1, <1>2 DEF RequestSound, Reached
  <1>4. IssueTyped'
    BY <1>1 DEF IssueInv, IssueTyped
  <1> QED
    BY <1>1, <1>3, <1>4, OneMoves

LEMMA ChecksStep ==
  ASSUME IssueInv, NEW i \in Issuances,
         Authenticate(i) \/ CheckAgent(i) \/ CheckScopes(i) \/ RefuseToSign(i) \/ LoseAuthority(i)
  PROVE  IssueInv'
  <1>1. /\ RequestSound(i) /\ grant[i] \in Grants /\ CatalogueTyped
        /\ claims \in [Issuances -> TokenClaims \cup {None}]
        /\ wasActive \in [Issuances -> BOOLEAN]
    BY GrantOf DEF IssueInv, IssueTyped
  <1>2. UNCHANGED <<input, scope, grant, signed, spent, authority>>
    BY DEF Authenticate, CheckAgent, CheckScopes, RefuseToSign, LoseAuthority, adminVars, tableVars
  <1>3. CASE Authenticate(i)
    <2>1. at[i] = "new" /\ UNCHANGED <<claims, wasActive>>
      BY <1>3 DEF Authenticate
    <2>2. CASE Who(grant[i]).code = "ok" /\ GoesOn(i, "known")
      BY <1>1, <1>2, <2>1, <2>2, GoesOnSound
    <2>3. CASE Replied(i, Who(grant[i]).code)
      BY <1>2, <1>1, <2>1, <2>3, CallerCode, Refused
    <2> QED
      BY <1>3, <2>2, <2>3 DEF Authenticate
  <1>4. CASE CheckAgent(i)
    <2>1. /\ at[i] = "known" /\ UNCHANGED claims /\ Who(grant[i]).code = "ok"
          /\ wasActive' \in [Issuances -> BOOLEAN]
          /\ wasActive'[i] = ActiveAgent(grant[i].agent)
          /\ \A j \in Issuances : j # i => wasActive'[j] = wasActive[j]
      BY <1>1, <1>4 DEF CheckAgent, RequestSound, Reached, ActiveAgent
    <2>2. CASE Authorised(grant[i]) /\ ActiveAgent(grant[i].agent) /\ GoesOn(i, "agent")
      BY <1>1, <1>2, <2>1, <2>2, GoesOnSound
    <2>3. CASE Replied(i, "FORBIDDEN") \/ Replied(i, "AGENT_INVALID")
      BY <1>2, <2>1, <2>3, Refused
    <2> QED
      BY <1>4, <2>2, <2>3 DEF CheckAgent
  <1>5. CASE CheckScopes(i)
    <2>1. /\ at[i] = "agent" /\ UNCHANGED wasActive /\ Who(grant[i]).code = "ok"
          /\ Authorised(grant[i]) /\ wasActive[i]
      BY <1>1, <1>5 DEF CheckScopes, RequestSound, Reached
    <2>2. CASE /\ Checked(grant[i]) = "ok" /\ GoesOn(i, "claims")
               /\ claims' = [claims EXCEPT ![i] = Claims(grant[i])]
      <3>1. Allowed(grant[i], Claims(grant[i]))
        BY <1>1, <2>2, ClaimsAllowed
      <3>2. claims'[i] = Claims(grant[i]) /\ \A j \in Issuances : j # i => claims'[j] = claims[j]
        BY <1>1, <2>2
      <3>3. claims' \in [Issuances -> TokenClaims \cup {None}]
        BY <1>1, <2>2, <3>1 DEF Allowed
      <3>4. Allowed(grant[i], claims[i])'
        BY <1>2, <3>1, <3>2 DEF Allowed
      <3> QED
        BY <1>1, <1>2, <2>1, <2>2, <3>2, <3>3, <3>4, GoesOnSound
    <2>3. CASE Replied(i, Checked(grant[i])) /\ UNCHANGED claims
      BY <1>1, <1>2, <2>1, <2>3, VerdictIsNoSuccess, Refused
    <2> QED
      BY <1>5, <2>2, <2>3 DEF CheckScopes
  <1>6. CASE RefuseToSign(i)
    <2>1. PICK code : Replied(i, mapSignerErrorCode(code))
      BY <1>6 DEF RefuseToSign
    <2>2. at[i] = "claims" /\ UNCHANGED <<claims, wasActive>>
      BY <1>6 DEF RefuseToSign
    <2> QED
      BY <1>1, <1>2, <2>1, <2>2, SignerErrors, Refused
  <1>7. CASE LoseAuthority(i)
    <2>1. /\ at[i] \notin {"stored", "done"} /\ UNCHANGED <<claims, wasActive>>
          /\ \E code \in Unknowing : Replied(i, code)
      BY <1>7 DEF LoseAuthority
    <2>2. "created" \notin Unknowing
      BY DEF Unknowing
    <2> QED
      BY <1>1, <1>2, <2>1, <2>2, Refused
  <1> QED
    BY <1>3, <1>4, <1>5, <1>6, <1>7

\* The claims are signed, and the answer is heard or not.
LEMMA SignStep ==
  ASSUME IssueInv, NEW i \in Issuances, Sign(i)
  PROVE  IssueInv'
  <1> DEFINE c == claims[i]
  <1>1. /\ at[i] = "claims"
        /\ signed' = [signed EXCEPT ![i] = c]
        /\ spent' = spent \cup ({c.stepUp} \ {None})
        /\ UNCHANGED <<input, scope, grant, claims, authority, wasActive>>
    BY DEF Sign, adminVars, tableVars
  <1>2. RequestSound(i) /\ authority[i] = None /\ Allowed(grant[i], c) /\ c \in TokenClaims
    BY <1>1 DEF IssueInv, RequestSound, Reached, Allowed
  <1>3. c # None
    BY <1>2, AuthorityAssumption
  <1>4. /\ signed'[i] = c /\ signed' \in [Issuances -> TokenClaims \cup {None}]
        /\ \A j \in Issuances : j # i => signed'[j] = signed[j]
    BY <1>1, <1>2 DEF IssueInv, IssueTyped
  <1> HIDE DEF c
  <1>5. PICK code : /\ code = "ISSUANCE_SIGNING_FAILED"
                    /\ GoesOn(i, "signed") \/ Replied(i, code)
    BY DEF Sign, mapSignerErrorCode
  <1>6. /\ \/ at'[i] = "signed" /\ reply'[i] = reply[i]
           \/ at'[i] = "done" /\ reply'[i] = code
        /\ at' \in [Issuances -> Places] /\ reply' = [j \in Issuances |-> reply'[j]]
        /\ \A j \in Issuances : j # i => at'[j] = at[j] /\ reply'[j] = reply[j]
    BY <1>5 DEF GoesOn, Replied, IssueInv, IssueTyped, Places
  <1>7. Allowed(grant[i], claims[i])'
    BY <1>1, <1>2 DEF Allowed, c
  <1>8. RequestSound(i)'
    BY <1>1, <1>2, <1>3, <1>4, <1>5, <1>6, <1>7 DEF RequestSound, Reached, c
  <1>9. IssueTyped'
    BY <1>1, <1>4, <1>6 DEF IssueInv, IssueTyped
  <1> QED
    BY <1>1, <1>4, <1>6, <1>8, <1>9, OneMoves

LEMMA StoreStep ==
  ASSUME IssueInv, NEW i \in Issuances, StoreAuthority(i)
  PROVE  IssueInv'
  <1> DEFINE row == [account |-> grant[i].account, agent |-> grant[i].agent,
                     scopes |-> grant[i].asks, ttl |-> grant[i].ttl,
                     stepUp |-> claims[i].stepUp, status |-> "active"]
  <1>1. /\ at[i] = "signed" /\ GoesOn(i, "stored")
        /\ authority' = [authority EXCEPT ![i] = row]
        /\ UNCHANGED <<input, scope, grant, claims, signed, spent, wasActive>>
    BY DEF StoreAuthority, adminVars, tableVars
  <1>2. /\ RequestSound(i) /\ signed[i] # None /\ Allowed(grant[i], claims[i])
        /\ Who(grant[i]).code = "ok" /\ Authorised(grant[i]) /\ wasActive[i]
    BY <1>1 DEF IssueInv, RequestSound, Reached
  <1>3. row \in AuthorityRows /\ row # None
    <2>1. grant[i] \in Grants /\ claims[i].stepUp \in StepUps
      BY <1>2, GrantOf DEF Allowed, TokenClaims, IssueInv
    <2> QED
      BY <2>1, GrantAssumption, AuthorityAssumption DEF AuthorityRows
  <1>4. row = [account |-> grant[i].account, agent |-> grant[i].agent,
               scopes |-> grant[i].asks, ttl |-> grant[i].ttl,
               stepUp |-> claims[i].stepUp, status |-> "active"]
    OBVIOUS
  <1> HIDE DEF row
  <1>5. /\ authority'[i] = row /\ authority' \in [Issuances -> AuthorityRows \cup {None}]
        /\ \A j \in Issuances : j # i => authority'[j] = authority[j]
    BY <1>1, <1>3 DEF IssueInv, IssueTyped
  <1>6. /\ at'[i] = "stored" /\ reply' = reply /\ at' \in [Issuances -> Places]
        /\ \A j \in Issuances : j # i => at'[j] = at[j]
    BY <1>1 DEF GoesOn, IssueInv, IssueTyped, Places
  <1>7. Allowed(grant[i], claims[i])'
    BY <1>1, <1>2 DEF Allowed
  <1>8. RequestSound(i)'
    BY <1>1, <1>2, <1>3, <1>4, <1>5, <1>6, <1>7 DEF RequestSound, Reached
  <1>9. IssueTyped'
    BY <1>1, <1>5, <1>6 DEF IssueInv, IssueTyped
  <1> QED
    BY <1>1, <1>5, <1>6, <1>8, <1>9, OneMoves

\* After the commit the caller is told, or it is lost that there is anything to
\* tell.
LEMMA AnswerStep ==
  ASSUME IssueInv, NEW i \in Issuances, AnswerCreated(i) \/ LoseAnswer(i)
  PROVE  IssueInv'
  <1>1. /\ at[i] = "stored"
        /\ UNCHANGED <<input, scope, grant, claims, signed, spent, authority, wasActive>>
    BY DEF AnswerCreated, LoseAnswer, adminVars, tableVars
  <1>2. PICK code \in {"created"} \cup Unknowing : Replied(i, code)
    BY DEF AnswerCreated, LoseAnswer
  <1>3. /\ at'[i] = "done" /\ reply'[i] = code
        /\ at' \in [Issuances -> Places] /\ reply' = [j \in Issuances |-> reply'[j]]
        /\ \A j \in Issuances : j # i => at'[j] = at[j] /\ reply'[j] = reply[j]
    BY <1>2 DEF Replied, IssueInv, IssueTyped, Places
  <1>4. RequestSound(i) /\ authority[i] # None /\ Allowed(grant[i], claims[i])
    BY <1>1 DEF IssueInv, RequestSound, Reached
  <1>5. Allowed(grant[i], claims[i])'
    BY <1>1, <1>4 DEF Allowed
  <1>6. RequestSound(i)'
    BY <1>1, <1>2, <1>3, <1>4, <1>5 DEF RequestSound, Reached
  <1>7. IssueTyped'
    BY <1>1, <1>3 DEF IssueInv, IssueTyped
  <1> QED
    BY <1>1, <1>3, <1>6, <1>7, OneMoves

-------------------------------------------------------------------------------
(* Administration: what a request still knows of the row it has read.      *)

\* What an entry of a trail may be.
TrailEntries ==
  [from : AgentStatuses \cup Names \cup {None}, to : AgentStatuses \cup Names]

AdminTyped ==
  /\ CatalogueTyped
  /\ stage \in [Requests -> {"new", "read", "unknown", "free", "done"}]
  /\ answer \in [Requests -> Nat]
  /\ kept = [r \in Requests |-> kept[r]]
  /\ agent \in [Agents -> AgentRows \cup {None}]
  /\ policy \in [Policies -> PolicyRows \cup {None}]
  /\ trail \in [Agents -> Seq(TrailEntries)]
  /\ given \in [Policies -> [Fields -> Values \cup {None}]]

\* Rows of agents and policies are never removed and the app of a policy never
\* changes: what was there when it was read is there to be written.
RequestHeld(r) ==
  /\ stage[r] # "done" => answer[r] = 0
  /\ stage[r] \in {"read", "unknown", "free"} => input[r].admin
  /\ stage[r] \in {"unknown", "free"} => Kind(r) = "put"
  /\ stage[r] = "read" /\ Kind(r) = "change" => kept[r] \in AgentRows /\ agent[On(r)] # None
  /\ stage[r] = "read" /\ Kind(r) = "put" =>
       /\ kept[r] \in PolicyRows
       /\ policy[On(r)] # None /\ policy[On(r)].app = Body(r).app
  /\ Kind(r) = "put" /\ answer[r] \in {200, 201} =>
       /\ input[r].admin
       /\ policy[On(r)] # None /\ policy[On(r)].app = Body(r).app
  /\ stage[r] = "new" /\ input[r].admin /\ Kind(r) = "register" /\ Complete(Body(r)) =>
       agent[On(r)] = None

\* The two parts of AgentsAreAudited, of a row and its trail.
Audited(row, es) ==
  /\ \E n \in DOMAIN es : Latest(es, n, AgentStatuses) /\ es[n].to = row.status
  /\ \E n \in DOMAIN es : /\ Latest(es, n, {"active", "suspended"})
                          /\ row.suspendedAt <=> es[n].to = "suspended"
  /\ row.retiredAt <=> \E n \in DOMAIN es : es[n].to = "retired"

Chained(row, es) ==
  /\ \A T \in {AgentStatuses, Names}, m, n \in DOMAIN es :
       Adjacent(es, m, n, T) => es[n].from = es[m].to
  /\ \A n \in DOMAIN es : Latest(es, n, Names) => es[n].to = row.name

AgentSound(a) ==
  /\ agent[a] = None => trail[a] = << >>
  /\ agent[a] # None =>
       /\ Audited(agent[a], trail[a])
       /\ a \notin overtaken => Chained(agent[a], trail[a])

OnePerApp ==
  \A p, q \in Policies :
    None \notin {policy[p], policy[q]} /\ policy[p].app = policy[q].app => p = q

\* Each successful POST or PUT of a new id made a policy of its own.
CreatedApart ==
  \A r, q \in Requests :
    /\ r # q /\ Kind(r) = "put" /\ Kind(q) = "put"
    /\ answer[r] = 201 /\ answer[q] = 201
    => On(r) # On(q) /\ Body(r).app # Body(q).app

FieldsAsGiven(p) ==
  /\ policy[p] = None => \A f \in Fields : given[p][f] = None
  /\ policy[p] # None /\ p \notin overtaken =>
       \A f \in Fields :
         policy[p].value[f] = IF given[p][f] = None THEN Default ELSE given[p][f]

AdminInv ==
  /\ AdminTyped
  /\ \A r \in Requests : RequestHeld(r)
  /\ \A a \in Agents : AgentSound(a)
  /\ OnePerApp /\ CreatedApart
  /\ \A p \in Policies : FieldsAsGiven(p)

-------------------------------------------------------------------------------
(* Trails.                                                                 *)

LEMMA AppendedTrail ==
  ASSUME NEW es \in Seq(TrailEntries), NEW e \in TrailEntries
  PROVE  LET fs == Append(es, e)
             l == Len(es) + 1
         IN  /\ fs \in Seq(TrailEntries)
             /\ DOMAIN es \subseteq 1 .. Len(es) /\ Len(es) \in Nat
             /\ DOMAIN fs = DOMAIN es \cup {l}
             /\ fs[l] = e /\ \A n \in DOMAIN es : fs[n] = es[n] /\ n < l /\ n \in Nat
  <1>1. /\ Append(es, e) \in Seq(TrailEntries) /\ Len(Append(es, e)) = Len(es) + 1
        /\ \A i \in 1 .. Len(es) : Append(es, e)[i] = es[i]
        /\ Append(es, e)[Len(es) + 1] = e
    BY AppendProperties
  <1>2. /\ Len(es) \in Nat /\ DOMAIN es = 1 .. Len(es)
        /\ DOMAIN Append(es, e) = 1 .. Len(es) + 1
    BY <1>1, LenProperties
  <1> QED
    BY <1>1, <1>2

LEMMA LatestAfterAppend ==
  ASSUME NEW es \in Seq(TrailEntries), NEW e \in TrailEntries, NEW T
  PROVE  LET fs == Append(es, e)
             l == Len(es) + 1
         IN  /\ e.to \in T => Latest(fs, l, T) /\ \A n \in DOMAIN es : ~Latest(fs, n, T)
             /\ e.to \notin T => ~Latest(fs, l, T)
                                 /\ \A n \in DOMAIN es : Latest(fs, n, T) <=> Latest(es, n, T)
  <1> DEFINE fs == Append(es, e)
             l == Len(es) + 1
  <1>1. /\ DOMAIN fs = DOMAIN es \cup {l} /\ l \in Nat
        /\ fs[l] = e /\ \A n \in DOMAIN es : fs[n] = es[n] /\ n < l /\ n \in Nat
    BY AppendedTrail
  <1> HIDE DEF fs, l
  <1>2. \A n \in DOMAIN es : ~ (n > l)
    BY <1>1
  <1>3. ~ (l > l)
    BY <1>1
  <1>4. e.to \in T => Latest(fs, l, T) /\ \A n \in DOMAIN es : ~Latest(fs, n, T)
    BY <1>1, <1>2, <1>3 DEF Latest
  <1>5. e.to \notin T => ~Latest(fs, l, T)
                         /\ \A n \in DOMAIN es : Latest(fs, n, T) <=> Latest(es, n, T)
    BY <1>1, <1>2, <1>3 DEF Latest
  <1> QED
    BY <1>4, <1>5 DEF fs, l

LEMMA AdjacentAfterAppend ==
  ASSUME NEW es \in Seq(TrailEntries), NEW e \in TrailEntries, NEW T,
         NEW m \in DOMAIN Append(es, e), NEW n \in DOMAIN Append(es, e),
         Adjacent(Append(es, e), m, n, T)
  PROVE  /\ m \in DOMAIN es
         /\ \/ n \in DOMAIN es /\ Adjacent(es, m, n, T)
            \/ n = Len(es) + 1 /\ e.to \in T /\ Latest(es, m, T)
  <1> DEFINE fs == Append(es, e)
             l == Len(es) + 1
  <1>1. /\ DOMAIN fs = DOMAIN es \cup {l} /\ l \in Nat
        /\ fs[l] = e /\ \A k \in DOMAIN es : fs[k] = es[k] /\ k < l /\ k \in Nat
    BY AppendedTrail
  <1>2. m \in DOMAIN fs /\ n \in DOMAIN fs /\ Adjacent(fs, m, n, T)
    OBVIOUS
  <1> HIDE DEF fs, l
  <1>3. m \in Nat /\ n \in Nat /\ m < n
    BY <1>1, <1>2 DEF Adjacent
  <1>4. m # l
    <2>1. ASSUME m = l PROVE FALSE
      <3>1. n < l \/ n = l
        BY <1>1, <1>2
      <3> QED
        BY <1>1, <1>3, <2>1, <3>1
    <2> QED
      BY <2>1
  <1>5. m \in DOMAIN es
    BY <1>1, <1>2, <1>4
  <1>6. CASE n \in DOMAIN es
    BY <1>1, <1>2, <1>5, <1>6 DEF Adjacent
  <1>7. CASE n = l
    <2>1. e.to \in T /\ es[m].to \in T
      BY <1>1, <1>2, <1>5, <1>7 DEF Adjacent
    <2>2. \A k \in DOMAIN es : k > m => es[k].to \notin T
      BY <1>1, <1>2, <1>3, <1>5, <1>7 DEF Adjacent
    <2> QED
      BY <1>5, <1>7, <2>1, <2>2 DEF Latest, l
  <1> QED
    BY <1>1, <1>2, <1>5, <1>6, <1>7

LEMMA OneLatest ==
  ASSUME NEW es \in Seq(TrailEntries), NEW T,
         NEW m \in DOMAIN es, NEW n \in DOMAIN es, Latest(es, m, T), Latest(es, n, T)
  PROVE  m = n
  <1>1. m \in Nat /\ n \in Nat
    BY LenProperties
  <1>2. ~ (n > m) /\ ~ (m > n)
    BY DEF Latest
  <1> QED
    BY <1>1, <1>2

\* An entry about the status.
LEMMA StatusEntry ==
  ASSUME NEW es \in Seq(TrailEntries), NEW e \in TrailEntries, e.to \in AgentStatuses,
         NEW row, NEW new, new.status = e.to,
         new.suspendedAt <=> (row.suspendedAt /\ e.to # "active") \/ e.to = "suspended",
         new.retiredAt <=> row.retiredAt \/ e.to = "retired",
         Audited(row, es)
  PROVE  /\ Audited(new, Append(es, e))
         /\ Chained(row, es) /\ new.name = row.name /\ e.from = row.status
              => Chained(new, Append(es, e))
  <1> DEFINE fs == Append(es, e)
             l == Len(es) + 1
             Turns == {"active", "suspended"}
  <1>1. /\ DOMAIN fs = DOMAIN es \cup {l}
        /\ fs[l] = e /\ \A n \in DOMAIN es : fs[n] = es[n]
    BY AppendedTrail
  <1>2. /\ Latest(fs, l, AgentStatuses)
        /\ e.to \in Turns => Latest(fs, l, Turns)
        /\ e.to \notin Turns => \A n \in DOMAIN es : Latest(fs, n, Turns) <=> Latest(es, n, Turns)
    BY LatestAfterAppend
  <1>3. e.to \notin Names /\ AgentStatuses = {"active", "suspended", "retired"}
    BY CatalogueAssumption DEF AgentStatuses
  <1>4. /\ ~Latest(fs, l, Names)
        /\ \A n \in DOMAIN es : Latest(fs, n, Names) <=> Latest(es, n, Names)
    BY <1>3, LatestAfterAppend
  <1>5. \A T, m, n : m \in DOMAIN fs /\ n \in DOMAIN fs /\ Adjacent(fs, m, n, T) =>
          /\ m \in DOMAIN es
          /\ \/ n \in DOMAIN es /\ Adjacent(es, m, n, T)
             \/ n = l /\ e.to \in T /\ Latest(es, m, T)
    BY AdjacentAfterAppend
  <1> HIDE DEF fs, l, Turns
  <1>6. \E n \in DOMAIN fs : Latest(fs, n, AgentStatuses) /\ fs[n].to = new.status
    BY <1>1, <1>2
  <1>7. \E n \in DOMAIN fs : Latest(fs, n, Turns) /\ (new.suspendedAt <=> fs[n].to = "suspended")
    <2>1. CASE e.to \in Turns
      BY <1>1, <1>2, <2>1 DEF Turns
    <2>2. CASE e.to \notin Turns
      <3>1. PICK n \in DOMAIN es : Latest(es, n, Turns) /\ (row.suspendedAt <=> es[n].to = "suspended")
        BY DEF Audited, Turns
      <3>2. new.suspendedAt <=> row.suspendedAt
        BY <2>2 DEF Turns
      <3> QED
        BY <1>1, <1>2, <2>2, <3>1, <3>2
    <2> QED
      BY <2>1, <2>2
  <1>8. new.retiredAt <=> \E n \in DOMAIN fs : fs[n].to = "retired"
    BY <1>1 DEF Audited
  <1>9. Audited(new, fs)
    BY <1>6, <1>7, <1>8 DEF Audited, Turns
  <1>10. ASSUME Chained(row, es), new.name = row.name, e.from = row.status
         PROVE  Chained(new, fs)
    <2>1. \A n \in DOMAIN fs : Latest(fs, n, Names) => fs[n].to = new.name
      BY <1>1, <1>4, <1>10 DEF Chained
    <2>2. ASSUME NEW T \in {AgentStatuses, Names}, NEW m \in DOMAIN fs, NEW n \in DOMAIN fs,
                 Adjacent(fs, m, n, T)
          PROVE  fs[n].from = fs[m].to
      <3>1. CASE n \in DOMAIN es /\ m \in DOMAIN es /\ Adjacent(es, m, n, T)
        BY <1>1, <1>10, <3>1 DEF Chained
      <3>2. CASE n = l /\ m \in DOMAIN es /\ e.to \in T /\ Latest(es, m, T)
        <4>1. T = AgentStatuses
          BY <1>3, <3>2
        <4>2. PICK k \in DOMAIN es : Latest(es, k, AgentStatuses) /\ es[k].to = row.status
          BY DEF Audited
        <4>3. k = m
          BY <3>2, <4>1, <4>2, OneLatest
        <4> QED
          BY <1>1, <1>10, <3>2, <4>2, <4>3
      <3> QED
        BY <1>5, <2>2, <3>1, <3>2
    <2> QED
      BY <2>1, <2>2 DEF Chained
  <1> QED
    BY <1>9, <1>10 DEF fs

\* An entry about the name.
LEMMA NameEntry ==
  ASSUME NEW es \in Seq(TrailEntries), NEW e \in TrailEntries, e.to \in Names,
         NEW row, NEW new, new.status = row.status,
         new.suspendedAt <=> row.suspendedAt, new.retiredAt <=> row.retiredAt,
         Audited(row, es)
  PROVE  /\ Audited(new, Append(es, e))
         /\ Chained(row, es) /\ new.name = e.to /\ e.from = row.name
              => Chained(new, Append(es, e))
  <1> DEFINE fs == Append(es, e)
             l == Len(es) + 1
             Turns == {"active", "suspended"}
  <1>1. /\ DOMAIN fs = DOMAIN es \cup {l}
        /\ fs[l] = e /\ \A n \in DOMAIN es : fs[n] = es[n]
    BY AppendedTrail
  <1>2. e.to \notin AgentStatuses /\ e.to \notin Turns /\ e.to # "retired"
    BY CatalogueAssumption DEF AgentStatuses
  <1>3. \A n \in DOMAIN es : /\ Latest(fs, n, AgentStatuses) <=> Latest(es, n, AgentStatuses)
                             /\ Latest(fs, n, Turns) <=> Latest(es, n, Turns)
    BY <1>2, LatestAfterAppend
  <1>4. Latest(fs, l, Names) /\ \A n \in DOMAIN es : ~Latest(fs, n, Names)
    BY LatestAfterAppend
  <1>5. \A T, m, n : m \in DOMAIN fs /\ n \in DOMAIN fs /\ Adjacent(fs, m, n, T) =>
          /\ m \in DOMAIN es
          /\ \/ n \in DOMAIN es /\ Adjacent(es, m, n, T)
             \/ n = l /\ e.to \in T /\ Latest(es, m, T)
    BY AdjacentAfterAppend
  <1> HIDE DEF fs, l
  <1>6. Audited(new, fs)
    BY <1>1, <1>2, <1>3 DEF Audited
  <1>7. ASSUME Chained(row, es), new.name = e.to, e.from = row.name
        PROVE  Chained(new, fs)
    <2>1. \A n \in DOMAIN fs : Latest(fs, n, Names) => fs[n].to = new.name
      BY <1>1, <1>4, <1>7
    <2>2. ASSUME NEW T \in {AgentStatuses, Names}, NEW m \in DOMAIN fs, NEW n \in DOMAIN fs,
                 Adjacent(fs, m, n, T)
          PROVE  fs[n].from = fs[m].to
      <3>1. CASE n \in DOMAIN es /\ m \in DOMAIN es /\ Adjacent(es, m, n, T)
        BY <1>1, <1>7, <3>1 DEF Chained
      <3>2. CASE n = l /\ m \in DOMAIN es /\ e.to \in T /\ Latest(es, m, T)
        <4>1. T = Names
          BY <1>2, <3>2
        <4> QED
          BY <1>1, <1>7, <3>2, <4>1 DEF Chained
      <3> QED
        BY <1>5, <2>2, <3>1, <3>2
    <2> QED
      BY <2>1, <2>2 DEF Chained
  <1> QED
    BY <1>6, <1>7 DEF fs

-------------------------------------------------------------------------------
(* Administration: initial states and steps.                               *)

\* The trail of a new agent.
LEMMA NewTrail ==
  ASSUME NEW name \in Names
  PROVE  LET es == << [from |-> None, to |-> "active"] >>
         IN  /\ es \in Seq(TrailEntries) /\ NewAgent(name) \in AgentRows
             /\ Audited(NewAgent(name), es) /\ Chained(NewAgent(name), es)
  <1> DEFINE e == [from |-> None, to |-> "active"]
             es == << e >>
  <1>1. e \in TrailEntries /\ e.to = "active" /\ e.to \in AgentStatuses
    BY DEF TrailEntries, AgentStatuses
  <1>2. es \in Seq(TrailEntries) /\ DOMAIN es = {1} /\ es[1] = e
    <2> HIDE DEF e
    <2> QED
      BY <1>1
  <1> HIDE DEF es
  <1>3. NewAgent(name) \in AgentRows
    BY DEF NewAgent, AgentRows, AgentStatuses
  <1>4. \A T : e.to \in T => Latest(es, 1, T)
    BY <1>2 DEF Latest
  <1>5. Audited(NewAgent(name), es)
    <2>1. Latest(es, 1, AgentStatuses) /\ Latest(es, 1, {"active", "suspended"})
      BY <1>1, <1>4
    <2>2. /\ NewAgent(name).status = "active" /\ ~NewAgent(name).suspendedAt
          /\ ~NewAgent(name).retiredAt
      BY DEF NewAgent
    <2> QED
      BY <1>1, <1>2, <2>1, <2>2 DEF Audited
  <1>6. Chained(NewAgent(name), es)
    <2>1. es[1].to \notin Names
      BY <1>1, <1>2, CatalogueAssumption
    <2> QED
      BY <1>2, <2>1 DEF Chained, Latest, Adjacent
  <1> QED
    BY <1>2, <1>3, <1>5, <1>6 DEF es

LEMMA InitAdminInv == Init => AdminInv
  <1> SUFFICES ASSUME Init PROVE AdminInv
    OBVIOUS
  <1> USE DEF Init, AdminInit
  <1>1. PICK S \in SUBSET Agents, n \in Names :
          /\ \A r \in Requests : input[r].kind = "register" => input[r].on \notin S
          /\ agent = [a \in Agents |-> IF a \in S THEN NewAgent(n) ELSE None]
    OBVIOUS
  <1>2. /\ NewAgent(n) \in AgentRows /\ NewAgent(n) # None
        /\ << [from |-> None, to |-> "active"] >> \in Seq(TrailEntries)
        /\ << >> \in Seq(TrailEntries)
        /\ Audited(NewAgent(n), << [from |-> None, to |-> "active"] >>)
        /\ Chained(NewAgent(n), << [from |-> None, to |-> "active"] >>)
    BY NewTrail, EmptySeq, RowAssumption
  <1>3. AdminTyped
    <2>1. CatalogueTyped
      BY CatalogueAssumption DEF CatalogueTyped
    <2>2. agent \in [Agents -> AgentRows \cup {None}]
      BY <1>1, <1>2
    <2>3. trail \in [Agents -> Seq(TrailEntries)]
      BY <1>2
    <2>4. /\ stage \in [Requests -> {"new", "read", "unknown", "free", "done"}]
          /\ answer \in [Requests -> Nat]
          /\ kept = [r \in Requests |-> kept[r]]
          /\ policy \in [Policies -> PolicyRows \cup {None}]
          /\ given \in [Policies -> [Fields -> Values \cup {None}]]
      OBVIOUS
    <2> QED
      BY <2>1, <2>2, <2>3, <2>4 DEF AdminTyped
  <1>4. \A r \in Requests : RequestHeld(r)
    <2> SUFFICES ASSUME NEW r \in Requests PROVE RequestHeld(r)
      OBVIOUS
    <2>1. /\ stage[r] = "new" /\ answer[r] = 0
          /\ input[r] \in Inputs
      BY CatalogueAssumption
    <2>2. input[r].admin /\ Kind(r) = "register" => agent[On(r)] = None
      BY <1>1, <2>1, InputAssumption DEF Kind, On
    <2> QED
      BY <2>1, <2>2 DEF RequestHeld
  <1>5. \A a \in Agents : AgentSound(a)
    BY <1>1, <1>2 DEF AgentSound
  <1>6. OnePerApp /\ CreatedApart /\ \A p \in Policies : FieldsAsGiven(p)
    BY DEF OnePerApp, CreatedApart, FieldsAsGiven
  <1> QED
    BY <1>3, <1>4, <1>5, <1>6 DEF AdminInv

\* The request whose statement runs is an operator's that the schemas passed.
LEMMA InputOf ==
  ASSUME AdminTyped, NEW r \in Requests, input[r].admin
  PROVE  /\ Kind(r) \in {"register", "change"} => On(r) \in Agents
         /\ Kind(r) = "register" => Body(r).name \in Names
         /\ Kind(r) = "change" => /\ Body(r).status \in AgentStatuses \cup {None}
                                  /\ Body(r).name \in Names \cup {None}
         /\ Kind(r) = "put" => /\ On(r) \in Policies /\ Body(r).app \in Apps
                               /\ Body(r).value \in [Fields -> Values \cup {None}]
         /\ Kind(r) = "define" => On(r) \in ScopeIds /\ Body(r) \in ScopeRows
  <1>1. input[r] \in Inputs
    BY CatalogueAssumption DEF AdminTyped, CatalogueTyped
  <1> QED
    BY <1>1, InputAssumption DEF Kind, On, Body

\* What a step of request r leaves of the requests.
OthersWait(r) ==
  /\ UNCHANGED input
  /\ stage' \in [Requests -> {"new", "read", "unknown", "free", "done"}]
  /\ answer' \in [Requests -> Nat]
  /\ kept' = [q \in Requests |-> kept'[q]]
  /\ \A q \in Requests : q # r =>
       stage'[q] = stage[q] /\ answer'[q] = answer[q] /\ kept'[q] = kept[q]

LEMMA AnsweredMoves ==
  ASSUME AdminTyped, NEW r \in Requests, UNCHANGED input,
         \/ \E code \in Nat : Answered(r, code)
         \/ \E s \in {"read", "unknown", "free"} : \E row : Goes(r, s, row)
  PROVE  OthersWait(r)
  BY DEF AdminTyped, Answered, Goes, OthersWait

\* A step that keeps every row and every app of a policy leaves the requests
\* that wait what they rely on; the id of a new agent is nobody else's.
LEMMA OthersHeld ==
  ASSUME AdminInv, NEW r \in Requests, OthersWait(r),
         \A a \in Agents : agent[a] # None => agent'[a] # None,
         \A p \in Policies : policy[p] # None =>
           policy'[p] # None /\ policy'[p].app = policy[p].app,
         \A a \in Agents : agent'[a] # None /\ agent[a] = None =>
           /\ On(r) = a /\ Kind(r) = "register" /\ Complete(Body(r))
  PROVE  \A q \in Requests : q # r => RequestHeld(q)'
  <1> SUFFICES ASSUME NEW q \in Requests, q # r PROVE RequestHeld(q)'
    OBVIOUS
  <1>1. /\ RequestHeld(q) /\ AdminTyped
        /\ stage'[q] = stage[q] /\ answer'[q] = answer[q] /\ kept'[q] = kept[q]
        /\ input' = input
    BY DEF AdminInv, OthersWait
  <1>2. /\ Kind(q)' = Kind(q) /\ On(q)' = On(q) /\ Body(q)' = Body(q)
    BY <1>1 DEF Kind, On, Body
  <1>3. CASE ~input[q].admin
    BY <1>1, <1>2, <1>3 DEF RequestHeld
  <1>4. CASE input[q].admin
    <2>1. /\ Kind(q) \in {"register", "change"} => On(q) \in Agents
          /\ Kind(q) = "put" => On(q) \in Policies
      BY <1>1, <1>4, InputOf
    <2>2. Kind(q) = "register" /\ Complete(Body(q)) /\ agent[On(q)] = None => agent'[On(q)] = None
      <3> SUFFICES ASSUME Kind(q) = "register", Complete(Body(q)),
                          agent[On(q)] = None, agent'[On(q)] # None
                   PROVE  FALSE
        OBVIOUS
      <3>1. On(r) = On(q) /\ Kind(r) = "register" /\ Complete(Body(r))
        BY <2>1
      <3>2. input \in Scenarios
        BY <1>1 DEF AdminTyped, CatalogueTyped
      <3>3. /\ input[r].kind = "register" /\ Complete(input[r].body) /\ input[r].on = input[q].on
            /\ input[q].kind = "register" /\ Complete(input[q].body)
        BY <3>1 DEF Kind, On, Body
      <3> QED
        BY <3>2, <3>3, MintedAssumption, Zenon
    <2> QED
      BY <1>1, <1>2, <2>1, <2>2 DEF RequestHeld
  <1> QED
    BY <1>3, <1>4

\* A statement that only reads, an error, a refusal.
LEMMA NothingWritten ==
  ASSUME AdminInv, NEW r \in Requests, OthersWait(r), RequestHeld(r)',
         UNCHANGED <<agent, policy, scope, trail, given, overtaken>>,
         Kind(r) = "put" => answer'[r] # 201
  PROVE  AdminInv'
  <1>1. \A q \in Requests : RequestHeld(q)'
    BY OthersHeld
  <1>2. AdminTyped'
    BY DEF AdminInv, AdminTyped, CatalogueTyped, OthersWait
  <1>3. \A a \in Agents : AgentSound(a)'
    BY DEF AdminInv, AgentSound
  <1>4. OnePerApp' /\ \A p \in Policies : FieldsAsGiven(p)'
    BY DEF AdminInv, OnePerApp, FieldsAsGiven
  <1>5. CreatedApart'
    BY DEF AdminInv, CreatedApart, OthersWait, Kind, On, Body
  <1> QED
    BY <1>1, <1>2, <1>3, <1>4, <1>5 DEF AdminInv

LEMMA ReadStep ==
  ASSUME AdminInv, NEW r \in Requests,
         \/ Refuse(r) \/ Fail(r) \/ ReadAgent(r) \/ MismatchedId(r)
         \/ ReadPolicy(r) \/ ReadPolicyOfApp(r) \/ ReadScope(r)
  PROVE  AdminInv'
  <1>1. /\ UNCHANGED <<input, agent, policy, scope, trail, given, overtaken>>
        /\ AdminTyped /\ RequestHeld(r)
    BY DEF Refuse, Fail, ReadAgent, MismatchedId, ReadPolicy, ReadPolicyOfApp, ReadScope,
           tableVars, AdminInv
  <1>2. /\ Kind(r)' = Kind(r) /\ On(r)' = On(r) /\ Body(r)' = Body(r)
        /\ (input[r].admin)' = input[r].admin
    BY <1>1 DEF Kind, On, Body
  <1>3. CASE \E code \in {400, 403, 404, 409, 500} : Answered(r, code)
    <2>1. OthersWait(r)
      BY <1>1, <1>3, AnsweredMoves
    <2>2. stage'[r] = "done" /\ answer'[r] \in {400, 403, 404, 409, 500}
      BY <1>1, <1>3 DEF Answered, AdminTyped
    <2>3. RequestHeld(r)'
      BY <1>2, <2>2 DEF RequestHeld
    <2> QED
      BY <1>1, <2>1, <2>2, <2>3, NothingWritten
  <1>4. CASE \E s \in {"read", "unknown", "free"} : \E row :
               /\ Goes(r, s, row) /\ stage[r] # "done" /\ input[r].admin
               /\ s \in {"unknown", "free"} => Kind(r) = "put"
               /\ s = "read" /\ Kind(r) = "change" => row \in AgentRows /\ agent[On(r)] # None
               /\ s = "read" /\ Kind(r) = "put" =>
                    /\ row \in PolicyRows
                    /\ policy[On(r)] # None /\ policy[On(r)].app = Body(r).app
    <2>0. PICK s \in {"read", "unknown", "free"} : \E row :
               /\ Goes(r, s, row) /\ stage[r] # "done" /\ input[r].admin
               /\ s \in {"unknown", "free"} => Kind(r) = "put"
               /\ s = "read" /\ Kind(r) = "change" => row \in AgentRows /\ agent[On(r)] # None
               /\ s = "read" /\ Kind(r) = "put" =>
                    /\ row \in PolicyRows
                    /\ policy[On(r)] # None /\ policy[On(r)].app = Body(r).app
      BY <1>4
    <2>1. PICK row :
               /\ Goes(r, s, row) /\ stage[r] # "done" /\ input[r].admin
               /\ s \in {"unknown", "free"} => Kind(r) = "put"
               /\ s = "read" /\ Kind(r) = "change" => row \in AgentRows /\ agent[On(r)] # None
               /\ s = "read" /\ Kind(r) = "put" =>
                    /\ row \in PolicyRows
                    /\ policy[On(r)] # None /\ policy[On(r)].app = Body(r).app
      BY <2>0
    <2>2. OthersWait(r)
      BY <1>1, <2>1, AnsweredMoves
    <2>3. stage'[r] = s /\ kept'[r] = row /\ answer'[r] = 0
      BY <1>1, <2>1 DEF Goes, AdminTyped, RequestHeld
    <2>4. RequestHeld(r)'
      BY <1>1, <1>2, <2>1, <2>3 DEF RequestHeld
    <2> QED
      BY <1>1, <2>2, <2>3, <2>4, NothingWritten
  <1>5. CASE Refuse(r) \/ Fail(r) \/ MismatchedId(r)
    BY <1>3, <1>5 DEF Refuse, Fail, MismatchedId
  <1>6. CASE ReadAgent(r)
    <2>1. On(r) \in Agents /\ agent[On(r)] \in AgentRows \cup {None}
      BY <1>1, <1>6, InputOf DEF ReadAgent, Read, AdminTyped
    <2> QED
      BY <1>3, <1>4, <1>6, <2>1 DEF ReadAgent, Read
  <1>7. CASE ReadPolicy(r)
    <2>1. On(r) \in Policies /\ policy[On(r)] \in PolicyRows \cup {None}
      BY <1>1, <1>7, InputOf DEF ReadPolicy, Read, AdminTyped
    <2>2. Kind(r) = "put" /\ stage[r] = "new" /\ input[r].admin
      BY <1>7 DEF ReadPolicy, Read
    <2>3. CASE Frozen(policy[On(r)], Body(r))
      BY <1>3, <1>7, <2>3 DEF ReadPolicy
    <2>4. CASE ~Frozen(policy[On(r)], Body(r)) /\ policy[On(r)] = None
      BY <1>4, <1>7, <2>2, <2>4 DEF ReadPolicy
    <2>5. CASE ~Frozen(policy[On(r)], Body(r)) /\ policy[On(r)] # None
      BY <1>4, <1>7, <2>1, <2>2, <2>5 DEF ReadPolicy, Frozen
    <2> QED
      BY <2>3, <2>4, <2>5
  <1>8. CASE ReadPolicyOfApp(r)
    BY <1>1, <1>3, <1>4, <1>8 DEF ReadPolicyOfApp, RequestHeld
  <1>9. CASE ReadScope(r)
    BY <1>3, <1>4, <1>9 DEF ReadScope, Read
  <1> QED
    BY <1>5, <1>6, <1>7, <1>8, <1>9

-------------------------------------------------------------------------------
(* Agents.                                                                 *)

\* A write to agent a leaves policies and scopes alone.
LEMMA AgentWritten ==
  ASSUME AdminInv, NEW r \in Requests, OthersWait(r), RequestHeld(r)',
         UNCHANGED <<policy, scope, given>>, overtaken \subseteq overtaken',
         NEW a \in Agents, NEW row \in AgentRows, NEW es \in Seq(TrailEntries),
         agent' = [agent EXCEPT ![a] = row], trail' = [trail EXCEPT ![a] = es],
         Audited(row, es), a \notin overtaken' => Chained(row, es),
         agent[a] = None => On(r) = a /\ Kind(r) = "register" /\ Complete(Body(r)),
         Kind(r) # "put"
  PROVE  AdminInv'
  <1> USE DEF AdminInv, AdminTyped
  <1>1. /\ agent'[a] = row /\ trail'[a] = es /\ row # None
        /\ \A b \in Agents : b # a => agent'[b] = agent[b] /\ trail'[b] = trail[b]
    BY RowAssumption
  <1>2. \A q \in Requests : RequestHeld(q)'
    <2>1. \A q \in Requests : q # r => RequestHeld(q)'
      BY <1>1, OthersHeld
    <2> QED
      BY <2>1
  <1>3. AdminTyped'
    BY DEF CatalogueTyped, OthersWait
  <1>4. \A b \in Agents : AgentSound(b)'
    BY <1>1 DEF AgentSound
  <1>5. OnePerApp' /\ \A p \in Policies : FieldsAsGiven(p)'
    BY DEF OnePerApp, FieldsAsGiven
  <1>6. CreatedApart'
    <2>1. /\ CreatedApart /\ input' = input
          /\ \A q \in Requests : Kind(q) = "put" => answer'[q] = answer[q]
      BY DEF OthersWait
    <2> QED
      BY <2>1 DEF CreatedApart, Kind, On, Body
  <1> QED
    BY <1>2, <1>3, <1>4, <1>5, <1>6

LEMMA RegisterStep ==
  ASSUME AdminInv, NEW r \in Requests, RegisterAgent(r)
  PROVE  AdminInv'
  <1>1. /\ UNCHANGED <<input, policy, scope, given, overtaken>>
        /\ stage[r] = "new" /\ Kind(r) = "register" /\ input[r].admin
        /\ AdminTyped /\ RequestHeld(r)
    BY DEF RegisterAgent, Read, AdminInv
  <1>2. On(r) \in Agents /\ Body(r).name \in Names
    BY <1>1, InputOf
  <1>3. Kind(r)' = Kind(r) /\ (input[r].admin)' = input[r].admin
    BY <1>1 DEF Kind
  <1>4. CASE ~Complete(Body(r))
    <2>1. Answered(r, 400) /\ UNCHANGED <<agent, trail>>
      BY <1>4 DEF RegisterAgent
    <2>2. OthersWait(r)
      BY <1>1, <2>1, AnsweredMoves
    <2>3. stage'[r] = "done" /\ answer'[r] = 400
      BY <1>1, <2>1 DEF Answered, AdminTyped
    <2>4. RequestHeld(r)'
      BY <1>1, <1>3, <2>3 DEF RequestHeld
    <2> QED
      BY <1>1, <2>1, <2>2, <2>4, NothingWritten
  <1>5. CASE Complete(Body(r))
    <2> DEFINE a == On(r)
               row == NewAgent(Body(r).name)
               e == [from |-> None, to |-> "active"]
    <2>1. /\ agent' = [agent EXCEPT ![a] = row]
          /\ trail' = [trail EXCEPT ![a] = Append(trail[a], e)]
          /\ Answered(r, 201)
      BY <1>5 DEF RegisterAgent
    <2>2. agent[a] = None /\ trail[a] = << >>
      BY <1>1, <1>2, <1>5 DEF RequestHeld, AdminInv, AgentSound
    <2>3. Append(trail[a], e) = << e >>
      <3>1. Append(<< >>, e) = << e >>
        OBVIOUS
      <3> QED
        BY <2>2, <3>1, Zenon
    <2>4. /\ << e >> \in Seq(TrailEntries) /\ row \in AgentRows
          /\ Audited(row, << e >>) /\ Chained(row, << e >>)
      BY <1>2, NewTrail
    <2>5. OthersWait(r)
      BY <1>1, <2>1, AnsweredMoves
    <2>6. stage'[r] = "done"
      BY <1>1, <2>1 DEF Answered, AdminTyped
    <2>7. RequestHeld(r)'
      BY <1>1, <1>3, <2>6 DEF RequestHeld
    <2>8. trail' = [trail EXCEPT ![a] = << e >>]
      BY <2>1, <2>3
    <2> HIDE DEF a, row, e
    <2>9. a \in Agents /\ a = On(r)
      BY <1>2 DEF a
    <2> QED
      BY <1>1, <1>5, <2>1, <2>4, <2>5, <2>7, <2>8, <2>9, AgentWritten
  <1> QED
    BY <1>4, <1>5

\* Two entries or fewer, one after the other.
LEMMA TrailOfTwo ==
  ASSUME NEW es \in Seq(TrailEntries), NEW e \in TrailEntries, NEW f \in TrailEntries
  PROVE  /\ es \o (<< >> \o << >>) = es
         /\ es \o (<<e>> \o << >>) = Append(es, e)
         /\ es \o (<< >> \o <<f>>) = Append(es, f)
         /\ es \o (<<e>> \o <<f>>) = Append(Append(es, e), f)
  <1>1. << >> \in Seq(TrailEntries) /\ <<e>> \in Seq(TrailEntries) /\ <<f>> \in Seq(TrailEntries)
    BY EmptySeq
  <1>2. \A s \in Seq(TrailEntries) : s \o << >> = s /\ << >> \o s = s
    BY ConcatEmptySeq
  <1>3. \A s \in Seq(TrailEntries) : /\ Append(s, e) = s \o <<e>> /\ Append(s, f) = s \o <<f>>
                                     /\ Append(s, e) \in Seq(TrailEntries)
    BY AppendIsConcat, AppendProperties
  <1>4. es \o (<<e>> \o <<f>>) = (es \o <<e>>) \o <<f>>
    BY <1>1, ConcatAssociative
  <1> QED
    BY <1>1, <1>2, <1>3, <1>4, Zenon

LEMMA UpdateStep ==
  ASSUME AdminInv, NEW r \in Requests, UpdateAgent(r)
  PROVE  AdminInv'
  <1> DEFINE a == On(r)
             b == Body(r)
             k == kept[r]
             e == [from |-> k.status, to |-> b.status]
             f == [from |-> k.name, to |-> b.name]
             row == agent[a]
             new == Patched(row, b)
             mid == [new EXCEPT !.name = row.name]
             es == trail[a]
             byStatus == IF b.status = None THEN es ELSE Append(es, e)
             byName == IF b.name \in {None, k.name} THEN byStatus ELSE Append(byStatus, f)
  <1>1. /\ UNCHANGED <<input, policy, scope, given>>
        /\ stage[r] = "read" /\ Kind(r) = "change" /\ input[r].admin
        /\ AdminTyped /\ RequestHeld(r)
        /\ agent' = [agent EXCEPT ![a] = new]
        /\ trail' = [trail EXCEPT ![a] = es \o Entries(r)]
        /\ overtaken' = IF row # k THEN overtaken \cup {a} ELSE overtaken
        /\ Answered(r, 200)
    BY DEF UpdateAgent, Overtake, AdminInv, RequestHeld
  <1>2. /\ a \in Agents /\ b.status \in AgentStatuses \cup {None} /\ b.name \in Names \cup {None}
        /\ k \in AgentRows /\ row # None /\ row \in AgentRows /\ es \in Seq(TrailEntries)
    BY <1>1, InputOf DEF RequestHeld, AdminTyped
  <1>3. AgentSound(a)
    BY <1>2 DEF AdminInv
  <1>4. /\ b.status # None => e \in TrailEntries /\ e.to \in AgentStatuses
        /\ b.name \notin {None, k.name} => f \in TrailEntries /\ f.to \in Names
    BY <1>2 DEF TrailEntries, AgentRows
  <1>5. trail' = [trail EXCEPT ![a] = byName]
    <2>1. es \o Entries(r) = byName
      <3>1. << >> \o << >> = << >> /\ es \o << >> = es
        BY <1>2, ConcatEmptySeq
      <3>2. CASE b.status = None /\ b.name \in {None, k.name}
        BY <1>2, <3>1, <3>2 DEF Entries
      <3>3. CASE b.status # None /\ b.name \in {None, k.name}
        BY <1>2, <1>4, <3>3, TrailOfTwo DEF Entries
      <3>4. CASE b.status = None /\ b.name \notin {None, k.name}
        BY <1>2, <1>4, <3>4, TrailOfTwo DEF Entries
      <3>5. CASE b.status # None /\ b.name \notin {None, k.name}
        BY <1>2, <1>4, <3>5, TrailOfTwo DEF Entries
      <3> QED
        BY <3>2, <3>3, <3>4, <3>5
    <2> QED
      BY <1>1, <2>1
  <1>6. /\ new.status = IF b.status = None THEN row.status ELSE b.status
        /\ new.name = IF b.name = None THEN row.name ELSE b.name
        /\ new.suspendedAt = ((row.suspendedAt /\ b.status # "active") \/ b.status = "suspended")
        /\ new.retiredAt = (row.retiredAt \/ b.status = "retired")
        /\ new \in AgentRows
    BY <1>2 DEF Patched, AgentRows
  <1>7. /\ mid.status = new.status /\ mid.name = row.name
        /\ mid.suspendedAt = new.suspendedAt /\ mid.retiredAt = new.retiredAt
    BY <1>6 DEF AgentRows
  <1>8. None \notin AgentStatuses
    BY CatalogueAssumption
  <1>9. e.from = k.status /\ e.to = b.status /\ f.from = k.name /\ f.to = b.name
    OBVIOUS
  <1>10. OthersWait(r)
    BY <1>1, AnsweredMoves
  <1>11. stage'[r] = "done" /\ Kind(r)' = Kind(r)
    BY <1>1 DEF Answered, AdminTyped, Kind
  <1>12. RequestHeld(r)'
    BY <1>1, <1>11 DEF RequestHeld
  <1>13. Audited(row, es) /\ (a \notin overtaken => Chained(row, es))
    BY <1>2, <1>3 DEF AgentSound
  <1>14. a = On(r)
    OBVIOUS
  <1> HIDE DEF a, b, k, e, f, row, new, mid, es
  <1>15. /\ byStatus \in Seq(TrailEntries)
         /\ Audited(mid, byStatus)
         /\ Chained(row, es) /\ row = k => Chained(mid, byStatus)
    <2>1. CASE b.status = None
      <3>1. /\ mid.status = row.status /\ mid.suspendedAt = row.suspendedAt
            /\ mid.retiredAt = row.retiredAt
        <4>1. row.suspendedAt \in BOOLEAN /\ row.retiredAt \in BOOLEAN
          BY <1>2 DEF AgentRows
        <4> QED
          BY <1>6, <1>7, <1>8, <2>1, <4>1 DEF AgentStatuses
      <3>2. byStatus = es
        BY <2>1
      <3>3. Audited(mid, es)
        BY <1>13, <3>1 DEF Audited
      <3>4. Chained(row, es) => Chained(mid, es)
        BY <1>7 DEF Chained
      <3> QED
        BY <1>2, <3>2, <3>3, <3>4
    <2>2. CASE b.status # None
      <3>1. /\ mid.status = e.to
            /\ mid.suspendedAt <=> (row.suspendedAt /\ e.to # "active") \/ e.to = "suspended"
            /\ mid.retiredAt <=> row.retiredAt \/ e.to = "retired"
        BY <1>6, <1>7, <1>9, <2>2
      <3>2. Append(es, e) \in Seq(TrailEntries)
        BY <1>2, <1>4, <2>2, AppendProperties
      <3>3. /\ Audited(mid, Append(es, e))
            /\ Chained(row, es) /\ mid.name = row.name /\ e.from = row.status
                 => Chained(mid, Append(es, e))
        BY <1>2, <1>4, <1>13, <2>2, <3>1, StatusEntry
      <3> QED
        BY <1>7, <1>9, <2>2, <3>2, <3>3
    <2> QED
      BY <2>1, <2>2
  <1> HIDE DEF byStatus
  <1>16. /\ byName \in Seq(TrailEntries)
         /\ Audited(new, byName)
         /\ Chained(row, es) /\ row = k => Chained(new, byName)
    <2>1. CASE b.name \in {None, k.name}
      <3>1. row = k => new.name = row.name
        BY <1>6, <2>1
      <3>2. Audited(new, byStatus)
        BY <1>7, <1>15 DEF Audited
      <3>3. row = k /\ Chained(mid, byStatus) => Chained(new, byStatus)
        BY <1>7, <3>1 DEF Chained
      <3> QED
        BY <1>15, <2>1, <3>2, <3>3
    <2>2. CASE b.name \notin {None, k.name}
      <3>1. Append(byStatus, f) \in Seq(TrailEntries)
        BY <1>4, <1>15, <2>2, AppendProperties
      <3>2. /\ Audited(new, Append(byStatus, f))
            /\ Chained(mid, byStatus) /\ new.name = f.to /\ f.from = mid.name
                 => Chained(new, Append(byStatus, f))
        BY <1>4, <1>7, <1>15, <2>2, NameEntry
      <3>3. new.name = f.to /\ (row = k => f.from = mid.name)
        BY <1>6, <1>7, <1>9, <2>2
      <3> QED
        BY <1>15, <2>2, <3>1, <3>2, <3>3
    <2> QED
      BY <2>1, <2>2
  <1> HIDE DEF byName
  <1>17. a \notin overtaken' => Chained(new, byName)
    BY <1>1, <1>13, <1>16
  <1>18. overtaken \subseteq overtaken' /\ agent[a] # None
    BY <1>1, <1>2 DEF row
  <1> QED
    BY <1>1, <1>2, <1>5, <1>6, <1>10, <1>12, <1>16, <1>17, <1>18, AgentWritten

-------------------------------------------------------------------------------
(* Safety policies and scopes.                                             *)

\* A write to policy p that keeps its app, or makes the only one of an app.
LEMMA PolicyWritten ==
  ASSUME AdminInv, NEW r \in Requests, OthersWait(r), RequestHeld(r)',
         UNCHANGED <<agent, scope, trail>>,
         NEW p \in Policies, NEW row \in PolicyRows, NEW g \in [Fields -> Values \cup {None}],
         policy' = [policy EXCEPT ![p] = row], given' = [given EXCEPT ![p] = g],
         overtaken' = overtaken \/ overtaken' = overtaken \cup {p},
         IF policy[p] = None THEN Of(row.app) = {} ELSE policy[p].app = row.app,
         p \notin overtaken' =>
           \A f \in Fields : row.value[f] = IF g[f] = None THEN Default ELSE g[f],
         CreatedApart'
  PROVE  AdminInv'
  <1>1. AdminTyped /\ OnePerApp
    BY DEF AdminInv
  <1>2. /\ policy'[p] = row /\ given'[p] = g /\ row # None /\ row.app \in Apps
        /\ \A q \in Policies : q # p => policy'[q] = policy[q] /\ given'[q] = given[q]
    BY <1>1, RowAssumption DEF AdminTyped, PolicyRows
  <1>3. \A q \in Policies : policy[q] # None =>
          policy'[q] # None /\ policy'[q].app = policy[q].app
    BY <1>2
  <1>4. \A q \in Requests : RequestHeld(q)'
    <2>1. \A q \in Requests : q # r => RequestHeld(q)'
      BY <1>3, OthersHeld
    <2> QED
      BY <2>1
  <1>5. AdminTyped'
    BY <1>1 DEF AdminTyped, CatalogueTyped, OthersWait
  <1>6. \A a \in Agents : AgentSound(a)'
    <2> SUFFICES ASSUME NEW a \in Agents PROVE AgentSound(a)'
      OBVIOUS
    <2>1. AgentSound(a) /\ (a \notin overtaken' => a \notin overtaken)
      BY DEF AdminInv
    <2> QED
      BY <2>1 DEF AgentSound
  <1>7. OnePerApp'
    <2> SUFFICES ASSUME NEW q \in Policies, NEW s \in Policies,
                        policy'[q] # None, policy'[s] # None, policy'[q].app = policy'[s].app
                 PROVE  q = s
      BY DEF OnePerApp
    <2>1. \A o \in Policies : o # p /\ policy[o] # None => policy[o].app # row.app
      BY <1>1 DEF OnePerApp, Of
    <2> QED
      BY <1>1, <1>2, <2>1 DEF OnePerApp
  <1>8. \A q \in Policies : FieldsAsGiven(q)'
    <2> SUFFICES ASSUME NEW q \in Policies PROVE FieldsAsGiven(q)'
      OBVIOUS
    <2>1. FieldsAsGiven(q) /\ (q \notin overtaken' => q \notin overtaken)
      BY DEF AdminInv
    <2> QED
      BY <1>2, <2>1 DEF FieldsAsGiven
  <1> QED
    BY <1>4, <1>5, <1>6, <1>7, <1>8 DEF AdminInv

LEMMA GiveStep ==
  ASSUME AdminTyped, NEW r \in Requests, Give(r), On(r) \in Policies,
         Body(r).value \in [Fields -> Values \cup {None}]
  PROVE  LET g == [f \in Fields |-> IF Body(r).value[f] = None THEN given[On(r)][f]
                                    ELSE Body(r).value[f]]
         IN  g \in [Fields -> Values \cup {None}] /\ given' = [given EXCEPT ![On(r)] = g]
  BY DEF Give, AdminTyped

LEMMA InsertPolicyStep ==
  ASSUME AdminInv, NEW r \in Requests, InsertPolicy(r)
  PROVE  AdminInv'
  <1>1. /\ UNCHANGED <<input, agent, scope, trail, overtaken>>
        /\ stage[r] = "free" /\ AdminTyped /\ RequestHeld(r)
        /\ Kind(r) = "put" /\ input[r].admin
    BY DEF InsertPolicy, AdminInv, RequestHeld
  <1>2. /\ On(r) \in Policies /\ Body(r).app \in Apps
        /\ Body(r).value \in [Fields -> Values \cup {None}]
    BY <1>1, InputOf
  <1>3. /\ Kind(r)' = Kind(r) /\ On(r)' = On(r) /\ Body(r)' = Body(r)
        /\ (input[r].admin)' = input[r].admin
    BY <1>1 DEF Kind, On, Body
  <1>4. CASE Answered(r, 500) /\ UNCHANGED <<policy, given>>
    <2>1. OthersWait(r)
      BY <1>1, <1>4, AnsweredMoves
    <2>2. stage'[r] = "done" /\ answer'[r] = 500
      BY <1>1, <1>4 DEF Answered, AdminTyped
    <2>3. RequestHeld(r)'
      BY <1>1, <1>3, <2>2 DEF RequestHeld
    <2> QED
      BY <1>1, <1>4, <2>1, <2>2, <2>3, NothingWritten
  <1>5. CASE Free(On(r), Body(r).app) /\ ~ (Answered(r, 500) /\ UNCHANGED <<policy, given>>)
    <2> DEFINE p == On(r)
               b == Body(r)
               row == [app |-> b.app,
                       value |-> [f \in Fields |-> IF b.value[f] = None THEN Default ELSE b.value[f]]]
               g == [f \in Fields |-> IF b.value[f] = None THEN given[p][f] ELSE b.value[f]]
    <2>1. policy' = [policy EXCEPT ![p] = row] /\ Give(r) /\ Answered(r, 201)
      BY <1>5 DEF InsertPolicy
    <2>2. policy[p] = None /\ Of(row.app) = {}
      BY <1>5 DEF Free
    <2>3. OthersWait(r)
      BY <1>1, <2>1, AnsweredMoves
    <2>4. stage'[r] = "done" /\ answer'[r] = 201
      BY <1>1, <2>1 DEF Answered, AdminTyped
    <2>5. row \in PolicyRows /\ row # None /\ row.app = b.app
      <3>1. [f \in Fields |-> IF b.value[f] = None THEN Default ELSE b.value[f]]
              \in [Fields -> Values \cup {Default}]
        BY <1>2
      <3> QED
        BY <1>2, <3>1, RowAssumption DEF PolicyRows
    <2>6. g \in [Fields -> Values \cup {None}] /\ given' = [given EXCEPT ![p] = g]
      BY <1>1, <1>2, <2>1, GiveStep
    <2>7. \A f \in Fields : row.value[f] = IF g[f] = None THEN Default ELSE g[f]
      <3>1. \A f \in Fields : given[p][f] = None
        BY <1>2, <2>2 DEF AdminInv, FieldsAsGiven
      <3> QED
        BY <3>1
    <2> HIDE DEF row, g
    <2>8. policy'[p] = row
      BY <1>1, <1>2, <2>1 DEF AdminTyped
    <2>9. RequestHeld(r)'
      BY <1>1, <1>3, <2>4, <2>5, <2>8 DEF RequestHeld
    <2>10. CreatedApart'
      <3> SUFFICES ASSUME NEW q \in Requests, q # r, Kind(q) = "put", answer[q] = 201
                   PROVE  On(q) # p /\ Body(q).app # b.app
        BY <1>1, <1>3, <2>3, <2>4 DEF CreatedApart, AdminInv, OthersWait, Kind, On, Body
      <3>1. /\ policy[On(q)] # None /\ policy[On(q)].app = Body(q).app
            /\ On(q) \in Policies
        BY InputOf DEF AdminInv, RequestHeld
      <3> QED
        BY <2>2, <2>5, <3>1 DEF Of
    <2> QED
      BY <1>1, <1>2, <2>1, <2>2, <2>3, <2>5, <2>6, <2>7, <2>9, <2>10, PolicyWritten
  <1> QED
    BY <1>4, <1>5 DEF InsertPolicy

LEMMA ReplaceStep ==
  ASSUME AdminInv, NEW r \in Requests, ReplacePolicy(r)
  PROVE  AdminInv'
  <1> DEFINE p == On(r)
             b == Body(r)
             row == [policy[p] EXCEPT !.value = Merged(kept[r], b)]
             g == [f \in Fields |-> IF b.value[f] = None THEN given[p][f] ELSE b.value[f]]
  <1>1. /\ UNCHANGED <<input, agent, scope, trail>>
        /\ stage[r] = "read" /\ Kind(r) = "put" /\ input[r].admin
        /\ AdminTyped /\ RequestHeld(r)
        /\ policy' = [policy EXCEPT ![p] = row]
        /\ overtaken' = IF policy[p] # kept[r] THEN overtaken \cup {p} ELSE overtaken
        /\ Give(r) /\ Answered(r, 200)
    BY DEF ReplacePolicy, Overtake, AdminInv, RequestHeld
  <1>2. /\ p \in Policies /\ b.app \in Apps /\ b.value \in [Fields -> Values \cup {None}]
        /\ kept[r] \in PolicyRows /\ policy[p] \in PolicyRows
        /\ policy[p] # None /\ policy[p].app = b.app
    BY <1>1, InputOf DEF RequestHeld, AdminTyped
  <1>3. /\ Kind(r)' = Kind(r) /\ On(r)' = On(r) /\ Body(r)' = Body(r)
        /\ (input[r].admin)' = input[r].admin
    BY <1>1 DEF Kind, On, Body
  <1>4. OthersWait(r)
    BY <1>1, AnsweredMoves
  <1>5. stage'[r] = "done" /\ answer'[r] = 200
    BY <1>1 DEF Answered, AdminTyped
  <1>6. Merged(kept[r], b) \in [Fields -> Values \cup {Default}]
    BY <1>2 DEF Merged, PolicyRows
  <1>7. /\ row \in PolicyRows /\ row # None /\ row.app = b.app
        /\ row.value = Merged(kept[r], b)
    BY <1>2, <1>6, RowAssumption DEF PolicyRows
  <1>8. g \in [Fields -> Values \cup {None}] /\ given' = [given EXCEPT ![p] = g]
    BY <1>1, <1>2, GiveStep
  <1>9. p \notin overtaken' =>
          \A f \in Fields : row.value[f] = IF g[f] = None THEN Default ELSE g[f]
    <2> SUFFICES ASSUME p \notin overtaken', NEW f \in Fields
                 PROVE  row.value[f] = IF g[f] = None THEN Default ELSE g[f]
      OBVIOUS
    <2>1. policy[p] = kept[r] /\ p \notin overtaken
      BY <1>1
    <2>2. policy[p].value[f] = IF given[p][f] = None THEN Default ELSE given[p][f]
      BY <1>2, <2>1 DEF AdminInv, FieldsAsGiven
    <2> QED
      BY <1>7, <2>1, <2>2 DEF Merged
  <1>10. CreatedApart'
    <2>1. CreatedApart /\ input' = input /\ \A q \in Requests : answer'[q] = 201 => answer[q] = 201
      BY <1>1, <1>4, <1>5 DEF AdminInv, OthersWait
    <2> QED
      BY <2>1 DEF CreatedApart, Kind, On, Body
  <1> HIDE DEF row, g
  <1>11. policy'[p] = row
    BY <1>1, <1>2 DEF AdminTyped
  <1>12. RequestHeld(r)'
    BY <1>1, <1>3, <1>5, <1>7, <1>11 DEF RequestHeld
  <1>13. overtaken' = overtaken \/ overtaken' = overtaken \cup {p}
    BY <1>1
  <1> QED
    BY <1>1, <1>2, <1>4, <1>7, <1>8, <1>9, <1>10, <1>12, <1>13, PolicyWritten

LEMMA InsertScopeStep ==
  ASSUME AdminInv, NEW r \in Requests, InsertScope(r)
  PROVE  /\ AdminInv'
         /\ \A id \in ScopeIds : scope[id] \in ScopeRows => scope'[id] = scope[id]
  <1>1. /\ UNCHANGED <<input, agent, policy, trail, given, overtaken>>
        /\ stage[r] = "read" /\ Kind(r) = "define" /\ input[r].admin
        /\ AdminTyped /\ RequestHeld(r)
        /\ \E code \in {201, 500} : Answered(r, code)
    BY DEF InsertScope, AdminInv, RequestHeld
  <1>2. On(r) \in ScopeIds /\ Body(r) \in ScopeRows
    BY <1>1, InputOf
  <1>3. OthersWait(r)
    BY <1>1, AnsweredMoves
  <1>4. stage'[r] = "done" /\ Kind(r)' = Kind(r)
    BY <1>1 DEF Answered, AdminTyped, Kind
  <1>5. RequestHeld(r)'
    BY <1>1, <1>4 DEF RequestHeld
  <1>6. scope' \in [ScopeIds -> ScopeRows \cup {None}]
    <2>1. scope \in [ScopeIds -> ScopeRows \cup {None}]
      BY <1>1 DEF AdminTyped, CatalogueTyped
    <2>2. scope' = [scope EXCEPT ![On(r)] = Body(r)] \/ scope' = scope
      BY DEF InsertScope
    <2> QED
      BY <1>2, <2>1, <2>2
  <1>7. \A id \in ScopeIds : scope[id] \in ScopeRows => scope'[id] = scope[id]
    BY <1>1, <1>2, CatalogueAssumption DEF InsertScope, AdminTyped, CatalogueTyped
  <1>8. \A q \in Requests : RequestHeld(q)'
    <2>1. \A q \in Requests : q # r => RequestHeld(q)'
      BY <1>1, <1>3, OthersHeld
    <2> QED
      BY <1>5, <2>1
  <1>9. AdminTyped'
    BY <1>1, <1>3, <1>6 DEF AdminTyped, CatalogueTyped, OthersWait
  <1>10. /\ \A a \in Agents : AgentSound(a)'
         /\ OnePerApp' /\ \A p \in Policies : FieldsAsGiven(p)'
    BY <1>1 DEF AdminInv, AgentSound, OnePerApp, FieldsAsGiven
  <1>11. CreatedApart'
    <2>1. /\ CreatedApart /\ input' = input
          /\ \A q \in Requests : Kind(q) = "put" => answer'[q] = answer[q]
      BY <1>1, <1>3 DEF AdminInv, OthersWait
    <2> QED
      BY <2>1 DEF CreatedApart, Kind, On, Body
  <1> QED
    BY <1>7, <1>8, <1>9, <1>10, <1>11 DEF AdminInv

LEMMA AdministerStep ==
  ASSUME AdminInv, NEW r \in Requests, Administer(r)
  PROVE  /\ AdminInv'
         /\ \A id \in ScopeIds : scope[id] \in ScopeRows => scope'[id] = scope[id]
  <1>1. CASE \/ Refuse(r) \/ Fail(r) \/ ReadAgent(r) \/ MismatchedId(r)
             \/ ReadPolicy(r) \/ ReadPolicyOfApp(r) \/ ReadScope(r)
    <2>1. scope' = scope
      BY <1>1 DEF Refuse, Fail, ReadAgent, MismatchedId, ReadPolicy, ReadPolicyOfApp, ReadScope,
                  tableVars
    <2> QED
      BY <1>1, <2>1, ReadStep
  <1>2. CASE RegisterAgent(r) \/ UpdateAgent(r) \/ InsertPolicy(r) \/ ReplacePolicy(r)
    <2>1. scope' = scope
      BY <1>2 DEF RegisterAgent, UpdateAgent, InsertPolicy, ReplacePolicy
    <2> QED
      BY <1>2, <2>1, RegisterStep, UpdateStep, InsertPolicyStep, ReplaceStep
  <1>3. CASE InsertScope(r)
    BY <1>3, InsertScopeStep
  <1> QED
    BY <1>1, <1>2, <1>3 DEF Administer

-------------------------------------------------------------------------------
(* The theorems.                                                           *)

LEMMA NextAdminInv == AdminInv /\ [Next]_vars => AdminInv'
  <1> SUFFICES ASSUME AdminInv, [Next]_vars PROVE AdminInv'
    OBVIOUS
  <1>1. CASE UNCHANGED adminVars
    <2>1. UNCHANGED <<input, stage, answer, kept, agent, policy, scope, trail, given, overtaken>>
      BY <1>1 DEF adminVars, tableVars
    <2>2. AdminTyped'
      BY <2>1 DEF AdminInv, AdminTyped, CatalogueTyped
    <2>3. \A r \in Requests : RequestHeld(r)'
      BY <2>1 DEF AdminInv, RequestHeld, Kind, On, Body
    <2>4. \A a \in Agents : AgentSound(a)'
      BY <2>1 DEF AdminInv, AgentSound
    <2>5. OnePerApp' /\ CreatedApart' /\ \A p \in Policies : FieldsAsGiven(p)'
      BY <2>1 DEF AdminInv, OnePerApp, CreatedApart, FieldsAsGiven, Kind, On, Body
    <2> QED
      BY <2>2, <2>3, <2>4, <2>5 DEF AdminInv
  <1>2. ASSUME NEW i \in Issuances, Issue(i) PROVE UNCHANGED adminVars
    BY <1>2 DEF Issue, Authenticate, CheckAgent, CheckScopes, Sign, RefuseToSign,
                StoreAuthority, AnswerCreated, LoseAuthority, LoseAnswer
  <1>3. CASE \E r \in Requests : Administer(r)
    BY <1>3, AdministerStep
  <1> QED
    BY <1>1, <1>2, <1>3 DEF Next, vars

LEMMA NextIssueInv == AdminInv /\ IssueInv /\ [Next]_vars => IssueInv'
  <1> SUFFICES ASSUME AdminInv, IssueInv, [Next]_vars PROVE IssueInv'
    OBVIOUS
  <1>1. ASSUME NEW i \in Issuances, Issue(i) PROVE IssueInv'
    BY <1>1, ChecksStep, SignStep, StoreStep, AnswerStep DEF Issue
  <1>2. ASSUME UNCHANGED issueVars, CatalogueTyped',
               wasActive' \in [Issuances -> BOOLEAN],
               \A i \in Issuances : wasActive[i] => wasActive'[i],
               \A id \in ScopeIds : scope[id] \in ScopeRows => scope'[id] = scope[id]
        PROVE  IssueInv'
    <2>1. UNCHANGED <<grant, at, reply, claims, signed, spent, authority>>
      BY <1>2 DEF issueVars
    <2>2. \A i \in Issuances : RequestSound(i)'
      BY <1>2, <2>1, SoundStays, GrantOf DEF IssueInv
    <2> QED
      BY <1>2, <2>1, <2>2 DEF IssueInv, IssueTyped
  <1>3. CASE (\E r \in Requests : Administer(r)) /\ UNCHANGED issueVars /\ NoteActive
    <2>1. /\ wasActive' \in [Issuances -> BOOLEAN]
          /\ \A i \in Issuances : wasActive[i] => wasActive'[i]
      BY <1>3 DEF NoteActive, IssueInv, IssueTyped
    <2>2. /\ CatalogueTyped'
          /\ \A id \in ScopeIds : scope[id] \in ScopeRows => scope'[id] = scope[id]
      BY <1>3, AdministerStep DEF AdminInv, AdminTyped
    <2> QED
      BY <1>2, <1>3, <2>1, <2>2
  <1>4. CASE UNCHANGED vars
    BY <1>2, <1>4 DEF vars, adminVars, tableVars, IssueInv, IssueTyped, CatalogueTyped
  <1> QED
    BY <1>1, <1>3, <1>4 DEF Next

LEMMA AdminInvariant == Spec => []AdminInv
  BY InitAdminInv, NextAdminInv, PTL DEF Spec

LEMMA IssueInvariant == Spec => []IssueInv
  BY InitIssueInv, NextIssueInv, AdminInvariant, PTL DEF Spec

\* However the statements of concurrent changes interleave, the trail of an
\* agent leads to its row, and is a chain unless a change was overtaken.
THEOREM AgentsAudited == Spec => []AgentsAreAudited
  <1>1. AdminInv => AgentsAreAudited
    BY DEF AdminInv, AgentSound, Audited, Chained, AgentsAreAudited
  <1> QED
    BY <1>1, AdminInvariant, PTL

\* One policy for each app, each successful PUT about the app it named, and
\* every field what was last put in it unless a PUT was overtaken.
THEOREM PoliciesKept == Spec => []PoliciesAreWhatWasPut
  <1>1. AdminInv => PoliciesAreWhatWasPut
    <2> SUFFICES ASSUME AdminInv PROVE PoliciesAreWhatWasPut
      OBVIOUS
    <2>1. ASSUME NEW app \in Apps PROVE Cardinality(Of(app)) <= 1
      <3>1. CASE Of(app) = {}
        BY <3>1, FS_EmptySet
      <3>2. CASE Of(app) # {}
        <4>1. PICK p \in Policies : p \in Of(app)
          BY <3>2 DEF Of
        <4>2. Of(app) = {p}
          BY <4>1 DEF AdminInv, OnePerApp, Of
        <4> QED
          BY <4>2, FS_Singleton
      <3> QED
        BY <3>1, <3>2
    <2>2. \A r \in Requests : Kind(r) = "put" /\ answer[r] \in {200, 201} =>
            policy[On(r)].app = Body(r).app
      BY DEF AdminInv, RequestHeld
    <2> QED
      BY <2>1, <2>2 DEF PoliciesAreWhatWasPut, AdminInv, CreatedApart, FieldsAsGiven
  <1> QED
    BY <1>1, AdminInvariant, PTL

\* Whatever fails or dies in between: told of an authority, its row and its token
\* exist and agree; refused, there is neither, and no row where the signature was
\* not heard of; only an internal error or no answer leaves a row untold.
THEOREM TokensMatchRows == Spec => []TokensAndRows
  <1>1. IssueInv => TokensAndRows
    <2> SUFFICES ASSUME IssueInv PROVE TokensAndRows
      OBVIOUS
    <2>1. ASSUME NEW i \in Issuances, authority[i] # None
          PROVE  /\ signed[i] # None
                 /\ <<signed[i].sub, signed[i].agent, signed[i].scopes, signed[i].ttl, signed[i].stepUp>>
                      = <<authority[i].account, authority[i].agent, authority[i].scopes,
                          authority[i].ttl, authority[i].stepUp>>
      <3>1. RequestSound(i)
        BY DEF IssueInv
      <3>2. signed[i] # None /\ signed[i] = claims[i] /\ Allowed(grant[i], claims[i])
        BY <2>1, <3>1 DEF RequestSound, Reached
      <3>3. /\ authority[i].account = grant[i].account /\ authority[i].agent = grant[i].agent
            /\ authority[i].scopes = grant[i].asks /\ authority[i].ttl = grant[i].ttl
            /\ authority[i].stepUp = claims[i].stepUp
        BY <2>1, <3>1 DEF RequestSound
      <3> QED
        BY <3>2, <3>3 DEF Allowed
    <2>2. ASSUME NEW i \in Issuances
          PROVE  /\ reply[i] = "created" => authority[i] # None
                 /\ authority[i] # None => at[i] = "stored" \/ reply[i] \in {"created"} \cup Unknowing
                 /\ signed[i] # None /\ at[i] = "done" /\ authority[i] = None =>
                      reply[i] \in {"ISSUANCE_SIGNING_FAILED"} \cup Unknowing
      BY DEF IssueInv, RequestSound
    <2> QED
      BY <2>1, <2>2 DEF TokensAndRows
  <1> QED
    BY <1>1, IssueInvariant, PTL

\* Whatever operators do between the checks and the insert, every authority is
\* within the catalogue as it stands, was asked for by one who may, and has a
\* genuine step-up of its account spent on it where a scope is high-stakes.
THEOREM WithinCatalogue == Spec => []IssuedUnderTheCatalogue
  <1>1. IssueInv => IssuedUnderTheCatalogue
    <2> SUFFICES ASSUME IssueInv, NEW i \in Issuances, authority[i] # None
                 PROVE  LET row == authority[i]
    IN /\ wasActive[i]
       /\ \A s \in row.scopes :
            /\ scope[s.id] # None /\ scope[s.id].status = "active"
            /\ row.ttl \in 0 .. scope[s.id].ttl
            /\ None \notin {s.amount, scope[s.id].amount} => s.amount \in 0 .. scope[s.id].amount
            /\ None \notin {s.period, scope[s.id].period} => s.period \in 0 .. scope[s.id].period
            /\ HighStakes(scope[s.id]) => row.stepUp \in spent
       /\ row.stepUp # None => grant[i].stepUp.genuine /\ grant[i].stepUp.sub = row.account
       /\ grant[i].key # None
       /\ LET h == grant[i].header
          IN \/ /\ h.scheme = "bearer" /\ h.token.genuine /\ h.token.forUs
                /\ ~h.token.expired /\ h.token.sub = row.account
             \/ /\ h.scheme = "hmac" /\ h.matches /\ h.fresh
                /\ Credentials[h.app].status = "active"
                /\ "helpan:authorities:issue" \in Credentials[h.app].scopes
      BY DEF IssuedUnderTheCatalogue
    <2> DEFINE g == grant[i]
               row == authority[i]
    <2>1. g \in Grants /\ RequestSound(i)
      BY GrantOf DEF IssueInv
    <2>2. /\ Who(g).code = "ok" /\ Authorised(g) /\ wasActive[i]
          /\ Allowed(g, claims[i])
          /\ claims[i].stepUp # None => claims[i].stepUp \in spent
      BY <2>1 DEF RequestSound, Reached
    <2>3. /\ row.account = g.account /\ row.scopes = g.asks /\ row.ttl = g.ttl
          /\ row.stepUp = claims[i].stepUp
      BY <2>1 DEF RequestSound
    <2>4. /\ g.key # None
          /\ LET h == g.header
             IN \/ /\ h.scheme = "bearer" /\ h.token.genuine /\ h.token.forUs
                   /\ ~h.token.expired /\ h.token.sub = g.account
                \/ /\ h.scheme = "hmac" /\ h.matches /\ h.fresh
                   /\ Credentials[h.app].status = "active"
                   /\ "helpan:authorities:issue" \in Credentials[h.app].scopes
      BY <2>2, Identified
    <2> HIDE DEF g, row
    <2>5. row.stepUp # None => g.stepUp.genuine /\ g.stepUp.sub = row.account
      BY <2>2, <2>3 DEF Allowed
    <2>6. ASSUME NEW s \in row.scopes
          PROVE  /\ scope[s.id] # None /\ scope[s.id].status = "active"
                 /\ row.ttl \in 0 .. scope[s.id].ttl
                 /\ None \notin {s.amount, scope[s.id].amount} => s.amount \in 0 .. scope[s.id].amount
                 /\ None \notin {s.period, scope[s.id].period} => s.period \in 0 .. scope[s.id].period
                 /\ HighStakes(scope[s.id]) => row.stepUp \in spent
      <3> DEFINE c == scope[s.id]
      <3>1. /\ c \in ScopeRows /\ c.status = "active" /\ g.ttl <= c.ttl
            /\ UnderCeiling(s.amount, c.amount) /\ UnderCeiling(s.period, c.period)
            /\ HighStakes(c) => claims[i].stepUp # None
        BY <2>2, <2>3 DEF Allowed
      <3>2. /\ c.ttl \in Nat /\ c.amount \in Nat \cup {None} /\ c.period \in Nat \cup {None}
            /\ g.ttl \in Nat /\ s.amount \in Nat \cup {None} /\ s.period \in Nat \cup {None}
        BY <2>1, <2>3, <3>1, ScopeAssumption, GrantAssumption
      <3> HIDE DEF c
      <3>3. c # None
        BY <3>1, CatalogueAssumption
      <3>4. row.ttl \in 0 .. c.ttl
        BY <2>3, <3>1, <3>2
      <3>5. /\ None \notin {s.amount, c.amount} => s.amount \in 0 .. c.amount
            /\ None \notin {s.period, c.period} => s.period \in 0 .. c.period
        BY <3>1, <3>2 DEF UnderCeiling
      <3>6. HighStakes(c) => row.stepUp \in spent
        BY <2>2, <2>3, <3>1
      <3> QED
        BY <3>1, <3>3, <3>4, <3>5, <3>6 DEF c
    <2> QED
      BY <2>2, <2>3, <2>4, <2>5, <2>6 DEF g, row
  <1> QED
    BY <1>1, IssueInvariant, PTL
================================================================================
