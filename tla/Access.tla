-------------------------------- MODULE Access --------------------------------
(***************************************************************************)
(* Who a request comes from: the preHandler hooks every route of src/src   *)
(* stands behind, in the order app.ts registers them.  The customer-token  *)
(* plugin (customerJwtPlugin.ts) takes a Bearer token where the path       *)
(* accepts one, the HMAC plugin takes a signature where no token was       *)
(* taken, and the idempotency plugin wants a key and a caller.  A hook     *)
(* that answers ends the request.                                          *)
(*                                                                         *)
(* A request is its path, its Authorization header, its X-App-Id and its   *)
(* X-Idempotency-Key; None is one that is missing or malformed.  A header  *)
(* is [scheme |-> "bearer", token |-> t] or [scheme |-> "hmac", app |-> a, *)
(* fresh |-> b, matches |-> c].  A token is what jose's verification and   *)
(* the plugin's reading of the claims say of it.                           *)
(***************************************************************************)

CONSTANTS
  Credentials, \* app_credentials: [apps -> [status, scopes]]
  None         \* absent

-------------------------------------------------------------------------------
\* Where a customer's token is the only way in, one of two, or no way.
classifyPath(path) ==
  CASE path \in {"/briefings", "/briefings/:id"} -> "mandatory"
    [] path \in {"/authorities", "/authorities/:id", "/authorities/:id/revoke",
                 "/actions", "/actions/:id"} -> "optional"
    [] OTHER -> "none"

ExemptFromHmac == {"/health", "/briefings", "/briefings/:id"}

\* What the hooks leave in the request: who, or the code they answered with.
Anonymous == [code |-> "ok", appId |-> None, customer |-> None, tenant |-> None]

Stopped(code) == [Anonymous EXCEPT !.code = code]

IsBearer(q) == q.header # None /\ q.header.scheme = "bearer"
IsSigned(q) == q.header # None /\ q.header.scheme = "hmac"

\* jwtVerify: the signature, then issuer, audience and expiry; then the claims
\* a customer's token must have.
TokenVerdict(t) ==
  IF ~t.genuine THEN "AUTH_JWT_INVALID"
  ELSE IF ~t.forUs THEN "AUTH_JWT_AUDIENCE"
  ELSE IF t.expired THEN "AUTH_JWT_EXPIRED"
  ELSE IF ~t.complete THEN "AUTH_JWT_INVALID"
  ELSE "ok"

CustomerJwt(q) ==
  IF classifyPath(q.path) = "none" THEN Anonymous
  ELSE IF ~IsBearer(q) THEN
    IF classifyPath(q.path) = "optional" THEN Anonymous ELSE Stopped("AUTH_JWT_MISSING")
  ELSE IF None \in {q.header.token, q.appId} THEN Stopped("AUTH_JWT_MISSING")
  ELSE IF TokenVerdict(q.header.token) # "ok" THEN Stopped(TokenVerdict(q.header.token))
  ELSE [Anonymous EXCEPT !.appId = q.appId, !.customer = q.header.token.sub]

Lookup(app) == IF app \in DOMAIN Credentials THEN Credentials[app] ELSE None

\* The store is asked only for a signature in time.
SignatureVerdict(h) ==
  IF ~h.fresh THEN "AUTH_TIMESTAMP_EXPIRED"
  ELSE IF Lookup(h.app) = None THEN "AUTH_HMAC_INVALID"
  ELSE IF Lookup(h.app).status = "suspended" THEN "AUTH_APP_SUSPENDED"
  ELSE IF ~h.matches THEN "AUTH_HMAC_INVALID"
  ELSE "ok"

\* It stands down where a token was taken.
Hmac(q, who) ==
  IF who.code # "ok" \/ who.appId # None \/ q.path \in ExemptFromHmac THEN who
  ELSE IF ~IsSigned(q) THEN Stopped("AUTH_HMAC_INVALID")
  ELSE IF SignatureVerdict(q.header) # "ok" THEN Stopped(SignatureVerdict(q.header))
  ELSE [Anonymous EXCEPT !.appId = q.header.app, !.tenant = q.header.app]

\* For a method that changes something; /validate is exempt.
Keyed(q, who) ==
  IF who.code # "ok" \/ q.path = "/authorities/:id/validate" THEN who
  ELSE IF q.key = None THEN Stopped("REQ_IDEMPOTENCY_KEY_MISSING")
  ELSE IF who.appId = None THEN Stopped("AUTH_HMAC_INVALID")
  ELSE who

Authenticated(q) == Keyed(q, Hmac(q, CustomerJwt(q)))

\* requireScope.
Holds(who, right) == who.tenant # None /\ right \in Lookup(who.tenant).scopes
===============================================================================
