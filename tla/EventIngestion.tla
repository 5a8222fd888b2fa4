---------------------------- MODULE EventIngestion ----------------------------
(***************************************************************************)
(* The write endpoints of the API under the idempotency plugin: events     *)
(* published by an app (POST /v1/events/ingest), and the briefings they    *)
(* are matched against (POST, PATCH and DELETE /v1/briefings).             *)
(*                                                                         *)
(* Every request passes the plugin first (src/vendor/platform-shared/src/  *)
(* fastify/idempotencyPlugin.ts): it looks its key up before the handler   *)
(* runs and stores the answer after it, whatever the answer is.  Nothing   *)
(* is held in between, so two requests with one key both run.  An event    *)
(* has a unique index on its key as well, a briefing has none.             *)
(*                                                                         *)
(* A handler is a transaction at READ COMMITTED.  The event's transaction  *)
(* has a step for each statement that another transaction can affect or    *)
(* be affected by.  A transaction that updates one briefing writes its     *)
(* audit entry and commits with nothing to wait for but the locks of       *)
(* others like it, and is one step.                                        *)
(*                                                                         *)
(* Abstractions.  One app and one customer.  The rows an event inserts for *)
(* a match (briefing_matches, webhook_deliveries where the app has a URL,  *)
(* kafka_outbox) are inserted together and counted as one.  Which intents  *)
(* want which events is a relation, the module Matching says which.  Any   *)
(* failure of a handler, at a check or in the database, is one answer.     *)
(***************************************************************************)
EXTENDS Integers, FiniteSets, Sequences

CONSTANTS
  Requests,   \* HTTP requests, first attempts and retries
  Keys,       \* values of X-Idempotency-Key
  Bodies,     \* bodies of events
  Concerned,  \* [Bodies -> SUBSET Briefings]: those of its app and account
  Briefings,  \* ids of briefings
  Existing,   \* those that exist at the start
  Intents,    \* what a briefing asks for
  Wants,      \* the pairs of intent and event body that match
  Inputs,     \* what a request may be: kind, key, on and body
  Scenarios,  \* bound: the requests that are sent together
  TTL,        \* how long a stored answer is replayed
  Never,      \* expires_at is null
  None,       \* no value
  MaxTime     \* bound of the clock

Kinds == {"ingest", "create", "patch", "revoke"}
Patchable == {"active", "paused", "expired"}
Statuses == Patchable \cup {"revoked"}

ASSUME InputAssumption ==
  /\ Scenarios \subseteq [Requests -> Inputs]
  /\ \A i \in Inputs :
       /\ i.kind \in Kinds /\ i.key \in Keys \cup {None} /\ i.on \in Briefings \cup {None}
       /\ i.kind = "ingest" => i.body \in Bodies
       /\ i.kind = "create" => i.body.expiresAt \in Nat \cup {Never}
       /\ i.kind = "patch" => /\ i.body.expiresAt \in Nat \cup {Never, None}
                              /\ i.body.status \in Patchable \cup {None}
       /\ i.kind \in {"patch", "revoke"} => i.on \in Briefings

\* What a caller is answered: a status code, and what the body is about.
Answers == [code : Nat, of : Bodies \cup Briefings \cup {None}]

\* A row of events_ingested, and one of idempotency_keys.
EventRow == [body : Bodies, by : Requests, count : Nat]
RecordRow == [body : {i.body : i \in Inputs}, answer : Answers, expires : Nat]

ASSUME ValueAssumption ==
  None \notin Keys /\ None \notin Requests /\ None \notin EventRow /\ None \notin RecordRow

ASSUME MatchingAssumption ==
  /\ IsFiniteSet(Briefings) /\ Existing \subseteq Briefings
  /\ Concerned \in [Bodies -> SUBSET Briefings]
  /\ Wants \subseteq Intents \X Bodies

ASSUME TimeAssumption == TTL \in Nat \ {0} /\ MaxTime \in Nat /\ Never \notin Nat

VARIABLES
  now,        \* the clock
  input,      \* what each request is
  stage,      \* where it is
  answer,     \* what it will be, or was, answered
  replayed,   \* whether the plugin replayed that
  record,     \* idempotency_keys: the row of each scoped key
  event,      \* events_ingested: the row of each key, and who inserted it
  inserter,   \* the open transaction that holds the key in the unique index
  found,      \* the matches each transaction has computed
  matches,    \* briefing_matches: rows per key and briefing
  briefing,   \* the rows of briefings
  trail,      \* the audit entries of each briefing
  seen,       \* the status a revocation read before its update
  arrived,    \* history: the time a request was looked up, None before
  before,     \* history: requests of its key answered by then
  wasLive,    \* history: briefings live at some moment since an event came in
  raced       \* history: briefings whose status changed under a revocation

requestVars == <<input, stage, answer, replayed, arrived, before>>
eventVars == <<event, inserter, found, matches>>
briefingVars == <<briefing, trail, seen, raced>>
vars == <<now, requestVars, record, eventVars, briefingVars, wasLive>>

Kind(r) == input[r].kind
Key(r) == input[r].key
On(r) == input[r].on
Body(r) == input[r].body

\* Method, path and key: the same key at two endpoints does not collide.
ScopeOf(i) == <<i.kind, i.on, i.key>>
Scope(r) == ScopeOf(input[r])
Scopes == {ScopeOf(i) : i \in Inputs}

Answer(code, of) == [code |-> code, of |-> of]
NoAnswer == Answer(0, None)
Failure == Answer(500, None)

NoRow == [status |-> "absent", intent |-> None, expiresAt |-> Never, madeBy |-> None]

Init ==
  /\ now = 0
  /\ input \in Scenarios
  /\ stage = [r \in Requests |-> "new"]
  /\ answer = [r \in Requests |-> NoAnswer]
  /\ replayed = {}
  /\ record = [s \in Scopes |-> None]
  /\ event = [k \in Keys |-> None]
  /\ inserter = [k \in Keys |-> None]
  /\ found = [r \in Requests |-> {}]
  /\ matches = [k \in Keys |-> [b \in Briefings |-> 0]]
  /\ \E rows \in [Existing -> [status : {"active"}, intent : Intents,
                               expiresAt : {Never, 1}, madeBy : {None}]] :
       briefing = [b \in Briefings |-> IF b \in Existing THEN rows[b] ELSE NoRow]
  /\ trail = [b \in Briefings |->
       IF briefing[b].status = "absent" THEN << >> ELSE <<"active">>]
  /\ seen = [r \in Requests |-> None]
  /\ arrived = [r \in Requests |-> None]
  /\ before = [r \in Requests |-> {}]
  /\ wasLive = [r \in Requests |-> {}]
  /\ raced = {}

-------------------------------------------------------------------------------
(* The plugin before the handler.                                          *)

InTransaction == {"missed", "begun", "inserted", "matched", "read"}

Become(r, s) == stage' = [stage EXCEPT ![r] = s]

\* The handler is done; onSend is still to come.
Respond(r, a) ==
  /\ answer' = [answer EXCEPT ![r] = a]
  /\ Become(r, "answering")

\* What a handler remembers ends with it.
Forget(r) ==
  /\ found' = [found EXCEPT ![r] = {}]
  /\ seen' = [seen EXCEPT ![r] = None]

Unexpired(rec) == rec # None /\ rec.expires > now

\* Mutant of SameBody: the hash of the body is stored and not compared.
SameBodyAssumed(r, rec) == TRUE

SameBody(r, rec) == rec.body = Body(r)

\* A briefing an event is matched against: active and not past expires_at.
\* Mutant of Listed: expiry is left to the row's status.
ListedByStatus(b) == briefing[b].status = "active"

Listed(b) ==
  /\ briefing[b].status = "active"
  /\ briefing[b].expiresAt = Never \/ briefing[b].expiresAt > now

\* The same of a row and a time, for the histories.
LiveRow(row, t) == row.status = "active" /\ (row.expiresAt = Never \/ row.expiresAt > t)

NoteArrival(r) ==
  /\ arrived' = [arrived EXCEPT ![r] = now]
  /\ before' = [before EXCEPT ![r] =
       {q \in Requests : stage[q] = "done" /\ Scope(q) = Scope(r)}]
  /\ wasLive' = [wasLive EXCEPT ![r] =
       {b \in Briefings : Kind(r) = "ingest" /\ LiveRow(briefing[b], now)}]

\* The preHandler: 400 without a key, else what the store says.
Lookup(r) ==
  LET rec == record[Scope(r)]
  IN /\ stage[r] = "new"
     /\ \/ /\ Key(r) = None
           /\ answer' = [answer EXCEPT ![r] = Answer(400, None)]
           /\ Become(r, "done") /\ UNCHANGED replayed
        \/ /\ Key(r) # None /\ ~Unexpired(rec)
           /\ Become(r, "missed") /\ UNCHANGED <<answer, replayed>>
        \/ /\ Key(r) # None /\ Unexpired(rec) /\ ~SameBody(r, rec)
           /\ answer' = [answer EXCEPT ![r] = Answer(409, None)]
           /\ Become(r, "done") /\ UNCHANGED replayed
        \/ /\ Key(r) # None /\ Unexpired(rec) /\ SameBody(r, rec)
           /\ answer' = [answer EXCEPT ![r] = rec.answer]
           /\ replayed' = replayed \cup {r}
           /\ Become(r, "done")
     /\ NoteArrival(r)
     /\ UNCHANGED <<now, input, record, eventVars, briefingVars>>

-------------------------------------------------------------------------------
(* POST /v1/events/ingest.                                                 *)

Holds(r, k) == inserter[k] = r

\* The first statement: an event under the key is answered as if ingested now.
FindPrior(r) ==
  /\ stage[r] = "missed" /\ Kind(r) = "ingest"
  /\ IF event[Key(r)] # None
     THEN Respond(r, Answer(202, event[Key(r)].body))
     ELSE Become(r, "begun") /\ UNCHANGED answer
  /\ UNCHANGED <<now, input, replayed, arrived, before, record, eventVars,
                 briefingVars, wasLive>>

\* Mutant of KeyFree: no unique index on (idempotency_key, app_id).
KeyFreeAlways(k) == TRUE

\* No committed row has the key; the insert waits for an uncommitted one.
KeyFree(k) == inserter[k] = None /\ event[k] = None

InsertEvent(r) ==
  /\ stage[r] = "begun" /\ KeyFree(Key(r))
  /\ inserter' = [inserter EXCEPT ![Key(r)] = r]
  /\ Become(r, "inserted")
  /\ UNCHANGED <<now, input, answer, replayed, arrived, before, record, event,
                 found, matches, briefingVars, wasLive>>

\* Another transaction inserted the key first: 23505, rolled back, 500.
DuplicateEvent(r) ==
  /\ stage[r] = "begun" /\ inserter[Key(r)] = None /\ event[Key(r)] # None
  /\ Respond(r, Failure)
  /\ UNCHANGED <<now, input, replayed, arrived, before, record, eventVars,
                 briefingVars, wasLive>>

\* listActiveBriefingsForEvent and the matchers, which read nothing else.
MatchBriefings(r) ==
  /\ stage[r] = "inserted"
  /\ found' = [found EXCEPT ![r] =
       {b \in Concerned[Body(r)] : Listed(b) /\ <<briefing[b].intent, Body(r)>> \in Wants}]
  /\ Become(r, "matched")
  /\ UNCHANGED <<now, input, answer, replayed, arrived, before, record, event,
                 inserter, matches, briefingVars, wasLive>>

\* A delivery, a match and an outbox event for each, the event's match status,
\* the audit entry; all of it visible when the transaction commits.
CommitEvent(r) ==
  LET k == Key(r)
  IN /\ stage[r] = "matched"
     /\ event' = [event EXCEPT ![k] =
          [body |-> Body(r), by |-> r, count |-> Cardinality(found[r])]]
     /\ matches' = [matches EXCEPT ![k] =
          [b \in Briefings |-> @[b] + IF b \in found[r] THEN 1 ELSE 0]]
     /\ inserter' = [inserter EXCEPT ![k] = None]
     /\ Forget(r)
     /\ Respond(r, Answer(202, Body(r)))
     /\ UNCHANGED <<now, input, replayed, arrived, before, record, briefing, trail,
                    raced, wasLive>>

-------------------------------------------------------------------------------
(* The briefings.                                                          *)

\* A briefing that becomes live is so for every event under way.
NoteLive ==
  wasLive' = [r \in Requests |-> wasLive[r] \cup
    {b \in Briefings : /\ Kind(r) = "ingest" /\ stage[r] \in InTransaction
                       /\ LiveRow(briefing'[b], now)}]

CreateBriefing(r, b) ==
  /\ stage[r] = "missed" /\ Kind(r) = "create" /\ briefing[b].status = "absent"
  /\ briefing' = [briefing EXCEPT ![b] =
       [status |-> "active", intent |-> Body(r).intent,
        expiresAt |-> Body(r).expiresAt, madeBy |-> r]]
  /\ trail' = [trail EXCEPT ![b] = Append(@, "active")]
  /\ Respond(r, Answer(201, b))
  /\ NoteLive
  /\ UNCHANGED <<now, input, replayed, arrived, before, record, eventVars, seen, raced>>

\* Neither PATCH nor DELETE finds a row: 404, after any number of reads.
BriefingMissing(r) ==
  /\ stage[r] = "missed" /\ Kind(r) \in {"patch", "revoke"}
  /\ briefing[On(r)].status = "absent"
  /\ Respond(r, Answer(404, None))
  /\ UNCHANGED <<now, input, replayed, arrived, before, record, eventVars,
                 briefingVars, wasLive>>

Set(field, old) == IF field = None THEN old ELSE field

\* Every field that is given replaces the old one, whatever the status was.
PatchedRow(row, p) ==
  [row EXCEPT !.status = Set(p.status, @), !.intent = Set(p.intent, @),
              !.expiresAt = Set(p.expiresAt, @)]

IsNoop(p) == p.status = None /\ p.intent = None /\ p.expiresAt = None

PatchEntry(p) == IF p.status = None THEN "edited" ELSE p.status

PatchBriefing(r) ==
  LET b == On(r)
  IN /\ stage[r] = "missed" /\ Kind(r) = "patch" /\ briefing[b].status # "absent"
     /\ IF IsNoop(Body(r))
        THEN UNCHANGED <<briefing, trail>>
        ELSE /\ briefing' = [briefing EXCEPT ![b] = PatchedRow(@, Body(r))]
             /\ trail' = [trail EXCEPT ![b] = Append(@, PatchEntry(Body(r)))]
     /\ Respond(r, Answer(200, b))
     /\ NoteLive
     /\ UNCHANGED <<now, input, replayed, arrived, before, record, eventVars, seen, raced>>

\* revokeBriefing reads the row, without a lock...
ReadForRevoke(r) ==
  /\ stage[r] = "missed" /\ Kind(r) = "revoke" /\ briefing[On(r)].status # "absent"
  /\ seen' = [seen EXCEPT ![r] = briefing[On(r)].status]
  /\ Become(r, "read")
  /\ UNCHANGED <<now, input, answer, replayed, arrived, before, record, eventVars,
                 briefing, trail, raced, wasLive>>

\* Mutant of IsTransition: an entry for every revocation.
IsTransitionAlways(status) == TRUE

IsTransition(status) == status # "revoked"

\* ... and updates it, whatever it has become; the entry goes by what it read.
RevokeBriefing(r) ==
  LET b == On(r)
  IN /\ stage[r] = "read"
     /\ briefing' = [briefing EXCEPT ![b].status = "revoked"]
     /\ trail' = IF IsTransition(seen[r])
                 THEN [trail EXCEPT ![b] = Append(@, "revoked")] ELSE trail
     /\ raced' = IF briefing[b].status = seen[r] THEN raced ELSE raced \cup {b}
     /\ Forget(r)
     /\ Respond(r, Answer(204, None))
     /\ UNCHANGED <<now, input, replayed, arrived, before, record, event, inserter,
                    matches, wasLive>>

-------------------------------------------------------------------------------
(* Failures, and the plugin after the handler.                             *)

ReleaseKey(r) ==
  inserter' = [k \in Keys |-> IF Holds(r, k) THEN None ELSE inserter[k]]

\* A check refuses the request or a statement fails: rolled back, mapped to an
\* error answer, which is stored like any other.
FailHandler(r) ==
  /\ stage[r] \in InTransaction
  /\ Respond(r, Failure) /\ ReleaseKey(r) /\ Forget(r)
  /\ UNCHANGED <<now, input, replayed, arrived, before, record, event, matches,
                 briefing, trail, raced, wasLive>>

\* The process dies: the transaction is rolled back, nobody is answered.
Crash(r) ==
  /\ stage[r] \in InTransaction \cup {"answering"}
  /\ Become(r, "lost") /\ ReleaseKey(r) /\ Forget(r)
  /\ answer' = [answer EXCEPT ![r] = NoAnswer]
  /\ UNCHANGED <<now, input, replayed, arrived, before, record, event, matches,
                 briefing, trail, raced, wasLive>>

\* Mutant of Stored: ON CONFLICT DO UPDATE.
StoredAnew(old, new) == new

\* ON CONFLICT DO NOTHING: an expired row keeps its key.
Stored(old, new) == IF old = None THEN new ELSE old

\* onSend.  response_body is not nullable, so an answer without a body cannot
\* be stored.
StoreAnswer(r) ==
  /\ stage[r] = "answering" /\ answer[r].code # 204
  /\ record' = [record EXCEPT ![Scope(r)] = Stored(@,
       [body |-> Body(r), answer |-> answer[r], expires |-> now + TTL])]
  /\ Become(r, "done")
  /\ UNCHANGED <<now, input, answer, replayed, arrived, before, eventVars,
                 briefingVars, wasLive>>

\* The insert fails: the answer becomes an error, which onSend stores in turn
\* unless that fails as well.
StoreFails(r) ==
  /\ stage[r] = "answering"
  /\ IF answer[r] = Failure
     THEN Become(r, "done") /\ UNCHANGED answer
     ELSE Respond(r, Failure)
  /\ UNCHANGED <<now, input, replayed, arrived, before, record, eventVars,
                 briefingVars, wasLive>>

Tick ==
  /\ now < MaxTime /\ now' = now + 1
  /\ UNCHANGED <<requestVars, record, eventVars, briefingVars, wasLive>>

Ingest(r) ==
  FindPrior(r) \/ InsertEvent(r) \/ DuplicateEvent(r) \/ MatchBriefings(r) \/ CommitEvent(r)

Brief(r) ==
  \/ \E b \in Briefings : CreateBriefing(r, b)
  \/ BriefingMissing(r) \/ PatchBriefing(r) \/ ReadForRevoke(r) \/ RevokeBriefing(r)

Next ==
  \/ \E r \in Requests :
       \/ Lookup(r) \/ Ingest(r) \/ Brief(r)
       \/ FailHandler(r) \/ Crash(r) \/ StoreAnswer(r) \/ StoreFails(r)
  \/ Tick

Spec == Init /\ [][Next]_vars

-------------------------------------------------------------------------------
(* Properties.                                                             *)

\* However often an event is sent, at once or after its stored answer expired,
\* its row is inserted once and each briefing is matched with it at most once;
\* the row counts the matches; and a matched briefing was active and unexpired
\* at some moment after the event's request came in.
MatchedOnceWhileLive ==
  \A k \in Keys : \A b \in Briefings :
    /\ matches[k][b] \in {0, 1}
    /\ matches[k][b] = 1 => event[k] # None /\ b \in wasLive[event[k].by]
    /\ event[k] # None =>
         event[k].count = Cardinality({c \in Briefings : matches[k][c] = 1})

\* What a caller was told exists: an accepted event is the row of its key with
\* the very body the answer is about, a created briefing was made under the
\* caller's key from the caller's body.
AnswersAreTrue ==
  \A r \in Requests : stage[r] = "done" =>
    /\ answer[r].code = 202 =>
         event[Key(r)] # None /\ event[Key(r)].body = answer[r].of
    /\ answer[r].code = 201 =>
         LET q == briefing[answer[r].of].madeBy
         IN q # None /\ Scope(q) = Scope(r) /\ Body(q) = Body(r)

\* A caller that was answered with success and sends the key again gets the
\* stored answer, or a conflict if the body differs, and nothing runs.  This
\* holds until the first record of the key expires, and never again after,
\* since that record keeps the key; it does not hold of DELETE, whose success
\* has no body to store.
RetriesAreReplayed ==
  \A r \in Requests : \A q \in before[r] :
    LET rec == record[Scope(r)]
    IN answer[q].code \in {200, 201, 202} =>
         /\ rec # None
         /\ arrived[r] < rec.expires =>
              /\ stage[r] = "done"
              /\ \/ Body(r) = rec.body /\ answer[r] = rec.answer
                 \/ Body(r) # rec.body /\ answer[r].code = 409

\* Entry n of a trail is the last that is not about an edit.
NamesStatus(es, n) ==
  es[n] # "edited" /\ \A m \in DOMAIN es : m > n => es[m] = "edited"

\* The audit trail of a briefing explains its status, and records a revocation
\* once, unless the status changed between the read and the update of some
\* revocation: then a revocation may be recorded twice, or a patch that made
\* the briefing active again may be undone without an entry.
StatusIsAudited ==
  \A b \in Briefings \ raced :
    LET es == trail[b]
    IN /\ briefing[b].status # "absent" =>
            \E n \in DOMAIN es : NamesStatus(es, n) /\ es[n] = briefing[b].status
       /\ \A m, n \in DOMAIN es :
            m < n /\ es[m] = "revoked" /\ es[n] = "revoked" =>
              \E k \in DOMAIN es : m < k /\ k < n /\ es[k] \in Patchable

-------------------------------------------------------------------------------
(* What this is to callers and customers.                                  *)

Heard == [r \in Requests |-> IF stage[r] = "done" THEN answer[r] ELSE NoAnswer]

PhaseOf(s) ==
  CASE s = "new" -> "sent" [] s = "done" -> "answered" [] s = "lost" -> "lost"
    [] OTHER -> "handled"

Phase == [r \in Requests |-> PhaseOf(stage[r])]

Notified == [k \in Keys |-> {b \in Briefings : matches[k][b] > 0}]

Made == [b \in Briefings |-> briefing[b].madeBy]

\* Codes of what can be stored.
Codes == {200, 201, 202, 404, 500}

Promise == INSTANCE KeyedRequest WITH
  Callers <- Requests, Sends <- Scenarios, Lifetime <- TTL, Nothing <- None,
  Sayings <- [code : Codes, of : Bodies \cup Briefings \cup {None}], Unsaid <- NoAnswer,
  time <- now, asked <- input, phase <- Phase, told <- Heard, kept <- record,
  published <- event, notified <- Notified, made <- Made

\* Transactions, the unique index, the plugin's two halves and their failures
\* together keep the promise of KeyedRequest: a handler starts only when nothing
\* fresh is stored; an event and all its matches are there at once, and once; a
\* request makes one briefing at most; the first stored answer is the only one,
\* and what is told is that, or true, or a failure.
ImplementsKeyedRequest == Promise!Spec
===============================================================================
