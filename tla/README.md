# The helpan_ai rail, specified

helpan_ai is a Fastify service over Postgres (READ COMMITTED) that lets a
customer's agent act on other "rails" under delegated authorities. Five
processes share one database (Procfile): the web API and four polling or
consuming workers. Everything that is hard about it is concurrency over that
database: requests and workers read a row in one statement, act on what they
read, and write it back in another.

This directory holds TLA+ modules of the parts that carry that logic, TLC
configurations that check them on small instances, and TLAPS proofs.
`PROJECT.json` lists components, runs, hazards, findings, theorems and, for
every definition, the source lines it models. Paths below are relative to the
repository (`src/...` is its TypeScript source).

## 1. Inventory

| Component | Source | State it keeps | Operations |
| --- | --- | --- | --- |
| Action dispatch | `modules/actions` | `actions` rows (pending, completed, failed), unique `(idempotency_key, app_id)` | `dispatchAction`: validate, Phase A, Phase B, Phase C |
| Authority validation and usage | `modules/authorities`, `lib/periodWindow` | `delegated_authorities.status`, `authority_usage` | `validateAuthority`, `incrementAuthorityUsage` |
| HTTP dispatcher | `lib/dispatchers` | an abort timer per call | `dispatch` |
| Action reaper | `workers/actionReaper` | row locks of its batch | `reapStaleActions` |
| Audit chain | `lib/auditWriter`, `scripts/verifyAuditChain` | `audit_log`, one advisory lock | `appendAuditEntry`, the verifier |
| Kafka outbox | `lib/kafka/outbox`, `workers/kafkaOutbox` | `kafka_outbox` (pending, delivered, abandoned; attempts; due time) | `enqueueOutboxEntry`, `drainOutboxOnce` |
| Webhook delivery | `workers/webhookDelivery` | `webhook_deliveries` | `processBatch` |
| Cascade revocation | `workers/cascadeRevocation` | consumer offsets | revoke or suspend everything of an account |
| Authority issuance and revocation | `modules/authorities`, `lib/stepUpVerifier`, `lib/identitiSigner` | `delegated_authorities` | check, have Identiti sign, store; revoke by customer or operator |
| Event ingestion | `modules/events`, `lib/matching` | `events_ingested`, `briefing_matches`, deliveries | ingest, match, fan out |
| Briefings | `modules/briefings` | `briefings.status` | create, patch, revoke |
| Idempotency | vendored `idempotencyPlugin`, `plugins/idempotencyStore` | `idempotency_keys` | look up before the handler, store after it |
| Operator administration | `modules/operator*`, `modules/oauthScopes` | `agents`, `safety_policies`, `oauth_scopes` | register and change an agent, put a policy, define a scope |
| Lists | `list*` of briefings, authorities, actions and audit | a cursor, held by the caller | one page after a cursor |
| Authentication and context | `app.ts`, `plugins`, vendored `authPlugin` | `app_credentials`, read only | customer token, signature, idempotency key, in this order |
| Secrets, configuration, health, scripts | `lib/secretsEnvelope`, `config`, `scripts` | none shared | one-off or stateless |

**How they interact.** A request handler never holds a transaction across a
network call. `dispatchAction` reads the authority and its usage with no lock;
Phase A then inserts the action row, its audit entry, the usage increment and
an outbox event in one transaction; Phase B is the outbound call, with nothing
open; Phase C records the outcome, an audit entry and an event in a second
transaction. If the process dies in between, only the reaper will settle the
row. Every transaction that changes anything appends to the one audit chain,
under one advisory lock, so all components meet there. Every event passes
through the outbox to Kafka, where consumers (the cascade worker among them)
may see it twice. The cascade writes the authorities dispatch reads. An
ingested event lists the briefings customers change at that moment, and what it
matches becomes webhook deliveries and outbox rows. An issuance reads the agents
and scopes operators change, then waits for Identiti over HTTP before it
inserts its row. Every changing request runs between the idempotency plugin's
lookup and its store, in which nothing is held.

**What is hard**, and what makes each part correct:

* *Dispatch and reaper*: Phase C does not look at the status it replaces, and
  the reaper does not know whether the handler lives. The row and its audit
  trail must still tell one story, settle exactly once per actor, keep what a
  caller was told, and never stay pending.
* *Authority and usage*: the check and the increment are in different
  transactions and different readings of the clock. Increments must not be
  lost; the extent to which a limit can be passed must be known.
* *Revocation*: it must stop every request not yet past the validator.
* *Audit chain*: the writer sorts by a timestamp fixed before the lock is
  granted. Each entry must chain to the latest one; how drift can appear on an
  untampered log must be known.
* *Outbox*: claims are released before the rows are published, results are
  written from stale copies, and publishes fail after the broker has kept the
  message. Nothing may be lost, given up early, resurrected or sent twice
  without a cause, and everything must settle.
* *Webhook delivery*: the same claim without even a transaction, and no timeout.
* *Cascade and lifecycle*: lock order between authority rows and the audit
  lock, redelivered events, authorities issued behind a cascade's back.
* *Idempotency and ingestion*: a lookup before and a store after a handler,
  the store on any answer, and an index behind it. An event may be matched once
  only, with briefings that were live while it was handled; a caller must be
  told what is true, and a retry must be answered with the first answer.
* *Briefings*: their audit entries come from an unlocked read. The trail must
  explain the status, and where it cannot, the race must be named.
* *Matching*: windows across midnight in another zone, baskets, rounding, on
  intents and payloads that no schema looks into. A match must be what the intent
  asks for; what one briefing can do to the event of all others must be known.
* *Issuance and administration*: catalogue rows read without a lock, a signature
  that cannot be taken back. What an authority permits must stay within the
  catalogue, a caller must know what an answer says of its token and its row, a
  policy must not lose a change.
* *Lists*: a cursor with less precision than the column. No row may come twice;
  which rows can be skipped must be known.

## 2. Modules

### ActionDispatch

Models `dispatchAction`, `validateAuthority`, the usage counter, the
dispatcher's timer, the reaper and the effect of a revocation.

| State | Code |
| --- | --- |
| `authStatus`, `usage`, `row`, `createdAt`, `lockedBy` | columns and row locks |
| `trail`, `events` | the action's audit entries and outbox rows, in order |
| `phase`, `input`, `window`, `ok` | what a handler carries from one await to the next |
| `seen`, `base`, `inFlight` | history, read by properties only |

| Action | Code |
| --- | --- |
| `ReadAuthority`, `ReadUsage` | the two reads of `validateAuthority`, each followed by its rejections |
| `CommitPhaseA`, `ConflictPhaseA` | the first transaction, and its unique violation |
| `ReceiveHeaders`, `NoAnswer`, `ReadBody` | the outbound call; the timer covers the first two only |
| `BeginPhaseC`, `CommitPhaseC` | the second transaction, from the moment it holds the row |
| `Crash` | the handler is lost at any await, its open transaction rolled back |
| `ReaperClaim`, `ReaperCommit`, `ReaperAbort` | one batch, one transaction |
| `RevokeAuthority`, `Tick` | the rest of the system, the clock |

Phase A is one step: it locks before it reads nothing that another transaction
can change except through the unique index and the usage upsert, both atomic.
Phase C is two, since a reaper can hold the row when it starts and its lock is
visible to the reaper's SKIP LOCKED. `Tick` may not pass an abort timer that is
due, since that callback runs at once; nothing bounds how long a body takes.

`Settlement` is the abstract specification: what an action is to its caller, to
the auditor and to the consumers of its events, with no handlers, reapers,
timers or crashes. An action is opened, concluded at most once, with an outcome
that row, log and events all say, and meanwhile may be written off, which only
the log tells. `ActionDispatch!ImplementsSettlement` states that dispatch
and reaper implement it; the mapping (`Promise`) reads `concluded` off the
answered requests, everything else off a variable of the same meaning.

### AuditChain

Models `appendAuditEntry` in an arbitrary business transaction (`Begin`, then
any number of `LockChain`, `ReadLatest`, `InsertEntry`, then `Commit` or
`Abort`), the table in its `(created_at, id)` order, and the verifier as the
predicate `Verifies`. `created_at` is the transaction's start (`startedAt`);
an id is a millisecond and a random tag. A hash is the number of the insertion:
the hash function is taken to be injective, so that only pointers can be wrong.

### Outbox

Models the producers' insert, `claimPendingBatch`, the commit that releases
the claim, the loop of publishes, `markDelivered`, `markFailed`, and crashes.
`batch` holds the rows as the drainer read them, so that the attempt counter it
writes can be stale. The broker (`Keep`) is external: it keeps a message and
acknowledges it, keeps it and does not, or rejects it.

`Delivery` is the abstract specification: items that are offered, attempted and
settled, with no replicas, claims, batches or clock. `Outbox!ImplementsDelivery`
states that the outbox implements it. The mapping (`Promise`) reads `state` off
the status column (`StateOf`: an uncommitted row is absent), `sent` off the
topic and `failed` off the counted failures; claims, commits and crashes
stutter. It is checked in a run and proved.

### WebhookDelivery

Models the insert by event ingestion (`Enqueue`), the claim of `processBatch`
(`Claim`), the post (`PostAccepted`, `PostRefused`, `PostUnacknowledged`) and
the update that settles a row (`RecordDelivered`, `RecordFailure`), any of which
may be cut short (`Lose`). `status`, `attempts` and `dueAt` are the columns;
`batch` holds the claimed rows as read, `startedAt` the one clock reading from
which the code computes every due time of the batch. The claim's
`FOR UPDATE SKIP LOCKED` runs outside a transaction, so its locks are gone when
it returns and are not part of the state. Receivers are external.

The workers implement the same `Delivery` (`ImplementsDelivery`): `sent` is what
receivers took in (`Accepted`). A settled row that a slow worker settles again is
allowed there, with a cause: a `GiveUp` needs the budget spent and a `Deliver`
needs a copy out, whatever the row says.

### AuthorityLifecycle

Models the authorities of one account: `issueAuthority` (`RequestToken`,
`StoreAuthority`, `LoseToken`), `revokeAuthority` (`RejectRevocation`,
`ReadExisting`, `RevokeRow`, `RaceLost`, `LogRevocation`, `FinishRevocation`,
`FailRevocation`) and `handleAccountEvent` under its Kafka consumer (`Receive`,
then per row `CascadeRow` or `SkipRow` and `LogCascade`, then `FinishCascade`,
`FinishUnacknowledged` or `FailCascade`). Each statement that can wait is an
action of its own whose guard is the lock, so that waiting is a state:
`WaitsFor` reads off whom a transaction waits for, and `BreakDeadlock` is
Postgres failing one side of a cycle. `rowLock` holds uncommitted updates as
well: a locked row is changed for others when its transaction commits. An
authority is a number, its rank in the `(issued_at, id)` order the cascade works
through; a row may be inserted after one of higher rank, as a transaction may
commit after one that began later. `issueAuthority` holds no lock anybody waits
for when it reaches the audit lock, so its transaction is one step.

`Revocation` is what an authority is to those who rely on it, with no locks,
deadlocks, events or redeliveries: issued once, revoked once and for good by one
party, who alone is told of it; what the system revokes together is revoked in
one step or not at all. `ImplementsRevocation` states that requests and cascades
implement it; only a commit is seen there, everything before it stutters.

### EventIngestion

Models the write endpoints of events and briefings under the idempotency plugin.

| State | Code |
| --- | --- |
| `record` | `idempotency_keys`, by method, path and key |
| `event`, `matches` | committed rows of `events_ingested` and `briefing_matches` |
| `inserter` | the open transaction whose row holds a key of the unique index |
| `briefing`, `trail` | the rows of `briefings` and their audit entries |
| `stage`, `answer`, `found`, `seen` | what a request carries from one await to the next |
| `arrived`, `before`, `wasLive`, `raced` | history, read by properties only |

| Action | Code |
| --- | --- |
| `Lookup` | the plugin's preHandler: no key, a miss, a conflict or a replay |
| `FindPrior`, `InsertEvent`, `DuplicateEvent`, `MatchBriefings`, `CommitEvent` | the statements of `ingestEvent` |
| `CreateBriefing`, `PatchBriefing`, `ReadForRevoke`, `RevokeBriefing`, `BriefingMissing` | the handlers of `/v1/briefings` |
| `FailHandler`, `Crash` | rolled back and answered with an error, or not answered |
| `StoreAnswer`, `StoreFails` | the plugin's onSend; `ON CONFLICT DO NOTHING` |

`FindPrior` answers an event whose key has a row with success and a match count
of 0, although `events/repo.ts:170` speaks of replaying the 202; the model
keeps the body of an answer and not its counts. A lookup of the plugin that
itself fails leaves no trace and is a request that was never sent.

`KeyedRequest` is what a write endpoint under a key is to its callers and to the
customers it notifies, with no transactions, indexes or plugins. A request is
refused without a key (`Refuse`), told what is kept for its key while that is
fresh (`Recall`), or handled (`Handle`); handled, it may have its effect, whole
and at most once (`Publish`, `Make`), and then is told something true, which is
kept unless something is kept already (`Answer`), told of a failure that is not
kept (`Fail`), or not told (`Lose`). Its effect may last though it is told of a
failure, and the first kept answer may be that failure: the code does both.
`ImplementsKeyedRequest` states that `EventIngestion` implements it. The mapping
(`Promise`) reads `kept` off `record`, `published` off `event`, `notified` off
`matches`, `made` off the creators of briefings; an answer is `told` when its
request is done. Nobody is ever told 204, which is not a `Saying`: DELETE's success
cannot be stored, so `Fail` is what its caller sees. Patches and revocations
change what only the audit trail tells, and are not seen there but for their
answers.

### Matching

The engine of `lib/matching` as operators: one per matcher (`KlokdShift`,
`FreshArrivals`, `BasketRefill`, `WeeklyPlan`, `RoundUpOffer`,
`GoalAcceleration`, `Generic`), each a sequence of checks with outcomes. The
first check that fails or throws settles the verdict (`Settled`). `Evaluate` takes
the next briefing of the list, `StoreMatches` is what becomes of the event's
transaction (`fate`). `Asks` is the reference definition the checks are compared
with: it speaks of sets and of going round a clock where the code loops and
compares.

`intent` (`briefings/schemas.ts:44`) and `payload` (`events/schemas.ts:21`) are
objects of which nothing else is required, so the inputs are any JSON objects
(`CaseAssumption`, `JsonAssumption`); a value is a tag and a content, and a field
that is missing is `Undefined`. What follows is modelled:

* A check can throw: on a list entry that is null or no string where a field or a
  method of it is used (`Unreadable`, `MenuOutcome`), on an unknown time zone, on
  a value with no conversion to text (`WithinTimeWindow`). Nothing catches it
  before the transaction is rolled back.
* `DOMAIN_MATCHERS[domain]` and `line.sku in byKey` find what every object inherits
  (`Inherited`). A domain such as `constructor` makes a match without a briefing
  id (a `stray` hit), whose insert fails the event; one such as `valueOf` throws. A
  SKU such as `constructor` is approved at any price, and an entry whose SKU is
  `__proto__` changes what the table inherits.
* A debit of `1e999` is parsed as `Infinity`; what is left of it is not a number, and
  no comparison the code makes rejects it.

`Misread` names the inputs (such SKUs, such a debit) for which a match is not what
was asked for, `Spoils` those that cost the event. Numbers are otherwise integers.
How dates, zones, texts and distances are read is left to constants.

### Administration, Access and Issuance

`Administration` models the operators' changes, each as its statements: an agent
is read (`ReadAgent`) and updated with its audit entries (`UpdateAgent`); a
policy is read by id, then by app, then inserted or replaced (`ReadPolicy`,
`ReadPolicyOfApp`, `InsertPolicy`, `ReplacePolicy`); a scope is read and inserted
(`ReadScope`, `InsertScope`). `agent`, `policy`, `scope` are the tables, `kept`
the row a request has read; `given` and `overtaken` are history.

`Access` holds the hooks every route stands behind, in the order of `app.ts`, as
operators on one request: `CustomerJwt`, `Hmac`, `Keyed`, and `requireScope`
(`Holds`). They change no state. A customer's token on a path that takes either
makes the signature hook stand down; a path that takes only one refuses the
other.

`Issuance` composes the two with `issueAuthority`: `Authenticate`, `CheckAgent`
and `CheckScopes` (the reads, and every rejection in its order), `Sign` and
`RefuseToSign` (Identiti, whose answer may be lost after it signed),
`StoreAuthority` (the commit) and `AnswerCreated` (the answer, once the plugin has
stored it); `LoseAuthority` and `LoseAnswer` are what can go wrong before and after
the commit: an internal error, also when the store of the answer fails, or a
process that dies. `CheckScopes` is one step although it reads
a scope at a time, since scopes are only ever inserted. The comment at
`identitiSigner.ts:90-92` calls the jti unique per issuance and stable across
retries; an issuance mints a new one every time it runs, so a retry whose first
answer was lost has new claims. `AuthorityLifecycle` takes over when the row is
there, and abstracts these checks.

### Listing

Models the four paged lists as one: rows whose `created` is the start of a
transaction that commits later (`Insert`, `Commit`), a status that changes
(`ChangeStatus`), and a caller that walks (`Page`, `PageOfBadCursor`). The clock
counts microseconds, the cursor milliseconds (`ToMilliseconds`). A bad cursor is
refused, but the list of actions starts again. What ORDER BY and LIMIT return is
`Newest`: each selected row at its place, the number of rows not after it.

### Where modules meet

`ActionDispatch` abstracts the outbox to the sequence of events inserted
(`events`) and the chain to the sequence of entries of one action (`trail`);
`Outbox` and `AuditChain` say what becomes of them. The advisory lock that
serialises all appends to the chain is a variable of `AuthorityLifecycle`, where
a transaction waits for a row while it holds it, and is left out of
`ActionDispatch`: there a
transaction takes it after its row lock and holds nothing else another
transaction of that module waits for, so it only delays steps.

## 3. Runs

| Run | Shows |
| --- | --- |
| `dispatch` | one story of row, trail and events (`Settlement` is implemented), exact usage, the only way over a limit, answers that last, revocation, and no action that stays pending |
| `audit_safety` | what the advisory lock guarantees, three sessions |
| `audit_drift` | *violated*: the verifier reports drift on an untampered log |
| `outbox_safety` | nothing lost, given up early or duplicated without a cause; `Delivery` is implemented |
| `outbox_liveness` | every event settles though drainers overwrite each other |
| `webhook` | what the table may claim, when a row's record goes back, that `Delivery` is implemented, and that a worker stuck at a receiver delays nobody else |
| `authority_lifecycle` | `Revocation` is implemented: one audit entry per revocation, answers that stand; what a cascade can miss, which deadlocks exist, and that every account event takes effect |
| `event_ingestion` | `KeyedRequest` is implemented; an event is matched once, with live briefings; answers are true; retries are replayed; statuses are audited |
| `matching` | every matcher agrees with a definition of what its intent asks for; which briefings spoil an event for the others |
| `issuance` | authorities within the catalogue whatever operators do meanwhile; tokens and rows; agents audited; policies as they were put |
| `listing` | pages in order; only rows of the cursor's millisecond are missed |
| `listing_ties` | *violated*: rows created at the cursor's own instant are not told apart by id |

The two violated properties each state a sentence of the repository's comments;
`findings` quotes it and the code that differs. Passing properties state what
holds instead of other sentences the code does not keep:

* `helpan-ai-delegated-authority-contract-v1.md:120` calls `per_period_limit_minor` an
  aggregated maximum; concurrent requests pass it, and by
  `OnlyStaleReadsOverspend` only through one admitted on a figure that was stale
  by its Phase A.
* `actionReaper/index.ts:23-25` says any dispatch in flight resolves long before
  the reaper's window; the abort timer is cleared before the body is read, so one
  may not. `SettlementTrail` says that a late Phase C then leaves a `reaper.fail`
  before its own entry.
* event-bus-contract-v1.md:26 promises the order of an account's events; the
  drainer goes on after a failed publish. `Delivery` promises no order.
* `operatorSafetyPolicies/service.ts:134-135` promises a conflict instead of an
  error of the database; two creations that race end in one, and
  `PoliciesAreWhatWasPut` says that it costs nothing but the status code.
* `familyDiscoveryMatchers.ts:168-171` says that an unrecognised SKU rejects the whole
  tick; a SKU every object inherits is taken for recognised. `engine.ts:181-183`
  says that a malformed briefing returns null rather than throwing; one whose
  domain is set and whose fields are malformed throws. `MatchesMeanTheIntent` and
  `LossesHaveACause` name both (`Misread`, `Spoils`).
* The OpenAPI document answers DELETE of a briefing with 204. `response_body` is
  NOT NULL, so the store of that answer fails and so does the request, after the
  revocation has committed; `RetriesAreReplayed` leaves DELETE out.

`OnlyLateRowsDrift` and `ForksStartLate` say that drift and forks need a row
inserted after one it sorts before, `OnlySharedRowsGoBack` when a delivered
webhook can become abandoned, `CascadeMissesOnlyLateRows` when an authority
survives a suspension, and `DeadlocksNeedCascade` which two transactions can
deadlock: it is a statement about lock order that a revocation taking the two
locks the other way round would break. `StatusIsAudited`, `AgentsAreAudited` and
`PoliciesAreWhatWasPut` name the rows they except: those a request overtook
between another's read and its write.

**Bounds.** *Dispatch*: with one authority, two requests produce every pairwise
race; limits 2 per call and 3 per period make the amounts 2 + 2 overspend, 3
refused; a window of one tick and an expiry at tick 2 put requests on both sides
of each; `Horizon` stops inserts early enough that the reaper's threshold
(`StaleAfter` = 2, above the timeout of 1) is passed before `MaxTime`. The
reaper sees one- and two-row batches. Keys are interchangeable and requests too,
so `MCSpec` starts from one of the inputs that differ by nothing else (a
symmetry declaration is unsound for liveness). *Audit*: three transactions are
the fewest in which a late row can come between two others; two entries a
transaction and two tags make out-of-order ids inside a batch; two ticks share a
millisecond. *Outbox*: two events of one account and two drainers; `MaxAttempts`
is 2 (safety) and 3 (liveness) against 7 in the code, so that exhaustion from
fresh and stale counters is reached; counts of copies stop at 2 and of failures
at `MaxAttempts`, beyond which no property distinguishes them. A retry due past
`MaxTime` is due at `MaxTime`, or the end of time would keep it from its
drainer. *Webhooks*: as the outbox, with batches of two, so that a worker can
stop in the middle of one. *Authorities*: two rows are the fewest a cascade can
deadlock over, one of them high-stakes; both requests name that one, so that
they race each other and each cascade; two consumers hold one event at once, and
a lost offset delivers it again. One event at a time: a second kind of event
lists a subset of the same rows. *Ingestion*: three requests under one key, so
that a retry comes with and without the same body, races the first attempt, or
races two changes of a briefing; answers expire after one tick, and there is
one, so that a request comes before and after; a briefing that exists and one
that does not. *Matching*: windows that touch, contain and cross midnight, in
two zones; payloads against intents of each domain whose fields are met, missed
by one, missing, null or of another type where the code tells them apart, in
lists of at most two entries, one more for dishes; lists of up to three
briefings, each of which may spoil the event. *Issuance*: two requests, each of
which may be lost before or after its signature and its commit, beside three of
operators, which is two that race and one that comes between; scopes with and
without ceilings, one high-stakes, one deprecated; two names and three statuses
for the agent, so that a changed field can be told from a kept one; and a
request for each way the hooks can refuse it. *Listing*: four rows, one or two
to a page, two ticks to a millisecond, so that a page can end inside a
millisecond and rows remain in it and after it.

**Deadlock.** A finished dispatch, a drained outbox, a set of requests that has been
answered, a list walked to its end rightly stop, so those configurations do not
ask for a next step; the audit runs do.

**Fairness.** `dispatch`: the clock runs; a call that has not had its
headers answers, is aborted or dies (the timer sees to it); an open Phase C
commits or is lost; each reaper keeps polling (`setTimeout` loop) and its batch
is not rolled back for ever, hence strong fairness of `ReaperCommit`. A handler
owes nothing else: it may crash anywhere and a body may never end.
`outbox_liveness`: workers poll, publishes return, an update waiting for a row
lock gets it in the end (strong fairness: the lock comes and goes with other
claims), and outages end. Without the last, a row could be claimed and dropped
for ever, which is what the code does when its database is down.
`webhook` asks this of one worker only; the other may wait for a receiver for
ever, as a call without a timeout can. `authority_lifecycle`: requests and
consumers take their next step; it is strong fairness, since Postgres grants a
lock in the order it was asked for, so a waiter is not passed over for ever;
deadlocks are broken; a consumer's other failures and lost offsets end. With weak
fairness a redelivered cascade could take the chain's lock again and again
before the transaction it keeps deadlocking with.

## 4. Proofs

`ActionDispatch_proofs` proves, for any sets of requests, authorities, keys,
amounts, reapers and any limits and clock bounds:

* `TypeCorrect`: `[]TypeOK`.
* `SettlementCorrect`: `[](SettlementTrail /\ RowDiscipline)`. Neither is
  inductive alone: that the reaper may append `reaper.fail` to a row needs the
  row to be pending when it commits, which `RowDiscipline` says of every row a
  reaper holds; that Phase C may append its entry needs the row it finds to be
  pending or reaped, and `RowDiscipline` rests in turn on the trail of a pending
  row. With `TypeOK` the conjunction is inductive.
* `AcknowledgedOutcomeCorrect`: from the same invariant, a done request's row is
  not pending, so no reaper can hold it or claim it.
* `SpendingCorrect`: by `ValidatedOnce`, an admitted request's amount fits on top
  of what it was shown; at Phase A it is added to `base`; if the two figures
  agree the limit holds after the step, otherwise the request is the witness.
* `RevocationCorrect`: the action property, from `ValidatedOnce`.
* `EventsCorrect` (`EventsMirrorTrail`): a handler appends the same entry to both
  and a reaper to the trail only, so counting the handler's entries up to each
  position gives the position in the events (`MirrorGrows`).
* `UsageCorrect` (`UsageIsChargedSum`): each Phase A adds one request to the
  charged ones and its amount to the counter. The sum is a fold over a set, which
  takes elements in an order nobody chose; that the order does not matter is
  an induction over finite sets. The library's induction theorems take
  an operator, so it is proved by descent: of the finite sets for which a fold
  does not exist or depends on the order, one would be smallest (`SmallestOf`).
* `RefinesSettlement` (`ImplementsSettlement`): Phase A maps to `Open`, the end of
  Phase C to `Conclude` (`HandlerPromise`), a reaper's commit to `WriteOff` of its
  batch (`ReaperPromise`); every other step leaves what is mapped alone
  (`UnseenOutside`). That what is written off is pending, and that what
  is concluded was opened, come from `SettlementInv`. No type invariant is left to
  the runs of this module, of `AuditChain`, of `WebhookDelivery` or of
  `AuthorityLifecycle`: `TypeCorrect` proves it.

The assumptions used are the ASSUMEs of `ActionDispatch` on the constants:
amounts and limits are naturals or a sentinel, times are naturals, the timeout
is below the reaper's window, lock holders are distinct. All are evaluated by
TLC in the runs.

`AuditChain_proofs` proves, for any number of sessions, entries, ticks and
tags, `TypeCorrect`, `ChainedToLatest` (`PreviousWasLatest`), `DriftCorrect`
(`OnlyLateRowsDrift`) and `ForksCorrect` (`ForksStartLate`). The invariant says
that only the lock's holder has uncommitted rows (`OneAppender`), that hashes
are numbered in order of insertion (`Numbered`), that what the holder read is
still the latest of all rows (`HeadIsLatest`), and `PreviousWasLatest`. Drift and
forks then follow from a state that satisfies it, without looking at steps.

`Outbox_proofs` proves, for any events, drainers, batch sizes and backoff
tables, `TypeCorrect`, `NothingLostOrInvented` (`TableMatchesTopic`),
`BudgetRespected` (`NotAbandonedEarly`) and `SettlementIsFinal` (the action
property `SettledRowsStaySettled`). None is inductive alone, since a row is
settled from what a drainer remembers: the invariant adds that the remembered
attempts never exceed the failures that happened (`CopiesSound`), that an event
with a counted copy is in the topic (`CopiesInTopic`), and that a row that is not
settled has an attempt left (`AttemptsLeft`).

`RefinesDelivery` proves `Spec => ImplementsDelivery` from the same invariant:
under the mapping every step of the outbox is an `Offer`, an `Attempt`, a
`Deliver` or a `GiveUp`, or changes nothing. That `markDelivered` maps to
`Deliver` needs `CopiesInTopic`, that giving up maps to `GiveUp` needs
`CopiesSound`. `DuplicatesExplained` (`DuplicatesHaveACause`) adds `OnceInv`: a row
that only one drainer ever held, and whose kept copies were all recorded, has at
most one copy, and the row or its drainer knows of it.

`WebhookDelivery_proofs` proves, for any deliveries, workers, batch sizes and retry
tables, `TypeCorrect`, `Truthful` (`TableIsTruthful`), `RecordsGoForward` (the action
property `OnlySharedRowsGoBack`) and `RefinesDelivery`. The invariant says what
a copy still says of the table: of any row, that the attempts it counts did
fail; of a row no two workers held at once, everything (`CopiesSound`), with
`SoleHolder` for those. `RowsSound` is what each status claims, and `AcceptedOnce`
says that a receiver has a second copy only of a row that was shared or
whose table was not told.

`AuthorityLifecycle_proofs` proves, for any authorities, requests, consumers and
events, `TypeCorrect`, `OneRevocation` (`TrailMatchesStatus`), `AnswersStand`
(`AnsweredRevocationStands`), `CascadeIsComplete` (`CascadeMissesOnlyLateRows`) and
`OnlyCascadesDeadlock` (`DeadlocksNeedCascade`). All rests on who holds which lock.
`RowsHeld`: a row is locked exactly by the request that is revoking it or the
cascade that took it, and is active while it is locked, so that one of them
logs it. `ChainHeld`: the chain is locked by a request about to commit, or by a
cascade that has taken a row. `ListedOrLate`: what an event under way should
revoke is listed, taken, revoked, or was inserted late. For the deadlocks, a
request that holds the chain waits for nothing, so a cycle of waits must pass
through a cascade that holds the chain and wants a row. `RefinesRevocation`
(`ImplementsRevocation`) needs of the invariant that what a commit revokes is locked
by its transaction, hence active.

`Issuance_proofs` proves, for any catalogue, requests and names, of `Issuance`:
`WithinCatalogue` (`IssuedUnderTheCatalogue`) and `TokensMatchRows` (`TokensAndRows`);
and of the operators' changes it is composed with: `AgentsAudited`
(`AgentsAreAudited`) and `PoliciesKept` (`PoliciesAreWhatWasPut`). `IssueInv` says what
each stage has established (`RequestSound`), of what was signed and of what the
caller was told too. It stays true while a request waits for Identiti because
rows of scopes are inserted and never changed. `TokensMatchRows` says what a
caller may conclude: told of an authority, there is its row; a row has a token
that agrees with it, and its caller was told of it or of no outcome; a token
without a row was lost by Identiti or by the rail, and then the code says so or
says nothing. `AdminInv` says of the operators' requests what each has read
(`RequestHeld`: rows are never removed, so it is there to be written), that a trail leads to its row
(`AgentSound`), that a policy is alone for its app (`OnePerApp`, `CreatedApart`) and
keeps each field unless overtaken (`FieldsAsGiven`).

`EventIngestion_proofs` proves `MatchingCorrect` (`[]MatchedOnceWhileLive`) for
any requests, keys, bodies, briefings and lifetimes. `IngestInv` adds to a type
invariant (`Shape`): a handler runs under a key (`Keyed`); a key is held exactly
by the transaction that inserts it, and then has no row (`IndexHeld`); a key
without a row has no matches (`RowsFirst`). So one commit writes the matches of a
key. The other half is that no briefing becomes live unnoticed by a request under
way (`LiveNoted`): what is listed was live for it (`FoundLive`).

`AnswersTrue` (`AnswersAreTrue`) and `RetriesReplayed` (`RetriesAreReplayed`) rest on
`AnswerInv`: what an answer speaks of never goes away (the row of an event,
the creator of a briefing, the first record of a key), a success is recorded
before it is given (`Recorded`), and what is stored is as true as what is given
(`Told`). `StatusAudited` (`StatusIsAudited`) rests on `TrailInv`.

`RefinesKeyedRequest` (`ImplementsKeyedRequest`): `CommitEvent` maps to `Publish`,
`CreateBriefing` to `Make` (`WorkPromise`), `Lookup` to `Refuse`, `Recall` or
`Handle` (`LookupPromise`), `StoreAnswer` to `Answer`, a store that fails under an
answer of failure to `Fail`, `Crash` to `Lose` (`EndPromise`); a store that fails
under another answer makes it a failure first, which is not seen, like every other
statement of a handler. That an event is published once needs `IndexHeld`,
that its notices are exactly what was found needs `RowsFirst`, that what is told is
true needs `Told`. `PromiseInv` adds what `IngestInv` and `AnswerInv` do not say:
an answer is one that can be told, or 204; who has made a briefing is done with
it; and what a transaction has found is concerned by its event.

The same module proves, of the engine, `MatchingMeansIntent` (`MatchesMeanTheIntent`)
and `MatchingLossesHaveACause` (`LossesHaveACause`) as theorems of `EngineSpec`, which
shares no variable with the endpoint's specification. Of the inputs only what the
assumptions of `Matching` say is used: that payloads and intents are JSON
objects, that a value without a text is a list or an object, that minutes of a day
are minutes of a day. The tables of dates, zones, distances and inherited names
are arbitrary.

* `EngineInv` says that the hits are the briefings whose verdict was a match, each
  once and in order, and what the worst verdict makes of the event. The step is
  easy; the content of the theorems is a fact about operators, `JudgedIntent`: the
  checks of a domain, in their order and up to the first that fails or throws,
  come to what `Asks` says unless the input is misread, and a throw has a cause
  that `Spoils` names (`Judged`, with one lemma per matcher). Each check answers one
  part of the question (`Decides`), and `OutcomeIs` makes of such answers the
  verdict on the whole.
* *Windows.* The code splits at midnight; `InsideWindow` goes round the clock from the
  start of the window. `RoundTheClock` says that these are the same minutes.
* *Baskets.* `ByKeyIs` and `EntryIs`: the ceiling found for a SKU is that of the last
  entry that names it, when the SKU is not inherited and no entry changes what is
  (`Plain`). That a line throws needs neither (`JudgedLines`).
* *Round-ups.* `MissingIs`: the unit less the remainder is the least amount that
  makes a debit round, when there is a remainder.

`Listing_proofs` proves, for any rows, page sizes and ratio of the clock to the
cursor, `PagesInOrder` (`PagesAreInOrder`) and `OnlyTiesAreMissed`
(`OnlyRowsOfTheCursorsMillisecondAreMissed`). `WalkInv` says that the rows shown are in
order and the caller's own, that the cursor is the last of them rounded down, and
that a row that fitted throughout is shown, still to come, or was passed over by
the end of a page in its millisecond (`Accounted`). The lemmas it needs: the
places of a finite set of rows are a bijection with its size (`Places`), and
rounding down moves a time by less than a millisecond (`Rounded`).

**Only model-checked.** Liveness under fairness, which needs ENABLED and is beyond
the prover: `EveryActionSettles`, `EveryEventSettles`, `EveryDeliverySettles`,
`EventsTakeEffect`. Every other property of a passing run is a theorem. The two
violated properties are false. That the matching engine is what `MatchBriefings` of
`EventIngestion` uses is not stated: there `Wants` is any relation of
intents and payloads, so its theorems hold whatever the engine says.

## 5. Not modelled

Endpoints that read one row by its id decide nothing that a list does not.
The cryptography of tokens, signatures and the audit hash is
abstracted to its verdict, the secrets envelope and key rotation are left out.
Row-level security restates the account filter of the queries that `Listing`
has. The JSON schemas of requests keep bodies with missing or mistyped fields from
the handlers, so no model has such inputs, except the two fields no schema looks
into, an intent and a payload (`Matching`); `config/env.ts`, the health probes, the seed,
migration and rewrapping scripts run once, in sequence, and share no state with
the rail. Of the Kafka client only the outcomes of a publish and of a
consumed message matter. Payload formats of events and audit entries are
abstracted to what distinguishes them. The event bus contract also names
consumers the code does not have (status events of other rails, consent and
expiry events); there is nothing to model.

## 6. Plan

What the components have in common each proves for itself: that a copy of a
claimed row is sound is said in `Outbox_proofs` and in `WebhookDelivery_proofs`,
that audit entries are appended in three modules. A module for each of the two
would say it once.

New modules keep to the style of these: parameters as CONSTANTS with named
assumptions, one action per operation, and recursive functions for recursion.
