---------------------------- MODULE ActionDispatch ----------------------------
(***************************************************************************)
(* POST /v1/actions/dispatch, the authority it spends under, and the       *)
(* worker that settles what a crash leaves behind:                         *)
(*   - dispatchAction (src/src/modules/actions/service.ts): validation     *)
(*     outside any transaction, Phase A (row, audit entry, usage, outbox   *)
(*     event in one transaction), Phase B (the outbound HTTP call), Phase  *)
(*     C (terminal status, audit entry, outbox event in one transaction);  *)
(*   - validateAuthority and the usage counter (modules/authorities);      *)
(*   - the HTTP dispatcher's timer (lib/dispatchers/httpDispatcher.ts);    *)
(*   - the action reaper, any number of replicas (workers/actionReaper).   *)
(*                                                                         *)
(* Every request runs in its own async handler, so each database round     *)
(* trip and each network wait is a step of its own, and a request may be   *)
(* lost at any of them (process crash, failed transaction).                *)
(*                                                                         *)
(* Abstractions.  An authority carries the one scope the operation needs,  *)
(* so usage is indexed by authority and window.  A request whose own input *)
(* is bad (undecodable token, wrong signature, uncovered scope, foreign    *)
(* account) leaves no trace and is the same as no request.  A transaction  *)
(* that takes its row locks and commits without reading anything another   *)
(* one can change is one step.  Time is counted in ticks of one clock that *)
(* the API hosts, the workers and Postgres share.                          *)
(***************************************************************************)
EXTENDS Integers, Sequences, FiniteSets, FiniteSetsExt

CONSTANTS
  Requests,         \* dispatch calls, each with the id of the row it may insert
  Authorities,      \* delegated authorities (with their covering scope)
  Keys,             \* (idempotency_key, app_id) pairs
  Amounts,          \* amount_minor values a caller may send, NoAmount for none
  NoAmount,         \* amount_minor omitted
  NoLimit,          \* a scope without amount_limit / per_period_limit
  AmountLimit,      \* [Authorities -> Nat or NoLimit]: amount_limit_minor
  PeriodLimit,      \* [Authorities -> Nat or NoLimit]: per_period_limit_minor
  ExpiresAt,        \* [Authorities -> Nat]: expires_at
  WindowLength,     \* ticks in one usage window
  DispatchTimeout,  \* ticks before the dispatcher's abort timer fires
  StaleAfter,       \* REAPER_STALE_AFTER_SECONDS, in ticks
  BatchSize,        \* REAPER_BATCH_SIZE
  Reapers,          \* replicas of the reaper process
  Horizon,          \* bound: no row is inserted after this tick
  MaxTime,          \* bound: the clock stops here
  Api, Nobody       \* row-lock holders other than a reaper

\* Amounts are non-negative integers or the sentinel, and so are limits.
ASSUME InputAssumption ==
  /\ Amounts \subseteq Nat \cup {NoAmount}
  /\ NoAmount \notin Nat /\ NoLimit \notin Nat
  /\ AmountLimit \in [Authorities -> Nat \cup {NoLimit}]
  /\ PeriodLimit \in [Authorities -> Nat \cup {NoLimit}]
  /\ ExpiresAt \in [Authorities -> Nat]

\* The reaper's window is configured well above the dispatcher's timeout
\* (15 s against a minimum of 30 s, 600 s by default).
ASSUME TimingAssumption ==
  /\ WindowLength \in Nat \ {0}
  /\ DispatchTimeout \in Nat \ {0}
  /\ StaleAfter \in Nat /\ DispatchTimeout < StaleAfter
  /\ BatchSize \in Nat \ {0}
  /\ Horizon \in Nat /\ MaxTime \in Nat

ASSUME HolderAssumption ==
  /\ Api \notin Reapers /\ Nobody \notin Reapers /\ Api # Nobody

VARIABLES
  now,         \* the clock
  authStatus,  \* delegated_authorities.status
  usage,       \* authority_usage: [minor, calls] per authority and window
  row,         \* actions.status, "none" before the insert
  createdAt,   \* actions.created_at, also when Phase B started
  trail,       \* audit entries of the action, in chain order
  events,      \* outbox entries of the action, in insertion order
  lockedBy,    \* holder of the action row's lock
  phase,       \* where the handler of each request is
  input,       \* what each request asked for
  window,      \* periodWindowKey the handler computed last
  ok,          \* whether the target rail's answer was 2xx
  seen,        \* history: usage the validator read for the request
  base,        \* history: usage the request's increment was added to
  inFlight     \* history: requests already past validation when revoked

dbVars == <<authStatus, usage, row, createdAt, trail, events, lockedBy>>
handlerVars == <<phase, input, window, ok>>
historyVars == <<seen, base, inFlight>>
vars == <<now, dbVars, handlerVars, historyVars>>

Inputs == [authority : Authorities, amount : Amounts, key : Keys]
WindowAt(t) == t \div WindowLength
Windows == 0 .. WindowAt(MaxTime)

\* Phases in which the outcome of the outbound call is still to be recorded.
Dispatching == {"sent", "reading", "answered", "settling"}
Running == {"metering", "admitted"} \cup Dispatching
Phases == {"idle", "refused", "done", "crashed"} \cup Running
Statuses == {"none", "pending", "completed", "failed"}
Entries == {"action.dispatch", "action.complete", "action.fail", "reaper.fail"}

\* Mutant of OutcomeStatus: a reaper's verdict is kept.
OutcomeUnlessReaped(r) ==
  IF row[r] = "failed" \/ ~ok[r] THEN "failed" ELSE "completed"

\* Terminal status and audit entry for the answer the rail gave.
OutcomeStatus(r) == IF ok[r] THEN "completed" ELSE "failed"
OutcomeEntry(r) == IF ok[r] THEN "action.complete" ELSE "action.fail"

-------------------------------------------------------------------------------
Init ==
  /\ now = 0
  /\ authStatus = [a \in Authorities |-> "active"]
  /\ usage = [a \in Authorities |-> [w \in Windows |-> [minor |-> 0, calls |-> 0]]]
  /\ row = [r \in Requests |-> "none"]
  /\ createdAt = [r \in Requests |-> 0]
  /\ trail = [r \in Requests |-> << >>]
  /\ events = [r \in Requests |-> << >>]
  /\ lockedBy = [r \in Requests |-> Nobody]
  /\ phase = [r \in Requests |-> "idle"]
  /\ input \in [Requests -> Inputs]
  /\ window = [r \in Requests |-> 0]
  /\ ok = [r \in Requests |-> FALSE]
  /\ seen = [r \in Requests |-> 0]
  /\ base = [r \in Requests |-> 0]
  /\ inFlight = [a \in Authorities |-> {}]

-------------------------------------------------------------------------------
(* Validation: the authority row is read, then (another round trip) the    *)
(* usage of the current window.  Nothing is locked.                        *)

Spent(a, w) == usage[a][w].minor
Charge(r) == IF input[r].amount = NoAmount THEN 0 ELSE input[r].amount

\* Mutant of Live: the status of the row is not looked at.
LiveIgnoringStatus(a) == now < ExpiresAt[a]

\* The authority refuses the request outright: revoked, expired, or the
\* amount is over the per-call limit.
Live(a) == authStatus[a] = "active" /\ now < ExpiresAt[a]
OverAmountLimit(r) ==
  LET limit == AmountLimit[input[r].authority]
  IN  limit # NoLimit /\ input[r].amount # NoAmount /\ input[r].amount > limit
Refusable(r) == ~Live(input[r].authority) \/ OverAmountLimit(r)

\* The period limit is looked at only when the caller sent an amount.
Metered(r) ==
  PeriodLimit[input[r].authority] # NoLimit /\ input[r].amount # NoAmount

ReadAuthority(r) ==
  /\ phase[r] = "idle"
  /\ \/ Refusable(r) /\ phase' = [phase EXCEPT ![r] = "refused"]
     \/ ~Refusable(r) /\ Metered(r) /\ phase' = [phase EXCEPT ![r] = "metering"]
     \/ ~Refusable(r) /\ ~Metered(r) /\ phase' = [phase EXCEPT ![r] = "admitted"]
  /\ window' = [window EXCEPT ![r] = WindowAt(now)]
  /\ UNCHANGED <<now, dbVars, input, ok, historyVars>>

\* Mutant of WithinPeriodLimit: the amount alone is compared.
AmountWithinPeriodLimit(r) == Charge(r) =< PeriodLimit[input[r].authority]

WithinPeriodLimit(r) ==
  LET a == input[r].authority
  IN  Spent(a, window[r]) + Charge(r) =< PeriodLimit[a]

\* The read answers for the validator's window; the handler then computes
\* the window it will charge from a clock reading of its own.
ReadUsage(r) ==
  /\ phase[r] = "metering"
  /\ \/ ~WithinPeriodLimit(r) /\ phase' = [phase EXCEPT ![r] = "refused"]
     \/ WithinPeriodLimit(r) /\ phase' = [phase EXCEPT ![r] = "admitted"]
  /\ seen' = [seen EXCEPT ![r] = Spent(input[r].authority, window[r])]
  /\ window' = [window EXCEPT ![r] = WindowAt(now)]
  /\ UNCHANGED <<now, dbVars, input, ok, base, inFlight>>

-------------------------------------------------------------------------------
(* Outbox entries are inserted in the transaction of the change they tell. *)

\* Mutant of Enqueue: one event per action id.
EnqueueOnce(r, entry) ==
  events' = [events EXCEPT ![r] = IF @ = << >> THEN << entry >> ELSE @]

Enqueue(r, entry) == events' = [events EXCEPT ![r] = Append(@, entry)]

-------------------------------------------------------------------------------
(* Phase A.  actions carries a unique index on (idempotency_key, app_id):  *)
(* a second insert under one key raises and the transaction rolls back.    *)

KeyTaken(r) ==
  \E q \in Requests : row[q] # "none" /\ input[q].key = input[r].key

\* Mutant of AddUsage: the upsert overwrites.
OverwriteUsage(a, w, amount) ==
  usage' = [usage EXCEPT ![a][w] = [minor |-> amount, calls |-> @.calls + 1]]

AddUsage(a, w, amount) ==
  usage' = [usage EXCEPT ![a][w] =
              [minor |-> @.minor + amount, calls |-> @.calls + 1]]

CommitPhaseA(r) ==
  LET a == input[r].authority
  IN  /\ phase[r] = "admitted" /\ now =< Horizon
      /\ ~KeyTaken(r)
      /\ row' = [row EXCEPT ![r] = "pending"]
      /\ createdAt' = [createdAt EXCEPT ![r] = now]
      /\ trail' = [trail EXCEPT ![r] = Append(@, "action.dispatch")]
      /\ Enqueue(r, "action.dispatch")
      /\ AddUsage(a, window[r], Charge(r))
      /\ base' = [base EXCEPT ![r] = Spent(a, window[r])]
      /\ phase' = [phase EXCEPT ![r] = "sent"]
      /\ UNCHANGED <<now, authStatus, lockedBy, input, window, ok, seen, inFlight>>

ConflictPhaseA(r) ==
  /\ phase[r] = "admitted" /\ KeyTaken(r)
  /\ phase' = [phase EXCEPT ![r] = "refused"]
  /\ UNCHANGED <<now, dbVars, input, window, ok, historyVars>>

-------------------------------------------------------------------------------
(* Phase B.  The abort timer covers the call up to the response headers;   *)
(* it is cleared before the body is read.                                  *)

TimerExpired(r) == phase[r] = "sent" /\ now >= createdAt[r] + DispatchTimeout

\* Headers arrived; 2xx or not is all that decides the outcome.
ReceiveHeaders(r) ==
  /\ phase[r] = "sent"
  /\ phase' = [phase EXCEPT ![r] = "reading"]
  /\ \E success \in BOOLEAN : ok' = [ok EXCEPT ![r] = success]
  /\ UNCHANGED <<now, dbVars, input, window, historyVars>>

\* Unreachable at any time, or aborted by the timer.
NoAnswer(r) ==
  /\ phase[r] = "sent"
  /\ phase' = [phase EXCEPT ![r] = "answered"]
  /\ ok' = [ok EXCEPT ![r] = FALSE]
  /\ UNCHANGED <<now, dbVars, input, window, historyVars>>

\* res.json() resolves or rejects, whenever it does; a body that does not
\* parse changes no outcome.
ReadBody(r) ==
  /\ phase[r] = "reading"
  /\ phase' = [phase EXCEPT ![r] = "answered"]
  /\ UNCHANGED <<now, dbVars, input, window, ok, historyVars>>

-------------------------------------------------------------------------------
(* Phase C.  UPDATE ... WHERE id = actionId takes the row's lock (waiting  *)
(* for a reaper that holds it) and does not look at the status it replaces. *)

BeginPhaseC(r) ==
  /\ phase[r] = "answered" /\ lockedBy[r] = Nobody
  /\ phase' = [phase EXCEPT ![r] = "settling"]
  /\ lockedBy' = [lockedBy EXCEPT ![r] = Api]
  /\ UNCHANGED <<now, authStatus, usage, row, createdAt, trail, events,
                 input, window, ok, historyVars>>

CommitPhaseC(r) ==
  /\ phase[r] = "settling"
  /\ row' = [row EXCEPT ![r] = OutcomeStatus(r)]
  /\ trail' = [trail EXCEPT ![r] = Append(@, OutcomeEntry(r))]
  /\ Enqueue(r, OutcomeEntry(r))
  /\ lockedBy' = [lockedBy EXCEPT ![r] = Nobody]
  /\ phase' = [phase EXCEPT ![r] = "done"]
  /\ UNCHANGED <<now, authStatus, usage, createdAt, input, window, ok, historyVars>>

\* The handler is lost: its process dies or a transaction of its fails and
\* the error propagates.  An open transaction rolls back.
Crash(r) ==
  /\ phase[r] \in Running
  /\ phase' = [phase EXCEPT ![r] = "crashed"]
  /\ lockedBy' = [lockedBy EXCEPT ![r] = IF phase[r] = "settling" THEN Nobody ELSE @]
  /\ UNCHANGED <<now, authStatus, usage, row, createdAt, trail, events,
                 input, window, ok, historyVars>>

-------------------------------------------------------------------------------
(* The reaper: one transaction per batch.  SELECT ... FOR UPDATE SKIP      *)
(* LOCKED holds the batch until the transaction ends.                      *)

\* Mutant of Stale: the scan forgets the status filter.
StaleInAnyStatus(r) == row[r] # "none" /\ createdAt[r] + StaleAfter < now

Stale(r) == row[r] = "pending" /\ createdAt[r] + StaleAfter < now
Claimable == {r \in Requests : Stale(r) /\ lockedBy[r] = Nobody}
Held(w) == {r \in Requests : lockedBy[r] = w}

\* Mutant of OldestBatch: the worker waits for a full batch.
FullBatch(S) == S \subseteq Claimable /\ Cardinality(S) = BatchSize

\* ORDER BY created_at, id LIMIT BatchSize (ids leave ties open).
OldestBatch(S) ==
  /\ S \subseteq Claimable /\ S # {}
  /\ Cardinality(S) =< BatchSize
  /\ Cardinality(S) = BatchSize \/ S = Claimable
  /\ \A r \in S, q \in Claimable \ S : createdAt[r] =< createdAt[q]

ReaperClaim(w) ==
  /\ Held(w) = {}
  /\ \E S \in SUBSET Claimable :
       /\ OldestBatch(S)
       /\ lockedBy' = [r \in Requests |-> IF r \in S THEN w ELSE lockedBy[r]]
  /\ UNCHANGED <<now, authStatus, usage, row, createdAt, trail, events,
                 handlerVars, historyVars>>

\* markActionFailed and an action.fail entry by the system actor for each
\* row of the batch.  No outbox entry is written.
ReaperCommit(w) ==
  /\ Held(w) # {}
  /\ row' = [r \in Requests |-> IF r \in Held(w) THEN "failed" ELSE row[r]]
  /\ trail' = [r \in Requests |->
                 IF r \in Held(w) THEN Append(trail[r], "reaper.fail") ELSE trail[r]]
  /\ lockedBy' = [r \in Requests |-> IF r \in Held(w) THEN Nobody ELSE lockedBy[r]]
  /\ UNCHANGED <<now, authStatus, usage, createdAt, events, handlerVars, historyVars>>

\* Any error rolls the whole batch back; so does the death of the worker.
ReaperAbort(w) ==
  /\ Held(w) # {}
  /\ lockedBy' = [r \in Requests |-> IF r \in Held(w) THEN Nobody ELSE lockedBy[r]]
  /\ UNCHANGED <<now, authStatus, usage, row, createdAt, trail, events,
                 handlerVars, historyVars>>

-------------------------------------------------------------------------------
(* Environment: revocation (customer, operator or cascade) and the clock.  *)

RevokeAuthority(a) ==
  /\ authStatus[a] = "active"
  /\ authStatus' = [authStatus EXCEPT ![a] = "revoked"]
  /\ inFlight' = [inFlight EXCEPT ![a] =
       {r \in Requests : input[r].authority = a /\ phase[r] \in {"metering", "admitted"}}]
  /\ UNCHANGED <<now, usage, row, createdAt, trail, events, lockedBy,
                 handlerVars, seen, base>>

\* Time does not run past a timer that is due: its callback runs first.
Tick ==
  /\ now < MaxTime
  /\ \A r \in Requests : ~TimerExpired(r)
  /\ now' = now + 1
  /\ UNCHANGED <<dbVars, handlerVars, historyVars>>

Handle(r) ==
  \/ ReadAuthority(r) \/ ReadUsage(r)
  \/ CommitPhaseA(r) \/ ConflictPhaseA(r)
  \/ ReceiveHeaders(r) \/ NoAnswer(r) \/ ReadBody(r)
  \/ BeginPhaseC(r) \/ CommitPhaseC(r)
  \/ Crash(r)

Reap(w) == ReaperClaim(w) \/ ReaperCommit(w) \/ ReaperAbort(w)

Next ==
  \/ \E r \in Requests : Handle(r)
  \/ \E w \in Reapers : Reap(w)
  \/ \E a \in Authorities : RevokeAuthority(a)
  \/ Tick

Spec == Init /\ [][Next]_vars

\* What the deployment does provide.  The clock runs.  A running outbound
\* call answers, times out or dies with its process; a transaction that
\* holds a row ends, by commit or when its session is lost.  Each reaper
\* keeps polling, and its batch is not rolled back for ever.
Fairness ==
  /\ WF_vars(Tick)
  /\ \A r \in Requests :
       /\ WF_vars(ReceiveHeaders(r) \/ NoAnswer(r) \/ (phase[r] = "sent" /\ Crash(r)))
       /\ WF_vars(CommitPhaseC(r) \/ (phase[r] = "settling" /\ Crash(r)))
  /\ \A w \in Reapers :
       /\ WF_vars(ReaperClaim(w))
       /\ SF_vars(ReaperCommit(w))

FairSpec == Spec /\ Fairness

-------------------------------------------------------------------------------
(* Properties.                                                             *)

\* Every variable has the type its column or local has.
TypeOK ==
  /\ now \in 0 .. MaxTime
  /\ authStatus \in [Authorities -> {"active", "revoked"}]
  /\ usage \in [Authorities -> [Windows -> [minor : Nat, calls : Nat]]]
  /\ row \in [Requests -> Statuses]
  /\ createdAt \in [Requests -> 0 .. MaxTime]
  /\ trail \in [Requests -> Seq(Entries)]
  /\ events \in [Requests -> Seq(Entries)]
  /\ lockedBy \in [Requests -> Reapers \cup {Api, Nobody}]
  /\ phase \in [Requests -> Phases]
  /\ input \in [Requests -> Inputs]
  /\ window \in [Requests -> Windows]
  /\ ok \in [Requests -> BOOLEAN]
  /\ seen \in [Requests -> Nat]
  /\ base \in [Requests -> Nat]
  /\ inFlight \in [Authorities -> SUBSET Requests]

\* The status of a row and its audit entries always tell one story, however
\* handlers, crashes and reaper replicas interleave: a row is dispatched
\* once, reaped at most once and never after its own outcome, and only a
\* reaper's verdict is ever overwritten.
SettlementTrail ==
  \A r \in Requests :
    /\ row[r] = "none" => trail[r] = << >>
    /\ row[r] = "pending" => trail[r] = << "action.dispatch" >>
    /\ row[r] = "completed" =>
         trail[r] \in {<< "action.dispatch", "action.complete" >>,
                       << "action.dispatch", "reaper.fail", "action.complete" >>}
    /\ row[r] = "failed" =>
         trail[r] \in {<< "action.dispatch", "action.fail" >>,
                       << "action.dispatch", "reaper.fail" >>,
                       << "action.dispatch", "reaper.fail", "action.fail" >>}

\* The places in a trail of what the handler did, up to place n.
ByHandler(es) == {m \in DOMAIN es : es[m] # "reaper.fail"}
ByHandlerUpTo(es, n) == {m \in ByHandler(es) : m =< n}

\* Consumers of helpan.action.events learn, in order, exactly what the audit
\* trail says the handler did; the reaper's settlement is the one change of
\* status they are not told of.
EventsMirrorTrail ==
  \A r \in Requests :
    LET told == ByHandler(trail[r])
    IN  /\ Len(events[r]) = Cardinality(told)
        /\ \A n \in told :
             events[r][Cardinality(ByHandlerUpTo(trail[r], n))] = trail[r][n]

\* The rows whose amount was charged to authority a in window w.
Charged(a, w) ==
  {r \in Requests : row[r] # "none" /\ input[r].authority = a /\ window[r] = w}

\* No concurrent increment is lost and none is reversed by a failure, a
\* crash or a settlement: the counter is the sum over the rows inserted.
UsageIsChargedSum ==
  \A a \in Authorities, w \in Windows :
    usage[a][w] = [minor |-> MapThenSumSet(Charge, Charged(a, w)),
                   calls |-> Cardinality(Charged(a, w))]

\* The one way over a period limit: some charged request was admitted on a
\* usage figure that another request (or a new window) made stale before
\* its Phase A.  Requests that do not overlap so keep the limit.
OnlyStaleReadsOverspend ==
  \A a \in Authorities, w \in Windows :
    PeriodLimit[a] # NoLimit /\ Spent(a, w) > PeriodLimit[a] =>
      \E r \in Charged(a, w) : Metered(r) /\ seen[r] # base[r]

\* A revocation lets through no request that had not already passed the
\* validator when it committed.
RevocationStopsNewDispatches ==
  [][\A r \in Requests :
       LET a == input[r].authority
       IN  row[r] = "none" /\ row'[r] # "none" /\ authStatus[a] = "revoked"
             => r \in inFlight[a]]_vars

\* What the caller was told in the response stays the row's status for good:
\* no reaper replica, however late, overwrites an acknowledged outcome.
AcknowledgedOutcomeIsDurable ==
  \A r \in Requests : phase[r] = "done" => row[r] = OutcomeStatus(r)

\* The requests whose caller has been answered with an outcome.
Answered == {r \in Requests : phase[r] = "done"}

Promise == INSTANCE Settlement WITH
  Actions <- Requests, status <- row, log <- trail, told <- events,
  concluded <- Answered

\* Handlers, timers, crashes, locks and replicas of the reaper together keep
\* the promise of Settlement: each step opens an action, concludes one that was
\* not concluded, writes off some that are pending, or is not seen.
ImplementsSettlement == Promise!Spec

\* Whatever dies, no action stays pending: the handler or a reaper settles it.
EveryActionSettles ==
  \A r \in Requests :
    row[r] = "pending" ~> row[r] \in {"completed", "failed"}
===============================================================================
