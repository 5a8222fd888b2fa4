-------------------------- MODULE AuthorityLifecycle --------------------------
(***************************************************************************)
(* The delegated authorities of one account: issued by the API, revoked by *)
(* requests (src/src/modules/authorities/service.ts) and by the cascade    *)
(* worker (src/src/workers/cascadeRevocation), which consumes the account  *)
(* events of Identiti at least once.                                       *)
(*                                                                         *)
(* Both revokers update a row where it is still active, which waits for    *)
(* the row's lock, and then append to the audit chain, which waits for its *)
(* one advisory lock; both locks last until the transaction ends.  A       *)
(* request does so for one row.  The cascade does so for every row it      *)
(* listed, in one transaction: it holds the chain while it waits for the   *)
(* next row, and whoever holds that row may be waiting for the chain.      *)
(* Postgres breaks such a deadlock by failing one of the two.              *)
(*                                                                         *)
(* Abstractions.  An authority is its rank in (issued_at, id), the order   *)
(* the cascade works in; rows may be inserted in any order of ranks.  The  *)
(* checks of an issuance and the signature of Identiti are one answer.     *)
(* That an authority is high-stakes does not change.                       *)
(***************************************************************************)
EXTENDS Integers, FiniteSets, Sequences

CONSTANTS
  Authorities,  \* ranks of the rows that may be issued
  HighStakes,   \* those with a money or identity scope
  Requests,     \* revocation requests
  Target,       \* [Requests -> Authorities]: the one each names
  Foreign,      \* those by a customer with another account
  Consumers,    \* replicas of the cascade worker
  Nobody,       \* no holder of a lock
  MaxEvents     \* bound: account events published

ASSUME AuthorityAssumption ==
  /\ Authorities \subseteq Nat /\ IsFiniteSet(Authorities)
  /\ HighStakes \subseteq Authorities

ASSUME RevokerAssumption ==
  /\ Target \in [Requests -> Authorities] /\ Foreign \subseteq Requests
  /\ Requests \cap Consumers = {} /\ Nobody \notin Requests \cup Consumers
  /\ MaxEvents \in Nat

VARIABLES
  token,      \* the issuance of each authority
  status,     \* delegated_authorities.status, "absent" before the insert
  revokedBy,  \* who set revoked_at, revocation_reason
  expired,    \* authorities whose expires_at has passed
  trail,      \* audit entries and outbox events of each authority
  rowLock,    \* the transaction that holds each row
  auditLock,  \* the transaction that holds the chain's advisory lock
  stage,      \* where each request is
  log,        \* identiti.account.events, the account's partition
  offset,     \* what the consumer group has committed
  handling,   \* the event each consumer handles, 0 for none
  todo,       \* rows it listed and has not come to
  took,       \* rows its transaction has revoked
  unlogged,   \* the one among them whose audit entry is not yet written
  behind      \* history: rows inserted when an event was being handled or done

authorityVars == <<token, status, revokedBy, expired, trail>>
lockVars == <<rowLock, auditLock>>
consumerVars == <<handling, todo, took, unlogged>>
vars == <<authorityVars, lockVars, stage, log, offset, consumerVars, behind>>

Revokers == Requests \cup Consumers
EventTypes == {"suspended", "downgraded", "other"}

Init ==
  /\ token = [a \in Authorities |-> "none"]
  /\ status = [a \in Authorities |-> "absent"]
  /\ revokedBy = [a \in Authorities |-> Nobody]
  /\ expired = {}
  /\ trail = [a \in Authorities |-> << >>]
  /\ rowLock = [a \in Authorities |-> Nobody] /\ auditLock = Nobody
  /\ stage = [r \in Requests |-> "new"]
  /\ log = << >> /\ offset = 0
  /\ handling = [c \in Consumers |-> 0]
  /\ todo = [c \in Consumers |-> {}] /\ took = [c \in Consumers |-> {}]
  /\ unlogged = [c \in Consumers |-> {}]
  /\ behind = {}

-------------------------------------------------------------------------------
(* Issuance.                                                               *)

\* Agent, scopes, ceilings and step-up pass, and Identiti signs; or not.
RequestToken(a) ==
  /\ token[a] = "none"
  /\ \E answer \in {"signed", "lost"} : token' = [token EXCEPT ![a] = answer]
  /\ UNCHANGED <<status, revokedBy, expired, trail, lockVars, stage, log,
                 offset, consumerVars, behind>>

\* The row, its audit entry and its event, in one transaction.
StoreAuthority(a) ==
  /\ token[a] = "signed" /\ status[a] = "absent" /\ auditLock = Nobody
  /\ status' = [status EXCEPT ![a] = "active"]
  /\ trail' = [trail EXCEPT ![a] = Append(@, "issued")]
  /\ behind' = behind \cup
       {<<i, a>> : i \in (1 .. offset) \cup ({handling[c] : c \in Consumers} \ {0})}
  /\ UNCHANGED <<token, revokedBy, expired, lockVars, stage, log, offset, consumerVars>>

\* The transaction fails: the signed token has no row.
LoseToken(a) ==
  /\ token[a] = "signed" /\ status[a] = "absent"
  /\ token' = [token EXCEPT ![a] = "lost"]
  /\ UNCHANGED <<status, revokedBy, expired, trail, lockVars, stage, log,
                 offset, consumerVars, behind>>

\* Time passes expires_at; no code writes the status expired.  What matters
\* is that it may pass before a request reads the row.
Expire(a) ==
  /\ status[a] = "active" /\ a \notin expired
  /\ expired' = expired \cup {a}
  /\ UNCHANGED <<token, status, revokedBy, trail, lockVars, stage, log,
                 offset, consumerVars, behind>>

-------------------------------------------------------------------------------
(* What a revoking transaction does to rows and locks.                     *)

\* Mutant of Revocable: the update does not ask for an active row.
RevocableAnyway(a) == status[a] # "absent"

Revocable(a) == status[a] = "active"

\* revokeActiveAuthority, the row's lock granted.
TakeRow(p, a) ==
  /\ rowLock[a] = Nobody /\ Revocable(a)
  /\ rowLock' = [rowLock EXCEPT ![a] = p]

\* Mutant of Gone: a row in use is skipped, as the polling workers skip one.
GoneOrLocked(a) == ~Revocable(a) \/ rowLock[a] # Nobody

\* The update waited for the lock and found no active row.
Gone(a) == rowLock[a] = Nobody /\ ~Revocable(a)

\* appendAuditEntry's lock; a session may take it again.
TakeChain(p) ==
  /\ auditLock \in {Nobody, p}
  /\ auditLock' = p

CommitRevocation(p, S) ==
  /\ status' = [a \in Authorities |-> IF a \in S THEN "revoked" ELSE status[a]]
  /\ revokedBy' = [a \in Authorities |-> IF a \in S THEN p ELSE revokedBy[a]]
  /\ trail' = [a \in Authorities |-> IF a \in S THEN Append(trail[a], "revoked") ELSE trail[a]]
  /\ UNCHANGED <<token, expired>>

ReleaseLocks(p) ==
  /\ rowLock' = [a \in Authorities |-> IF rowLock[a] = p THEN Nobody ELSE rowLock[a]]
  /\ auditLock' = IF auditLock = p THEN Nobody ELSE auditLock

-------------------------------------------------------------------------------
(* revokeAuthority.                                                        *)

\* 404 for what is absent or not the caller's, 409 for revoked and expired.
Rejected(r) ==
  LET a == Target[r]
  IN  status[a] # "active" \/ r \in Foreign \/ a \in expired

RejectRevocation(r) ==
  /\ stage[r] = "new" /\ Rejected(r)
  /\ stage' = [stage EXCEPT ![r] = "refused"]
  /\ UNCHANGED <<authorityVars, lockVars, log, offset, consumerVars, behind>>

\* Mutant of ReadExisting: the transaction begins with the chain's lock.
ReadUnderLock(r) ==
  /\ stage[r] = "new" /\ ~Rejected(r)
  /\ stage' = [stage EXCEPT ![r] = "read"]
  /\ TakeChain(r)
  /\ UNCHANGED <<authorityVars, rowLock, log, offset, consumerVars, behind>>

ReadExisting(r) ==
  /\ stage[r] = "new" /\ ~Rejected(r)
  /\ stage' = [stage EXCEPT ![r] = "read"]
  /\ UNCHANGED <<authorityVars, lockVars, log, offset, consumerVars, behind>>

RevokeRow(r) ==
  /\ stage[r] = "read"
  /\ TakeRow(r, Target[r])
  /\ stage' = [stage EXCEPT ![r] = "locked"]
  /\ UNCHANGED <<authorityVars, auditLock, log, offset, consumerVars, behind>>

\* Mutant of RaceLost: what another has revoked is as good as revoked.
RaceConceded(r) ==
  /\ stage[r] = "read" /\ Gone(Target[r])
  /\ stage' = [stage EXCEPT ![r] = "done"]
  /\ ReleaseLocks(r)
  /\ UNCHANGED <<authorityVars, log, offset, consumerVars, behind>>

\* Another revoker was first: 409.
RaceLost(r) ==
  /\ stage[r] = "read" /\ Gone(Target[r])
  /\ stage' = [stage EXCEPT ![r] = "refused"]
  /\ ReleaseLocks(r)
  /\ UNCHANGED <<authorityVars, log, offset, consumerVars, behind>>

LogRevocation(r) ==
  /\ stage[r] = "locked"
  /\ TakeChain(r)
  /\ stage' = [stage EXCEPT ![r] = "logged"]
  /\ UNCHANGED <<authorityVars, rowLock, log, offset, consumerVars, behind>>

FinishRevocation(r) ==
  /\ stage[r] = "logged"
  /\ CommitRevocation(r, {Target[r]})
  /\ ReleaseLocks(r)
  /\ stage' = [stage EXCEPT ![r] = "done"]
  /\ UNCHANGED <<log, offset, consumerVars, behind>>

FailRevocation(r) ==
  /\ stage[r] \in {"read", "locked", "logged"}
  /\ ReleaseLocks(r)
  /\ stage' = [stage EXCEPT ![r] = "failed"]
  /\ UNCHANGED <<authorityVars, log, offset, consumerVars, behind>>

-------------------------------------------------------------------------------
(* The cascade.                                                            *)

Publish ==
  /\ Len(log) < MaxEvents
  /\ \E type \in EventTypes : log' = Append(log, type)
  /\ UNCHANGED <<authorityVars, lockVars, stage, offset, consumerVars, behind>>

\* What an event is to revoke.
Affected(type) ==
  CASE type = "suspended" -> Authorities
    [] type = "downgraded" -> HighStakes
    [] type = "other" -> {}

\* Two consumers may hold one event, when the group is rebalanced.
Receive(c) ==
  LET i == offset + 1
  IN  /\ handling[c] = 0 /\ i =< Len(log)
      /\ handling' = [handling EXCEPT ![c] = i]
      /\ todo' = [todo EXCEPT ![c] = {a \in Affected(log[i]) : status[a] = "active"}]
      /\ UNCHANGED <<authorityVars, lockVars, stage, log, offset, took, unlogged, behind>>

\* ORDER BY issued_at DESC, id DESC.
IsNext(c, a) == a \in todo[c] /\ \A b \in todo[c] : b =< a

CascadeRow(c, a) ==
  /\ unlogged[c] = {} /\ IsNext(c, a)
  /\ TakeRow(c, a)
  /\ todo' = [todo EXCEPT ![c] = @ \ {a}]
  /\ took' = [took EXCEPT ![c] = @ \cup {a}]
  /\ unlogged' = [unlogged EXCEPT ![c] = {a}]
  /\ UNCHANGED <<authorityVars, auditLock, stage, log, offset, handling, behind>>

SkipRow(c, a) ==
  /\ unlogged[c] = {} /\ IsNext(c, a)
  /\ Gone(a)
  /\ todo' = [todo EXCEPT ![c] = @ \ {a}]
  /\ UNCHANGED <<authorityVars, lockVars, stage, log, offset, handling, took,
                 unlogged, behind>>

LogCascade(c) ==
  /\ unlogged[c] # {}
  /\ TakeChain(c)
  /\ unlogged' = [unlogged EXCEPT ![c] = {}]
  /\ UNCHANGED <<authorityVars, rowLock, stage, log, offset, handling, todo, took, behind>>

StopHandling(c) ==
  /\ handling' = [handling EXCEPT ![c] = 0]
  /\ todo' = [todo EXCEPT ![c] = {}]
  /\ took' = [took EXCEPT ![c] = {}]
  /\ unlogged' = [unlogged EXCEPT ![c] = {}]

\* Mutant of Handled: an event that revokes nothing is not acknowledged.
HandledSome(c) == handling[c] # 0 /\ todo[c] = {} /\ unlogged[c] = {} /\ took[c] # {}

Handled(c) == handling[c] # 0 /\ todo[c] = {} /\ unlogged[c] = {}

\* The offset committed is that of the event.
Consumed(i) == i

\* The transaction commits and the offset is committed, unless it was before.
FinishCascade(c) ==
  /\ Handled(c)
  /\ CommitRevocation(c, took[c]) /\ ReleaseLocks(c)
  /\ offset' = IF handling[c] > offset THEN Consumed(handling[c]) ELSE offset
  /\ StopHandling(c)
  /\ UNCHANGED <<stage, log, behind>>

\* The worker dies in between, or loses the partition: the event comes again.
FinishUnacknowledged(c) ==
  /\ Handled(c)
  /\ CommitRevocation(c, took[c]) /\ ReleaseLocks(c)
  /\ StopHandling(c)
  /\ UNCHANGED <<stage, log, offset, behind>>

FailCascade(c) ==
  /\ handling[c] # 0
  /\ ReleaseLocks(c)
  /\ StopHandling(c)
  /\ UNCHANGED <<authorityVars, stage, log, offset, behind>>

-------------------------------------------------------------------------------
(* Waiting.                                                                *)

HoldersOf(a) == {rowLock[a]} \ {Nobody}
ChainHolders == {auditLock} \ {Nobody}

\* Whom the statement a transaction is in waits for.
WaitsFor(p) ==
  IF p \in Requests
  THEN CASE stage[p] = "read"   -> HoldersOf(Target[p])
         [] stage[p] = "locked" -> ChainHolders \ {p}
         [] OTHER               -> {}
  ELSE IF unlogged[p] # {}
       THEN ChainHolders \ {p}
       ELSE UNION {HoldersOf(a) : a \in {b \in todo[p] : IsNext(p, b)}}

Deadlocked(p, q) == q \in WaitsFor(p) /\ p \in WaitsFor(q)

Fail(p) == (p \in Requests /\ FailRevocation(p)) \/ (p \in Consumers /\ FailCascade(p))

\* Postgres fails one of the two.
BreakDeadlock == \E p, q \in Revokers : Deadlocked(p, q) /\ Fail(p)

-------------------------------------------------------------------------------
Issue(a) == RequestToken(a) \/ StoreAuthority(a) \/ LoseToken(a) \/ Expire(a)

Revoke(r) ==
  \/ RejectRevocation(r) \/ ReadExisting(r) \/ RevokeRow(r) \/ RaceLost(r)
  \/ LogRevocation(r) \/ FinishRevocation(r)

Cascade(c) ==
  \/ Receive(c)
  \/ \E a \in Authorities : CascadeRow(c, a) \/ SkipRow(c, a)
  \/ LogCascade(c) \/ FinishCascade(c)

Next ==
  \/ \E a \in Authorities : Issue(a)
  \/ \E r \in Requests : Revoke(r) \/ FailRevocation(r)
  \/ Publish
  \/ \E c \in Consumers : Cascade(c) \/ FinishUnacknowledged(c) \/ FailCascade(c)
  \/ BreakDeadlock

Spec == Init /\ [][Next]_vars

\* Requests and consumers run on; a lock is granted to those who queue for
\* it in turn, so one that is free again and again is had in the end.
\* Postgres breaks deadlocks, and outages of the consumers - failures
\* outside a deadlock, lost offsets - end.
Outage(c) ==
  FinishUnacknowledged(c) \/ (FailCascade(c) /\ \A p \in Revokers : ~Deadlocked(c, p))

Fairness ==
  /\ \A r \in Requests : SF_vars(Revoke(r))
  /\ \A c \in Consumers : SF_vars(Cascade(c))
  /\ WF_vars(BreakDeadlock)
  /\ <>[][\A c \in Consumers : ~Outage(c)]_vars

FairSpec == Spec /\ Fairness

-------------------------------------------------------------------------------
(* Properties.                                                             *)

\* Columns, locks and locals have their types; no event is acknowledged
\* that was not published.
TypeOK ==
  /\ token \in [Authorities -> {"none", "signed", "lost"}]
  /\ status \in [Authorities -> {"absent", "active", "revoked"}]
  /\ revokedBy \in [Authorities -> Revokers \cup {Nobody}]
  /\ expired \subseteq Authorities
  /\ trail \in [Authorities -> Seq({"issued", "revoked"})]
  /\ rowLock \in [Authorities -> Revokers \cup {Nobody}]
  /\ auditLock \in Revokers \cup {Nobody}
  /\ stage \in [Requests -> {"new", "read", "locked", "logged", "done", "refused", "failed"}]
  /\ log \in Seq(EventTypes) /\ Len(log) =< MaxEvents
  /\ offset \in 0 .. Len(log)
  /\ handling \in [Consumers -> 0 .. Len(log)]
  /\ todo \in [Consumers -> SUBSET Authorities]
  /\ took \in [Consumers -> SUBSET Authorities]
  /\ unlogged \in [Consumers -> SUBSET Authorities]

\* However many requests and redelivered events revoke an authority, its
\* audit entries and events are those of one issuance and at most one
\* revocation, and they agree with the row.
TrailMatchesStatus ==
  \A a \in Authorities :
    \/ status[a] = "absent" /\ trail[a] = << >>
    \/ status[a] = "active" /\ trail[a] = <<"issued">>
    \/ status[a] = "revoked" /\ trail[a] = <<"issued", "revoked">>

\* A caller who is told the authority is revoked revoked it: nobody else is
\* told so, or named in the row, and no cascade takes it over.
AnsweredRevocationStands ==
  \A r \in Requests :
    stage[r] = "done" => /\ status[Target[r]] = "revoked"
                         /\ revokedBy[Target[r]] = r

\* After an event is acknowledged, an authority it should have revoked is
\* active only if its row was inserted while the event was handled or later.
CascadeMissesOnlyLateRows ==
  \A i \in 1 .. offset :
    \A a \in Affected(log[i]) : status[a] = "active" => <<i, a>> \in behind

\* A deadlock always has on one side a cascade past its first row, and on
\* the other a transaction that holds one row and waits for the chain.
\* Requests never deadlock with each other.
DeadlocksNeedCascade ==
  \A p, q \in Revokers :
    Deadlocked(p, q) =>
      \E c \in {p, q} \cap Consumers : auditLock = c /\ took[c] # {} /\ todo[c] # {}

\* The requests whose caller was told that the authority is revoked.
Told == {r \in Requests : stage[r] = "done"}

Promise == INSTANCE Revocation WITH
  Callers <- Requests, Named <- Target, System <- Consumers, told <- Told

\* Requests and cascades, with their locks, races, deadlocks and redeliveries,
\* implement Revocation: a revocation is final and has one author, who alone is
\* told of it, and what a cascade takes is revoked in one step or not at all.
ImplementsRevocation == Promise!Spec

\* Deadlocks, lost races and redeliveries notwithstanding, every event takes
\* effect.
EventsTakeEffect == \A i \in 1 .. MaxEvents : Len(log) >= i ~> offset >= i
===============================================================================
