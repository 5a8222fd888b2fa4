-------------------------------- MODULE Outbox --------------------------------
(***************************************************************************)
(* The transactional outbox (src/src/lib/kafka/outbox.ts) and the worker   *)
(* that drains it (src/src/workers/kafkaOutbox/index.ts), any number of    *)
(* replicas.  Producers insert a row in the transaction of the change it   *)
(* tells; a drainer claims a batch of due rows, commits the claim at once  *)
(* (which releases the row locks), publishes the rows one after the other  *)
(* outside any transaction, and records each outcome in a transaction of   *)
(* its own, keyed by the row's id and computed from what it claimed.       *)
(*                                                                         *)
(* The broker is external: a publish is acknowledged, is rejected, or      *)
(* fails after the broker has kept the message.                            *)
(*                                                                         *)
(* Abstractions.  A topic partition is the sequence of events in the order *)
(* of their first copy, with a count of copies that stops at two; the      *)
(* count of failed attempts stops at MaxAttempts.  Times past MaxTime      *)
(* count as MaxTime, so a retry scheduled beyond it is due there.          *)
(***************************************************************************)
EXTENDS Integers, FiniteSets, SequencesExt

CONSTANTS
  Events,       \* outbox rows that producers may insert
  Accounts,     \* partition keys
  AccountOf,    \* [Events -> Accounts]: partition_key
  Drainers,     \* replicas of the outbox worker
  Nobody,       \* the row lock is free
  BatchSize,    \* KAFKA_OUTBOX_BATCH_SIZE
  MaxAttempts,  \* MAX_OUTBOX_ATTEMPTS
  Backoff,      \* [0 .. MaxAttempts - 1 -> Nat]: RETRY_BACKOFF_MS
  MaxTime       \* bound: the clock stops here

ASSUME RowAssumption ==
  /\ AccountOf \in [Events -> Accounts] /\ IsFiniteSet(Events)
  /\ Nobody \notin Drainers

ASSUME RetryAssumption ==
  /\ BatchSize \in Nat \ {0} /\ MaxAttempts \in Nat \ {0} /\ MaxTime \in Nat
  /\ Backoff \in [0 .. MaxAttempts - 1 -> Nat]

VARIABLES
  now,         \* the clock
  status,      \* kafka_outbox.status; "absent", "inserted" until committed
  attempts,    \* kafka_outbox.attempts
  dueAt,       \* kafka_outbox.next_attempt_at
  createdAt,   \* kafka_outbox.created_at
  lockedBy,    \* holder of the row lock
  batch,       \* rows each drainer has claimed and not settled, as read
  stage,       \* where each drainer is
  topic,       \* events of each account, in order of first publication
  copies,      \* history: copies the broker keeps of an event, 2 for more
  failures,    \* history: failed attempts on an event
  shared,      \* history: events two drainers held at once
  unrecorded   \* history: events kept by the broker, unknown to the table

tableVars == <<status, attempts, dueAt, createdAt>>
workerVars == <<lockedBy, batch, stage>>
brokerVars == <<topic, copies>>
historyVars == <<failures, shared, unrecorded>>
vars == <<now, tableVars, workerVars, brokerVars, historyVars>>

Statuses == {"absent", "inserted", "pending", "delivered", "abandoned"}
Stages == {"idle", "claiming", "publishing", "acked", "failed"}
Claims == [event : Events, attempts : 0 .. MaxAttempts]
Settled == {"delivered", "abandoned"}

UpTo(limit, n) == IF n < limit THEN n ELSE limit

Init ==
  /\ now = 0
  /\ status = [e \in Events |-> "absent"]
  /\ attempts = [e \in Events |-> 0]
  /\ dueAt = [e \in Events |-> 0]
  /\ createdAt = [e \in Events |-> 0]
  /\ lockedBy = [e \in Events |-> Nobody]
  /\ batch = [d \in Drainers |-> << >>]
  /\ stage = [d \in Drainers |-> "idle"]
  /\ topic = [a \in Accounts |-> << >>]
  /\ copies = [e \in Events |-> 0]
  /\ failures = [e \in Events |-> 0]
  /\ shared = {}
  /\ unrecorded = {}

-------------------------------------------------------------------------------
(* Producers.                                                              *)

Committed == {e \in Events : status[e] \notin {"absent", "inserted"}}

\* enqueueOutboxEntry, in a business transaction that has just started.
Insert(e) ==
  /\ status[e] = "absent"
  /\ status' = [status EXCEPT ![e] = "inserted"]
  /\ dueAt' = [dueAt EXCEPT ![e] = now]
  /\ createdAt' = [createdAt EXCEPT ![e] = now]
  /\ UNCHANGED <<now, attempts, workerVars, brokerVars, historyVars>>

CommitBusiness(e) ==
  /\ status[e] = "inserted"
  /\ status' = [status EXCEPT ![e] = "pending"]
  /\ UNCHANGED <<now, attempts, dueAt, createdAt, workerVars, brokerVars, historyVars>>

RollbackBusiness(e) ==
  /\ status[e] = "inserted"
  /\ status' = [status EXCEPT ![e] = "absent"]
  /\ dueAt' = [dueAt EXCEPT ![e] = 0]
  /\ createdAt' = [createdAt EXCEPT ![e] = 0]
  /\ UNCHANGED <<now, attempts, workerVars, brokerVars, historyVars>>

-------------------------------------------------------------------------------
(* claimPendingBatch and the commit that follows it.                       *)

\* Mutant of Due: only abandoned rows are left out.
DueUnlessAbandoned(e) ==
  status[e] \in {"pending", "delivered"} /\ dueAt[e] =< now /\ lockedBy[e] = Nobody

\* FOR UPDATE SKIP LOCKED passes over rows another claim holds.
Due(e) == status[e] = "pending" /\ dueAt[e] =< now /\ lockedBy[e] = Nobody

\* ORDER BY next_attempt_at, created_at (ids leave ties open).
Precedes(e, f) ==
  dueAt[e] < dueAt[f] \/ (dueAt[e] = dueAt[f] /\ createdAt[e] < createdAt[f])

\* Mutant of FirstDue: the drainer waits for a full batch.
FullBatch(s) ==
  /\ Len(s) = BatchSize /\ \A i \in DOMAIN s : Due(s[i])
  /\ \A i, j \in DOMAIN s : i < j => ~Precedes(s[j], s[i])

FirstDue(s) ==
  /\ Len(s) = UpTo(BatchSize, Cardinality({e \in Events : Due(e)}))
  /\ \A i \in DOMAIN s : Due(s[i])
  /\ \A i, j \in DOMAIN s : i < j => ~Precedes(s[j], s[i])
  /\ \A i \in DOMAIN s, e \in Events \ ToSet(s) : Due(e) => ~Precedes(e, s[i])

\* Mutant of Claimed: the attempt is counted at the claim as well.
ClaimedCounted(e) == [event |-> e, attempts |-> UpTo(MaxAttempts, attempts[e] + 1)]

Claimed(e) == [event |-> e, attempts |-> attempts[e]]
EventsOf(d) == {batch[d][i].event : i \in DOMAIN batch[d]}

Claim(d) ==
  /\ stage[d] = "idle"
  /\ \E S \in SUBSET {e \in Events : Due(e)} : \E s \in SetToSeqs(S) :
       /\ s # << >> /\ FirstDue(s)
       /\ batch' = [batch EXCEPT ![d] = [i \in DOMAIN s |-> Claimed(s[i])]]
       /\ lockedBy' = [e \in Events |-> IF e \in S THEN d ELSE lockedBy[e]]
       /\ shared' = shared \cup (S \cap UNION {EventsOf(c) : c \in Drainers})
  /\ stage' = [stage EXCEPT ![d] = "claiming"]
  /\ UNCHANGED <<now, tableVars, brokerVars, failures, unrecorded>>

Unlocked(d) == [e \in Events |-> IF lockedBy[e] = d THEN Nobody ELSE lockedBy[e]]

CommitClaim(d) ==
  /\ stage[d] = "claiming"
  /\ stage' = [stage EXCEPT ![d] = "publishing"]
  /\ lockedBy' = Unlocked(d)
  /\ UNCHANGED <<now, tableVars, batch, brokerVars, historyVars>>

-------------------------------------------------------------------------------
(* producer.publish of the first row left in the batch.                    *)

Current(d) == Head(batch[d]).event

\* The broker keeps the message: a first copy takes its place in the topic.
Keep(e) ==
  /\ topic' = [topic EXCEPT ![AccountOf[e]] = IF copies[e] = 0 THEN Append(@, e) ELSE @]
  /\ copies' = [copies EXCEPT ![e] = UpTo(2, @ + 1)]

PublishAcked(d) ==
  /\ stage[d] = "publishing"
  /\ Keep(Current(d))
  /\ stage' = [stage EXCEPT ![d] = "acked"]
  /\ UNCHANGED <<now, tableVars, lockedBy, batch, historyVars>>

Failed(d) ==
  /\ stage' = [stage EXCEPT ![d] = "failed"]
  /\ failures' = [failures EXCEPT ![Current(d)] = UpTo(MaxAttempts, @ + 1)]

PublishRejected(d) ==
  /\ stage[d] = "publishing"
  /\ Failed(d)
  /\ UNCHANGED <<now, tableVars, lockedBy, batch, brokerVars, shared, unrecorded>>

\* The message is kept and the acknowledgement lost.
PublishUnacked(d) ==
  /\ stage[d] = "publishing"
  /\ Keep(Current(d))
  /\ Failed(d)
  /\ unrecorded' = unrecorded \cup {Current(d)}
  /\ UNCHANGED <<now, tableVars, lockedBy, batch, shared>>

-------------------------------------------------------------------------------
(* Settlement, each in a transaction of its own that waits for the row's   *)
(* lock; neither looks at the status it replaces.                          *)

NextRow(d) ==
  /\ batch' = [batch EXCEPT ![d] = Tail(@)]
  /\ stage' = [stage EXCEPT ![d] = IF Len(batch[d]) = 1 THEN "idle" ELSE "publishing"]

\* Mutant of MayMarkDelivered: the row is marked whatever publish returned.
MarkInFinally(d) == stage[d] \in {"acked", "failed"}

MayMarkDelivered(d) == stage[d] = "acked"

MarkDelivered(d) ==
  /\ MayMarkDelivered(d) /\ lockedBy[Current(d)] = Nobody
  /\ status' = [status EXCEPT ![Current(d)] = "delivered"]
  /\ NextRow(d)
  /\ UNCHANGED <<now, attempts, dueAt, createdAt, lockedBy, brokerVars, historyVars>>

\* The update's transaction fails: the catch block treats the row as one
\* whose publish failed.
MarkDeliveredFails(d) ==
  /\ stage[d] = "acked"
  /\ Failed(d)
  /\ unrecorded' = unrecorded \cup {Current(d)}
  /\ UNCHANGED <<now, tableVars, lockedBy, batch, brokerVars, shared>>

\* Mutant of Exhausted: off by one.
ExhaustedLate(n) == n > MaxAttempts

Exhausted(n) == n >= MaxAttempts

\* Mutant of RetryStatus: the retry writes its status too.
RetryAsPending(e) == "pending"

\* The update that schedules a retry leaves the status column alone.
RetryStatus(e) == status[e]

MarkFailed(d) ==
  LET e == Current(d)
      attemptsBefore == Head(batch[d]).attempts
  IN  /\ stage[d] = "failed" /\ lockedBy[e] = Nobody
      /\ attempts' = [attempts EXCEPT ![e] = attemptsBefore + 1]
      /\ \/ /\ Exhausted(attemptsBefore + 1)
            /\ status' = [status EXCEPT ![e] = "abandoned"]
            /\ UNCHANGED dueAt
         \/ /\ ~Exhausted(attemptsBefore + 1)
            /\ status' = [status EXCEPT ![e] = RetryStatus(e)]
            /\ dueAt' = [dueAt EXCEPT ![e] = UpTo(MaxTime, now + Backoff[attemptsBefore])]
      /\ NextRow(d)
      /\ UNCHANGED <<now, createdAt, lockedBy, brokerVars, historyVars>>

\* The process dies, or markFailed throws out of the tick: what is left of
\* the batch is forgotten and an open claim rolls back.
Abandon(d) ==
  /\ stage[d] # "idle"
  /\ stage' = [stage EXCEPT ![d] = "idle"]
  /\ batch' = [batch EXCEPT ![d] = << >>]
  /\ lockedBy' = Unlocked(d)
  /\ unrecorded' = unrecorded \cup {e \in Events : stage[d] = "acked" /\ e = Current(d)}
  /\ UNCHANGED <<now, tableVars, brokerVars, failures, shared>>

Tick ==
  /\ now < MaxTime
  /\ now' = now + 1
  /\ UNCHANGED <<tableVars, workerVars, brokerVars, historyVars>>

Publish(d) == PublishAcked(d) \/ PublishRejected(d) \/ PublishUnacked(d)

Next ==
  \/ \E e \in Events : Insert(e) \/ CommitBusiness(e) \/ RollbackBusiness(e)
  \/ \E d \in Drainers :
       \/ Claim(d) \/ CommitClaim(d) \/ Publish(d)
       \/ MarkDelivered(d) \/ MarkDeliveredFails(d) \/ MarkFailed(d)
       \/ Abandon(d)
  \/ Tick

Spec == Init /\ [][Next]_vars

\* Brokers are configured and the workers keep polling: the clock runs, a
\* publish settles one way or the other, an update that waits for a row lock
\* gets it in the end, and outages of the database and the process end.
Fairness ==
  /\ WF_vars(Tick)
  /\ \A d \in Drainers :
       /\ WF_vars(Claim(d)) /\ WF_vars(CommitClaim(d)) /\ WF_vars(Publish(d))
       /\ SF_vars(MarkDelivered(d)) /\ SF_vars(MarkFailed(d))
  /\ <>[][\A d \in Drainers : ~MarkDeliveredFails(d) /\ ~Abandon(d)]_vars

FairSpec == Spec /\ Fairness

-------------------------------------------------------------------------------
(* Properties.                                                             *)

\* Columns and locals have their types.  The attempts column never exceeds the
\* length of the backoff table.  That bounds what is recorded, not how often a
\* row is tried: a try cut short by a crash is not counted, and two drainers
\* that claimed a row with the same counter try it once each and count one.
TypeOK ==
  /\ now \in 0 .. MaxTime
  /\ status \in [Events -> Statuses]
  /\ attempts \in [Events -> 0 .. MaxAttempts]
  /\ dueAt \in [Events -> 0 .. MaxTime]
  /\ createdAt \in [Events -> 0 .. MaxTime]
  /\ lockedBy \in [Events -> Drainers \cup {Nobody}]
  /\ batch \in [Drainers -> Seq(Claims)]
  /\ stage \in [Drainers -> Stages]
  /\ topic \in [Accounts -> Seq(Events)]
  /\ copies \in [Events -> 0 .. 2]
  /\ failures \in [Events -> 0 .. MaxAttempts]
  /\ shared \subseteq Events /\ unrecorded \subseteq Events

Published == {e \in Events : e \in ToSet(topic[AccountOf[e]])}

\* No event is lost or invented by the two-step settlement: what the table
\* calls delivered is in the topic, and only what a business transaction
\* committed is, whatever crashes and however replicas race.
TableMatchesTopic ==
  /\ \A e \in Events : status[e] = "delivered" => e \in Published
  /\ Published \subseteq Committed

\* However stale the attempts a drainer writes, a row is never closer to
\* being abandoned than the attempts that failed on it, so none is given up
\* before its retry budget is spent.
NotAbandonedEarly ==
  \A e \in Events :
    /\ attempts[e] =< failures[e]
    /\ status[e] = "abandoned" => failures[e] = MaxAttempts

\* A second copy in the topic has one of two causes: the broker kept a copy
\* the table does not know of, or two drainers held the row at once.
DuplicatesHaveACause ==
  \A e \in Events : copies[e] > 1 => e \in shared \cup unrecorded

\* A row that is settled never becomes due again, however late a failure of
\* another replica is written.
SettledRowsStaySettled ==
  [][\A e \in Events : status[e] \in Settled => status'[e] \in Settled]_vars

\* What producers see of a row: nothing until their transaction commits.
StateOf == [e \in Events |-> IF status[e] = "inserted" THEN "absent" ELSE status[e]]

Promise == INSTANCE Delivery WITH
  Items <- Events, Budget <- MaxAttempts,
  state <- StateOf, sent <- Published, failed <- failures

\* The outbox and its drainers implement at-least-once delivery: however many
\* replicas hold a row, each step is one of an item that is attempted, settled
\* as delivered after a copy was kept, or given up with its budget spent; once
\* settled it is never pending again.
ImplementsDelivery == Promise!Spec

\* Every event that was committed is delivered or, its budget spent,
\* abandoned.
EveryEventSettles ==
  \A e \in Events : status[e] = "pending" ~> status[e] \in Settled
===============================================================================
