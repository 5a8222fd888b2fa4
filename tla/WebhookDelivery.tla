---------------------------- MODULE WebhookDelivery ----------------------------
(***************************************************************************)
(* The webhook worker (src/src/workers/webhookDelivery), any number of     *)
(* replicas draining the table of migration 0001.  A worker reads its      *)
(* clock once, claims a batch of due rows, posts them one after the other  *)
(* and updates each row by id from what the claim read.                    *)
(*                                                                         *)
(* The claim says FOR UPDATE SKIP LOCKED but runs outside a transaction:   *)
(* its locks end with the statement, so they are not part of the state.    *)
(* The post has no timeout: a receiver may keep a worker waiting for ever. *)
(*                                                                         *)
(* Receivers are external: one accepts a delivery and answers 2xx, refuses *)
(* it, or takes it in while the answer is lost or is not a 2xx.            *)
(*                                                                         *)
(* Abstractions.  Copies a receiver took in are counted up to two, failed  *)
(* attempts up to MaxAttempts.  Times past MaxTime count as MaxTime.       *)
(***************************************************************************)
EXTENDS Integers, FiniteSets, SequencesExt

CONSTANTS
  Deliveries,   \* rows that ingestion may insert
  Workers,      \* replicas of the webhook worker
  Responsive,   \* those whose receivers always answer (liveness only)
  BatchSize,    \* WEBHOOK_DELIVERY_BATCH_SIZE
  MaxAttempts,  \* MAX_ATTEMPTS
  Backoff,      \* [1 .. MaxAttempts - 1 -> Nat]: RETRY_BACKOFF_SECONDS
  MaxTime       \* bound: the clock stops here

ASSUME WorkerAssumption == IsFiniteSet(Deliveries) /\ Responsive \subseteq Workers

ASSUME RetryAssumption ==
  /\ BatchSize \in Nat \ {0} /\ MaxAttempts \in Nat \ {0} /\ MaxTime \in Nat
  /\ Backoff \in [1 .. MaxAttempts - 1 -> Nat]

VARIABLES
  now,        \* the clock
  status,     \* webhook_deliveries.status, "absent" before the insert
  attempts,   \* webhook_deliveries.attempt_count
  dueAt,      \* webhook_deliveries.next_attempt_at
  batch,      \* rows each worker has claimed and not settled, as read
  startedAt,  \* the clock reading of each worker's batch
  stage,      \* where each worker is
  accepted,   \* history: copies the receiver took in, 2 for more
  failures,   \* history: failed attempts on a row
  shared,     \* history: rows two workers held at once
  unrecorded  \* history: rows taken in without the table being told

rowVars == <<status, attempts, dueAt>>
workerVars == <<batch, startedAt, stage>>
historyVars == <<accepted, failures, shared, unrecorded>>
vars == <<now, rowVars, workerVars, historyVars>>

Statuses == {"absent", "pending", "delivered", "abandoned"}
Stages == {"idle", "posting", "accepted", "failed"}
Copies == [delivery : Deliveries, attempts : 0 .. MaxAttempts]

UpTo(limit, n) == IF n < limit THEN n ELSE limit

Init ==
  /\ now = 0
  /\ status = [e \in Deliveries |-> "absent"]
  /\ attempts = [e \in Deliveries |-> 0]
  /\ dueAt = [e \in Deliveries |-> 0]
  /\ batch = [w \in Workers |-> << >>]
  /\ startedAt = [w \in Workers |-> 0]
  /\ stage = [w \in Workers |-> "idle"]
  /\ accepted = [e \in Deliveries |-> 0]
  /\ failures = [e \in Deliveries |-> 0]
  /\ shared = {} /\ unrecorded = {}

-------------------------------------------------------------------------------
\* enqueueWebhookDelivery: due at once, visible when the ingest commits.
Enqueue(e) ==
  /\ status[e] = "absent"
  /\ status' = [status EXCEPT ![e] = "pending"]
  /\ dueAt' = [dueAt EXCEPT ![e] = now]
  /\ UNCHANGED <<now, attempts, workerVars, historyVars>>

-------------------------------------------------------------------------------
(* The claim.                                                              *)

Held(w) == {batch[w][i].delivery : i \in DOMAIN batch[w]}
HeldByAny == UNION {Held(w) : w \in Workers}

\* Mutants of Due: delivered rows are due too; a claim keeps its locks
\* until the batch is over.
DueUnlessAbandoned(e) == status[e] \in {"pending", "delivered"} /\ dueAt[e] =< now
DueUnheld(e) == status[e] = "pending" /\ dueAt[e] =< now /\ e \notin HeldByAny

Due(e) == status[e] = "pending" /\ dueAt[e] =< now

\* ORDER BY next_attempt_at LIMIT BatchSize.
FirstDue(s) ==
  /\ Len(s) = UpTo(BatchSize, Cardinality({e \in Deliveries : Due(e)}))
  /\ \A i \in DOMAIN s : Due(s[i])
  /\ \A i, j \in DOMAIN s : i < j => dueAt[s[i]] =< dueAt[s[j]]
  /\ \A i \in DOMAIN s, e \in Deliveries \ ToSet(s) : Due(e) => dueAt[s[i]] =< dueAt[e]

Claimed(e) == [delivery |-> e, attempts |-> attempts[e]]

Claim(w) ==
  /\ stage[w] = "idle"
  /\ \E S \in SUBSET {e \in Deliveries : Due(e)} : \E s \in SetToSeqs(S) :
       /\ s # << >> /\ FirstDue(s)
       /\ batch' = [batch EXCEPT ![w] = [i \in DOMAIN s |-> Claimed(s[i])]]
       /\ shared' = shared \cup (S \cap HeldByAny)
  /\ startedAt' = [startedAt EXCEPT ![w] = now]
  /\ stage' = [stage EXCEPT ![w] = "posting"]
  /\ UNCHANGED <<now, rowVars, accepted, failures, unrecorded>>

-------------------------------------------------------------------------------
(* attemptDelivery, of the first row left in the batch.                    *)

Current(w) == Head(batch[w]).delivery

TakenIn(e) == accepted' = [accepted EXCEPT ![e] = UpTo(2, @ + 1)]

PostAccepted(w) ==
  /\ stage[w] = "posting"
  /\ TakenIn(Current(w))
  /\ stage' = [stage EXCEPT ![w] = "accepted"]
  /\ UNCHANGED <<now, rowVars, batch, startedAt, failures, shared, unrecorded>>

Failed(w) ==
  /\ stage' = [stage EXCEPT ![w] = "failed"]
  /\ failures' = [failures EXCEPT ![Current(w)] = UpTo(MaxAttempts, @ + 1)]

PostRefused(w) ==
  /\ stage[w] = "posting"
  /\ Failed(w)
  /\ UNCHANGED <<now, rowVars, batch, startedAt, accepted, shared, unrecorded>>

PostUnacknowledged(w) ==
  /\ stage[w] = "posting"
  /\ TakenIn(Current(w)) /\ Failed(w)
  /\ unrecorded' = unrecorded \cup {Current(w)}
  /\ UNCHANGED <<now, rowVars, batch, startedAt, shared>>

-------------------------------------------------------------------------------
(* The update that settles the row: by id, whatever its status has become. *)

NextRow(w) ==
  /\ batch' = [batch EXCEPT ![w] = Tail(@)]
  /\ stage' = [stage EXCEPT ![w] = IF Len(batch[w]) = 1 THEN "idle" ELSE "posting"]
  /\ startedAt' = [startedAt EXCEPT ![w] = IF Len(batch[w]) = 1 THEN 0 ELSE @]

\* Mutant of Succeeded: any answer will do.
Answered(w) == stage[w] \in {"accepted", "failed"}

Succeeded(w) == stage[w] = "accepted"

RecordDelivered(w) ==
  /\ Succeeded(w)
  /\ status' = [status EXCEPT ![Current(w)] = "delivered"]
  /\ attempts' = [attempts EXCEPT ![Current(w)] = Head(batch[w]).attempts + 1]
  /\ NextRow(w)
  /\ UNCHANGED <<now, dueAt, historyVars>>

\* Mutant of GivesUp: the last delay of the table is never used.
GivesUpEarly(n) == n >= MaxAttempts - 1

\* nextBackoffMs(n) = null.
GivesUp(n) == n >= MaxAttempts

\* RETRY_BACKOFF_SECONDS[n - 1], or the first delay where the table has none.
BackoffAfter(n) == IF n \in DOMAIN Backoff THEN Backoff[n] ELSE Backoff[1]

\* The retry leaves the status alone; its delay counts from the batch's start.
RecordFailure(w) ==
  LET e == Current(w)
      n == Head(batch[w]).attempts + 1
  IN  /\ stage[w] = "failed"
      /\ attempts' = [attempts EXCEPT ![e] = n]
      /\ \/ /\ GivesUp(n)
            /\ status' = [status EXCEPT ![e] = "abandoned"]
            /\ UNCHANGED dueAt
         \/ /\ ~GivesUp(n)
            /\ dueAt' = [dueAt EXCEPT ![e] = UpTo(MaxTime, startedAt[w] + BackoffAfter(n))]
            /\ UNCHANGED status
      /\ NextRow(w)
      /\ UNCHANGED <<now, historyVars>>

\* The process dies, or an update throws out of the batch: what is left of
\* the batch is forgotten.
Lose(w) ==
  /\ stage[w] # "idle"
  /\ stage' = [stage EXCEPT ![w] = "idle"]
  /\ batch' = [batch EXCEPT ![w] = << >>]
  /\ startedAt' = [startedAt EXCEPT ![w] = 0]
  /\ unrecorded' = unrecorded \cup {e \in Deliveries : stage[w] = "accepted" /\ e = Current(w)}
  /\ UNCHANGED <<now, rowVars, accepted, failures, shared>>

Tick ==
  /\ now < MaxTime
  /\ now' = now + 1
  /\ UNCHANGED <<rowVars, workerVars, historyVars>>

Post(w) == PostAccepted(w) \/ PostRefused(w) \/ PostUnacknowledged(w)

Next ==
  \/ \E e \in Deliveries : Enqueue(e)
  \/ \E w \in Workers :
       Claim(w) \/ Post(w) \/ RecordDelivered(w) \/ RecordFailure(w) \/ Lose(w)
  \/ Tick

Spec == Init /\ [][Next]_vars

\* The clock runs; the workers of Responsive keep polling, their posts are
\* answered and their database and process outages end.  Of the others
\* nothing is asked: each may wait for a receiver for ever.
Fairness ==
  /\ WF_vars(Tick)
  /\ \A w \in Responsive :
       /\ WF_vars(Claim(w)) /\ WF_vars(Post(w))
       /\ WF_vars(RecordDelivered(w)) /\ WF_vars(RecordFailure(w))
  /\ <>[][\A w \in Responsive : ~Lose(w)]_vars

FairSpec == Spec /\ Fairness

-------------------------------------------------------------------------------
(* Properties.                                                             *)

\* Columns and locals have their types; no row is tried more often than
\* MAX_ATTEMPTS says, whoever counts.
TypeOK ==
  /\ now \in 0 .. MaxTime
  /\ status \in [Deliveries -> Statuses]
  /\ attempts \in [Deliveries -> 0 .. MaxAttempts]
  /\ dueAt \in [Deliveries -> 0 .. MaxTime]
  /\ batch \in [Workers -> Seq(Copies)]
  /\ startedAt \in [Workers -> 0 .. now]
  /\ stage \in [Workers -> Stages]
  /\ accepted \in [Deliveries -> 0 .. 2]
  /\ failures \in [Deliveries -> 0 .. MaxAttempts]
  /\ shared \subseteq Deliveries /\ unrecorded \subseteq Deliveries

\* The table never claims more than happened: a row is delivered only if
\* its receiver took it in, and abandoned only after MaxAttempts failures,
\* however stale the counters that replicas write.  And a receiver sees a
\* delivery twice for one of two reasons: two workers held the row at once, or
\* the table was never told of the first copy.
TableIsTruthful ==
  \A e \in Deliveries :
    /\ status[e] = "delivered" => accepted[e] > 0
    /\ status[e] = "abandoned" => failures[e] = MaxAttempts
    /\ accepted[e] > 1 => e \in shared \cup unrecorded

\* A row's record only goes back - a delivered row is abandoned, or its
\* attempt counter drops - if two workers held it at once.
OnlySharedRowsGoBack ==
  [][\A e \in Deliveries :
       (status[e] = "delivered" /\ status'[e] # "delivered") \/ attempts'[e] < attempts[e]
         => e \in shared]_vars

\* Deliveries their receiver has taken in.
Accepted == {e \in Deliveries : accepted[e] > 0}

Promise == INSTANCE Delivery WITH
  Items <- Deliveries, Budget <- MaxAttempts,
  state <- status, sent <- Accepted, failed <- failures

\* The workers implement the delivery the outbox implements: however many hold
\* a row, each step is one of a delivery that is attempted, settled as
\* delivered after its receiver took it in, or given up with its budget spent;
\* no row is tried before it is inserted or pending again once it is settled.
ImplementsDelivery == Promise!Spec

\* A worker that waits for a receiver for ever delays nobody else: one
\* responsive replica settles every row, those the other has claimed
\* and sets back included.
EveryDeliverySettles ==
  \A e \in Deliveries :
    status[e] = "pending" ~> status[e] \in {"delivered", "abandoned"}
===============================================================================
