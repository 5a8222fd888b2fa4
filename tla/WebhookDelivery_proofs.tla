------------------------ MODULE WebhookDelivery_proofs ------------------------
(***************************************************************************)
(* Proofs about WebhookDelivery.  A worker settles rows from copies it has *)
(* read, and nothing keeps others from claiming the same rows meanwhile.   *)
(*                                                                         *)
(* What the copies still say of the table is the invariant CopiesSound:    *)
(* of any row, that the attempts they count did fail; of a row no two      *)
(* workers held at once, all there is to say.  AcceptedOnce rests on it:   *)
(* such a row is posted again only if the table was not told.              *)
(***************************************************************************)
EXTENDS WebhookDelivery, SequenceTheorems, FiniteSetTheorems, TLAPS

\* A copy of a row that was inserted and had attempts left, each of which
\* failed; still true of the row itself if it is held by one worker only.
CopySound(c) ==
  /\ status[c.delivery] # "absent"
  /\ c.attempts < MaxAttempts /\ c.attempts =< failures[c.delivery]
  /\ c.delivery \notin shared =>
       status[c.delivery] = "pending" /\ c.attempts = attempts[c.delivery]

\* A batch names no row twice.
Distinct(s) == \A i, j \in DOMAIN s : i # j => s[i].delivery # s[j].delivery

\* The rows worker w still holds, and the post it is settling.
BatchSound(w) ==
  /\ stage[w] = "idle" <=> batch[w] = << >>
  /\ Distinct(batch[w])
  /\ \A c \in ToSet(batch[w]) : CopySound(c)
  /\ stage[w] = "accepted" => accepted[Current(w)] > 0
  /\ stage[w] = "failed" => Head(batch[w]).attempts < failures[Current(w)]

CopiesSound == \A w \in Workers : BatchSound(w)

\* What the table says of a row happened.
RowSound(e) ==
  /\ status[e] = "absent" => attempts[e] = 0
  /\ status[e] = "pending" => attempts[e] < MaxAttempts /\ attempts[e] =< failures[e]
  /\ status[e] = "delivered" => accepted[e] > 0
  /\ status[e] = "abandoned" => failures[e] = MaxAttempts

RowsSound == \A e \in Deliveries : RowSound(e)

\* What is not known as shared is held by one worker at most.
SoleHolder ==
  \A e \in Deliveries \ shared : \A w, v \in Workers :
    e \in Held(w) /\ e \in Held(v) => w = v

\* One copy is all a receiver took in of a row that was never shared and
\* always recorded: the row says so, or the worker at it is about to.
AcceptedOnce ==
  \A e \in Deliveries \ (shared \cup unrecorded) : accepted[e] > 0 =>
    /\ accepted[e] = 1
    /\ status[e] = "delivered" \/ \E w \in Workers : stage[w] = "accepted" /\ Current(w) = e

WebhookInv == TypeOK /\ CopiesSound /\ RowsSound /\ SoleHolder /\ AcceptedOnce

-------------------------------------------------------------------------------
LEMMA UpToProperties ==
  ASSUME NEW limit \in Nat, NEW n \in Nat
  PROVE  /\ UpTo(limit, n) \in 0 .. limit
         /\ n =< limit => UpTo(limit, n) = n
         /\ limit =< n => UpTo(limit, n) = limit
  BY DEF UpTo

LEMMA HeldIs ==
  ASSUME NEW w
  PROVE  Held(w) = {c.delivery : c \in ToSet(batch[w])}
  BY DEF Held, ToSet

LEMMA CopyFields ==
  ASSUME NEW c \in Copies
  PROVE  c.delivery \in Deliveries /\ c.attempts \in 0 .. MaxAttempts
  BY DEF Copies

\* Taking the first copy off a batch that names no row twice.
LEMMA FirstAndRest ==
  ASSUME NEW s \in Seq(Copies), s # << >>, Distinct(s)
  PROVE  /\ Head(s) \in ToSet(s) /\ Head(s) \in Copies
         /\ Tail(s) \in Seq(Copies) /\ Distinct(Tail(s))
         /\ ToSet(Tail(s)) \subseteq ToSet(s)
         /\ \A c \in ToSet(Tail(s)) : c.delivery # Head(s).delivery
         /\ Tail(s) = << >> <=> Len(s) = 1
  <1>1. /\ Head(s) \in Copies /\ Tail(s) \in Seq(Copies)
        /\ Len(Tail(s)) = Len(s) - 1
        /\ \A i \in 1 .. Len(Tail(s)) : Tail(s)[i] = s[i + 1]
    BY HeadTailProperties
  <1>2. Head(s) = s[1] /\ Len(s) \in Nat \ {0} /\ DOMAIN s = 1 .. Len(s)
    BY EmptySeq, LenProperties
  <1>3. Head(s) \in ToSet(s)
    BY <1>2 DEF ToSet
  <1>4. \A i \in DOMAIN Tail(s) :
          i \in 1 .. Len(s) - 1 /\ i + 1 \in DOMAIN s /\ Tail(s)[i] = s[i + 1]
    BY <1>1, <1>2, LenProperties
  <1>5. ToSet(Tail(s)) \subseteq ToSet(s)
    BY <1>4 DEF ToSet
  <1>6. \A c \in ToSet(Tail(s)) : c.delivery # Head(s).delivery
    <2> SUFFICES ASSUME NEW i \in DOMAIN Tail(s)
                 PROVE  Tail(s)[i].delivery # Head(s).delivery
      BY DEF ToSet
    <2>1. i + 1 # 1 /\ 1 \in DOMAIN s
      BY <1>2, <1>4
    <2> QED
      BY <1>2, <1>4, <2>1 DEF Distinct
  <1>7. Distinct(Tail(s))
    <2> SUFFICES ASSUME NEW i \in DOMAIN Tail(s), NEW j \in DOMAIN Tail(s), i # j
                 PROVE  Tail(s)[i].delivery # Tail(s)[j].delivery
      BY DEF Distinct
    <2>1. i + 1 # j + 1
      BY <1>2, <1>4
    <2> QED
      BY <1>4, <2>1 DEF Distinct
  <1>8. Tail(s) = << >> <=> Len(s) = 1
    <2>1. Len(<< >>) = 0 /\ (Tail(s) # << >> => Len(Tail(s)) # 0)
      BY <1>1, EmptySeq
    <2>2. Tail(s) = << >> <=> Len(Tail(s)) = 0
      BY <2>1, Zenon
    <2>3. Len(Tail(s)) = 0 <=> Len(s) = 1
      BY <1>1, <1>2
    <2> QED
      BY <2>2, <2>3, Zenon
  <1> QED
    BY <1>1, <1>3, <1>5, <1>6, <1>7, <1>8

\* The row a busy worker is at.
LEMMA WorkerAt ==
  ASSUME WebhookInv, NEW w \in Workers, stage[w] # "idle"
  PROVE  /\ batch[w] \in Seq(Copies) /\ batch[w] # << >> /\ Distinct(batch[w])
         /\ Head(batch[w]) \in ToSet(batch[w]) /\ CopySound(Head(batch[w]))
         /\ Current(w) \in Deliveries /\ Current(w) \in Held(w)
         /\ Head(batch[w]).attempts \in 0 .. MaxAttempts - 1
  <1>1. batch[w] \in Seq(Copies) /\ batch[w] # << >> /\ Distinct(batch[w])
    BY DEF WebhookInv, CopiesSound, BatchSound, TypeOK
  <1>2. Head(batch[w]) \in ToSet(batch[w]) /\ Head(batch[w]) \in Copies
    BY <1>1, FirstAndRest
  <1>3. CopySound(Head(batch[w]))
    BY <1>2 DEF WebhookInv, CopiesSound, BatchSound
  <1>4. Current(w) \in Deliveries /\ Head(batch[w]).attempts \in 0 .. MaxAttempts
    BY <1>2, CopyFields DEF Current
  <1>5. Current(w) \in Held(w)
    BY <1>2, HeldIs DEF Current
  <1>6. Head(batch[w]).attempts \in 0 .. MaxAttempts - 1
    BY <1>3, <1>4, RetryAssumption DEF CopySound
  <1> QED
    BY <1>1, <1>2, <1>3, <1>4, <1>5, <1>6

LEMMA InitWebhookInv == Init => WebhookInv
  <1> SUFFICES ASSUME Init PROVE WebhookInv
    OBVIOUS
  <1> USE RetryAssumption
  <1>1. TypeOK
    BY DEF Init, TypeOK, Statuses, Stages
  <1>2. CopiesSound
    BY DEF Init, CopiesSound, BatchSound, Distinct, ToSet
  <1>3. RowsSound
    BY DEF Init, RowsSound, RowSound
  <1>4. SoleHolder /\ AcceptedOnce
    BY DEF Init, SoleHolder, Held, AcceptedOnce
  <1> QED
    BY <1>1, <1>2, <1>3, <1>4 DEF WebhookInv

\* The rows and batches stay as they are; only the clock moves.
LEMMA ClockStep ==
  ASSUME WebhookInv, Tick \/ UNCHANGED vars
  PROVE  WebhookInv'
  <1>1. /\ UNCHANGED <<status, attempts, dueAt, batch, startedAt, stage, accepted, failures,
                       shared, unrecorded>>
        /\ now' \in 0 .. MaxTime /\ now' >= now
    BY RetryAssumption DEF Tick, vars, rowVars, workerVars, historyVars, WebhookInv, TypeOK
  <1> USE DEF WebhookInv
  <1>2. TypeOK'
    <2>1. startedAt' \in [Workers -> 0 .. now']
      BY <1>1, RetryAssumption DEF TypeOK
    <2> QED
      BY <1>1, <2>1 DEF TypeOK
  <1>3. CopiesSound'
    BY <1>1 DEF CopiesSound, BatchSound, CopySound, Distinct, Current
  <1>4. RowsSound' /\ SoleHolder' /\ AcceptedOnce'
    BY <1>1 DEF RowsSound, RowSound, SoleHolder, Held, AcceptedOnce, Current
  <1> QED
    BY <1>2, <1>3, <1>4

LEMMA EnqueueStep ==
  ASSUME WebhookInv, NEW e \in Deliveries, Enqueue(e)
  PROVE  WebhookInv'
  <1>1. /\ UNCHANGED <<now, attempts, batch, startedAt, stage, accepted, failures,
                       shared, unrecorded>>
        /\ status[e] = "absent"
        /\ \A d \in Deliveries : status'[d] = IF d = e THEN "pending" ELSE status[d]
    BY DEF Enqueue, workerVars, historyVars, WebhookInv, TypeOK
  <1> USE DEF WebhookInv
  <1>2. TypeOK'
    BY <1>1 DEF TypeOK, Enqueue, Statuses
  <1>3. CopiesSound'
    <2> SUFFICES ASSUME NEW w \in Workers PROVE BatchSound(w)'
      BY DEF CopiesSound
    <2>1. \A c \in ToSet(batch[w]) : c \in Copies
      BY DEF TypeOK, ToSet
    <2>2. \A c \in ToSet(batch[w]) : CopySound(c)'
      BY <1>1, <2>1, CopyFields DEF CopiesSound, BatchSound, CopySound
    <2> QED
      BY <1>1, <2>2 DEF CopiesSound, BatchSound, Distinct, Current
  <1>4. RowsSound'
    BY <1>1, RetryAssumption DEF RowsSound, RowSound, TypeOK
  <1>5. SoleHolder' /\ AcceptedOnce'
    BY <1>1 DEF SoleHolder, Held, AcceptedOnce, Current
  <1> QED
    BY <1>2, <1>3, <1>4, <1>5

\* What a worker does to the row it is at leaves what the others hold sound:
\* if one of them holds the row too, it is shared.
LEMMA OthersStaySound ==
  ASSUME WebhookInv, NEW w \in Workers, stage[w] # "idle",
         NEW v \in Workers, v # w,
         stage'[v] = stage[v], batch'[v] = batch[v],
         \A d \in Deliveries : d # Current(w) => status'[d] = status[d] /\ attempts'[d] = attempts[d],
         status'[Current(w)] # "absent",
         failures' \in [Deliveries -> 0 .. MaxAttempts],
         accepted' \in [Deliveries -> 0 .. 2],
         \A d \in Deliveries : failures'[d] >= failures[d] /\ accepted'[d] >= accepted[d],
         UNCHANGED shared
  PROVE  BatchSound(v)'
  <1> DEFINE e == Current(w)
  <1>1. e \in Deliveries /\ e \in Held(w)
    BY WorkerAt
  <1>2. batch[v] \in Seq(Copies) /\ \A c \in ToSet(batch[v]) : c \in Copies /\ CopySound(c)
    BY DEF WebhookInv, CopiesSound, BatchSound, TypeOK, ToSet
  <1>3. \A c \in ToSet(batch[v]) : CopySound(c)'
    <2> SUFFICES ASSUME NEW c \in ToSet(batch[v]) PROVE CopySound(c)'
      OBVIOUS
    <2> DEFINE d == c.delivery
    <2>1. d \in Deliveries /\ c.attempts \in 0 .. MaxAttempts /\ CopySound(c)
      BY <1>2, CopyFields
    <2>2. c.attempts =< failures'[d]
      <3>1. failures[d] \in Int /\ failures'[d] \in Int /\ c.attempts \in Int
        BY <2>1 DEF WebhookInv, TypeOK
      <3> QED
        BY <2>1, <3>1 DEF CopySound
    <2>3. CASE d = e
      <3>1. d \in Held(v)
        BY HeldIs
      <3>2. d \in shared
        BY <1>1, <2>3, <3>1 DEF WebhookInv, SoleHolder
      <3> QED
        BY <2>1, <2>2, <2>3, <3>2 DEF CopySound
    <2>4. CASE d # e
      BY <2>1, <2>2, <2>4 DEF CopySound
    <2> QED
      BY <2>3, <2>4
  <1>4. stage[v] # "idle" =>
          /\ Current(v) \in Deliveries
          /\ accepted'[Current(v)] >= accepted[Current(v)]
          /\ failures'[Current(v)] >= failures[Current(v)]
          /\ failures[Current(v)] \in Int /\ failures'[Current(v)] \in Int
          /\ accepted[Current(v)] \in Int /\ accepted'[Current(v)] \in Int
          /\ Head(batch[v]).attempts \in Int
    <2> SUFFICES ASSUME stage[v] # "idle"
                 PROVE  /\ Current(v) \in Deliveries
                        /\ accepted'[Current(v)] >= accepted[Current(v)]
                        /\ failures'[Current(v)] >= failures[Current(v)]
                        /\ failures[Current(v)] \in Int /\ failures'[Current(v)] \in Int
                        /\ accepted[Current(v)] \in Int /\ accepted'[Current(v)] \in Int
                        /\ Head(batch[v]).attempts \in Int
      OBVIOUS
    <2>1. Current(v) \in Deliveries /\ Head(batch[v]).attempts \in 0 .. MaxAttempts - 1
      BY WorkerAt
    <2> HIDE DEF e
    <2> QED
      BY <2>1, RetryAssumption DEF WebhookInv, TypeOK
  <1>5. BatchSound(v)
    BY DEF WebhookInv, CopiesSound
  <1>6. Current(v)' = Current(v)
    BY DEF Current
  <1>7. /\ stage'[v] = "accepted" => accepted'[Current(v)'] > 0
        /\ stage'[v] = "failed" => Head(batch'[v]).attempts < failures'[Current(v)']
    BY <1>4, <1>5, <1>6 DEF BatchSound
  <1> QED
    BY <1>3, <1>5, <1>7 DEF BatchSound, Distinct

-------------------------------------------------------------------------------
(* Posts.                                                                  *)

\* A post counts at most one more copy and one more failure of its row, and
\* the stage it leads to says which.
LEMMA PostCounts ==
  ASSUME WebhookInv, NEW w \in Workers, Post(w)
  PROVE  LET e == Current(w)
         IN  /\ stage[w] = "posting"
             /\ UNCHANGED <<now, status, attempts, dueAt, batch, startedAt, shared>>
             /\ stage' \in [Workers -> Stages]
             /\ stage'[w] \in {"accepted", "failed"}
             /\ \A v \in Workers : v # w => stage'[v] = stage[v]
             /\ accepted' \in [Deliveries -> 0 .. 2]
             /\ failures' \in [Deliveries -> 0 .. MaxAttempts]
             /\ \A d \in Deliveries : failures'[d] >= failures[d] /\ accepted'[d] >= accepted[d]
             /\ \A d \in Deliveries : d # e => accepted'[d] = accepted[d]
             /\ stage'[w] = "accepted" => accepted'[e] > 0 /\ unrecorded' = unrecorded
                                          /\ (accepted[e] = 0 => accepted'[e] = 1)
             /\ stage'[w] = "failed" => /\ Head(batch[w]).attempts < failures'[e]
                                        /\ accepted'[e] = accepted[e] \/ e \in unrecorded'
             /\ unrecorded \subseteq unrecorded' /\ unrecorded' \subseteq Deliveries
  <1> DEFINE e == Current(w)
  <1> USE RetryAssumption
  <1>1. /\ stage[w] = "posting"
        /\ UNCHANGED <<now, status, attempts, dueAt, batch, startedAt, shared>>
    BY DEF Post, PostAccepted, PostRefused, PostUnacknowledged, rowVars
  <1>2. /\ e \in Deliveries /\ Head(batch[w]).attempts \in 0 .. MaxAttempts - 1
        /\ Head(batch[w]).attempts =< failures[e]
    BY <1>1, WorkerAt DEF CopySound, Current
  <1>3. /\ accepted \in [Deliveries -> 0 .. 2] /\ failures \in [Deliveries -> 0 .. MaxAttempts]
        /\ stage \in [Workers -> Stages]
        /\ unrecorded \subseteq Deliveries
    BY DEF WebhookInv, TypeOK
  <1>4. ASSUME TakenIn(e)
        PROVE  /\ accepted' \in [Deliveries -> 0 .. 2] /\ accepted'[e] > 0
               /\ \A d \in Deliveries : accepted'[d] >= accepted[d]
               /\ \A d \in Deliveries : d # e => accepted'[d] = accepted[d]
               /\ accepted[e] = 0 => accepted'[e] = 1
    <2> HIDE DEF e
    <2>1. accepted[e] \in 0 .. 2 /\ accepted[e] + 1 \in Nat
      BY <1>2, <1>3
    <2>2. /\ UpTo(2, accepted[e] + 1) \in 0 .. 2 /\ UpTo(2, accepted[e] + 1) > 0
          /\ UpTo(2, accepted[e] + 1) >= accepted[e]
          /\ accepted[e] = 0 => UpTo(2, accepted[e] + 1) = 1
      BY <2>1 DEF UpTo
    <2>3. \A d \in Deliveries :
            accepted'[d] = IF d = e THEN UpTo(2, accepted[e] + 1) ELSE accepted[d]
      BY <1>2, <1>3, <1>4 DEF TakenIn
    <2>4. accepted' \in [Deliveries -> 0 .. 2]
      BY <1>2, <1>3, <1>4, <2>2 DEF TakenIn
    <2>5. \A d \in Deliveries : accepted'[d] >= accepted[d]
      <3> SUFFICES ASSUME NEW d \in Deliveries PROVE accepted'[d] >= accepted[d]
        OBVIOUS
      <3>1. accepted[d] \in 0 .. 2
        BY <1>3
      <3> QED
        BY <2>2, <2>3, <3>1
    <2> QED
      BY <1>2, <2>2, <2>3, <2>4, <2>5
  <1>5. ASSUME Failed(w)
        PROVE  /\ failures' \in [Deliveries -> 0 .. MaxAttempts]
               /\ \A d \in Deliveries : failures'[d] >= failures[d]
               /\ Head(batch[w]).attempts < failures'[e]
    <2>1. failures' = [failures EXCEPT ![e] = UpTo(MaxAttempts, failures[e] + 1)]
      BY <1>5 DEF Failed
    <2> HIDE DEF e
    <2>2. failures[e] \in 0 .. MaxAttempts /\ failures[e] + 1 \in Nat
      BY <1>2, <1>3
    <2>3. /\ UpTo(MaxAttempts, failures[e] + 1) \in 0 .. MaxAttempts
          /\ UpTo(MaxAttempts, failures[e] + 1) >= failures[e]
          /\ Head(batch[w]).attempts < UpTo(MaxAttempts, failures[e] + 1)
      BY <1>2, <2>2 DEF UpTo
    <2>4. \A d \in Deliveries :
            failures'[d] = IF d = e THEN UpTo(MaxAttempts, failures[e] + 1) ELSE failures[d]
      BY <1>2, <1>3, <2>1
    <2>5. failures' \in [Deliveries -> 0 .. MaxAttempts]
      BY <1>2, <1>3, <2>1, <2>3
    <2>6. \A d \in Deliveries : failures'[d] >= failures[d]
      <3> SUFFICES ASSUME NEW d \in Deliveries PROVE failures'[d] >= failures[d]
        OBVIOUS
      <3>1. failures[d] \in 0 .. MaxAttempts
        BY <1>3
      <3> QED
        BY <2>3, <2>4, <3>1
    <2> QED
      BY <1>2, <2>3, <2>4, <2>5, <2>6
  <1>6. CASE PostAccepted(w)
    <2>1. /\ TakenIn(e) /\ stage' = [stage EXCEPT ![w] = "accepted"]
          /\ UNCHANGED <<failures, unrecorded>>
      BY <1>6 DEF PostAccepted
    <2>2. \A d \in Deliveries : failures'[d] >= failures[d]
      BY <1>3, <2>1
    <2> QED
      BY <1>1, <1>3, <1>4, <2>1, <2>2 DEF Stages
  <1>7. CASE PostRefused(w)
    <2>1. /\ Failed(w) /\ stage' = [stage EXCEPT ![w] = "failed"]
          /\ UNCHANGED <<accepted, unrecorded>>
      BY <1>7 DEF PostRefused, Failed
    <2>2. \A d \in Deliveries : accepted'[d] >= accepted[d]
      BY <1>3, <2>1
    <2> QED
      BY <1>1, <1>3, <1>5, <2>1, <2>2 DEF Stages
  <1>8. CASE PostUnacknowledged(w)
    <2>1. /\ TakenIn(e) /\ Failed(w) /\ stage' = [stage EXCEPT ![w] = "failed"]
          /\ unrecorded' = unrecorded \cup {e}
      BY <1>8 DEF PostUnacknowledged, Failed
    <2> QED
      BY <1>1, <1>2, <1>3, <1>4, <1>5, <2>1 DEF Stages
  <1> QED
    BY <1>6, <1>7, <1>8 DEF Post

LEMMA PostStep ==
  ASSUME WebhookInv, NEW w \in Workers, Post(w)
  PROVE  WebhookInv'
  <1> DEFINE e == Current(w)
  <1>1. /\ stage[w] = "posting"
        /\ UNCHANGED <<now, status, attempts, dueAt, batch, startedAt, shared>>
        /\ stage' \in [Workers -> Stages]
        /\ stage'[w] \in {"accepted", "failed"}
        /\ \A v \in Workers : v # w => stage'[v] = stage[v]
        /\ accepted' \in [Deliveries -> 0 .. 2]
        /\ failures' \in [Deliveries -> 0 .. MaxAttempts]
        /\ \A d \in Deliveries : failures'[d] >= failures[d] /\ accepted'[d] >= accepted[d]
        /\ \A d \in Deliveries : d # e => accepted'[d] = accepted[d]
        /\ stage'[w] = "accepted" => accepted'[e] > 0 /\ unrecorded' = unrecorded
                                     /\ (accepted[e] = 0 => accepted'[e] = 1)
        /\ stage'[w] = "failed" => /\ Head(batch[w]).attempts < failures'[e]
                                   /\ accepted'[e] = accepted[e] \/ e \in unrecorded'
        /\ unrecorded \subseteq unrecorded' /\ unrecorded' \subseteq Deliveries
    BY PostCounts
  <1>2. /\ e \in Deliveries /\ e \in Held(w) /\ batch[w] # << >> /\ Distinct(batch[w])
        /\ CopySound(Head(batch[w]))
    BY <1>1, WorkerAt
  <1>3. TypeOK'
    BY <1>1 DEF WebhookInv, TypeOK
  <1>4. CopiesSound'
    <2>1. ASSUME NEW v \in Workers, v # w PROVE BatchSound(v)'
      <3>1. status[e] # "absent"
        BY <1>2 DEF CopySound, Current
      <3>2. stage[w] # "idle" /\ stage'[v] = stage[v]
        BY <1>1, <2>1
      <3> QED
        BY <1>1, <2>1, <3>1, <3>2, OthersStaySound
    <2>2. BatchSound(w)'
      <3>1. \A c \in ToSet(batch[w]) : CopySound(c)'
        <4> SUFFICES ASSUME NEW c \in ToSet(batch[w]) PROVE CopySound(c)'
          OBVIOUS
        <4>1. c \in Copies /\ CopySound(c)
          BY <1>1 DEF WebhookInv, CopiesSound, BatchSound, TypeOK, ToSet
        <4>2. c.delivery \in Deliveries /\ c.attempts \in 0 .. MaxAttempts
          BY <4>1, CopyFields
        <4>3. failures[c.delivery] \in Int /\ failures'[c.delivery] \in Int
          BY <1>1, <4>2, RetryAssumption DEF WebhookInv, TypeOK
        <4> QED
          BY <1>1, <4>1, <4>2, <4>3, RetryAssumption DEF CopySound
      <3> QED
        BY <1>1, <1>2, <3>1 DEF BatchSound, Current, Distinct
    <2> QED
      BY <2>1, <2>2 DEF CopiesSound
  <1>5. RowsSound'
    <2> SUFFICES ASSUME NEW d \in Deliveries PROVE RowSound(d)'
      BY DEF RowsSound
    <2>1. /\ failures[d] \in 0 .. MaxAttempts /\ failures'[d] \in 0 .. MaxAttempts
          /\ accepted[d] \in 0 .. 2 /\ accepted'[d] \in 0 .. 2
          /\ attempts[d] \in 0 .. MaxAttempts
          /\ failures'[d] >= failures[d] /\ accepted'[d] >= accepted[d]
      BY <1>1 DEF WebhookInv, TypeOK
    <2> QED
      BY <1>1, <2>1, RetryAssumption DEF WebhookInv, RowsSound, RowSound
  <1>6. SoleHolder'
    BY <1>1 DEF WebhookInv, SoleHolder, Held
  <1>7. AcceptedOnce'
    <2> SUFFICES ASSUME NEW d \in Deliveries, d \notin shared, d \notin unrecorded',
                        accepted'[d] > 0
                 PROVE  /\ accepted'[d] = 1
                        /\ \/ status[d] = "delivered"
                           \/ \E v \in Workers : stage'[v] = "accepted" /\ Current(v) = d
      BY <1>1 DEF AcceptedOnce, Current
    <2>1. d \notin unrecorded
      BY <1>1
    <2>2. accepted[d] \in 0 .. 2
      BY DEF WebhookInv, TypeOK
    <2>3. ASSUME accepted[d] > 0
          PROVE  /\ accepted[d] = 1
                 /\ \/ status[d] = "delivered"
                    \/ \E v \in Workers : v # w /\ stage[v] = "accepted" /\ Current(v) = d
      BY <1>1, <2>1, <2>3 DEF WebhookInv, AcceptedOnce
    <2>4. CASE accepted'[d] = accepted[d]
      BY <1>1, <2>3, <2>4
    <2>5. CASE accepted'[d] # accepted[d]
      <3>1. d = e /\ stage'[w] = "accepted"
        BY <1>1, <2>5
      <3>2. accepted[d] = 0
        <4> SUFFICES ASSUME accepted[d] > 0 PROVE FALSE
          BY <2>2
        <4>1. status[d] # "delivered"
          BY <1>2, <3>1 DEF CopySound, Current
        <4>2. PICK v \in Workers : v # w /\ stage[v] = "accepted" /\ Current(v) = d
          BY <2>3, <4>1
        <4>3. d \in Held(v)
          BY <4>2, WorkerAt
        <4> QED
          BY <1>2, <3>1, <4>2, <4>3 DEF WebhookInv, SoleHolder
      <3> QED
        BY <1>1, <3>1, <3>2
    <2> QED
      BY <2>4, <2>5
  <1> QED
    BY <1>3, <1>4, <1>5, <1>6, <1>7 DEF WebhookInv

-------------------------------------------------------------------------------
(* Settlement.                                                             *)

\* The worker goes on to the rest of its batch.
LEMMA NextRowFacts ==
  ASSUME WebhookInv, NEW w \in Workers, stage[w] # "idle", NextRow(w)
  PROVE  /\ batch' \in [Workers -> Seq(Copies)] /\ stage' \in [Workers -> Stages]
         /\ startedAt' \in [Workers -> 0 .. now]
         /\ \A v \in Workers : v # w => batch'[v] = batch[v] /\ stage'[v] = stage[v]
         /\ stage'[w] \in {"idle", "posting"}
         /\ stage'[w] = "idle" <=> batch'[w] = << >>
         /\ Distinct(batch'[w])
         /\ \A c \in ToSet(batch'[w]) :
              c \in ToSet(batch[w]) /\ c \in Copies /\ c.delivery # Current(w)
         /\ \A v \in Workers : Held(v)' \subseteq Held(v)
         /\ Current(w) \notin Held(w)'
  <1>1. /\ batch[w] \in Seq(Copies) /\ batch[w] # << >> /\ Distinct(batch[w])
        /\ batch \in [Workers -> Seq(Copies)] /\ stage \in [Workers -> Stages]
        /\ startedAt \in [Workers -> 0 .. now] /\ now \in Nat
    BY WorkerAt DEF WebhookInv, TypeOK
  <1>2. /\ Tail(batch[w]) \in Seq(Copies) /\ Distinct(Tail(batch[w]))
        /\ ToSet(Tail(batch[w])) \subseteq ToSet(batch[w])
        /\ \A c \in ToSet(Tail(batch[w])) : c.delivery # Current(w)
        /\ Tail(batch[w]) = << >> <=> Len(batch[w]) = 1
    BY <1>1, FirstAndRest DEF Current
  <1>3. \A c \in ToSet(batch[w]) : c \in Copies
    BY <1>1 DEF ToSet
  <1>4. /\ batch'[w] = Tail(batch[w])
        /\ \A v \in Workers : v # w => batch'[v] = batch[v] /\ stage'[v] = stage[v]
        /\ stage'[w] = IF Len(batch[w]) = 1 THEN "idle" ELSE "posting"
    BY <1>1 DEF NextRow
  <1>5. /\ batch' \in [Workers -> Seq(Copies)] /\ stage' \in [Workers -> Stages]
        /\ startedAt' \in [Workers -> 0 .. now]
    BY <1>1, <1>2 DEF NextRow, Stages
  <1>6. Held(w)' = {c.delivery : c \in ToSet(Tail(batch[w]))}
    BY <1>4 DEF Held, ToSet
  <1>7. Held(w) = {c.delivery : c \in ToSet(batch[w])}
    BY HeldIs
  <1>8. \A v \in Workers : Held(v)' \subseteq Held(v)
    <2> SUFFICES ASSUME NEW v \in Workers PROVE Held(v)' \subseteq Held(v)
      OBVIOUS
    <2>1. CASE v = w
      BY <1>2, <1>6, <1>7, <2>1
    <2>2. CASE v # w
      BY <1>4, <2>2 DEF Held
    <2> QED
      BY <2>1, <2>2
  <1>9. Current(w) \notin Held(w)'
    BY <1>2, <1>6
  <1> QED
    BY <1>2, <1>3, <1>4, <1>5, <1>8, <1>9

\* Both updates write one row and go on; what they write is sound.
LEMMA SettleStep ==
  ASSUME WebhookInv, NEW w \in Workers, RecordDelivered(w) \/ RecordFailure(w)
  PROVE  WebhookInv'
  <1> DEFINE e == Current(w)
             n == Head(batch[w]).attempts + 1
  <1>1. /\ stage[w] # "idle" /\ NextRow(w)
        /\ UNCHANGED <<now, accepted, failures, shared, unrecorded>>
        /\ attempts' = [attempts EXCEPT ![e] = n]
    BY DEF RecordDelivered, Succeeded, RecordFailure, historyVars
  <1>2. /\ e \in Deliveries /\ e \in Held(w) /\ CopySound(Head(batch[w]))
        /\ Head(batch[w]).attempts \in 0 .. MaxAttempts - 1
    BY <1>1, WorkerAt
  <1>3. /\ n \in 1 .. MaxAttempts /\ status[e] # "absent"
        /\ e \notin shared => status[e] = "pending"
    BY <1>2, RetryAssumption DEF CopySound, Current
  <1>4. /\ batch' \in [Workers -> Seq(Copies)] /\ stage' \in [Workers -> Stages]
        /\ startedAt' \in [Workers -> 0 .. now]
        /\ \A v \in Workers : v # w => batch'[v] = batch[v] /\ stage'[v] = stage[v]
        /\ stage'[w] \in {"idle", "posting"}
        /\ stage'[w] = "idle" <=> batch'[w] = << >>
        /\ Distinct(batch'[w])
        /\ \A c \in ToSet(batch'[w]) :
             c \in ToSet(batch[w]) /\ c \in Copies /\ c.delivery # e
        /\ \A v \in Workers : Held(v)' \subseteq Held(v)
        /\ e \notin Held(w)'
    BY <1>1, NextRowFacts
  <1> USE RetryAssumption
  <1>5. /\ status \in [Deliveries -> Statuses] /\ attempts \in [Deliveries -> 0 .. MaxAttempts]
        /\ dueAt \in [Deliveries -> 0 .. MaxTime] /\ now \in 0 .. MaxTime
        /\ startedAt[w] \in 0 .. now
        /\ accepted \in [Deliveries -> 0 .. 2] /\ failures \in [Deliveries -> 0 .. MaxAttempts]
    BY DEF WebhookInv, TypeOK
  <1>6. /\ status' \in [Deliveries -> Statuses] /\ dueAt' \in [Deliveries -> 0 .. MaxTime]
        /\ \A d \in Deliveries : d # e => status'[d] = status[d] /\ attempts'[d] = attempts[d]
        /\ attempts'[e] = n
        /\ \/ stage[w] = "accepted" /\ status'[e] = "delivered"
           \/ stage[w] = "failed" /\ n >= MaxAttempts /\ status'[e] = "abandoned"
           \/ stage[w] = "failed" /\ n < MaxAttempts /\ status'[e] = status[e]
    <2> HIDE DEF e, n
    <2>1. \A d \in Deliveries : attempts'[d] = IF d = e THEN n ELSE attempts[d]
      BY <1>1, <1>2, <1>5
    <2>2. CASE RecordDelivered(w)
      <3>1. /\ status' = [status EXCEPT ![e] = "delivered"] /\ dueAt' = dueAt
            /\ stage[w] = "accepted"
        BY <2>2 DEF RecordDelivered, Succeeded, e
      <3> QED
        BY <1>2, <1>5, <2>1, <3>1 DEF Statuses
    <2>3. CASE RecordFailure(w)
      <3>1. /\ stage[w] = "failed"
            /\ \/ /\ n >= MaxAttempts /\ status' = [status EXCEPT ![e] = "abandoned"]
                  /\ dueAt' = dueAt
               \/ /\ ~(n >= MaxAttempts) /\ status' = status
                  /\ dueAt' = [dueAt EXCEPT ![e] = UpTo(MaxTime, startedAt[w] + BackoffAfter(n))]
        BY <2>3 DEF RecordFailure, GivesUp, e, n
      <3>2. CASE n >= MaxAttempts /\ status' = [status EXCEPT ![e] = "abandoned"] /\ dueAt' = dueAt
        BY <1>2, <1>5, <2>1, <3>1, <3>2 DEF Statuses
      <3>3. CASE /\ ~(n >= MaxAttempts) /\ status' = status
                 /\ dueAt' = [dueAt EXCEPT ![e] = UpTo(MaxTime, startedAt[w] + BackoffAfter(n))]
        <4>1. n \in DOMAIN Backoff /\ BackoffAfter(n) \in Nat
          BY <1>3, <3>3 DEF BackoffAfter
        <4>2. UpTo(MaxTime, startedAt[w] + BackoffAfter(n)) \in 0 .. MaxTime
          <5>1. startedAt[w] + BackoffAfter(n) \in Nat
            BY <1>5, <4>1
          <5> QED
            BY <5>1, UpToProperties
        <4> QED
          BY <1>2, <1>3, <1>5, <2>1, <3>1, <3>3, <4>2
      <3> QED
        BY <3>1, <3>2, <3>3
    <2> QED
      BY <1>1, <2>2, <2>3
  <1>7. TypeOK'
    <2>1. attempts' \in [Deliveries -> 0 .. MaxAttempts]
      BY <1>1, <1>2, <1>3, <1>5
    <2> QED
      BY <1>1, <1>4, <1>6, <2>1 DEF WebhookInv, TypeOK
  <1>8. status'[e] # "absent"
    BY <1>3, <1>6
  <1>9. CopiesSound'
    <2>1. ASSUME NEW v \in Workers, v # w PROVE BatchSound(v)'
      <3>1. \A d \in Deliveries : failures'[d] >= failures[d] /\ accepted'[d] >= accepted[d]
        <4>1. \A d \in Deliveries : failures[d] \in 0 .. MaxAttempts /\ accepted[d] \in 0 .. 2
          BY <1>5
        <4> HIDE DEF e, n
        <4> QED
          BY <1>1, <4>1
      <3> QED
        BY <1>1, <1>4, <1>5, <1>6, <1>8, <2>1, <3>1, OthersStaySound
    <2>2. BatchSound(w)'
      <3>1. \A c \in ToSet(batch'[w]) : CopySound(c)'
        <4> SUFFICES ASSUME NEW c \in ToSet(batch'[w]) PROVE CopySound(c)'
          OBVIOUS
        <4>1. c.delivery \in Deliveries /\ c.delivery # e /\ CopySound(c)
          BY <1>4, CopyFields DEF WebhookInv, CopiesSound, BatchSound
        <4> QED
          BY <1>1, <1>6, <4>1 DEF CopySound
      <3> QED
        BY <1>4, <3>1 DEF BatchSound
    <2> QED
      BY <2>1, <2>2 DEF CopiesSound
  <1>10. RowsSound'
    <2> SUFFICES ASSUME NEW d \in Deliveries PROVE RowSound(d)'
      BY DEF RowsSound
    <2>1. RowSound(d)
      BY DEF WebhookInv, RowsSound
    <2>2. CASE d # e
      BY <1>1, <1>6, <2>1, <2>2 DEF RowSound
    <2>3. CASE d = e
      <3>1. /\ stage[w] = "accepted" => accepted[e] > 0
            /\ stage[w] = "failed" => n =< failures[e]
        <4>1. /\ stage[w] = "accepted" => accepted[e] > 0
              /\ stage[w] = "failed" => Head(batch[w]).attempts < failures[e]
          BY DEF WebhookInv, CopiesSound, BatchSound
        <4>2. failures[e] \in 0 .. MaxAttempts
          BY <1>2, <1>5
        <4> QED
          BY <1>2, <4>1, <4>2
      <3>2. failures[e] \in 0 .. MaxAttempts
        BY <1>2, <1>5
      <3> HIDE DEF e, n
      <3> QED
        BY <1>1, <1>3, <1>6, <2>1, <2>3, <3>1, <3>2 DEF RowSound
    <2> QED
      BY <2>2, <2>3
  <1>11. SoleHolder'
    BY <1>1, <1>4 DEF WebhookInv, SoleHolder
  <1>12. AcceptedOnce'
    <2> SUFFICES ASSUME NEW d \in Deliveries, d \notin shared, d \notin unrecorded,
                        accepted[d] > 0
                 PROVE  /\ accepted[d] = 1
                        /\ \/ status'[d] = "delivered"
                           \/ \E v \in Workers : stage'[v] = "accepted" /\ Current(v)' = d
      BY <1>1 DEF AcceptedOnce
    <2>1. /\ accepted[d] = 1
          /\ \/ status[d] = "delivered"
             \/ \E v \in Workers : stage[v] = "accepted" /\ Current(v) = d
      BY DEF WebhookInv, AcceptedOnce
    <2>2. CASE status[d] = "delivered"
      BY <1>3, <1>6, <2>1, <2>2
    <2>3. CASE \E v \in Workers : stage[v] = "accepted" /\ Current(v) = d
      <3>1. PICK v \in Workers : stage[v] = "accepted" /\ Current(v) = d
        BY <2>3
      <3>2. CASE v = w
        BY <1>6, <2>1, <3>1, <3>2
      <3>3. CASE v # w
        BY <1>4, <2>1, <3>1, <3>3 DEF Current
      <3> QED
        BY <3>2, <3>3
    <2> QED
      BY <2>1, <2>2, <2>3
  <1> QED
    BY <1>7, <1>9, <1>10, <1>11, <1>12 DEF WebhookInv

-------------------------------------------------------------------------------
(* Claims and losses.                                                      *)

LEMMA LoseStep ==
  ASSUME WebhookInv, NEW w \in Workers, Lose(w)
  PROVE  WebhookInv'
  <1>1. /\ stage[w] # "idle"
        /\ UNCHANGED <<now, status, attempts, dueAt, accepted, failures, shared>>
        /\ unrecorded' = unrecorded \cup {e \in Deliveries : stage[w] = "accepted" /\ e = Current(w)}
    BY DEF Lose, rowVars
  <1>2. /\ stage'[w] = "idle" /\ batch'[w] = << >>
        /\ \A v \in Workers : v # w => stage'[v] = stage[v] /\ batch'[v] = batch[v]
    BY DEF Lose, WebhookInv, TypeOK
  <1>3. TypeOK'
    <2>1. batch' \in [Workers -> Seq(Copies)]
      BY DEF Lose, WebhookInv, TypeOK
    <2>2. stage' \in [Workers -> Stages] /\ startedAt' \in [Workers -> 0 .. now]
      BY RetryAssumption DEF Lose, WebhookInv, TypeOK, Stages
    <2> QED
      BY <1>1, <2>1, <2>2 DEF WebhookInv, TypeOK
  <1>4. CopiesSound'
    <2> SUFFICES ASSUME NEW v \in Workers PROVE BatchSound(v)'
      BY DEF CopiesSound
    <2>1. CASE v = w
      BY <1>2, <2>1 DEF BatchSound, Distinct, ToSet
    <2>2. CASE v # w
      BY <1>1, <1>2, <2>2 DEF WebhookInv, CopiesSound, BatchSound, CopySound, Distinct, Current
    <2> QED
      BY <2>1, <2>2
  <1>5. RowsSound'
    BY <1>1 DEF WebhookInv, RowsSound, RowSound
  <1>6. \A v \in Workers : Held(v)' \subseteq Held(v)
    BY <1>2 DEF Held
  <1>7. SoleHolder'
    BY <1>1, <1>6 DEF WebhookInv, SoleHolder
  <1>8. AcceptedOnce'
    <2> SUFFICES ASSUME NEW d \in Deliveries, d \notin shared, d \notin unrecorded',
                        accepted[d] > 0
                 PROVE  /\ accepted[d] = 1
                        /\ \/ status[d] = "delivered"
                           \/ \E v \in Workers : stage'[v] = "accepted" /\ Current(v)' = d
      BY <1>1 DEF AcceptedOnce
    <2>1. /\ accepted[d] = 1
          /\ \/ status[d] = "delivered"
             \/ \E v \in Workers : v # w /\ stage[v] = "accepted" /\ Current(v) = d
      BY <1>1 DEF WebhookInv, AcceptedOnce
    <2> QED
      BY <1>2, <2>1 DEF Current
  <1> QED
    BY <1>3, <1>4, <1>5, <1>7, <1>8 DEF WebhookInv

\* What a claim puts into the batch: copies of due rows, each once.
LEMMA BatchOfDueRows ==
  ASSUME TypeOK, NEW S \in SUBSET {e \in Deliveries : Due(e)},
         NEW s \in SetToSeqs(S), s # << >>
  PROVE  LET b == [i \in DOMAIN s |-> Claimed(s[i])]
         IN  /\ b \in Seq(Copies) /\ b # << >> /\ Distinct(b)
             /\ \A c \in ToSet(b) : \E e \in S : c = Claimed(e)
  <1> DEFINE b == [i \in DOMAIN s |-> Claimed(s[i])]
  <1>1. IsFiniteSet(S) /\ Cardinality(S) \in Nat
    BY WorkerAssumption, FS_Subset, FS_CardinalityType
  <1>2. /\ s \in [1 .. Cardinality(S) -> S]
        /\ \A i, j \in 1 .. Cardinality(S) : s[i] = s[j] => i = j
    BY DEF SetToSeqs, IsInjective
  <1>3. \A e \in S : Claimed(e) \in Copies
    BY DEF Claimed, Copies, TypeOK
  <1>4. b \in [1 .. Cardinality(S) -> Copies]
    BY <1>2, <1>3
  <1>5. b \in Seq(Copies) /\ s \in Seq(S)
    BY <1>1, <1>2, <1>4, IsASeq
  <1>6. Cardinality(S) # 0
    BY <1>2, <1>5, EmptySeq, LenProperties
  <1>7. b # << >>
    BY <1>1, <1>4, <1>5, <1>6, EmptySeq, LenProperties
  <1>8. \A c \in ToSet(b) : \E e \in S : c = Claimed(e)
    BY <1>2 DEF ToSet
  <1>9. Distinct(b)
    BY <1>2 DEF Distinct, Claimed
  <1> QED
    BY <1>5, <1>7, <1>8, <1>9

LEMMA ClaimStep ==
  ASSUME WebhookInv, NEW w \in Workers, Claim(w)
  PROVE  WebhookInv'
  <1>1. /\ stage[w] = "idle" /\ batch[w] = << >>
        /\ UNCHANGED <<now, status, attempts, dueAt, accepted, failures, unrecorded>>
        /\ startedAt' = [startedAt EXCEPT ![w] = now]
        /\ stage' = [stage EXCEPT ![w] = "posting"]
    BY DEF Claim, rowVars, WebhookInv, CopiesSound, BatchSound
  <1>0. PICK S \in SUBSET {e \in Deliveries : Due(e)} : \E s \in SetToSeqs(S) :
          /\ s # << >>
          /\ batch' = [batch EXCEPT ![w] = [i \in DOMAIN s |-> Claimed(s[i])]]
          /\ shared' = shared \cup (S \cap HeldByAny)
    BY DEF Claim
  <1>2. PICK s \in SetToSeqs(S) :
          /\ s # << >>
          /\ batch' = [batch EXCEPT ![w] = [i \in DOMAIN s |-> Claimed(s[i])]]
          /\ shared' = shared \cup (S \cap HeldByAny)
    BY <1>0
  <1> DEFINE b == [i \in DOMAIN s |-> Claimed(s[i])]
  <1>3. /\ b \in Seq(Copies) /\ b # << >> /\ Distinct(b)
        /\ \A c \in ToSet(b) : \E e \in S : c = Claimed(e)
    BY <1>2, BatchOfDueRows DEF WebhookInv
  <1>4. batch' = [batch EXCEPT ![w] = b]
    BY <1>2
  <1> HIDE DEF b
  <1> USE RetryAssumption DEF WebhookInv
  <1>5. /\ batch'[w] = b /\ stage'[w] = "posting"
        /\ \A v \in Workers : v # w => batch'[v] = batch[v] /\ stage'[v] = stage[v]
    BY <1>1, <1>4 DEF TypeOK
  <1>6. \A e \in S : e \in Deliveries /\ status[e] = "pending"
    BY DEF Due
  <1>7. TypeOK'
    <2>1. batch' \in [Workers -> Seq(Copies)]
      BY <1>3, <1>4 DEF TypeOK
    <2>2. stage' \in [Workers -> Stages] /\ startedAt' \in [Workers -> 0 .. now]
      BY <1>1 DEF TypeOK, Stages
    <2>3. shared' \subseteq Deliveries
      BY <1>2 DEF TypeOK
    <2> QED
      BY <1>1, <2>1, <2>2, <2>3 DEF TypeOK
  <1>8. CopiesSound'
    <2> SUFFICES ASSUME NEW v \in Workers PROVE BatchSound(v)'
      BY DEF CopiesSound
    <2>1. CASE v = w
      <3>1. \A c \in ToSet(b) : CopySound(c)'
        <4> SUFFICES ASSUME NEW c \in ToSet(b) PROVE CopySound(c)'
          OBVIOUS
        <4>1. PICK e \in S : c = Claimed(e)
          BY <1>3
        <4>2. c.delivery = e /\ c.attempts = attempts[e] /\ RowSound(e)
          BY <1>6, <4>1 DEF Claimed, RowsSound
        <4> QED
          BY <1>1, <1>6, <4>2 DEF CopySound, RowSound
      <3> QED
        BY <1>3, <1>5, <2>1, <3>1 DEF BatchSound
    <2>2. CASE v # w
      BY <1>1, <1>2, <1>5, <2>2 DEF CopiesSound, BatchSound, CopySound, Distinct, Current
    <2> QED
      BY <2>1, <2>2
  <1>9. RowsSound'
    BY <1>1 DEF RowsSound, RowSound
  <1>10. Held(w)' \subseteq S /\ \A v \in Workers : v # w => Held(v)' = Held(v)
    <2>1. Held(w)' = {c.delivery : c \in ToSet(b)}
      BY <1>5 DEF Held, ToSet
    <2>2. \A v \in Workers : v # w => Held(v)' = Held(v)
      BY <1>5 DEF Held
    <2> QED
      BY <1>3, <2>1, <2>2 DEF Claimed
  <1>11. SoleHolder'
    <2> SUFFICES ASSUME NEW e \in Deliveries, e \notin shared', NEW v \in Workers,
                        NEW u \in Workers, e \in Held(v)', e \in Held(u)'
                 PROVE  v = u
      BY DEF SoleHolder
    <2>1. e \notin shared /\ (e \in S => \A x \in Workers : e \notin Held(x))
      BY <1>2 DEF HeldByAny
    <2> QED
      BY <1>10, <2>1 DEF SoleHolder
  <1>12. AcceptedOnce'
    <2> SUFFICES ASSUME NEW d \in Deliveries, d \notin shared', d \notin unrecorded,
                        accepted[d] > 0
                 PROVE  /\ accepted[d] = 1
                        /\ \/ status[d] = "delivered"
                           \/ \E v \in Workers : stage'[v] = "accepted" /\ Current(v)' = d
      BY <1>1 DEF AcceptedOnce
    <2>1. /\ accepted[d] = 1
          /\ \/ status[d] = "delivered"
             \/ \E v \in Workers : v # w /\ stage[v] = "accepted" /\ Current(v) = d
      BY <1>1, <1>2 DEF AcceptedOnce
    <2> QED
      BY <1>5, <2>1 DEF Current
  <1> QED
    BY <1>7, <1>8, <1>9, <1>11, <1>12

-------------------------------------------------------------------------------
LEMMA NextWebhookInv == WebhookInv /\ [Next]_vars => WebhookInv'
  <1> SUFFICES ASSUME WebhookInv, [Next]_vars PROVE WebhookInv'
    OBVIOUS
  <1>1. ASSUME NEW e \in Deliveries, Enqueue(e) PROVE WebhookInv'
    BY <1>1, EnqueueStep
  <1>2. ASSUME NEW w \in Workers,
               Claim(w) \/ Post(w) \/ RecordDelivered(w) \/ RecordFailure(w) \/ Lose(w)
        PROVE  WebhookInv'
    BY <1>2, ClaimStep, PostStep, SettleStep, LoseStep
  <1>3. CASE Tick \/ UNCHANGED vars
    BY <1>3, ClockStep
  <1> QED
    BY <1>1, <1>2, <1>3 DEF Next

LEMMA WebhookInvariant == Spec => []WebhookInv
  BY InitWebhookInv, NextWebhookInv, PTL DEF Spec

\* The types of WebhookDelivery; no row's counter passes MAX_ATTEMPTS.
THEOREM TypeCorrect == Spec => []TypeOK
  <1>1. WebhookInv => TypeOK
    BY DEF WebhookInv
  <1> QED
    BY <1>1, WebhookInvariant, PTL

\* For any number of replicas, batch size and retry table: delivered rows were
\* taken in, abandoned ones failed MaxAttempts times, and a receiver sees a
\* delivery twice only if two workers held it or its table was not told.
THEOREM Truthful == Spec => []TableIsTruthful
  <1>1. WebhookInv => TableIsTruthful
    <2> SUFFICES ASSUME WebhookInv, NEW e \in Deliveries
                 PROVE  /\ status[e] = "delivered" => accepted[e] > 0
                        /\ status[e] = "abandoned" => failures[e] = MaxAttempts
                        /\ accepted[e] > 1 => e \in shared \cup unrecorded
      BY DEF TableIsTruthful
    <2>1. accepted[e] \in 0 .. 2
      BY DEF WebhookInv, TypeOK
    <2> QED
      BY <2>1 DEF WebhookInv, RowsSound, RowSound, AcceptedOnce
  <1> QED
    BY <1>1, WebhookInvariant, PTL

\* Only a row that two workers held at once is written back: without stale
\* copies the record of a delivery never regresses.
THEOREM RecordsGoForward == Spec => OnlySharedRowsGoBack
  <1>1. ASSUME WebhookInv, [Next]_vars, NEW e \in Deliveries, e \notin shared
        PROVE  ~((status[e] = "delivered" /\ status'[e] # "delivered") \/ attempts'[e] < attempts[e])
    <2> USE RetryAssumption
    <2>1. attempts[e] \in 0 .. MaxAttempts
      BY <1>1 DEF WebhookInv, TypeOK
    <2>2. ASSUME NEW w \in Workers, RecordDelivered(w) \/ RecordFailure(w), Current(w) = e
          PROVE  status[e] = "pending" /\ attempts'[e] = attempts[e] + 1
      <3>1. stage[w] # "idle" /\ attempts' = [attempts EXCEPT ![e] = Head(batch[w]).attempts + 1]
        BY <2>2 DEF RecordDelivered, Succeeded, RecordFailure
      <3>2. status[e] = "pending" /\ Head(batch[w]).attempts = attempts[e]
        BY <1>1, <2>2, <3>1, WorkerAt DEF CopySound, Current
      <3> QED
        BY <1>1, <3>1, <3>2 DEF WebhookInv, TypeOK
    <2>3. ASSUME NEW w \in Workers, RecordDelivered(w) \/ RecordFailure(w), Current(w) # e
          PROVE  status'[e] = status[e] /\ attempts'[e] = attempts[e]
      BY <1>1, <2>3 DEF RecordDelivered, RecordFailure, WebhookInv, TypeOK
    <2>4. ASSUME NEW d \in Deliveries, Enqueue(d)
          PROVE  attempts' = attempts /\ (status[e] = "delivered" => status'[e] = "delivered")
      BY <1>1, <2>4 DEF Enqueue, WebhookInv, TypeOK
    <2>5. CASE UNCHANGED <<status, attempts>>
      BY <2>1, <2>5
    <2>6. ASSUME NEW w \in Workers, Claim(w) \/ Post(w) \/ Lose(w)
          PROVE  UNCHANGED <<status, attempts>>
      BY <2>6 DEF Claim, Post, PostAccepted, PostRefused, PostUnacknowledged, Lose, rowVars
    <2>7. Tick \/ UNCHANGED vars => UNCHANGED <<status, attempts>>
      BY DEF Tick, vars, rowVars
    <2> QED
      BY <1>1, <2>1, <2>2, <2>3, <2>4, <2>5, <2>6, <2>7 DEF Next
  <1>2. WebhookInv /\ [Next]_vars =>
          [\A e \in Deliveries :
             (status[e] = "delivered" /\ status'[e] # "delivered") \/ attempts'[e] < attempts[e]
               => e \in shared]_vars
    BY <1>1
  <1> QED
    BY <1>2, WebhookInvariant, PTL DEF Spec, OnlySharedRowsGoBack

-------------------------------------------------------------------------------
(* The refinement of Delivery: how each step looks to ingestion.           *)

LEMMA SameForIngestion ==
  ASSUME UNCHANGED <<status, accepted, failures>>
  PROVE  UNCHANGED Promise!vars
  BY DEF Promise!vars, Accepted

\* A failure that is noticed is one more, within the budget.
LEMMA FailedAttempt ==
  ASSUME WebhookInv, NEW w \in Workers, stage[w] # "idle", Failed(w)
  PROVE  failures' = [failures EXCEPT ![Current(w)] =
                        IF failures[Current(w)] < MaxAttempts
                          THEN failures[Current(w)] + 1 ELSE failures[Current(w)]]
  <1>1. /\ Current(w) \in Deliveries /\ MaxAttempts \in Nat
        /\ failures \in [Deliveries -> 0 .. MaxAttempts]
    BY WorkerAt, RetryAssumption DEF WebhookInv, TypeOK
  <1>2. failures' = [failures EXCEPT ![Current(w)] = UpTo(MaxAttempts, failures[Current(w)] + 1)]
    BY <1>1 DEF Failed
  <1>3. failures[Current(w)] \in 0 .. MaxAttempts
    BY <1>1
  <1>4. UpTo(MaxAttempts, failures[Current(w)] + 1) =
          IF failures[Current(w)] < MaxAttempts
            THEN failures[Current(w)] + 1 ELSE failures[Current(w)]
    BY <1>1, <1>3 DEF UpTo
  <1> QED
    BY <1>2, <1>4

LEMMA TakenInIsSent ==
  ASSUME WebhookInv, NEW e \in Deliveries, TakenIn(e)
  PROVE  Accepted' = Accepted \cup {e}
  <1>1. accepted \in [Deliveries -> 0 .. 2]
    BY DEF WebhookInv, TypeOK
  <1>2. accepted' = [accepted EXCEPT ![e] = UpTo(2, accepted[e] + 1)]
    BY <1>1 DEF TakenIn
  <1>3. UpTo(2, accepted[e] + 1) > 0
    BY <1>1 DEF UpTo
  <1>4. \A f \in Deliveries : accepted'[f] > 0 <=> accepted[f] > 0 \/ f = e
    BY <1>1, <1>2, <1>3
  <1> QED
    BY <1>4 DEF Accepted

LEMMA PostsPromise ==
  ASSUME WebhookInv, NEW w \in Workers, Post(w)
  PROVE  [Promise!Next]_(Promise!vars)
  <1> DEFINE e == Current(w)
  <1>1. stage[w] # "idle"
    BY DEF Post, PostAccepted, PostRefused, PostUnacknowledged
  <1>2. e \in Deliveries /\ status[e] # "absent"
    BY <1>1, WorkerAt DEF CopySound, Current
  <1>3. status' = status
    BY DEF Post, PostAccepted, PostRefused, PostUnacknowledged, rowVars
  <1>4. Accepted' \in {Accepted, Accepted \cup {e}}
    <2>1. CASE accepted' = accepted
      BY <2>1 DEF Accepted
    <2>2. CASE TakenIn(e)
      BY <1>2, <2>2, TakenInIsSent
    <2> QED
      BY <2>1, <2>2 DEF Post, PostAccepted, PostRefused, PostUnacknowledged
  <1>5. failures' \in {failures, [failures EXCEPT ![e] =
                         IF failures[e] < MaxAttempts THEN failures[e] + 1 ELSE failures[e]]}
    <2>1. CASE failures' = failures
      BY <2>1
    <2>2. CASE Failed(w)
      BY <1>1, <2>2, FailedAttempt
    <2> QED
      BY <2>1, <2>2 DEF Post, PostAccepted, PostRefused, PostUnacknowledged
  <1> HIDE DEF e
  <1>6. Promise!Attempt(e)
    BY <1>2, <1>3, <1>4, <1>5 DEF Promise!Attempt
  <1> QED
    BY <1>2, <1>6 DEF Promise!Next

\* That a row settled from a copy says what happened is CopiesSound.
LEMMA RecordsPromise ==
  ASSUME WebhookInv, NEW w \in Workers, RecordDelivered(w) \/ RecordFailure(w)
  PROVE  [Promise!Next]_(Promise!vars)
  <1> DEFINE e == Current(w)
             n == Head(batch[w]).attempts
  <1>1. stage[w] # "idle"
    BY DEF RecordDelivered, Succeeded, RecordFailure
  <1>2. /\ e \in Deliveries /\ status[e] # "absent" /\ n \in 0 .. MaxAttempts - 1
        /\ failures \in [Deliveries -> 0 .. MaxAttempts]
    BY <1>1, WorkerAt DEF CopySound, Current, WebhookInv, TypeOK
  <1>3. UNCHANGED <<accepted, failures>> /\ Accepted' = Accepted
    BY DEF RecordDelivered, RecordFailure, historyVars, Accepted
  <1>4. CASE RecordDelivered(w)
    <2>1. e \in Accepted
      BY <1>2, <1>4 DEF RecordDelivered, Succeeded, WebhookInv, CopiesSound, BatchSound, Accepted
    <2>2. status' = [status EXCEPT ![e] = "delivered"]
      BY <1>4 DEF RecordDelivered
    <2> HIDE DEF e
    <2> QED
      BY <1>2, <1>3, <2>1, <2>2 DEF Promise!Next, Promise!Deliver
  <1>5. CASE RecordFailure(w) /\ UNCHANGED status
    BY <1>3, <1>5, SameForIngestion
  <1>6. CASE RecordFailure(w) /\ GivesUp(n + 1) /\ status' = [status EXCEPT ![e] = "abandoned"]
    <2>1. n < failures[e]
      BY <1>6 DEF RecordFailure, WebhookInv, CopiesSound, BatchSound
    <2>2. failures[e] = MaxAttempts
      BY <1>2, <1>6, <2>1, RetryAssumption DEF GivesUp
    <2> HIDE DEF e
    <2> QED
      BY <1>2, <1>3, <1>6, <2>2 DEF Promise!Next, Promise!GiveUp
  <1> QED
    BY <1>4, <1>5, <1>6 DEF RecordFailure

\* The workers implement what the outbox implements, at-least-once delivery with
\* a budget of failures, though nothing keeps them from a row of another's.
THEOREM RefinesDelivery == Spec => ImplementsDelivery
  <1>1. Init => Promise!Init
    BY DEF Init, Promise!Init, Accepted
  <1>2. WebhookInv /\ [Next]_vars => [Promise!Next]_(Promise!vars)
    <2> SUFFICES ASSUME WebhookInv, [Next]_vars PROVE [Promise!Next]_(Promise!vars)
      OBVIOUS
    <2>1. ASSUME NEW e \in Deliveries, Enqueue(e) PROVE [Promise!Next]_(Promise!vars)
      <3>1. /\ status[e] = "absent" /\ status' = [status EXCEPT ![e] = "pending"]
            /\ UNCHANGED <<accepted, failures>> /\ Accepted' = Accepted
        BY <2>1 DEF Enqueue, historyVars, Accepted
      <3> QED
        BY <3>1 DEF Promise!Next, Promise!Offer
    <2>2. CASE UNCHANGED <<status, accepted, failures>>
      BY <2>2, SameForIngestion
    <2> QED
      BY <2>1, <2>2, PostsPromise, RecordsPromise
         DEF Next, Claim, Lose, Tick, vars, rowVars, historyVars
  <1> QED
    BY <1>1, <1>2, WebhookInvariant, PTL DEF Spec, ImplementsDelivery, Promise!Spec
===============================================================================
