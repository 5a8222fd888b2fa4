----------------------------- MODULE Outbox_proofs -----------------------------
(***************************************************************************)
(* Proofs about Outbox.  A drainer acts on copies of rows: what the copies *)
(* still say of the table, however stale they are, is the invariant        *)
(* CopiesSound, and the table's own properties rest on it.                 *)
(***************************************************************************)
EXTENDS Outbox, SequenceTheorems, FiniteSetTheorems, TLAPS

\* What is true of the rows drainer d still holds, and of the publish it is
\* settling: its event is in the topic, or its failure has been counted.
CopySound(d) ==
  /\ stage[d] = "idle" <=> batch[d] = << >>
  /\ \A c \in ToSet(batch[d]) :
       /\ c.event \in Committed
       /\ c.attempts < MaxAttempts
       /\ c.attempts =< failures[c.event]
  /\ stage[d] = "acked" => Current(d) \in Published
  /\ stage[d] = "failed" => Head(batch[d]).attempts < failures[Current(d)]

CopiesSound == \A d \in Drainers : CopySound(d)

\* Every copy the broker counts is in the topic.
CopiesInTopic == \A e \in Events : copies[e] > 0 => e \in Published

\* A row that may be claimed has attempts left.
AttemptsLeft == \A e \in Events : status[e] \notin Settled => attempts[e] < MaxAttempts

OutboxInv ==
  TypeOK /\ CopiesSound /\ CopiesInTopic /\ AttemptsLeft
    /\ TableMatchesTopic /\ NotAbandonedEarly

-------------------------------------------------------------------------------
(* Sequences.                                                              *)

LEMMA ToSetMember ==
  ASSUME NEW S, NEW s \in Seq(S), NEW x \in ToSet(s)
  PROVE  x \in S
  BY DEF ToSet

LEMMA HeadAndTail ==
  ASSUME NEW S, NEW s \in Seq(S), s # << >>
  PROVE  /\ Head(s) \in S /\ Head(s) \in ToSet(s)
         /\ Tail(s) \in Seq(S) /\ ToSet(Tail(s)) \subseteq ToSet(s)
         /\ Tail(s) = << >> <=> Len(s) = 1
  <1>1. /\ Head(s) \in S /\ Tail(s) \in Seq(S)
        /\ Len(Tail(s)) = Len(s) - 1
        /\ \A i \in 1 .. Len(Tail(s)) : Tail(s)[i] = s[i + 1]
    BY HeadTailProperties
  <1>2. Len(s) \in Nat \ {0} /\ DOMAIN s = 1 .. Len(s)
    BY EmptySeq, LenProperties
  <1>3. Head(s) \in ToSet(s)
    BY <1>2 DEF ToSet
  <1>4. ToSet(Tail(s)) \subseteq ToSet(s)
    <2>1. ASSUME NEW i \in DOMAIN Tail(s) PROVE Tail(s)[i] \in ToSet(s)
      <3>1. i \in 1 .. Len(Tail(s)) /\ Len(Tail(s)) \in Nat
        BY <1>1, <2>1, LenProperties
      <3>2. i + 1 \in DOMAIN s /\ Tail(s)[i] = s[i + 1]
        BY <1>1, <1>2, <3>1
      <3> QED
        BY <3>2 DEF ToSet
    <2> QED
      BY <2>1 DEF ToSet
  <1>5. Tail(s) = << >> <=> Len(s) = 1
    <2>1. Len(<< >>) = 0 /\ (Tail(s) # << >> => Len(Tail(s)) # 0)
      BY <1>1, EmptySeq
    <2>2. Tail(s) = << >> <=> Len(Tail(s)) = 0
      BY <2>1, Zenon
    <2>3. Len(Tail(s)) = 0 <=> Len(s) = 1
      BY <1>1, <1>2
    <2> QED
      BY <2>2, <2>3, Zenon
  <1> QED
    BY <1>1, <1>3, <1>4, <1>5

LEMMA AppendToSet ==
  ASSUME NEW S, NEW s \in Seq(S), NEW x \in S
  PROVE  Append(s, x) \in Seq(S) /\ ToSet(Append(s, x)) = ToSet(s) \cup {x}
  <1>1. /\ Append(s, x) \in Seq(S) /\ Len(Append(s, x)) = Len(s) + 1
        /\ \A i \in 1 .. Len(s) : Append(s, x)[i] = s[i]
        /\ Append(s, x)[Len(s) + 1] = x
    BY AppendProperties
  <1>2. /\ Len(s) \in Nat /\ DOMAIN s = 1 .. Len(s)
        /\ DOMAIN Append(s, x) = 1 .. Len(s) + 1
    BY <1>1, LenProperties
  <1>3. 1 .. Len(s) + 1 = (1 .. Len(s)) \cup {Len(s) + 1}
    BY <1>2
  <1> QED
    BY <1>1, <1>2, <1>3 DEF ToSet

LEMMA UpToProperties ==
  ASSUME NEW limit \in Nat, NEW n \in Nat
  PROVE  UpTo(limit, n) \in 0 .. limit /\ UpTo(limit, n) =< n
  BY DEF UpTo

\* What a claim puts into the batch: a non-empty sequence of copies of due rows.
LEMMA BatchOfDueRows ==
  ASSUME TypeOK, NEW S \in SUBSET {e \in Events : Due(e)},
         NEW s \in SetToSeqs(S), s # << >>
  PROVE  LET b == [i \in DOMAIN s |-> Claimed(s[i])]
         IN  /\ b \in Seq(Claims) /\ b # << >>
             /\ \A c \in ToSet(b) : \E e \in S : c = Claimed(e)
  <1> DEFINE b == [i \in DOMAIN s |-> Claimed(s[i])]
  <1>1. IsFiniteSet(S) /\ Cardinality(S) \in Nat
    BY RowAssumption, FS_Subset, FS_CardinalityType
  <1>2. s \in [1 .. Cardinality(S) -> S]
    BY DEF SetToSeqs
  <1>3. \A e \in S : Claimed(e) \in Claims
    BY DEF Claimed, Claims, TypeOK
  <1>4. b \in [1 .. Cardinality(S) -> Claims]
    BY <1>2, <1>3
  <1>5. b \in Seq(Claims)
    BY <1>1, <1>4, IsASeq
  <1>6. s \in Seq(S)
    BY <1>1, <1>2, IsASeq
  <1>7. Cardinality(S) # 0
    BY <1>2, <1>6, EmptySeq, LenProperties
  <1>8. b # << >>
    BY <1>1, <1>4, <1>5, <1>7, EmptySeq, LenProperties
  <1>9. \A c \in ToSet(b) : \E e \in S : c = Claimed(e)
    BY <1>2 DEF ToSet
  <1> QED
    BY <1>5, <1>8, <1>9

\* The row a busy drainer is at.
LEMMA CurrentRow ==
  ASSUME OutboxInv, NEW d \in Drainers, stage[d] # "idle"
  PROVE  /\ batch[d] # << >> /\ batch[d] \in Seq(Claims)
         /\ Head(batch[d]) \in Claims /\ Head(batch[d]) \in ToSet(batch[d])
         /\ Current(d) \in Events /\ Current(d) \in Committed
         /\ Head(batch[d]).attempts \in 0 .. MaxAttempts - 1
         /\ Head(batch[d]).attempts =< failures[Current(d)]
  <1>1. batch[d] # << >> /\ batch[d] \in Seq(Claims)
    BY DEF OutboxInv, CopiesSound, CopySound, TypeOK
  <1>2. Head(batch[d]) \in Claims /\ Head(batch[d]) \in ToSet(batch[d])
    BY <1>1, HeadAndTail
  <1>3. /\ Current(d) \in Committed
        /\ Head(batch[d]).attempts < MaxAttempts
        /\ Head(batch[d]).attempts =< failures[Current(d)]
    BY <1>2 DEF OutboxInv, CopiesSound, CopySound, Current
  <1>4. Head(batch[d]).attempts \in 0 .. MaxAttempts /\ Current(d) \in Events
    BY <1>2 DEF Claims, Current
  <1> QED
    BY <1>1, <1>2, <1>3, <1>4, RetryAssumption

\* The broker keeps a copy of e: e and only e joins what is published.
LEMMA KeepPublishes ==
  ASSUME TypeOK, CopiesInTopic, NEW e \in Events, Keep(e)
  PROVE  /\ topic' \in [Accounts -> Seq(Events)]
         /\ copies' \in [Events -> 0 .. 2]
         /\ Published' = Published \cup {e}
         /\ CopiesInTopic'
  <1> DEFINE a == AccountOf[e]
  <1>1. a \in Accounts /\ topic[a] \in Seq(Events)
    BY RowAssumption DEF TypeOK
  <1>2. copies' \in [Events -> 0 .. 2] /\ \A f \in Events \ {e} : copies'[f] = copies[f]
    <2>1. copies \in [Events -> 0 .. 2]
      BY DEF TypeOK
    <2>2. copies[e] \in 0 .. 2
      BY <2>1
    <2>3. UpTo(2, copies[e] + 1) \in 0 .. 2
      BY <2>2 DEF UpTo
    <2> QED
      BY <2>1, <2>3 DEF Keep
  <1>3. /\ Append(topic[a], e) \in Seq(Events)
        /\ ToSet(Append(topic[a], e)) = ToSet(topic[a]) \cup {e}
    BY <1>1, AppendToSet
  <1>4. CASE copies[e] = 0
    <2>1. topic' = [topic EXCEPT ![a] = Append(topic[a], e)]
      BY <1>4 DEF Keep
    <2>2. topic' \in [Accounts -> Seq(Events)]
      BY <1>3, <2>1 DEF TypeOK
    <2>3. topic'[a] = Append(topic[a], e) /\ \A b \in Accounts \ {a} : topic'[b] = topic[b]
      BY <1>1, <2>1 DEF TypeOK
    <2>4. Published' = Published \cup {e}
      BY <1>1, <1>3, <2>3, RowAssumption DEF Published
    <2> QED
      BY <1>2, <2>2, <2>4 DEF CopiesInTopic
  <1>5. CASE copies[e] # 0
    <2>1. topic' = topic
      BY <1>1, <1>5 DEF Keep, TypeOK
    <2>2. e \in Published
      <3>1. copies[e] \in 0 .. 2
        BY DEF TypeOK
      <3>2. copies[e] > 0
        BY <1>5, <3>1
      <3> QED
        BY <3>2 DEF CopiesInTopic
    <2>3. Published' = Published
      BY <2>1 DEF Published
    <2> QED
      BY <1>2, <2>1, <2>2, <2>3 DEF CopiesInTopic, TypeOK
  <1> QED
    BY <1>4, <1>5

\* A failure on the row d is at is counted, up to the budget.
LEMMA FailedCounts ==
  ASSUME OutboxInv, NEW d \in Drainers, stage[d] # "idle", Failed(d)
  PROVE  /\ failures' \in [Events -> 0 .. MaxAttempts]
         /\ \A e \in Events : failures[e] =< failures'[e]
         /\ Head(batch[d]).attempts < failures'[Current(d)]
         /\ stage' = [stage EXCEPT ![d] = "failed"]
  <1>1. /\ Current(d) \in Events /\ Head(batch[d]).attempts \in 0 .. MaxAttempts - 1
        /\ Head(batch[d]).attempts =< failures[Current(d)]
    BY CurrentRow
  <1>2. failures \in [Events -> 0 .. MaxAttempts] /\ MaxAttempts \in Nat
    BY RetryAssumption DEF OutboxInv, TypeOK
  <1>3. failures' = [failures EXCEPT ![Current(d)] = UpTo(MaxAttempts, failures[Current(d)] + 1)]
    BY <1>1, <1>2 DEF Failed
  <1>4. UpTo(MaxAttempts, failures[Current(d)] + 1) =
          IF failures[Current(d)] + 1 < MaxAttempts
            THEN failures[Current(d)] + 1 ELSE MaxAttempts
    BY <1>1, <1>2 DEF UpTo
  <1> QED
    BY <1>1, <1>2, <1>3, <1>4 DEF Failed

-------------------------------------------------------------------------------
(* Initial states.                                                         *)

LEMMA InitOutbox == Init => OutboxInv
  <1> SUFFICES ASSUME Init PROVE OutboxInv
    OBVIOUS
  <1>1. << >> \in Seq(Claims) /\ << >> \in Seq(Events)
    BY EmptySeq
  <1>2. TypeOK
    BY <1>1, RetryAssumption DEF Init, TypeOK, Statuses, Stages
  <1>3. \A d \in Drainers : batch[d] = << >> /\ stage[d] = "idle"
    BY DEF Init
  <1>4. ToSet(<< >>) = {}
    BY DEF ToSet
  <1>5. CopiesSound
    BY <1>3, <1>4 DEF CopiesSound, CopySound
  <1>6. Published = {}
    BY <1>4, RowAssumption DEF Init, Published
  <1>7. CopiesInTopic /\ AttemptsLeft /\ TableMatchesTopic /\ NotAbandonedEarly
    BY <1>6, RetryAssumption
       DEF Init, CopiesInTopic, AttemptsLeft, TableMatchesTopic, NotAbandonedEarly
  <1> QED
    BY <1>2, <1>5, <1>7 DEF OutboxInv

-------------------------------------------------------------------------------
(* One lemma per kind of step.  A step that commits, publishes or fails    *)
(* more leaves the copies of the drainers it does not move sound.          *)

LEMMA OthersStaySound ==
  ASSUME TypeOK, NEW d \in Drainers, CopySound(d),
         stage'[d] = stage[d], batch'[d] = batch[d],
         Committed \subseteq Committed', Published \subseteq Published',
         \A e \in Events : failures[e] \in Nat /\ failures'[e] \in Nat /\ failures[e] =< failures'[e]
  PROVE  CopySound(d)'
  <1>1. batch[d] \in Seq(Claims)
    BY DEF TypeOK
  <1>2. ASSUME NEW c \in ToSet(batch[d])
        PROVE  /\ c.event \in Committed' /\ c.attempts < MaxAttempts
               /\ c.attempts =< failures'[c.event]
    <2>1. c \in Claims
      BY <1>1, <1>2, ToSetMember
    <2>2. c.event \in Events /\ c.attempts \in Nat
      BY <2>1, RetryAssumption DEF Claims
    <2> QED
      BY <1>2, <2>2 DEF CopySound
  <1>3. stage[d] = "acked" => Current(d)' \in Published'
    BY DEF CopySound, Current
  <1>4. stage[d] = "failed" => Head(batch'[d]).attempts < failures'[Current(d)']
    <2>1. SUFFICES ASSUME stage[d] = "failed"
                   PROVE  Head(batch[d]).attempts < failures'[Current(d)]
      BY DEF Current
    <2>2. batch[d] # << >>
      BY <2>1 DEF CopySound
    <2>3. Head(batch[d]) \in Claims
      BY <1>1, <2>2, HeadAndTail
    <2>4. Current(d) \in Events /\ Head(batch[d]).attempts \in Nat
      BY <2>3, RetryAssumption DEF Claims, Current
    <2> QED
      BY <2>1, <2>4 DEF CopySound
  <1> QED
    BY <1>2, <1>3, <1>4 DEF CopySound

\* What the proofs of the steps use of the state before.
LEMMA FailureTypes ==
  ASSUME TypeOK
  PROVE  \A e \in Events : failures[e] \in 0 .. MaxAttempts /\ failures[e] \in Nat
  BY RetryAssumption DEF TypeOK

LEMMA CopyTypes ==
  ASSUME TypeOK, NEW d \in Drainers
  PROVE  \A c \in ToSet(batch[d]) : c.event \in Events /\ c.attempts \in Nat
  <1>1. batch[d] \in Seq(Claims)
    BY DEF TypeOK
  <1>2. ASSUME NEW c \in ToSet(batch[d]) PROVE c.event \in Events /\ c.attempts \in Nat
    <2>1. c \in Claims
      BY <1>1, <1>2, ToSetMember
    <2> QED
      BY <2>1, RetryAssumption DEF Claims
  <1> QED
    BY <1>2

LEMMA ProducerStep ==
  ASSUME OutboxInv, NEW e \in Events,
         Insert(e) \/ CommitBusiness(e) \/ RollbackBusiness(e)
  PROVE  OutboxInv'
  <1> USE DEF workerVars, brokerVars, historyVars
  <1>1. TypeOK'
    <2>1. CASE Insert(e)
      <3>1. Committed \subseteq Events
        BY DEF Committed
      <3> QED
        BY <2>1, <3>1 DEF OutboxInv, TypeOK, Insert, Statuses
    <2>2. CASE CommitBusiness(e)
      BY <2>2 DEF OutboxInv, TypeOK, CommitBusiness, Statuses
    <2>3. CASE RollbackBusiness(e)
      BY <2>3, RetryAssumption DEF OutboxInv, TypeOK, RollbackBusiness, Statuses
    <2> QED
      BY <2>1, <2>2, <2>3
  <1>2. /\ UNCHANGED <<attempts, batch, stage, topic, copies, failures>>
        /\ status[e] \in {"absent", "inserted"}
        /\ status'[e] \in {"absent", "inserted", "pending"}
        /\ \A f \in Events \ {e} : status'[f] = status[f]
    BY DEF Insert, CommitBusiness, RollbackBusiness, OutboxInv, TypeOK
  <1>3. Published' = Published
    BY <1>2 DEF Published
  <1>4. Committed \subseteq Committed'
    BY <1>2 DEF Committed
  <1>5. CopiesSound'
    BY <1>2, <1>3, <1>4, FailureTypes, OthersStaySound DEF OutboxInv, CopiesSound
  <1>6. CopiesInTopic' /\ NotAbandonedEarly'
    BY <1>2, <1>3 DEF OutboxInv, CopiesInTopic, NotAbandonedEarly
  <1>7. AttemptsLeft'
    BY <1>2 DEF OutboxInv, AttemptsLeft, Settled
  <1>8. TableMatchesTopic'
    BY <1>2, <1>3, <1>4 DEF OutboxInv, TableMatchesTopic
  <1> QED
    BY <1>1, <1>5, <1>6, <1>7, <1>8 DEF OutboxInv

\* Steps that leave table, topic and failures alone disturb only the copies
\* of the drainer that takes them.
LEMMA DrainerStep ==
  ASSUME OutboxInv, TypeOK', NEW d \in Drainers, CopySound(d)',
         UNCHANGED <<status, attempts, topic, copies, failures>>,
         \A c \in Drainers \ {d} : stage'[c] = stage[c] /\ batch'[c] = batch[c]
  PROVE  OutboxInv'
  <1>1. Published' = Published /\ Committed' = Committed
    BY DEF Published, Committed
  <1>2. CopiesSound'
    BY <1>1, FailureTypes, OthersStaySound DEF OutboxInv, CopiesSound
  <1>3. CopiesInTopic' /\ AttemptsLeft' /\ TableMatchesTopic' /\ NotAbandonedEarly'
    BY <1>1 DEF OutboxInv, CopiesInTopic, AttemptsLeft, TableMatchesTopic, NotAbandonedEarly
  <1> QED
    BY <1>2, <1>3 DEF OutboxInv

LEMMA ClaimStep ==
  ASSUME OutboxInv, NEW d \in Drainers, Claim(d)
  PROVE  OutboxInv'
  <1> USE DEF tableVars, brokerVars
  <1>1. PICK S \in SUBSET {e \in Events : Due(e)} : \E s \in SetToSeqs(S) :
          /\ s # << >>
          /\ batch' = [batch EXCEPT ![d] = [i \in DOMAIN s |-> Claimed(s[i])]]
          /\ lockedBy' = [e \in Events |-> IF e \in S THEN d ELSE lockedBy[e]]
          /\ shared' = shared \cup (S \cap UNION {EventsOf(c) : c \in Drainers})
    BY DEF Claim
  <1>2. PICK s \in SetToSeqs(S) :
          /\ s # << >>
          /\ batch' = [batch EXCEPT ![d] = [i \in DOMAIN s |-> Claimed(s[i])]]
    BY <1>1
  <1> DEFINE b == [i \in DOMAIN s |-> Claimed(s[i])]
  <1>3. b \in Seq(Claims) /\ b # << >> /\ \A c \in ToSet(b) : \E e \in S : c = Claimed(e)
    BY <1>2, BatchOfDueRows DEF OutboxInv
  <1>4. batch' = [batch EXCEPT ![d] = b]
    BY <1>2
  <1> HIDE DEF b
  <1>5. stage' = [stage EXCEPT ![d] = "claiming"]
    BY DEF Claim
  <1>6. TypeOK'
    <2>1. batch' \in [Drainers -> Seq(Claims)]
      BY <1>3, <1>4 DEF OutboxInv, TypeOK
    <2>2. lockedBy' \in [Events -> Drainers \cup {Nobody}] /\ shared' \subseteq Events
      BY <1>1 DEF OutboxInv, TypeOK
    <2> QED
      BY <1>5, <2>1, <2>2 DEF Claim, OutboxInv, TypeOK, Stages
  <1>7. \A c \in ToSet(b) : /\ c.event \in Committed
                             /\ c.attempts < MaxAttempts
                             /\ c.attempts =< failures[c.event]
    <2>1. ASSUME NEW e \in S
          PROVE  e \in Committed /\ attempts[e] < MaxAttempts /\ attempts[e] =< failures[e]
      BY DEF Due, Committed, OutboxInv, AttemptsLeft, Settled, NotAbandonedEarly
    <2> QED
      BY <1>3, <2>1 DEF Claimed
  <1>8. CopySound(d)'
    <2>1. batch'[d] = b /\ stage'[d] = "claiming"
      BY <1>4, <1>5 DEF OutboxInv, TypeOK
    <2>2. UNCHANGED <<status, failures>> /\ Committed' = Committed
      BY DEF Claim, Committed
    <2> QED
      BY <1>3, <1>7, <2>1, <2>2 DEF CopySound
  <1> QED
    BY <1>4, <1>5, <1>6, <1>8, DrainerStep DEF Claim, OutboxInv, TypeOK

LEMMA UnlockedType ==
  ASSUME TypeOK, NEW d \in Drainers
  PROVE  Unlocked(d) \in [Events -> Drainers \cup {Nobody}]
  BY DEF TypeOK, Unlocked

LEMMA CommitClaimStep ==
  ASSUME OutboxInv, NEW d \in Drainers, CommitClaim(d)
  PROVE  OutboxInv'
  <1> USE DEF tableVars, brokerVars, historyVars
  <1>1. TypeOK'
    BY UnlockedType DEF CommitClaim, OutboxInv, TypeOK, Stages
  <1>2. stage'[d] = "publishing" /\ batch' = batch /\ stage[d] = "claiming"
    BY DEF CommitClaim, OutboxInv, TypeOK
  <1>3. UNCHANGED <<status, failures>> /\ Committed' = Committed
    BY DEF CommitClaim, Committed
  <1>4. CopySound(d)'
    BY <1>2, <1>3 DEF OutboxInv, CopiesSound, CopySound
  <1> QED
    BY <1>1, <1>4, DrainerStep DEF CommitClaim, OutboxInv, TypeOK

LEMMA AbandonStep ==
  ASSUME OutboxInv, NEW d \in Drainers, Abandon(d)
  PROVE  OutboxInv'
  <1> USE DEF tableVars, brokerVars
  <1>1. TypeOK'
    <2>1. << >> \in Seq(Claims)
      BY EmptySeq
    <2> QED
      BY <2>1, UnlockedType DEF Abandon, OutboxInv, TypeOK, Stages
  <1>2. stage'[d] = "idle" /\ batch'[d] = << >>
    BY DEF Abandon, OutboxInv, TypeOK
  <1>3. ToSet(<< >>) = {}
    BY DEF ToSet
  <1>4. CopySound(d)'
    BY <1>2, <1>3 DEF CopySound
  <1> QED
    BY <1>1, <1>4, DrainerStep DEF Abandon, OutboxInv, TypeOK

LEMMA PublishStep ==
  ASSUME OutboxInv, NEW d \in Drainers, Publish(d)
  PROVE  OutboxInv'
  <1> USE DEF tableVars, brokerVars, historyVars
  <1>1. stage[d] = "publishing"
    BY DEF Publish, PublishAcked, PublishRejected, PublishUnacked
  <1>2. /\ batch[d] # << >> /\ Current(d) \in Events /\ Current(d) \in Committed
        /\ CopySound(d) /\ \A e \in Events : failures[e] \in Nat
    BY <1>1, CurrentRow, FailureTypes DEF OutboxInv, CopiesSound
  <1>3. UNCHANGED <<status, attempts, batch>> /\ Committed' = Committed /\ Current(d)' = Current(d)
    BY DEF Publish, PublishAcked, PublishRejected, PublishUnacked, Committed, Current
  <1>4. /\ topic' \in [Accounts -> Seq(Events)] /\ copies' \in [Events -> 0 .. 2]
        /\ Published' \in {Published, Published \cup {Current(d)}}
        /\ CopiesInTopic'
    <2>1. CASE Keep(Current(d))
      BY <1>2, <2>1, KeepPublishes DEF OutboxInv
    <2>2. CASE UNCHANGED <<topic, copies>>
      BY <2>2 DEF OutboxInv, TypeOK, CopiesInTopic, Published
    <2> QED
      BY <2>1, <2>2 DEF Publish, PublishAcked, PublishRejected, PublishUnacked
  <1>5. /\ failures' \in [Events -> 0 .. MaxAttempts]
        /\ \A e \in Events : failures'[e] \in Nat /\ failures[e] =< failures'[e]
        /\ \/ /\ stage' = [stage EXCEPT ![d] = "acked"] /\ Current(d) \in Published'
           \/ /\ stage' = [stage EXCEPT ![d] = "failed"]
              /\ Head(batch[d]).attempts < failures'[Current(d)]
    <2>1. CASE PublishAcked(d)
      <3>1. Current(d) \in Published'
        BY <1>2, <2>1, KeepPublishes DEF PublishAcked, OutboxInv
      <3>2. failures' = failures /\ stage' = [stage EXCEPT ![d] = "acked"]
        BY <2>1 DEF PublishAcked
      <3> QED
        BY <1>2, <3>1, <3>2 DEF OutboxInv, TypeOK
    <2>2. CASE PublishRejected(d) \/ PublishUnacked(d)
      <3>1. Failed(d)
        BY <2>2 DEF PublishRejected, PublishUnacked
      <3>2. /\ failures' \in [Events -> 0 .. MaxAttempts]
            /\ \A e \in Events : failures[e] =< failures'[e]
            /\ Head(batch[d]).attempts < failures'[Current(d)]
            /\ stage' = [stage EXCEPT ![d] = "failed"]
        BY <1>1, <3>1, FailedCounts
      <3>3. \A e \in Events : failures'[e] \in Nat
        BY <3>2, RetryAssumption
      <3> QED
        BY <3>2, <3>3, Zenon
    <2> QED
      BY <2>1, <2>2 DEF Publish
  <1>6. TypeOK'
    <2>1. stage' \in [Drainers -> Stages]
      BY <1>5 DEF OutboxInv, TypeOK, Stages
    <2>2. unrecorded' \subseteq Events
      BY <1>2 DEF Publish, PublishAcked, PublishRejected, PublishUnacked, OutboxInv, TypeOK
    <2> QED
      BY <1>4, <1>5, <2>1, <2>2
         DEF Publish, PublishAcked, PublishRejected, PublishUnacked, OutboxInv, TypeOK
  <1>7. \A c \in Drainers \ {d} : CopySound(c)'
    <2>1. \A c \in Drainers \ {d} : stage'[c] = stage[c]
      BY <1>5 DEF OutboxInv, TypeOK
    <2> QED
      BY <1>2, <1>3, <1>4, <1>5, <2>1, OthersStaySound DEF OutboxInv, CopiesSound
  <1>8. CopySound(d)'
    <2>1. stage'[d] \in {"acked", "failed"}
      BY <1>5 DEF OutboxInv, TypeOK
    <2>2. \A c \in ToSet(batch[d]) : c.event \in Events /\ c.attempts \in Nat
      BY CopyTypes DEF OutboxInv
    <2>3. \A c \in ToSet(batch[d]) : /\ c.event \in Committed
                                     /\ c.attempts < MaxAttempts
                                     /\ c.attempts =< failures'[c.event]
      BY <1>2, <1>5, <2>2 DEF CopySound
    <2>4. /\ stage'[d] = "acked" => Current(d) \in Published'
          /\ stage'[d] = "failed" => Head(batch[d]).attempts < failures'[Current(d)]
      BY <1>5 DEF OutboxInv, TypeOK
    <2> QED
      BY <1>2, <1>3, <2>1, <2>3, <2>4 DEF CopySound
  <1>9. AttemptsLeft'
    BY <1>3 DEF OutboxInv, AttemptsLeft
  <1>10. TableMatchesTopic'
    BY <1>2, <1>3, <1>4 DEF OutboxInv, TableMatchesTopic
  <1>11. NotAbandonedEarly'
    <2>1. \A e \in Events : attempts[e] \in Nat /\ failures'[e] \in 0 .. MaxAttempts
      BY <1>5, RetryAssumption DEF OutboxInv, TypeOK
    <2> QED
      BY <1>2, <1>3, <1>5, <2>1, RetryAssumption DEF OutboxInv, NotAbandonedEarly
  <1> QED
    BY <1>4, <1>6, <1>7, <1>8, <1>9, <1>10, <1>11 DEF OutboxInv, CopiesSound

\* NextRow moves d to the next of its rows, all of which it held before.
LEMMA NextRowSound ==
  ASSUME OutboxInv, NEW d \in Drainers, stage[d] # "idle", NextRow(d),
         Committed' = Committed, failures' = failures
  PROVE  /\ batch' \in [Drainers -> Seq(Claims)] /\ stage' \in [Drainers -> Stages]
         /\ \A c \in Drainers \ {d} : stage'[c] = stage[c] /\ batch'[c] = batch[c]
         /\ CopySound(d)'
  <1>1. batch[d] \in Seq(Claims) /\ batch[d] # << >>
    BY CurrentRow
  <1>2. /\ Tail(batch[d]) \in Seq(Claims) /\ ToSet(Tail(batch[d])) \subseteq ToSet(batch[d])
        /\ Tail(batch[d]) = << >> <=> Len(batch[d]) = 1
    BY <1>1, HeadAndTail
  <1>3. batch' = [batch EXCEPT ![d] = Tail(batch[d])]
    BY DEF NextRow, OutboxInv, TypeOK
  <1>4. batch'[d] = Tail(batch[d]) /\ batch' \in [Drainers -> Seq(Claims)]
    BY <1>2, <1>3 DEF OutboxInv, TypeOK
  <1>5. stage'[d] = IF Len(batch[d]) = 1 THEN "idle" ELSE "publishing"
    BY DEF NextRow, OutboxInv, TypeOK
  <1>6. CopySound(d)
    BY DEF OutboxInv, CopiesSound
  <1>7. stage'[d] = "idle" <=> batch'[d] = << >>
    BY <1>2, <1>4, <1>5
  <1>8. \A c \in ToSet(batch'[d]) : /\ c.event \in Committed'
                                     /\ c.attempts < MaxAttempts
                                     /\ c.attempts =< failures'[c.event]
    BY <1>2, <1>4, <1>6 DEF CopySound
  <1>9. CopySound(d)'
    BY <1>5, <1>7, <1>8 DEF CopySound
  <1> QED
    BY <1>3, <1>4, <1>9 DEF NextRow, OutboxInv, TypeOK, Stages

LEMMA MarkDeliveredStep ==
  ASSUME OutboxInv, NEW d \in Drainers, MarkDelivered(d)
  PROVE  OutboxInv'
  <1> USE DEF brokerVars, historyVars
  <1>1. stage[d] = "acked"
    BY DEF MarkDelivered, MayMarkDelivered
  <1>2. Current(d) \in Events /\ Current(d) \in Committed /\ Current(d) \in Published
    BY <1>1, CurrentRow DEF OutboxInv, CopiesSound, CopySound
  <1>3. /\ status'[Current(d)] = "delivered"
        /\ \A e \in Events \ {Current(d)} : status'[e] = status[e]
        /\ status' \in [Events -> Statuses]
        /\ UNCHANGED <<attempts, topic, copies, failures>>
    BY <1>2 DEF MarkDelivered, OutboxInv, TypeOK, Statuses
  <1>4. Committed' = Committed /\ Published' = Published
    BY <1>2, <1>3 DEF Committed, Published
  <1>5. /\ batch' \in [Drainers -> Seq(Claims)] /\ stage' \in [Drainers -> Stages]
        /\ \A c \in Drainers \ {d} : stage'[c] = stage[c] /\ batch'[c] = batch[c]
        /\ CopySound(d)'
    BY <1>1, <1>3, <1>4, NextRowSound DEF MarkDelivered
  <1>6. TypeOK'
    BY <1>3, <1>5 DEF MarkDelivered, OutboxInv, TypeOK
  <1>7. CopiesSound'
    <2>1. ASSUME NEW c \in Drainers \ {d} PROVE CopySound(c)'
      <3>1. \A f \in Events : failures[f] \in Nat /\ failures'[f] \in Nat /\ failures[f] =< failures'[f]
        BY <1>3, FailureTypes DEF OutboxInv
      <3>2. stage'[c] = stage[c] /\ batch'[c] = batch[c] /\ CopySound(c) /\ TypeOK
        BY <1>5, <2>1 DEF OutboxInv, CopiesSound
      <3> QED
        BY <1>4, <2>1, <3>1, <3>2, OthersStaySound
    <2> QED
      BY <1>5, <2>1 DEF CopiesSound
  <1>8. CopiesInTopic' /\ TableMatchesTopic'
    BY <1>2, <1>3, <1>4 DEF OutboxInv, CopiesInTopic, TableMatchesTopic
  <1>9. AttemptsLeft' /\ NotAbandonedEarly'
    BY <1>3 DEF OutboxInv, AttemptsLeft, NotAbandonedEarly, Settled
  <1> QED
    BY <1>6, <1>7, <1>8, <1>9 DEF OutboxInv

LEMMA MarkDeliveredFailsStep ==
  ASSUME OutboxInv, NEW d \in Drainers, MarkDeliveredFails(d)
  PROVE  OutboxInv'
  <1> USE DEF tableVars, brokerVars
  <1>1. /\ stage[d] = "acked" /\ Failed(d)
        /\ UNCHANGED <<status, attempts, batch, topic, copies>>
    BY DEF MarkDeliveredFails
  <1>2. /\ batch[d] # << >> /\ Current(d) \in Events
        /\ CopySound(d) /\ \A e \in Events : failures[e] \in Nat
    BY <1>1, CurrentRow, FailureTypes DEF OutboxInv, CopiesSound
  <1>3. /\ failures' \in [Events -> 0 .. MaxAttempts]
        /\ \A e \in Events : failures[e] =< failures'[e]
        /\ Head(batch[d]).attempts < failures'[Current(d)]
        /\ stage' = [stage EXCEPT ![d] = "failed"]
    BY <1>1, FailedCounts
  <1>4. \A e \in Events : failures'[e] \in Nat
    BY <1>3, RetryAssumption
  <1>5. Committed' = Committed /\ Published' = Published /\ Current(d)' = Current(d)
    BY <1>1 DEF Committed, Published, Current
  <1>6. TypeOK'
    BY <1>2, <1>3 DEF MarkDeliveredFails, OutboxInv, TypeOK, Stages
  <1>7. \A c \in Drainers \ {d} : CopySound(c)'
    <2>1. \A c \in Drainers \ {d} : stage'[c] = stage[c]
      BY <1>3 DEF OutboxInv, TypeOK
    <2> QED
      BY <1>1, <1>2, <1>3, <1>4, <1>5, <2>1, OthersStaySound DEF OutboxInv, CopiesSound
  <1>8. CopySound(d)'
    <2>1. stage'[d] = "failed"
      BY <1>3 DEF OutboxInv, TypeOK
    <2>2. \A c \in ToSet(batch[d]) : c.event \in Events /\ c.attempts \in Nat
      BY CopyTypes DEF OutboxInv
    <2>3. \A c \in ToSet(batch[d]) : /\ c.event \in Committed
                                     /\ c.attempts < MaxAttempts
                                     /\ c.attempts =< failures'[c.event]
      BY <1>2, <1>3, <1>4, <2>2 DEF CopySound
    <2> QED
      BY <1>1, <1>2, <1>3, <1>5, <2>1, <2>3 DEF CopySound
  <1>9. CopiesInTopic' /\ AttemptsLeft' /\ TableMatchesTopic'
    BY <1>1, <1>5 DEF OutboxInv, CopiesInTopic, AttemptsLeft, TableMatchesTopic
  <1>10. NotAbandonedEarly'
    <2>1. \A e \in Events : attempts[e] \in Nat /\ failures'[e] \in 0 .. MaxAttempts
      BY <1>3, RetryAssumption DEF OutboxInv, TypeOK
    <2> QED
      BY <1>1, <1>2, <1>3, <2>1, RetryAssumption DEF OutboxInv, NotAbandonedEarly
  <1> QED
    BY <1>6, <1>7, <1>8, <1>9, <1>10 DEF OutboxInv, CopiesSound

\* The stale counter is below the failures by the one being settled.
LEMMA MarkFailedStep ==
  ASSUME OutboxInv, NEW d \in Drainers, MarkFailed(d)
  PROVE  OutboxInv'
  <1> USE DEF brokerVars, historyVars
  <1> DEFINE e == Current(d)
             n == Head(batch[d]).attempts
  <1>1. stage[d] = "failed"
    BY DEF MarkFailed
  <1>2. /\ e \in Events /\ e \in Committed /\ n \in 0 .. MaxAttempts - 1
        /\ n < failures[e] /\ failures[e] \in 0 .. MaxAttempts
    BY <1>1, CurrentRow, FailureTypes DEF OutboxInv, CopiesSound, CopySound
  <1>3. n + 1 \in 0 .. MaxAttempts /\ n + 1 =< failures[e]
    BY <1>2, RetryAssumption
  <1>4. /\ attempts' = [attempts EXCEPT ![e] = n + 1]
        /\ UNCHANGED <<now, createdAt, lockedBy, topic, copies, failures,
                       shared, unrecorded>>
        /\ \/ /\ n + 1 >= MaxAttempts
              /\ status' = [status EXCEPT ![e] = "abandoned"] /\ dueAt' = dueAt
           \/ /\ ~(n + 1 >= MaxAttempts) /\ status' = [status EXCEPT ![e] = status[e]]
              /\ dueAt' = [dueAt EXCEPT ![e] = UpTo(MaxTime, now + Backoff[n])]
        /\ NextRow(d)
    BY DEF MarkFailed, Exhausted, RetryStatus
  <1> HIDE DEF e, n
  <1>5. /\ attempts'[e] = n + 1 /\ status'[e] \in {status[e], "abandoned"}
        /\ status'[e] = "abandoned" /\ status[e] # "abandoned" => n + 1 >= MaxAttempts
        /\ n + 1 >= MaxAttempts => status'[e] = "abandoned"
        /\ \A f \in Events \ {e} : status'[f] = status[f] /\ attempts'[f] = attempts[f]
    BY <1>2, <1>4 DEF OutboxInv, TypeOK
  <1>6. Committed' = Committed /\ Published' = Published
    BY <1>2, <1>4, <1>5 DEF Committed, Published
  <1>7. /\ batch' \in [Drainers -> Seq(Claims)] /\ stage' \in [Drainers -> Stages]
        /\ \A c \in Drainers \ {d} : stage'[c] = stage[c] /\ batch'[c] = batch[c]
        /\ CopySound(d)'
    BY <1>1, <1>4, <1>6, NextRowSound
  <1>8. TypeOK'
    <2>1. status' \in [Events -> Statuses] /\ attempts' \in [Events -> 0 .. MaxAttempts]
      BY <1>3, <1>4 DEF OutboxInv, TypeOK, Statuses
    <2>2. dueAt' \in [Events -> 0 .. MaxTime]
      <3>1. now + Backoff[n] \in Nat /\ MaxTime \in Nat
        BY <1>2, RetryAssumption DEF OutboxInv, TypeOK
      <3>2. UpTo(MaxTime, now + Backoff[n]) \in 0 .. MaxTime
        BY <3>1, UpToProperties
      <3> QED
        BY <1>4, <3>2 DEF OutboxInv, TypeOK
    <2> QED
      BY <1>4, <1>7, <2>1, <2>2 DEF OutboxInv, TypeOK
  <1>9. CopiesSound'
    <2>1. ASSUME NEW c \in Drainers \ {d} PROVE CopySound(c)'
      <3>1. \A f \in Events : failures[f] \in Nat /\ failures'[f] \in Nat /\ failures[f] =< failures'[f]
        BY <1>4, FailureTypes DEF OutboxInv
      <3>2. stage'[c] = stage[c] /\ batch'[c] = batch[c] /\ CopySound(c) /\ TypeOK
        BY <1>7, <2>1 DEF OutboxInv, CopiesSound
      <3> QED
        BY <1>6, <2>1, <3>1, <3>2, OthersStaySound
    <2> QED
      BY <1>7, <2>1 DEF CopiesSound
  <1>10. CopiesInTopic' /\ TableMatchesTopic'
    BY <1>4, <1>5, <1>6 DEF OutboxInv, CopiesInTopic, TableMatchesTopic
  <1>11. AttemptsLeft'
    BY <1>3, <1>5, RetryAssumption DEF OutboxInv, AttemptsLeft, Settled
  <1>12. NotAbandonedEarly'
    BY <1>2, <1>3, <1>4, <1>5, RetryAssumption DEF OutboxInv, NotAbandonedEarly
  <1> QED
    BY <1>8, <1>9, <1>10, <1>11, <1>12 DEF OutboxInv

LEMMA IdleStep ==
  ASSUME OutboxInv, Tick \/ UNCHANGED vars
  PROVE  OutboxInv'
  <1> USE DEF tableVars, workerVars, brokerVars, historyVars, vars
  <1>1. TypeOK'
    BY RetryAssumption DEF Tick, OutboxInv, TypeOK
  <1>2. UNCHANGED <<status, attempts, batch, stage, topic, copies, failures>>
    BY DEF Tick
  <1>3. Published' = Published /\ Committed' = Committed
    BY <1>2 DEF Published, Committed
  <1>4. CopiesSound'
    BY <1>2, <1>3, FailureTypes, OthersStaySound DEF OutboxInv, CopiesSound
  <1>5. CopiesInTopic' /\ AttemptsLeft' /\ TableMatchesTopic' /\ NotAbandonedEarly'
    BY <1>2, <1>3 DEF OutboxInv, CopiesInTopic, AttemptsLeft, TableMatchesTopic, NotAbandonedEarly
  <1> QED
    BY <1>1, <1>4, <1>5 DEF OutboxInv

LEMMA NextOutbox == OutboxInv /\ [Next]_vars => OutboxInv'
  BY ProducerStep, ClaimStep, CommitClaimStep, PublishStep, MarkDeliveredStep,
     MarkDeliveredFailsStep, MarkFailedStep, AbandonStep, IdleStep
     DEF Next

LEMMA OutboxInvariant == Spec => []OutboxInv
  BY InitOutbox, NextOutbox, PTL DEF Spec

-------------------------------------------------------------------------------
\* Every column and every drainer is well typed, whatever the number of
\* events and replicas; the attempts column stays within the backoff table.
THEOREM TypeCorrect == Spec => []TypeOK
  <1>1. OutboxInv => TypeOK
    BY DEF OutboxInv
  <1> QED
    BY <1>1, OutboxInvariant, PTL

\* Whatever is delivered is in the topic, and only committed events are.
THEOREM NothingLostOrInvented == Spec => []TableMatchesTopic
  <1>1. OutboxInv => TableMatchesTopic
    BY DEF OutboxInv
  <1> QED
    BY <1>1, OutboxInvariant, PTL

\* No event is abandoned before its retry budget is spent.
THEOREM BudgetRespected == Spec => []NotAbandonedEarly
  <1>1. OutboxInv => NotAbandonedEarly
    BY DEF OutboxInv
  <1> QED
    BY <1>1, OutboxInvariant, PTL

\* A settled row never becomes due again.
THEOREM SettlementIsFinal == Spec => SettledRowsStaySettled
  <1>1. ASSUME OutboxInv, [Next]_vars, NEW e \in Events, status[e] \in Settled
        PROVE  status'[e] \in Settled
    <2> USE DEF tableVars, workerVars, brokerVars, historyVars, vars, Settled
    <2>1. CASE \E f \in Events : Insert(f) \/ CommitBusiness(f) \/ RollbackBusiness(f)
      BY <1>1, <2>1 DEF Insert, CommitBusiness, RollbackBusiness, OutboxInv, TypeOK
    <2>2. ASSUME NEW d \in Drainers, MarkDelivered(d)
          PROVE  status'[e] \in Settled
      BY <1>1, <2>2 DEF MarkDelivered, OutboxInv, TypeOK
    <2>3. ASSUME NEW d \in Drainers, MarkFailed(d)
          PROVE  status'[e] \in Settled
      BY <1>1, <2>3 DEF MarkFailed, RetryStatus, OutboxInv, TypeOK
    <2>4. CASE status' = status
      BY <1>1, <2>4
    <2> QED
      BY <1>1, <2>1, <2>2, <2>3, <2>4
         DEF Next, Claim, CommitClaim, Publish, PublishAcked, PublishRejected,
             PublishUnacked, MarkDeliveredFails, Abandon, Tick
  <1>2. OutboxInv /\ [Next]_vars =>
          [\A e \in Events : status[e] \in Settled => status'[e] \in Settled]_vars
    BY <1>1
  <1> QED
    BY <1>2, OutboxInvariant, PTL DEF Spec, SettledRowsStaySettled

-------------------------------------------------------------------------------
(* The refinement of Delivery: how each step looks to a producer.          *)

LEMMA SameForProducers ==
  ASSUME UNCHANGED <<StateOf, topic, failures>>
  PROVE  UNCHANGED Promise!vars
  BY DEF Promise!vars, Published

LEMMA StateOfCommitted ==
  ASSUME TypeOK, NEW e \in Events
  PROVE  StateOf[e] # "absent" <=> e \in Committed
  BY DEF StateOf, Committed

\* What a drainer learns of a failure is one failure more, within the budget.
LEMMA FailedAttempt ==
  ASSUME OutboxInv, NEW d \in Drainers, stage[d] # "idle", Failed(d)
  PROVE  failures' = [failures EXCEPT ![Current(d)] =
                        IF failures[Current(d)] < MaxAttempts
                          THEN failures[Current(d)] + 1 ELSE failures[Current(d)]]
  <1>1. /\ Current(d) \in Events /\ MaxAttempts \in Nat
        /\ failures \in [Events -> 0 .. MaxAttempts]
    BY CurrentRow, RetryAssumption DEF OutboxInv, TypeOK
  <1>2. failures' = [failures EXCEPT ![Current(d)] = UpTo(MaxAttempts, failures[Current(d)] + 1)]
    BY <1>1 DEF Failed
  <1>3. failures[Current(d)] \in 0 .. MaxAttempts
    BY <1>1
  <1>4. UpTo(MaxAttempts, failures[Current(d)] + 1) =
          IF failures[Current(d)] < MaxAttempts
            THEN failures[Current(d)] + 1 ELSE failures[Current(d)]
    BY <1>1, <1>3 DEF UpTo
  <1> QED
    BY <1>2, <1>4

LEMMA ProducersPromise ==
  ASSUME OutboxInv, NEW e \in Events,
         Insert(e) \/ CommitBusiness(e) \/ RollbackBusiness(e)
  PROVE  [Promise!Next]_(Promise!vars)
  <1> USE DEF brokerVars, historyVars
  <1>1. status \in [Events -> Statuses]
    BY DEF OutboxInv, TypeOK
  <1>2. CASE Insert(e) \/ RollbackBusiness(e)
    <2>1. StateOf' = StateOf
      BY <1>1, <1>2 DEF Insert, RollbackBusiness, StateOf
    <2> QED
      BY <1>2, <2>1, SameForProducers DEF Insert, RollbackBusiness
  <1>3. CASE CommitBusiness(e)
    <2>1. StateOf[e] = "absent" /\ StateOf' = [StateOf EXCEPT ![e] = "pending"]
      BY <1>1, <1>3 DEF CommitBusiness, StateOf
    <2>2. Published' = Published /\ failures' = failures
      BY <1>3 DEF CommitBusiness, Published
    <2> QED
      BY <2>1, <2>2 DEF Promise!Next, Promise!Offer
  <1> QED
    BY <1>2, <1>3

LEMMA AttemptsPromise ==
  ASSUME OutboxInv, NEW d \in Drainers, Publish(d) \/ MarkDeliveredFails(d)
  PROVE  [Promise!Next]_(Promise!vars)
  <1> USE DEF tableVars, brokerVars, historyVars
  <1> DEFINE e == Current(d)
  <1>1. stage[d] # "idle"
    BY DEF Publish, PublishAcked, PublishRejected, PublishUnacked, MarkDeliveredFails
  <1>2. e \in Events /\ StateOf[e] # "absent"
    BY <1>1, CurrentRow, StateOfCommitted DEF OutboxInv
  <1>3. StateOf' = StateOf
    BY DEF Publish, PublishAcked, PublishRejected, PublishUnacked, MarkDeliveredFails, StateOf
  <1>4. Published' \in {Published, Published \cup {e}}
    <2>1. CASE topic' = topic
      BY <2>1 DEF Published
    <2>2. CASE Keep(e)
      BY <1>2, <2>2, KeepPublishes DEF OutboxInv
    <2> QED
      BY <2>1, <2>2 DEF Publish, PublishAcked, PublishRejected, PublishUnacked, MarkDeliveredFails
  <1>5. failures' \in {failures, [failures EXCEPT ![e] =
                         IF failures[e] < MaxAttempts THEN failures[e] + 1 ELSE failures[e]]}
    <2>1. CASE failures' = failures
      BY <2>1
    <2>2. CASE Failed(d)
      BY <1>1, <2>2, FailedAttempt
    <2> QED
      BY <2>1, <2>2 DEF Publish, PublishAcked, PublishRejected, PublishUnacked, MarkDeliveredFails
  <1> HIDE DEF e
  <1>6. Promise!Attempt(e)
    BY <1>2, <1>3, <1>4, <1>5 DEF Promise!Attempt
  <1> QED
    BY <1>2, <1>6 DEF Promise!Next

LEMMA SettlementPromise ==
  ASSUME OutboxInv, NEW d \in Drainers, MarkDelivered(d) \/ MarkFailed(d)
  PROVE  [Promise!Next]_(Promise!vars)
  <1> USE DEF brokerVars, historyVars
  <1> DEFINE e == Current(d)
             n == Head(batch[d]).attempts
  <1>1. stage[d] # "idle"
    BY DEF MarkDelivered, MayMarkDelivered, MarkFailed
  <1>2. /\ e \in Events /\ e \in Committed /\ StateOf[e] # "absent"
        /\ status \in [Events -> Statuses] /\ n \in 0 .. MaxAttempts - 1
    BY <1>1, CurrentRow, StateOfCommitted DEF OutboxInv, TypeOK
  <1>3. UNCHANGED <<topic, failures>> /\ Published' = Published
    BY DEF MarkDelivered, MarkFailed, Published
  <1>4. CASE MarkDelivered(d)
    <2>1. e \in Published
      BY <1>4 DEF MarkDelivered, MayMarkDelivered, OutboxInv, CopiesSound, CopySound
    <2>2. StateOf' = [StateOf EXCEPT ![e] = "delivered"]
      BY <1>2, <1>4 DEF MarkDelivered, StateOf
    <2> HIDE DEF e
    <2> QED
      BY <1>2, <1>3, <2>1, <2>2 DEF Promise!Next, Promise!Deliver
  <1>5. CASE MarkFailed(d) /\ status' = status
    BY <1>3, <1>5, SameForProducers DEF StateOf
  <1>6. CASE MarkFailed(d) /\ status' # status
    <2>1. Exhausted(n + 1) /\ status' = [status EXCEPT ![e] = "abandoned"]
      BY <1>2, <1>6 DEF MarkFailed, RetryStatus
    <2>2. n < failures[e] /\ failures[e] \in 0 .. MaxAttempts
      BY <1>2, <1>6 DEF MarkFailed, OutboxInv, TypeOK, CopiesSound, CopySound
    <2>3. failures[e] = MaxAttempts
      BY <1>2, <2>1, <2>2, RetryAssumption DEF Exhausted
    <2>4. StateOf' = [StateOf EXCEPT ![e] = "abandoned"]
      BY <1>2, <2>1 DEF StateOf
    <2> HIDE DEF e
    <2> QED
      BY <1>2, <1>3, <2>3, <2>4 DEF Promise!Next, Promise!GiveUp
  <1> QED
    BY <1>4, <1>5, <1>6

\* Claims, crashes and the passing of time are hidden from producers.
LEMMA HiddenPromise ==
  ASSUME OutboxInv,
         \/ \E d \in Drainers : Claim(d) \/ CommitClaim(d) \/ Abandon(d)
         \/ Tick \/ UNCHANGED vars
  PROVE  [Promise!Next]_(Promise!vars)
  <1>1. UNCHANGED <<status, topic, failures>>
    BY DEF Claim, CommitClaim, Abandon, Tick, vars, tableVars, brokerVars, historyVars
  <1>2. StateOf' = StateOf
    BY <1>1 DEF StateOf
  <1> QED
    BY <1>1, <1>2, SameForProducers

\* The outbox and its drainers implement at-least-once delivery with a budget
\* of failures, for any number of events and replicas.
THEOREM RefinesDelivery == Spec => ImplementsDelivery
  <1>1. Init => Promise!Init
    <2> SUFFICES ASSUME Init PROVE Promise!Init
      OBVIOUS
    <2>1. StateOf = [e \in Events |-> "absent"]
      BY DEF Init, StateOf
    <2>2. \A e \in Events : topic[AccountOf[e]] = << >>
      BY RowAssumption DEF Init
    <2>3. Published = {}
      BY <2>2 DEF Published, ToSet
    <2> QED
      BY <2>1, <2>3 DEF Init, Promise!Init
  <1>2. OutboxInv /\ [Next]_vars => [Promise!Next]_(Promise!vars)
    BY ProducersPromise, AttemptsPromise, SettlementPromise, HiddenPromise DEF Next
  <1> QED
    BY <1>1, <1>2, OutboxInvariant, PTL DEF Spec, ImplementsDelivery, Promise!Spec

-------------------------------------------------------------------------------
(* Duplicates.  A row that no two drainers held at once is pending for as  *)
(* long as one holds it; it is published again only if the first copy did  *)
(* not come to the table.                                                  *)

\* A batch names no row twice.
Distinct(s) == \A i, j \in DOMAIN s : i # j => s[i].event # s[j].event

BatchesDistinct == \A d \in Drainers : Distinct(batch[d])

\* What is not known as shared is held by one drainer at most, and pending.
SoleHolder ==
  \A e \in Events \ shared, d \in Drainers : e \in EventsOf(d) =>
    /\ status[e] = "pending"
    /\ \A c \in Drainers : e \in EventsOf(c) => c = d

\* One copy is all the broker keeps of a row that was never shared and always
\* recorded: the row says so, or the drainer at it is about to.
KeptOnce ==
  \A e \in Events \ (shared \cup unrecorded) : copies[e] > 0 =>
    /\ copies[e] = 1
    /\ status[e] = "delivered" \/ \E d \in Drainers : stage[d] = "acked" /\ Current(d) = e

OnceInv == OutboxInv /\ BatchesDistinct /\ SoleHolder /\ KeptOnce

LEMMA InitOnce == Init => BatchesDistinct /\ SoleHolder /\ KeptOnce
  BY DEF Init, BatchesDistinct, Distinct, SoleHolder, EventsOf, KeptOnce

LEMMA EventsOfIs ==
  ASSUME NEW d
  PROVE  EventsOf(d) = {c.event : c \in ToSet(batch[d])}
  BY DEF EventsOf, ToSet

LEMMA CurrentHeld ==
  ASSUME OutboxInv, NEW d \in Drainers, stage[d] # "idle"
  PROVE  Current(d) \in EventsOf(d)
  BY CurrentRow, EventsOfIs DEF Current

\* The rest of a batch that names no row twice is about other rows.
LEMMA RestIsOfOthers ==
  ASSUME NEW s \in Seq(Claims), s # << >>, Distinct(s)
  PROVE  Distinct(Tail(s)) /\ \A c \in ToSet(Tail(s)) : c.event # Head(s).event
  <1>1. /\ Tail(s) \in Seq(Claims) /\ Len(Tail(s)) = Len(s) - 1
        /\ \A i \in 1 .. Len(Tail(s)) : Tail(s)[i] = s[i + 1]
    BY HeadTailProperties
  <1>2. Head(s) = s[1] /\ Len(s) \in Nat \ {0} /\ DOMAIN s = 1 .. Len(s)
    BY EmptySeq, LenProperties
  <1>3. \A i \in DOMAIN Tail(s) :
          i \in 1 .. Len(s) - 1 /\ i + 1 \in DOMAIN s /\ Tail(s)[i] = s[i + 1]
    BY <1>1, <1>2, LenProperties
  <1>4. Distinct(Tail(s))
    <2> SUFFICES ASSUME NEW i \in DOMAIN Tail(s), NEW j \in DOMAIN Tail(s), i # j
                 PROVE  Tail(s)[i].event # Tail(s)[j].event
      BY DEF Distinct
    <2>1. i + 1 # j + 1
      BY <1>2, <1>3
    <2> QED
      BY <1>3, <2>1 DEF Distinct
  <1>5. \A c \in ToSet(Tail(s)) : c.event # Head(s).event
    <2> SUFFICES ASSUME NEW i \in DOMAIN Tail(s)
                 PROVE  Tail(s)[i].event # Head(s).event
      BY DEF ToSet
    <2>1. i + 1 # 1 /\ 1 \in DOMAIN s
      BY <1>2, <1>3
    <2> QED
      BY <1>2, <1>3, <2>1 DEF Distinct
  <1> QED
    BY <1>4, <1>5

\* No drainer moves, and what is pending or delivered stays so.
LEMMA OnceWhileQuiet ==
  ASSUME OnceInv, UNCHANGED <<batch, stage, copies, shared, unrecorded>>,
         \A e \in Events : status[e] \in {"pending", "delivered"} => status'[e] = status[e]
  PROVE  BatchesDistinct' /\ SoleHolder' /\ KeptOnce'
  <1>1. BatchesDistinct'
    BY DEF OnceInv, BatchesDistinct
  <1>2. SoleHolder'
    BY DEF OnceInv, SoleHolder, EventsOf
  <1>3. KeptOnce'
    BY DEF OnceInv, KeptOnce, Current
  <1> QED
    BY <1>1, <1>2, <1>3

\* A drainer gets on with the row it is at: no new copy is kept, or one by a
\* drainer that publishes; and a copy is forgotten only by what is unrecorded.
LEMMA OnceWhilePublishing ==
  ASSUME OnceInv, NEW d \in Drainers,
         UNCHANGED <<batch, status, shared>>,
         \A c \in Drainers : c # d => stage'[c] = stage[c],
         unrecorded \subseteq unrecorded',
         \/ /\ copies' = copies
            /\ stage[d] = "acked" => Current(d) \in unrecorded'
         \/ /\ stage[d] = "publishing" /\ Keep(Current(d))
            /\ stage'[d] = "acked" \/ Current(d) \in unrecorded'
  PROVE  BatchesDistinct' /\ SoleHolder' /\ KeptOnce'
  <1>1. BatchesDistinct' /\ SoleHolder'
    BY DEF OnceInv, BatchesDistinct, SoleHolder, EventsOf
  <1>2. KeptOnce'
    <2> SUFFICES ASSUME NEW e \in Events, e \notin shared, e \notin unrecorded', copies'[e] > 0
                 PROVE  /\ copies'[e] = 1
                        /\ \/ status[e] = "delivered"
                           \/ \E c \in Drainers : stage'[c] = "acked" /\ Current(c) = e
      BY DEF KeptOnce, Current
    <2>1. copies[e] > 0 => /\ copies[e] = 1
                           /\ \/ status[e] = "delivered"
                              \/ \E c \in Drainers : stage[c] = "acked" /\ Current(c) = e
      BY DEF OnceInv, KeptOnce
    <2>2. CASE copies' = copies /\ (stage[d] = "acked" => Current(d) \in unrecorded')
      BY <2>1, <2>2
    <2>3. CASE /\ stage[d] = "publishing" /\ Keep(Current(d))
               /\ stage'[d] = "acked" \/ Current(d) \in unrecorded'
      <3>1. Current(d) \in Events /\ Current(d) \in EventsOf(d) /\ copies \in [Events -> 0 .. 2]
        BY <2>3, CurrentRow, CurrentHeld DEF OnceInv, OutboxInv, TypeOK
      <3>2. \A f \in Events :
              copies'[f] = IF f = Current(d) THEN UpTo(2, copies[f] + 1) ELSE copies[f]
        BY <2>3, <3>1 DEF Keep
      <3>3. CASE e # Current(d)
        BY <2>1, <2>3, <3>2, <3>3
      <3>4. CASE e = Current(d)
        <4>1. status[e] = "pending"
          BY <3>1, <3>4 DEF OnceInv, SoleHolder
        <4>2. ~(\E c \in Drainers : stage[c] = "acked" /\ Current(c) = e)
          <5> SUFFICES ASSUME NEW c \in Drainers, stage[c] = "acked", Current(c) = e
                       PROVE  FALSE
            OBVIOUS
          <5>1. e \in EventsOf(c)
            BY CurrentHeld DEF OnceInv
          <5> QED
            BY <2>3, <3>1, <3>4, <5>1 DEF OnceInv, SoleHolder
        <4>3. copies[e] \in 0 .. 2 /\ ~(copies[e] > 0)
          BY <2>1, <3>1, <4>1, <4>2
        <4>4. copies'[e] = UpTo(2, copies[e] + 1) /\ copies[e] = 0
          BY <3>2, <3>4, <4>3
        <4> QED
          BY <2>3, <3>4, <4>4 DEF UpTo
      <3> QED
        BY <3>3, <3>4
    <2> QED
      BY <2>2, <2>3
  <1> QED
    BY <1>1, <1>2

\* A settlement writes one row, which the drainer then holds no more.
LEMMA OnceWhileSettling ==
  ASSUME OnceInv, NEW d \in Drainers, MarkDelivered(d) \/ MarkFailed(d)
  PROVE  BatchesDistinct' /\ SoleHolder' /\ KeptOnce'
  <1> DEFINE e == Current(d)
  <1>1. /\ stage[d] \in {"acked", "failed"} /\ NextRow(d)
        /\ UNCHANGED <<copies, shared, unrecorded>>
    BY DEF MarkDelivered, MayMarkDelivered, MarkFailed, brokerVars, historyVars
  <1>2. /\ e \in Events /\ e \in EventsOf(d)
        /\ batch[d] \in Seq(Claims) /\ batch[d] # << >> /\ Distinct(batch[d])
    BY <1>1, CurrentRow, CurrentHeld DEF OnceInv, BatchesDistinct
  <1>3. /\ \A f \in Events : f # e => status'[f] = status[f]
        /\ stage[d] = "acked" => status'[e] = "delivered"
    BY <1>2 DEF MarkDelivered, MayMarkDelivered, MarkFailed, RetryStatus, OnceInv, OutboxInv, TypeOK
  <1>4. /\ batch'[d] = Tail(batch[d]) /\ stage'[d] # "acked"
        /\ \A c \in Drainers : c # d => batch'[c] = batch[c] /\ stage'[c] = stage[c]
    BY <1>1 DEF NextRow, OnceInv, OutboxInv, TypeOK
  <1>5. /\ Distinct(Tail(batch[d])) /\ ToSet(Tail(batch[d])) \subseteq ToSet(batch[d])
        /\ \A c \in ToSet(Tail(batch[d])) : c.event # e
    BY <1>2, RestIsOfOthers, HeadAndTail DEF Current
  <1>6. BatchesDistinct'
    BY <1>4, <1>5 DEF OnceInv, BatchesDistinct
  <1>7. /\ EventsOf(d)' \subseteq EventsOf(d) /\ e \notin EventsOf(d)'
        /\ \A c \in Drainers : c # d => EventsOf(c)' = EventsOf(c)
    <2>1. EventsOf(d)' = {c.event : c \in ToSet(Tail(batch[d]))}
      BY <1>4 DEF EventsOf, ToSet
    <2>2. EventsOf(d) = {c.event : c \in ToSet(batch[d])}
      BY EventsOfIs
    <2> QED
      BY <1>4, <1>5, <2>1, <2>2 DEF EventsOf
  <1>8. SoleHolder'
    <2> SUFFICES ASSUME NEW f \in Events, f \notin shared, NEW c \in Drainers, f \in EventsOf(c)'
                 PROVE  /\ status'[f] = "pending"
                        /\ \A b \in Drainers : f \in EventsOf(b)' => b = c
      BY <1>1 DEF SoleHolder
    <2>1. f \in EventsOf(c)
      BY <1>7
    <2>2. \A b \in Drainers : f \in EventsOf(b)' => b = c
      BY <1>7, <2>1 DEF OnceInv, SoleHolder
    <2>3. f # e
      <3>1. CASE c = d
        BY <1>7, <3>1
      <3>2. CASE c # d
        BY <1>2, <2>1, <3>2 DEF OnceInv, SoleHolder
      <3> QED
        BY <3>1, <3>2
    <2> QED
      BY <1>3, <2>1, <2>2, <2>3 DEF OnceInv, SoleHolder
  <1>9. KeptOnce'
    <2> SUFFICES ASSUME NEW f \in Events, f \notin shared, f \notin unrecorded, copies[f] > 0
                 PROVE  /\ copies[f] = 1
                        /\ \/ status'[f] = "delivered"
                           \/ \E c \in Drainers : stage'[c] = "acked" /\ Current(c)' = f
      BY <1>1 DEF KeptOnce
    <2>1. /\ copies[f] = 1
          /\ \/ status[f] = "delivered"
             \/ \E c \in Drainers : stage[c] = "acked" /\ Current(c) = f
      BY DEF OnceInv, KeptOnce
    <2>2. CASE status[f] = "delivered"
      <3>1. f # e
        BY <1>2, <2>2 DEF OnceInv, SoleHolder
      <3> QED
        BY <1>3, <2>1, <2>2, <3>1
    <2>3. CASE \E c \in Drainers : stage[c] = "acked" /\ Current(c) = f
      <3>1. PICK c \in Drainers : stage[c] = "acked" /\ Current(c) = f
        BY <2>3
      <3>2. CASE c = d
        BY <1>3, <2>1, <3>1, <3>2
      <3>3. CASE c # d
        BY <1>4, <2>1, <3>1, <3>3 DEF Current
      <3> QED
        BY <3>2, <3>3
    <2> QED
      BY <2>1, <2>2, <2>3
  <1> QED
    BY <1>6, <1>8, <1>9

LEMMA OnceWhileAbandoning ==
  ASSUME OnceInv, NEW d \in Drainers, Abandon(d)
  PROVE  BatchesDistinct' /\ SoleHolder' /\ KeptOnce'
  <1>1. /\ UNCHANGED <<status, copies, shared>>
        /\ unrecorded' = unrecorded \cup {e \in Events : stage[d] = "acked" /\ e = Current(d)}
        /\ stage'[d] = "idle" /\ batch'[d] = << >>
        /\ \A c \in Drainers : c # d => stage'[c] = stage[c] /\ batch'[c] = batch[c]
    BY DEF Abandon, tableVars, brokerVars, OnceInv, OutboxInv, TypeOK
  <1>2. BatchesDistinct'
    <2> SUFFICES ASSUME NEW c \in Drainers PROVE Distinct(batch'[c])
      BY DEF BatchesDistinct
    <2>1. CASE c = d
      BY <1>1, <2>1 DEF Distinct
    <2>2. CASE c # d
      BY <1>1, <2>2 DEF OnceInv, BatchesDistinct
    <2> QED
      BY <2>1, <2>2
  <1>3. \A c \in Drainers : EventsOf(c)' \subseteq EventsOf(c)
    BY <1>1 DEF EventsOf
  <1>4. SoleHolder'
    BY <1>1, <1>3 DEF OnceInv, SoleHolder
  <1>5. KeptOnce'
    <2> SUFFICES ASSUME NEW e \in Events, e \notin shared, e \notin unrecorded', copies[e] > 0
                 PROVE  /\ copies[e] = 1
                        /\ \/ status[e] = "delivered"
                           \/ \E c \in Drainers : stage'[c] = "acked" /\ Current(c)' = e
      BY <1>1 DEF KeptOnce
    <2>1. /\ copies[e] = 1
          /\ \/ status[e] = "delivered"
             \/ \E c \in Drainers : c # d /\ stage[c] = "acked" /\ Current(c) = e
      BY <1>1 DEF OnceInv, KeptOnce
    <2> QED
      BY <1>1, <2>1 DEF Current
  <1> QED
    BY <1>2, <1>4, <1>5

\* A claim shares the rows that another drainer holds; of the others, which
\* are pending, it becomes the only holder.
LEMMA OnceWhileClaiming ==
  ASSUME OnceInv, NEW d \in Drainers, Claim(d)
  PROVE  BatchesDistinct' /\ SoleHolder' /\ KeptOnce'
  <1>1. /\ stage[d] = "idle" /\ UNCHANGED <<status, copies, unrecorded>>
        /\ stage' = [stage EXCEPT ![d] = "claiming"]
    BY DEF Claim, tableVars, brokerVars
  <1>2. PICK S \in SUBSET {e \in Events : Due(e)} : \E s \in SetToSeqs(S) :
          /\ s # << >>
          /\ batch' = [batch EXCEPT ![d] = [i \in DOMAIN s |-> Claimed(s[i])]]
          /\ shared' = shared \cup (S \cap UNION {EventsOf(c) : c \in Drainers})
    BY DEF Claim
  <1>3. PICK s \in SetToSeqs(S) :
          /\ s # << >>
          /\ batch' = [batch EXCEPT ![d] = [i \in DOMAIN s |-> Claimed(s[i])]]
    BY <1>2
  <1> DEFINE b == [i \in DOMAIN s |-> Claimed(s[i])]
  <1>4. \A c \in ToSet(b) : \E e \in S : c = Claimed(e)
    BY <1>3, BatchOfDueRows DEF OnceInv, OutboxInv
  <1>5. Distinct(b)
    <2>1. /\ s \in [1 .. Cardinality(S) -> S]
          /\ \A i, j \in 1 .. Cardinality(S) : s[i] = s[j] => i = j
      BY DEF SetToSeqs, IsInjective
    <2> QED
      BY <2>1 DEF Distinct, Claimed
  <1>6. batch' = [batch EXCEPT ![d] = b]
    BY <1>3
  <1> HIDE DEF b
  <1>7. /\ batch'[d] = b /\ stage'[d] = "claiming"
        /\ \A c \in Drainers : c # d => batch'[c] = batch[c] /\ stage'[c] = stage[c]
    BY <1>1, <1>6 DEF OnceInv, OutboxInv, TypeOK
  <1>8. BatchesDistinct'
    <2> SUFFICES ASSUME NEW c \in Drainers PROVE Distinct(batch'[c])
      BY DEF BatchesDistinct
    <2>1. CASE c = d
      BY <1>5, <1>7, <2>1
    <2>2. CASE c # d
      BY <1>7, <2>2 DEF OnceInv, BatchesDistinct
    <2> QED
      BY <2>1, <2>2
  <1>9. /\ EventsOf(d)' \subseteq S
        /\ \A c \in Drainers : c # d => EventsOf(c)' = EventsOf(c)
    <2>1. EventsOf(d)' = {c.event : c \in ToSet(b)}
      BY <1>7 DEF EventsOf, ToSet
    <2>2. \A c \in Drainers : c # d => EventsOf(c)' = EventsOf(c)
      BY <1>7 DEF EventsOf
    <2> QED
      BY <1>4, <2>1, <2>2 DEF Claimed
  <1>10. SoleHolder'
    <2> SUFFICES ASSUME NEW e \in Events, e \notin shared', NEW c \in Drainers, e \in EventsOf(c)'
                 PROVE  /\ status[e] = "pending"
                        /\ \A a \in Drainers : e \in EventsOf(a)' => a = c
      BY <1>1 DEF SoleHolder
    <2>1. e \notin shared /\ (e \in S => \A a \in Drainers : e \notin EventsOf(a))
      BY <1>2
    <2>2. e \in S => status[e] = "pending"
      BY DEF Due
    <2> QED
      BY <1>9, <2>1, <2>2 DEF OnceInv, SoleHolder
  <1>11. KeptOnce'
    <2> SUFFICES ASSUME NEW e \in Events, e \notin shared', e \notin unrecorded, copies[e] > 0
                 PROVE  /\ copies[e] = 1
                        /\ \/ status[e] = "delivered"
                           \/ \E c \in Drainers : stage'[c] = "acked" /\ Current(c)' = e
      BY <1>1 DEF KeptOnce
    <2>1. /\ copies[e] = 1
          /\ \/ status[e] = "delivered"
             \/ \E c \in Drainers : c # d /\ stage[c] = "acked" /\ Current(c) = e
      BY <1>1, <1>2 DEF OnceInv, KeptOnce
    <2> QED
      BY <1>7, <2>1 DEF Current
  <1> QED
    BY <1>8, <1>10, <1>11

LEMMA NextOnce == OnceInv /\ [Next]_vars => BatchesDistinct' /\ SoleHolder' /\ KeptOnce'
  <1> SUFFICES ASSUME OnceInv, [Next]_vars PROVE BatchesDistinct' /\ SoleHolder' /\ KeptOnce'
    OBVIOUS
  <1> USE DEF tableVars, workerVars, brokerVars, historyVars
  <1>1. ASSUME NEW e \in Events, Insert(e) \/ CommitBusiness(e) \/ RollbackBusiness(e)
        PROVE  BatchesDistinct' /\ SoleHolder' /\ KeptOnce'
    <2>1. UNCHANGED <<batch, stage, copies, shared, unrecorded>>
      BY <1>1 DEF Insert, CommitBusiness, RollbackBusiness
    <2>2. \A f \in Events : status[f] \in {"pending", "delivered"} => status'[f] = status[f]
      BY <1>1 DEF Insert, CommitBusiness, RollbackBusiness, OnceInv, OutboxInv, TypeOK
    <2> QED
      BY <2>1, <2>2, OnceWhileQuiet
  <1>2. ASSUME NEW d \in Drainers, CommitClaim(d) \/ PublishRejected(d)
        PROVE  BatchesDistinct' /\ SoleHolder' /\ KeptOnce'
    <2>1. /\ UNCHANGED <<batch, status, shared, copies, unrecorded>> /\ stage[d] # "acked"
          /\ \A c \in Drainers : c # d => stage'[c] = stage[c]
      BY <1>2 DEF CommitClaim, PublishRejected, Failed, OnceInv, OutboxInv, TypeOK
    <2> QED
      BY <2>1, OnceWhilePublishing
  <1>3. ASSUME NEW d \in Drainers, PublishAcked(d) \/ PublishUnacked(d)
        PROVE  BatchesDistinct' /\ SoleHolder' /\ KeptOnce'
    <2>1. /\ UNCHANGED <<batch, status, shared>> /\ unrecorded \subseteq unrecorded'
          /\ stage[d] = "publishing" /\ Keep(Current(d))
          /\ stage'[d] = "acked" \/ Current(d) \in unrecorded'
          /\ \A c \in Drainers : c # d => stage'[c] = stage[c]
      BY <1>3 DEF PublishAcked, PublishUnacked, Failed, OnceInv, OutboxInv, TypeOK
    <2> QED
      BY <2>1, OnceWhilePublishing
  <1>4. ASSUME NEW d \in Drainers, MarkDeliveredFails(d)
        PROVE  BatchesDistinct' /\ SoleHolder' /\ KeptOnce'
    <2>1. /\ UNCHANGED <<batch, status, shared, copies>> /\ unrecorded \subseteq unrecorded'
          /\ Current(d) \in unrecorded'
          /\ \A c \in Drainers : c # d => stage'[c] = stage[c]
      BY <1>4 DEF MarkDeliveredFails, Failed, OnceInv, OutboxInv, TypeOK
    <2> QED
      BY <2>1, OnceWhilePublishing
  <1>5. CASE Tick \/ UNCHANGED vars
    <2>1. UNCHANGED <<batch, stage, copies, shared, unrecorded, status>>
      BY <1>5 DEF Tick, vars
    <2> QED
      BY <2>1, OnceWhileQuiet
  <1> QED
    BY <1>1, <1>2, <1>3, <1>4, <1>5, OnceWhileClaiming, OnceWhileSettling, OnceWhileAbandoning
       DEF Next, Publish

LEMMA OnceInvariant == Spec => []OnceInv
  <1>1. Init => OnceInv
    BY InitOutbox, InitOnce DEF OnceInv
  <1>2. OnceInv /\ OutboxInv' /\ [Next]_vars => OnceInv'
    BY NextOnce DEF OnceInv
  <1> QED
    BY <1>1, <1>2, OutboxInvariant, PTL DEF Spec

\* However many replicas drain and whatever crashes, the broker keeps a row
\* twice only if two drainers held it at once or a copy went unrecorded.
THEOREM DuplicatesExplained == Spec => []DuplicatesHaveACause
  <1>1. OnceInv => DuplicatesHaveACause
    <2> SUFFICES ASSUME OnceInv, NEW e \in Events, e \notin shared \cup unrecorded
                 PROVE  ~(copies[e] > 1)
      BY DEF DuplicatesHaveACause
    <2>1. copies[e] \in 0 .. 2 /\ (copies[e] > 0 => copies[e] = 1)
      BY DEF OnceInv, OutboxInv, TypeOK, KeptOnce
    <2> QED
      BY <2>1
  <1> QED
    BY <1>1, OnceInvariant, PTL
===============================================================================
