------------------------ MODULE ActionDispatch_proofs ------------------------
(* Theorems about ActionDispatch, for every value of its constants.        *)
EXTENDS ActionDispatch, SequenceTheorems, FiniteSetTheorems, WellFoundedInduction, TLAPS

-------------------------------------------------------------------------------
(* Invariants the proofs rest on.                                          *)

\* Handler, row and row lock agree: a handler that has not reached Phase A
\* has no row; one that is still to record its outcome has a row that is
\* pending or was settled by a reaper; a reaper holds only pending rows and
\* never one whose Phase C is open.
RowDiscipline ==
  \A r \in Requests :
    /\ phase[r] \in {"idle", "refused", "metering", "admitted"} => row[r] = "none"
    /\ phase[r] \in Dispatching =>
         \/ row[r] = "pending"
         \/ row[r] = "failed" /\ trail[r] = << "action.dispatch", "reaper.fail" >>
    /\ phase[r] = "done" => row[r] # "pending"
    /\ lockedBy[r] = Api <=> phase[r] = "settling"
    /\ lockedBy[r] \in Reapers => row[r] = "pending"

\* Every request the validator has let through under a revoked authority
\* had passed it before the revocation, and every amount it let through
\* fitted the limit on top of the usage it was shown.
ValidatedOnce ==
  \A r \in Requests :
    /\ phase[r] \in {"metering", "admitted"}
         /\ authStatus[input[r].authority] = "revoked"
           => r \in inFlight[input[r].authority]
    /\ phase[r] = "admitted" /\ Metered(r)
         => seen[r] + Charge(r) =< PeriodLimit[input[r].authority]

-------------------------------------------------------------------------------

(* The window key of a clock reading is one of the windows counted.        *)
LEMMA WindowInRange ==
  ASSUME NEW t \in 0 .. MaxTime
  PROVE  WindowAt(t) \in Windows
<1> DEFINE q == t \div WindowLength
           p == MaxTime \div WindowLength
<1>1. /\ t \in Nat /\ MaxTime \in Nat /\ WindowLength \in Nat \ {0}
      /\ t =< MaxTime
  BY TimingAssumption
<1>2. q \in Nat /\ p \in Nat
  BY <1>1
<1>3. /\ WindowLength * q =< t
      /\ MaxTime < WindowLength * (p + 1)
  BY <1>1
<1>4. q =< p
  <2>1. SUFFICES ASSUME q >= p + 1 PROVE FALSE
    BY <1>2
  <2>2. WindowLength * q >= WindowLength * (p + 1)
    BY <1>1, <1>2, <2>1
  <2> QED
    BY <1>1, <1>2, <1>3, <2>2
<1> QED
  BY <1>2, <1>4 DEF WindowAt, Windows

-------------------------------------------------------------------------------
(* Type correctness.                                                       *)

(* What a request spends is a number: the amount sent, or nothing.         *)
LEMMA ChargeIsNat ==
  ASSUME TypeOK, NEW r \in Requests
  PROVE  Charge(r) \in Nat
<1>1. input[r].amount \in Amounts
  BY DEF TypeOK, Inputs
<1> QED
  BY <1>1, InputAssumption DEF Charge

(* Counting a call keeps the usage table well formed.                      *)
LEMMA AddUsageType ==
  ASSUME TypeOK, NEW a \in Authorities, NEW w \in Windows, NEW amount \in Nat,
         AddUsage(a, w, amount)
  PROVE  usage' \in [Authorities -> [Windows -> [minor : Nat, calls : Nat]]]
<1>1. usage[a][w] \in [minor : Nat, calls : Nat]
  BY DEF TypeOK
<1>2. [minor |-> usage[a][w].minor + amount, calls |-> usage[a][w].calls + 1]
        \in [minor : Nat, calls : Nat]
  BY <1>1
<1> QED
  BY <1>2 DEF AddUsage, TypeOK

LEMMA InitTypeOK == Init => TypeOK
<1> SUFFICES ASSUME Init PROVE TypeOK
  OBVIOUS
<1>1. 0 \in 0 .. MaxTime
  BY TimingAssumption
<1>2. 0 \in Windows
  <2>1. WindowAt(MaxTime) \in Windows
    BY WindowInRange, TimingAssumption
  <2> QED
    BY <2>1 DEF Windows
<1> QED
  BY <1>1, <1>2 DEF Init, TypeOK, Phases, Running, Dispatching, Statuses

LEMMA HandleTypeOK ==
  ASSUME TypeOK, NEW r \in Requests, Handle(r)
  PROVE  TypeOK'
<1> USE DEF TypeOK, dbVars, handlerVars, historyVars,
            Phases, Running, Dispatching, Statuses, Entries
<1>1. WindowAt(now) \in Windows
  BY WindowInRange
<1>2. input[r].authority \in Authorities /\ window[r] \in Windows
  BY DEF Inputs
<1>3. Spent(input[r].authority, window[r]) \in Nat
  BY <1>2 DEF Spent
<1>4. CASE ReadAuthority(r)
  BY <1>1, <1>4 DEF ReadAuthority
<1>5. CASE ReadUsage(r)
  <2>1. seen' \in [Requests -> Nat] /\ window' \in [Requests -> Windows]
    BY <1>1, <1>3, <1>5 DEF ReadUsage
  <2>2. phase' \in [Requests -> Phases]
    BY <1>5 DEF ReadUsage
  <2> QED
    BY <1>5, <2>1, <2>2 DEF ReadUsage
<1>6. CASE CommitPhaseA(r)
  <2>1. usage' \in [Authorities -> [Windows -> [minor : Nat, calls : Nat]]]
    BY <1>2, <1>6, ChargeIsNat, AddUsageType DEF CommitPhaseA
  <2>2. base' \in [Requests -> Nat]
    BY <1>3, <1>6 DEF CommitPhaseA
  <2>3. trail' \in [Requests -> Seq(Entries)] /\ events' \in [Requests -> Seq(Entries)]
    BY <1>6 DEF CommitPhaseA, Enqueue
  <2> QED
    BY <1>6, <2>1, <2>2, <2>3 DEF CommitPhaseA
<1>7. CASE ConflictPhaseA(r)
  BY <1>7 DEF ConflictPhaseA
<1>8. CASE ReceiveHeaders(r) \/ NoAnswer(r) \/ ReadBody(r)
  <2>1. phase' \in [Requests -> Phases]
    BY <1>8 DEF ReceiveHeaders, NoAnswer, ReadBody
  <2>2. ok' \in [Requests -> BOOLEAN]
    BY <1>8, Zenon DEF ReceiveHeaders, NoAnswer, ReadBody
  <2> QED
    BY <1>8, <2>1, <2>2 DEF ReceiveHeaders, NoAnswer, ReadBody
<1>9. CASE BeginPhaseC(r)
  BY <1>9 DEF BeginPhaseC
<1>10. CASE CommitPhaseC(r)
  <2>1. OutcomeStatus(r) \in Statuses /\ OutcomeEntry(r) \in Entries
    BY DEF OutcomeStatus, OutcomeEntry
  <2>2. trail' \in [Requests -> Seq(Entries)] /\ events' \in [Requests -> Seq(Entries)]
    BY <1>10, <2>1 DEF CommitPhaseC, Enqueue
  <2> QED
    BY <1>10, <2>1, <2>2 DEF CommitPhaseC
<1>11. CASE Crash(r)
  BY <1>11 DEF Crash
<1> QED
  BY <1>4, <1>5, <1>6, <1>7, <1>8, <1>9, <1>10, <1>11 DEF Handle

LEMMA ReapTypeOK ==
  ASSUME TypeOK, NEW w \in Reapers, Reap(w)
  PROVE  TypeOK'
<1> USE DEF TypeOK, dbVars, handlerVars, historyVars, Statuses, Entries
<1>1. CASE ReaperClaim(w)
  BY <1>1 DEF ReaperClaim
<1>2. CASE ReaperCommit(w)
  BY <1>2 DEF ReaperCommit
<1>3. CASE ReaperAbort(w)
  BY <1>3 DEF ReaperAbort
<1> QED
  BY <1>1, <1>2, <1>3 DEF Reap

(* Every reachable state is well typed.                                    *)
THEOREM TypeCorrect == Spec => []TypeOK
<1>1. Init => TypeOK
  BY InitTypeOK
<1>2. TypeOK /\ [Next]_vars => TypeOK'
  <2> SUFFICES ASSUME TypeOK, [Next]_vars PROVE TypeOK'
    OBVIOUS
  <2>1. CASE \E r \in Requests : Handle(r)
    BY <2>1, HandleTypeOK
  <2>2. CASE \E w \in Reapers : Reap(w)
    BY <2>2, ReapTypeOK
  <2>3. CASE \E a \in Authorities : RevokeAuthority(a)
    BY <2>3 DEF RevokeAuthority, TypeOK, handlerVars
  <2>4. CASE Tick
    BY <2>4, TimingAssumption DEF Tick, TypeOK, dbVars, handlerVars, historyVars
  <2>5. CASE UNCHANGED vars
    BY <2>5 DEF vars, TypeOK, dbVars, handlerVars, historyVars
  <2> QED
    BY <2>1, <2>2, <2>3, <2>4, <2>5 DEF Next
<1> QED
  BY <1>1, <1>2, PTL DEF Spec

-------------------------------------------------------------------------------
(* Appending to the short trails an action can have.                       *)

LEMMA AppendToOne ==
  ASSUME NEW S, NEW a \in S, NEW e \in S
  PROVE  Append(<< a >>, e) = << a, e >>
<1> DEFINE s == << a >>
           t == << a, e >>
<1>1. s \in Seq(S) /\ Len(s) = 1 /\ s[1] = a
  OBVIOUS
<1>2. t \in Seq(S) /\ Len(t) = 2 /\ t[1] = a /\ t[2] = e
  OBVIOUS
<1>3. 1 \in 1 .. Len(s) /\ Len(s) + 1 = 2
  BY <1>1
<1> HIDE DEF s, t
<1>4. /\ Append(s, e) \in Seq(S) /\ Len(Append(s, e)) = 2
      /\ Append(s, e)[2] = e
  BY <1>1, <1>3, AppendProperties
<1>5. Append(s, e)[1] = a
  BY <1>1, <1>3, AppendProperties
<1>6. Append(s, e) = t
  BY <1>2, <1>4, <1>5, SeqEqual
<1> QED
  BY <1>6 DEF s, t

LEMMA AppendToTwo ==
  ASSUME NEW S, NEW a \in S, NEW b \in S, NEW e \in S
  PROVE  Append(<< a, b >>, e) = << a, b, e >>
<1> DEFINE s == << a, b >>
           t == << a, b, e >>
<1>1. s \in Seq(S) /\ Len(s) = 2 /\ s[1] = a /\ s[2] = b
  OBVIOUS
<1>2. t \in Seq(S) /\ Len(t) = 3 /\ t[1] = a /\ t[2] = b /\ t[3] = e
  OBVIOUS
<1> HIDE DEF s, t
<1>3. /\ Append(s, e) \in Seq(S) /\ Len(Append(s, e)) = 3
      /\ Append(s, e)[1] = a /\ Append(s, e)[2] = b /\ Append(s, e)[3] = e
  BY <1>1, AppendProperties
<1>4. Append(s, e) = t
  BY <1>2, <1>3, SeqEqual
<1> QED
  BY <1>4 DEF s, t

(* The trails Phase C and the reaper write.                                *)
LEMMA SettlementAppends ==
  /\ \A e \in Entries : Append(<< "action.dispatch" >>, e) = << "action.dispatch", e >>
  /\ \A e \in Entries :
       Append(<< "action.dispatch", "reaper.fail" >>, e)
         = << "action.dispatch", "reaper.fail", e >>
<1>1. "action.dispatch" \in Entries /\ "reaper.fail" \in Entries
  BY DEF Entries
<1> QED
  BY <1>1, AppendToOne, AppendToTwo

-------------------------------------------------------------------------------
(* Settlement.  SettlementTrail is not inductive alone: that a reaper or a *)
(* Phase C finds the trail it extends in the right place follows from      *)
(* which handler and which lock go with which row.                         *)

SettlementInv == TypeOK /\ RowDiscipline /\ SettlementTrail

LEMMA InitSettlement == Init => SettlementInv
<1> SUFFICES ASSUME Init PROVE SettlementInv
  OBVIOUS
<1>1. TypeOK
  BY InitTypeOK
<1>2. RowDiscipline
  BY HolderAssumption DEF Init, RowDiscipline, Dispatching
<1>3. SettlementTrail
  BY DEF Init, SettlementTrail
<1> QED
  BY <1>1, <1>2, <1>3 DEF SettlementInv

(* One step of a handler disturbs only the row of its own request.         *)
LEMMA HandleSettlement ==
  ASSUME SettlementInv, NEW r \in Requests, Handle(r)
  PROVE  RowDiscipline' /\ SettlementTrail'
<1> USE HolderAssumption DEF SettlementInv, RowDiscipline, SettlementTrail, TypeOK,
      dbVars, handlerVars, historyVars, Dispatching
<1>1. CASE ReadAuthority(r)
  BY <1>1 DEF ReadAuthority
<1>2. CASE ReadUsage(r)
  BY <1>2 DEF ReadUsage
<1>3. CASE CommitPhaseA(r)
  <2>1. trail' = [trail EXCEPT ![r] = << "action.dispatch" >>]
    <3>1. trail[r] = << >>
      BY <1>3 DEF CommitPhaseA
    <3>2. Append(<< >>, "action.dispatch") = << "action.dispatch" >>
      OBVIOUS
    <3>3. trail' = [trail EXCEPT ![r] = Append(trail[r], "action.dispatch")]
      BY <1>3 DEF CommitPhaseA
    <3> QED
      BY <3>1, <3>2, <3>3
  <2> QED
    BY <1>3, <2>1 DEF CommitPhaseA
<1>4. CASE ConflictPhaseA(r)
  BY <1>4 DEF ConflictPhaseA
<1>5. CASE ReceiveHeaders(r)
  BY <1>5 DEF ReceiveHeaders
<1>6. CASE NoAnswer(r)
  BY <1>6 DEF NoAnswer
<1>7. CASE ReadBody(r)
  BY <1>7 DEF ReadBody
<1>8. CASE BeginPhaseC(r)
  BY <1>8 DEF BeginPhaseC
<1>9. CASE CommitPhaseC(r)
  <2>1. \/ trail[r] = << "action.dispatch" >>
        \/ trail[r] = << "action.dispatch", "reaper.fail" >>
    BY <1>9 DEF CommitPhaseC
  <2>2. row'[r] \in {"completed", "failed"}
    BY <1>9 DEF CommitPhaseC, OutcomeStatus
  <2>a. OutcomeEntry(r) \in Entries
    BY DEF OutcomeEntry, Entries
  <2>b. trail'[r] \in {<< "action.dispatch", OutcomeEntry(r) >>,
                       << "action.dispatch", "reaper.fail", OutcomeEntry(r) >>}
    <3>1. trail'[r] = Append(trail[r], OutcomeEntry(r))
      BY <1>9 DEF CommitPhaseC
    <3> QED
      BY <2>1, <2>a, <3>1, SettlementAppends
  <2>3. row'[r] = "completed" =>
          trail'[r] \in {<< "action.dispatch", "action.complete" >>,
                         << "action.dispatch", "reaper.fail", "action.complete" >>}
    BY <1>9, <2>b DEF CommitPhaseC, OutcomeStatus, OutcomeEntry
  <2>4. row'[r] = "failed" =>
          trail'[r] \in {<< "action.dispatch", "action.fail" >>,
                         << "action.dispatch", "reaper.fail", "action.fail" >>}
    BY <1>9, <2>b DEF CommitPhaseC, OutcomeStatus, OutcomeEntry
  <2>5. \A q \in Requests \ {r} :
          row'[q] = row[q] /\ trail'[q] = trail[q] /\ phase'[q] = phase[q]
            /\ lockedBy'[q] = lockedBy[q]
    BY <1>9 DEF CommitPhaseC
  <2>6. phase'[r] = "done" /\ lockedBy'[r] = Nobody
    BY <1>9 DEF CommitPhaseC
  <2>7. RowDiscipline'
    BY <2>2, <2>5, <2>6
  <2>8. SettlementTrail'
    BY <2>2, <2>3, <2>4, <2>5
  <2> QED
    BY <2>7, <2>8
<1>10. CASE Crash(r)
  BY <1>10 DEF Crash, Running
<1> QED
  BY <1>1, <1>2, <1>3, <1>4, <1>5, <1>6, <1>7, <1>8, <1>9, <1>10 DEF Handle

(* A reaper claims pending rows nobody holds and settles what it holds.    *)
LEMMA ReapSettlement ==
  ASSUME SettlementInv, NEW w \in Reapers, Reap(w)
  PROVE  RowDiscipline' /\ SettlementTrail'
<1> USE HolderAssumption DEF SettlementInv, RowDiscipline, SettlementTrail, TypeOK,
      handlerVars, historyVars, Dispatching
<1>1. CASE ReaperClaim(w)
  BY <1>1 DEF ReaperClaim, OldestBatch, Claimable, Stale
<1>2. CASE ReaperCommit(w)
  <2>1. \A q \in Held(w) : trail'[q] = << "action.dispatch", "reaper.fail" >>
    <3> SUFFICES ASSUME NEW q \in Held(w)
                 PROVE  trail'[q] = << "action.dispatch", "reaper.fail" >>
      OBVIOUS
    <3>1. trail[q] = << "action.dispatch" >>
      BY DEF Held
    <3>2. trail'[q] = Append(trail[q], "reaper.fail")
      BY <1>2 DEF ReaperCommit, Held
    <3>3. "reaper.fail" \in Entries
      BY DEF Entries
    <3> QED
      BY <3>1, <3>2, <3>3, SettlementAppends
  <2> QED
    BY <1>2, <2>1 DEF ReaperCommit, Held
<1>3. CASE ReaperAbort(w)
  BY <1>3 DEF ReaperAbort, Held
<1> QED
  BY <1>1, <1>2, <1>3 DEF Reap

(* However handlers, crashes and reaper replicas interleave, the status of *)
(* a row and its audit entries tell one story, and the row, its handler    *)
(* and its lock agree.                                                     *)
THEOREM SettlementCorrect == Spec => [](SettlementTrail /\ RowDiscipline)
<1>1. Init => SettlementInv
  BY InitSettlement
<1>2. SettlementInv /\ TypeOK' /\ [Next]_vars => SettlementInv'
  <2> SUFFICES ASSUME SettlementInv, TypeOK', [Next]_vars PROVE SettlementInv'
    OBVIOUS
  <2>1. CASE \E r \in Requests : Handle(r)
    BY <2>1, HandleSettlement DEF SettlementInv
  <2>2. CASE \E w \in Reapers : Reap(w)
    BY <2>2, ReapSettlement DEF SettlementInv
  <2>3. CASE \E a \in Authorities : RevokeAuthority(a)
    BY <2>3 DEF RevokeAuthority, SettlementInv, RowDiscipline, SettlementTrail,
                handlerVars
  <2>4. CASE Tick \/ UNCHANGED vars
    BY <2>4 DEF Tick, vars, SettlementInv, RowDiscipline, SettlementTrail,
                dbVars, handlerVars, historyVars
  <2> QED
    BY <2>1, <2>2, <2>3, <2>4 DEF Next
<1>3. SettlementInv => SettlementTrail /\ RowDiscipline
  BY DEF SettlementInv
<1> QED
  BY <1>1, <1>2, <1>3, TypeCorrect, PTL DEF Spec

(* An outcome reported to the caller is never overwritten.                 *)
THEOREM AcknowledgedOutcomeCorrect == Spec => []AcknowledgedOutcomeIsDurable
<1>1. Init => AcknowledgedOutcomeIsDurable
  BY DEF Init, AcknowledgedOutcomeIsDurable
<1>2. TypeOK /\ SettlementTrail /\ RowDiscipline /\ AcknowledgedOutcomeIsDurable
        /\ [Next]_vars => AcknowledgedOutcomeIsDurable'
  <2> SUFFICES ASSUME TypeOK, RowDiscipline, AcknowledgedOutcomeIsDurable, [Next]_vars
               PROVE  AcknowledgedOutcomeIsDurable'
    OBVIOUS
  <2> USE HolderAssumption DEF TypeOK, RowDiscipline, AcknowledgedOutcomeIsDurable,
        OutcomeStatus, dbVars, handlerVars, historyVars
  <2>1. ASSUME NEW r \in Requests, Handle(r) PROVE AcknowledgedOutcomeIsDurable'
    <3>1. CASE ReadAuthority(r) \/ ReadUsage(r) \/ ConflictPhaseA(r)
      BY <3>1 DEF ReadAuthority, ReadUsage, ConflictPhaseA
    <3>2. CASE CommitPhaseA(r)
      BY <3>2 DEF CommitPhaseA
    <3>3. CASE ReceiveHeaders(r)
      BY <3>3 DEF ReceiveHeaders
    <3>4. CASE NoAnswer(r) \/ ReadBody(r)
      BY <3>4 DEF NoAnswer, ReadBody
    <3>5. CASE BeginPhaseC(r) \/ CommitPhaseC(r)
      BY <3>5 DEF BeginPhaseC, CommitPhaseC
    <3>6. CASE Crash(r)
      BY <3>6 DEF Crash
    <3> QED
      BY <2>1, <3>1, <3>2, <3>3, <3>4, <3>5, <3>6 DEF Handle
  <2>2. ASSUME NEW w \in Reapers, Reap(w) PROVE AcknowledgedOutcomeIsDurable'
    BY <2>2 DEF Reap, ReaperClaim, ReaperCommit, ReaperAbort, Held
  <2>3. CASE (\E a \in Authorities : RevokeAuthority(a)) \/ Tick \/ UNCHANGED vars
    BY <2>3 DEF RevokeAuthority, Tick, vars
  <2> QED
    BY <2>1, <2>2, <2>3 DEF Next
<1> QED
  BY <1>1, <1>2, TypeCorrect, SettlementCorrect, PTL DEF Spec

-------------------------------------------------------------------------------
(* Spending.  That only a stale reading overspends is inductive together   *)
(* with what the validator established for each admitted request.          *)

AdmissionInv == ValidatedOnce /\ OnlyStaleReadsOverspend

(* What a request asks for, and so whether it is metered, never changes.   *)
LEMMA RequestFixed ==
  ASSUME [Next]_vars
  PROVE  input' = input
BY DEF Next, vars, Handle, Reap, ReadAuthority, ReadUsage, CommitPhaseA,
       ConflictPhaseA, ReceiveHeaders, NoAnswer, ReadBody, BeginPhaseC,
       CommitPhaseC, Crash, ReaperClaim, ReaperCommit, ReaperAbort,
       RevokeAuthority, Tick, handlerVars

LEMMA ValidatedOncePreserved ==
  ASSUME TypeOK, RowDiscipline, ValidatedOnce, [Next]_vars
  PROVE  ValidatedOnce'
<1> USE DEF TypeOK, ValidatedOnce, Metered, Charge, dbVars, handlerVars, historyVars
<1>1. ASSUME NEW r \in Requests, Handle(r) PROVE ValidatedOnce'
  <2>1. CASE ReadAuthority(r)
    BY <2>1 DEF ReadAuthority, Refusable, Live
  <2>2. CASE ReadUsage(r)
    <3>1. phase'[r] = "admitted" =>
            seen'[r] + Charge(r) =< PeriodLimit[input[r].authority]
      BY <2>2 DEF ReadUsage, WithinPeriodLimit
    <3> QED
      BY <2>2, <3>1 DEF ReadUsage
  <2>3. CASE CommitPhaseA(r)
    BY <2>3 DEF CommitPhaseA
  <2>4. CASE ConflictPhaseA(r) \/ ReceiveHeaders(r) \/ NoAnswer(r) \/ ReadBody(r)
    BY <2>4 DEF ConflictPhaseA, ReceiveHeaders, NoAnswer, ReadBody
  <2>5. CASE BeginPhaseC(r) \/ CommitPhaseC(r) \/ Crash(r)
    BY <2>5 DEF BeginPhaseC, CommitPhaseC, Crash
  <2> QED
    BY <1>1, <2>1, <2>2, <2>3, <2>4, <2>5 DEF Handle
<1>2. ASSUME NEW w \in Reapers, Reap(w) PROVE ValidatedOnce'
  BY <1>2 DEF Reap, ReaperClaim, ReaperCommit, ReaperAbort
<1>3. ASSUME NEW a \in Authorities, RevokeAuthority(a) PROVE ValidatedOnce'
  BY <1>3 DEF RevokeAuthority
<1>4. CASE Tick \/ UNCHANGED vars
  BY <1>4 DEF Tick, vars
<1> QED
  BY <1>1, <1>2, <1>3, <1>4 DEF Next

(* Steps that insert no row leave every charge and its history in place.   *)
LEMMA ChargesKept ==
  ASSUME TypeOK, RowDiscipline, OnlyStaleReadsOverspend,
         usage' = usage, input' = input,
         \A r \in Requests :
           row[r] # "none" => /\ row'[r] # "none" /\ window'[r] = window[r]
                              /\ seen'[r] = seen[r] /\ base'[r] = base[r]
  PROVE  OnlyStaleReadsOverspend'
BY DEF OnlyStaleReadsOverspend, Spent, Charged, Metered

(* An insert that overspends either met a figure that had moved since it   *)
(* was read, or found the limit already overspent.                         *)
LEMMA InsertKeepsSpending ==
  ASSUME TypeOK, RowDiscipline, AdmissionInv, NEW r \in Requests, CommitPhaseA(r)
  PROVE  OnlyStaleReadsOverspend'
<1> DEFINE a == input[r].authority
           w == window[r]
<1>1. /\ a \in Authorities /\ w \in Windows
      /\ input[r].amount \in Nat \cup {NoAmount}
      /\ Charge(r) \in Nat
  BY ChargeIsNat, InputAssumption DEF TypeOK, Inputs
<1>2. /\ Spent(a, w) \in Nat
      /\ usage'[a][w].minor = Spent(a, w) + Charge(r)
  BY <1>1 DEF CommitPhaseA, AddUsage, Spent, TypeOK
<1>3. \A b \in Authorities, v \in Windows :
        b # a \/ v # w => usage'[b][v] = usage[b][v]
  BY <1>1 DEF CommitPhaseA, AddUsage, TypeOK
<1>4. /\ row[r] = "none" /\ row'[r] = "pending"
      /\ base'[r] = Spent(a, w) /\ seen' = seen /\ window' = window /\ input' = input
      /\ \A q \in Requests \ {r} : row'[q] = row[q] /\ base'[q] = base[q]
  BY DEF CommitPhaseA, TypeOK, RowDiscipline, Spent
<1> SUFFICES ASSUME NEW b \in Authorities, NEW v \in Windows,
                    PeriodLimit[b] # NoLimit, usage'[b][v].minor > PeriodLimit[b]
             PROVE  \E q \in Charged(b, v)' : Metered(q)' /\ seen'[q] # base'[q]
  BY DEF OnlyStaleReadsOverspend, Spent
<1>5. ASSUME NEW q \in Charged(b, v), Metered(q), seen[q] # base[q]
      PROVE  q \in Charged(b, v)' /\ Metered(q)' /\ seen'[q] # base'[q]
  BY <1>4, <1>5 DEF Charged, Metered
<1>6. CASE usage[b][v].minor > PeriodLimit[b]
  BY <1>5, <1>6 DEF AdmissionInv, OnlyStaleReadsOverspend, Spent
<1>7. CASE ~(usage[b][v].minor > PeriodLimit[b])
  <2>1. b = a /\ v = w
    BY <1>3, <1>7
  <2>2. Charge(r) # 0
    BY <1>1, <1>2, <1>7, <2>1 DEF Spent
  <2>3. Metered(r)
    BY <2>1, <2>2 DEF Metered, Charge
  <2>4. seen[r] + Charge(r) =< PeriodLimit[a]
    BY <2>3 DEF AdmissionInv, ValidatedOnce, CommitPhaseA
  <2>5. seen[r] # base'[r]
    BY <1>1, <1>2, <1>4, <2>1, <2>4, InputAssumption DEF Spent, TypeOK
  <2> QED
    BY <1>4, <2>1, <2>3, <2>5 DEF Charged, Metered
<1> QED
  BY <1>6, <1>7

(* A period limit is overspent only by requests whose reading of the usage *)
(* was out of date when they were charged.                                 *)
THEOREM SpendingCorrect == Spec => [](OnlyStaleReadsOverspend /\ ValidatedOnce)
<1>1. Init => AdmissionInv
  <2> SUFFICES ASSUME Init PROVE AdmissionInv
    OBVIOUS
  <2>1. ValidatedOnce
    BY DEF Init, ValidatedOnce
  <2>2. OnlyStaleReadsOverspend
    BY InputAssumption DEF Init, OnlyStaleReadsOverspend, Spent
  <2> QED
    BY <2>1, <2>2 DEF AdmissionInv
<1>2. TypeOK /\ SettlementTrail /\ RowDiscipline /\ AdmissionInv /\ [Next]_vars
        => AdmissionInv'
  <2> SUFFICES ASSUME TypeOK, RowDiscipline, AdmissionInv, [Next]_vars
               PROVE  AdmissionInv'
    OBVIOUS
  <2>1. ValidatedOnce'
    BY ValidatedOncePreserved DEF AdmissionInv
  <2> USE DEF TypeOK, RowDiscipline, dbVars, handlerVars, historyVars, Dispatching
  <2>2. ASSUME NEW r \in Requests, Handle(r) PROVE OnlyStaleReadsOverspend'
    <3>1. CASE ReadAuthority(r)
      BY <3>1, ChargesKept DEF ReadAuthority, AdmissionInv
    <3>2. CASE ReadUsage(r)
      BY <3>2, ChargesKept DEF ReadUsage, AdmissionInv
    <3>3. CASE CommitPhaseA(r)
      BY <3>3, InsertKeepsSpending
    <3>4. CASE ConflictPhaseA(r) \/ ReceiveHeaders(r) \/ NoAnswer(r) \/ ReadBody(r)
      BY <3>4, ChargesKept
         DEF ConflictPhaseA, ReceiveHeaders, NoAnswer, ReadBody, AdmissionInv
    <3>5. CASE BeginPhaseC(r) \/ Crash(r)
      BY <3>5, ChargesKept DEF BeginPhaseC, Crash, AdmissionInv
    <3>6. CASE CommitPhaseC(r)
      BY <3>6, ChargesKept DEF CommitPhaseC, OutcomeStatus, AdmissionInv
    <3> QED
      BY <2>2, <3>1, <3>2, <3>3, <3>4, <3>5, <3>6 DEF Handle
  <2>3. ASSUME NEW w \in Reapers, Reap(w) PROVE OnlyStaleReadsOverspend'
    BY <2>3, ChargesKept DEF Reap, ReaperClaim, ReaperCommit, ReaperAbort, AdmissionInv
  <2>4. ASSUME NEW a \in Authorities, RevokeAuthority(a) PROVE OnlyStaleReadsOverspend'
    BY <2>4, ChargesKept DEF RevokeAuthority, AdmissionInv
  <2>5. CASE Tick
    BY <2>1, <2>5, ChargesKept DEF Tick, AdmissionInv
  <2>6. CASE UNCHANGED vars
    BY <2>1, <2>6, ChargesKept DEF vars, AdmissionInv
  <2> QED
    BY <2>1, <2>2, <2>3, <2>4, <2>5, <2>6 DEF Next, AdmissionInv
<1>3. AdmissionInv => OnlyStaleReadsOverspend /\ ValidatedOnce
  BY DEF AdmissionInv
<1> QED
  BY <1>1, <1>2, <1>3, TypeCorrect, SettlementCorrect, PTL DEF Spec

(* A revocation lets through no request that had not passed validation     *)
(* when it committed.                                                      *)
THEOREM RevocationCorrect == Spec => RevocationStopsNewDispatches
<1>1. TypeOK /\ RowDiscipline /\ ValidatedOnce /\ [Next]_vars =>
        [\A r \in Requests :
           LET a == input[r].authority
           IN  row[r] = "none" /\ row'[r] # "none" /\ authStatus[a] = "revoked"
                 => r \in inFlight[a]]_vars
  <2> SUFFICES ASSUME TypeOK, RowDiscipline, ValidatedOnce, Next,
                      NEW r \in Requests, row[r] = "none", row'[r] # "none",
                      authStatus[input[r].authority] = "revoked"
               PROVE  r \in inFlight[input[r].authority]
    OBVIOUS
  <2> USE DEF TypeOK, RowDiscipline, dbVars, handlerVars, historyVars, Dispatching
  <2>1. ASSUME NEW q \in Requests, Handle(q) PROVE CommitPhaseA(r)
    BY <2>1 DEF Handle, ReadAuthority, ReadUsage, CommitPhaseA, ConflictPhaseA,
         ReceiveHeaders, NoAnswer, ReadBody, BeginPhaseC, CommitPhaseC, Crash
  <2>2. ASSUME NEW w \in Reapers, Reap(w) PROVE FALSE
    BY <2>2 DEF Reap, ReaperClaim, ReaperCommit, ReaperAbort, Held
  <2>3. ~((\E a \in Authorities : RevokeAuthority(a)) \/ Tick)
    BY DEF RevokeAuthority, Tick
  <2>4. CommitPhaseA(r)
    BY <2>1, <2>2, <2>3 DEF Next
  <2> QED
    BY <2>4 DEF CommitPhaseA, ValidatedOnce
<1> QED
  BY <1>1, TypeCorrect, SettlementCorrect, SpendingCorrect, PTL
     DEF Spec, RevocationStopsNewDispatches

-------------------------------------------------------------------------------
(* Events.  That the events are the handler's entries is inductive with    *)
(* the types: whoever appends to a trail knows whether to tell of it.      *)

Mirrors(vs, es) ==
  /\ Len(vs) = Cardinality(ByHandler(es))
  /\ \A n \in ByHandler(es) : vs[Cardinality(ByHandlerUpTo(es, n))] = es[n]

(* The counts a mirror is made of are counts of finite sets.               *)
LEMMA HandlerCounts ==
  ASSUME NEW es \in Seq(Entries)
  PROVE  /\ IsFiniteSet(ByHandler(es)) /\ Cardinality(ByHandler(es)) \in Nat
         /\ \A n \in ByHandler(es) :
              /\ ByHandlerUpTo(es, n) \subseteq ByHandler(es)
              /\ Cardinality(ByHandlerUpTo(es, n)) \in 1 .. Cardinality(ByHandler(es))
<1>1. IsFiniteSet(ByHandler(es))
  <2>1. DOMAIN es = 1 .. Len(es) /\ Len(es) \in Nat
    OBVIOUS
  <2>2. IsFiniteSet(1 .. Len(es))
    BY <2>1, FS_Interval
  <2>3. ByHandler(es) \subseteq 1 .. Len(es)
    BY <2>1 DEF ByHandler
  <2> QED
    BY <2>2, <2>3, FS_Subset
<1>2. Cardinality(ByHandler(es)) \in Nat
  BY <1>1, FS_CardinalityType
<1>3. ASSUME NEW n \in ByHandler(es)
      PROVE  /\ ByHandlerUpTo(es, n) \subseteq ByHandler(es)
             /\ Cardinality(ByHandlerUpTo(es, n)) \in 1 .. Cardinality(ByHandler(es))
  <2> DEFINE U == ByHandlerUpTo(es, n)
  <2>1. U \subseteq ByHandler(es) /\ n \in U
    BY DEF ByHandlerUpTo, ByHandler
  <2>2. IsFiniteSet(U) /\ Cardinality(U) =< Cardinality(ByHandler(es))
    BY <1>1, <2>1, FS_Subset
  <2>3. Cardinality(U) \in Nat /\ Cardinality(U) # 0
    BY <2>1, <2>2, FS_CardinalityType, FS_EmptySet
  <2> HIDE DEF U
  <2> QED
    BY <1>2, <2>1, <2>2, <2>3 DEF U
<1> QED
  BY <1>1, <1>2, <1>3

LEMMA MirrorGrows ==
  ASSUME NEW es \in Seq(Entries), NEW vs \in Seq(Entries), NEW e \in Entries, Mirrors(vs, es),
         NEW fs, fs = Append(es, e), NEW ws, ws = Append(vs, e)
  PROVE  /\ e = "reaper.fail" => Mirrors(vs, fs)
         /\ e # "reaper.fail" => Mirrors(ws, fs)
<1> DEFINE l == Len(es) + 1
           B == ByHandler(es)
<1>1. /\ l \in Nat /\ DOMAIN es = 1 .. l - 1 /\ DOMAIN fs = 1 .. l
      /\ fs[l] = e /\ \A n \in DOMAIN es : fs[n] = es[n]
  OBVIOUS
<1>2. /\ Len(vs) \in Nat /\ Len(ws) = Len(vs) + 1 /\ ws[Len(vs) + 1] = e
      /\ \A n \in 1 .. Len(vs) : ws[n] = vs[n]
  OBVIOUS
<1> HIDE DEF l
<1>3. /\ B \subseteq 1 .. l - 1
      /\ ByHandler(fs) = IF e = "reaper.fail" THEN B ELSE B \cup {l}
  BY <1>1 DEF ByHandler
<1>4. \A n \in B : ByHandlerUpTo(fs, n) = ByHandlerUpTo(es, n)
  BY <1>1, <1>3 DEF ByHandlerUpTo
<1>5. CASE e = "reaper.fail"
  BY <1>1, <1>3, <1>4, <1>5 DEF Mirrors
<1>6. CASE e # "reaper.fail"
  <2>1. Cardinality(ByHandler(fs)) = Len(vs) + 1
    <3>1. IsFiniteSet(B) /\ l \notin B /\ Cardinality(B) = Len(vs)
      BY <1>1, <1>3, HandlerCounts DEF Mirrors
    <3>2. ByHandler(fs) = B \cup {l}
      BY <1>3, <1>6
    <3> HIDE DEF B
    <3> QED
      BY <3>1, <3>2, FS_AddElement
  <2>2. ByHandlerUpTo(fs, l) = ByHandler(fs)
    BY <1>1, <1>3, <1>6 DEF ByHandlerUpTo
  <2>3. \A n \in B : ws[Cardinality(ByHandlerUpTo(fs, n))] = fs[n]
    BY <1>1, <1>2, <1>3, <1>4, HandlerCounts DEF Mirrors
  <2>4. ByHandler(fs) = B \cup {l}
    BY <1>3, <1>6
  <2>5. ws[Cardinality(ByHandlerUpTo(fs, l))] = fs[l]
    BY <1>1, <1>2, <2>1, <2>2
  <2>6. Len(ws) = Cardinality(ByHandler(fs))
    BY <1>2, <2>1
  <2> HIDE DEF B
  <2>7. \A n \in ByHandler(fs) : ws[Cardinality(ByHandlerUpTo(fs, n))] = fs[n]
    BY <2>3, <2>4, <2>5
  <2>8. Mirrors(ws, fs)
    BY ONLY <2>6, <2>7 DEF Mirrors
  <2> QED
    BY <1>6, <2>8
<1> QED
  BY <1>5, <1>6

LEMMA MirrorEach == EventsMirrorTrail <=> \A r \in Requests : Mirrors(events[r], trail[r])
BY DEF EventsMirrorTrail, Mirrors

LEMMA InitMirror == Init => EventsMirrorTrail
<1> SUFFICES ASSUME Init, NEW r \in Requests PROVE Mirrors(events[r], trail[r])
  BY MirrorEach
<1>1. events[r] = << >> /\ trail[r] = << >>
  BY DEF Init
<1>2. ByHandler(<< >>) = {}
  BY DEF ByHandler
<1> QED
  BY <1>1, <1>2, FS_EmptySet DEF Mirrors

(* An entry by the handler goes with its event.                            *)
LEMMA TellsOfEntry ==
  ASSUME TypeOK, EventsMirrorTrail, NEW r \in Requests, NEW e \in Entries, e # "reaper.fail",
         trail' = [trail EXCEPT ![r] = Append(@, e)], Enqueue(r, e)
  PROVE  EventsMirrorTrail'
<1> SUFFICES ASSUME NEW q \in Requests PROVE Mirrors(events'[q], trail'[q])
  BY DEF EventsMirrorTrail, Mirrors
<1>1. Mirrors(events[q], trail[q])
  BY MirrorEach
<1>2. CASE q = r
  <2>1. /\ trail[r] \in Seq(Entries) /\ events[r] \in Seq(Entries)
        /\ trail'[r] = Append(trail[r], e) /\ events'[r] = Append(events[r], e)
    BY DEF TypeOK, Enqueue
  <2> QED
    BY <1>1, <1>2, <2>1, MirrorGrows
<1>3. CASE q # r
  BY <1>1, <1>3 DEF TypeOK, Enqueue
<1> QED
  BY <1>2, <1>3

(* Consumers learn, in order, what the audit trail says the handler did.   *)
THEOREM EventsCorrect == Spec => []EventsMirrorTrail
<1>1. TypeOK /\ EventsMirrorTrail /\ [Next]_vars => EventsMirrorTrail'
  <2> SUFFICES ASSUME TypeOK, EventsMirrorTrail, [Next]_vars PROVE EventsMirrorTrail'
    OBVIOUS
  <2>1. ASSUME UNCHANGED <<trail, events>> PROVE EventsMirrorTrail'
    BY <2>1 DEF EventsMirrorTrail
  <2>2. ASSUME NEW r \in Requests, Handle(r) PROVE EventsMirrorTrail'
    <3>1. CASE CommitPhaseA(r)
      BY <3>1, TellsOfEntry DEF CommitPhaseA, Entries
    <3>2. CASE CommitPhaseC(r)
      <4>1. OutcomeEntry(r) \in Entries /\ OutcomeEntry(r) # "reaper.fail"
        BY DEF OutcomeEntry, Entries
      <4> QED
        BY <3>2, <4>1, TellsOfEntry DEF CommitPhaseC
    <3>3. CASE ~CommitPhaseA(r) /\ ~CommitPhaseC(r)
      BY <2>1, <2>2, <3>3 DEF Handle, ReadAuthority, ReadUsage, ConflictPhaseA, ReceiveHeaders,
         NoAnswer, ReadBody, BeginPhaseC, Crash, dbVars
    <3> QED
      BY <3>1, <3>2, <3>3
  <2>3. ASSUME NEW w \in Reapers, ReaperCommit(w) PROVE EventsMirrorTrail'
    <3> SUFFICES ASSUME NEW q \in Requests PROVE Mirrors(events'[q], trail'[q])
      BY DEF EventsMirrorTrail, Mirrors
    <3>1. /\ Mirrors(events[q], trail[q]) /\ events'[q] = events[q]
          /\ trail[q] \in Seq(Entries) /\ events[q] \in Seq(Entries)
      BY <2>3, MirrorEach DEF TypeOK, ReaperCommit
    <3>2. trail'[q] \in {trail[q], Append(trail[q], "reaper.fail")} /\ "reaper.fail" \in Entries
      BY <2>3 DEF ReaperCommit, Entries
    <3> QED
      BY <3>1, <3>2, MirrorGrows
  <2>4. CASE (\E a \in Authorities : RevokeAuthority(a)) \/ Tick \/ UNCHANGED vars
             \/ \E w \in Reapers : ReaperClaim(w) \/ ReaperAbort(w)
    BY <2>1, <2>4 DEF RevokeAuthority, Tick, vars, dbVars, ReaperClaim, ReaperAbort
  <2> QED
    BY <2>2, <2>3, <2>4 DEF Next, Reap
<1> QED
  BY <1>1, InitMirror, TypeCorrect, PTL DEF Spec

-------------------------------------------------------------------------------
(* Sums.  The counter is compared with a fold over a set, and a fold is a  *)
(* function that recurses on smaller sets.  That there is one, and that it *)
(* does not depend on the order, follows from there being no smallest set  *)
(* of which it fails.                                                      *)

\* The element a fold takes first, and the function a fold defines.
Pick(s) == CHOOSE x \in s : TRUE
Sums(f, it, S) ==
  it = [s \in SUBSET S |-> IF s = {} THEN 0 ELSE f[Pick(s)] + it[s \ {Pick(s)}]]

(* A set of numbers has a least one.                                       *)
LEMMA LeastOf ==
  ASSUME NEW T, T \subseteq Nat, T # {}
  PROVE  \E x \in T : \A y \in T : x =< y
<1>1. PICK x \in T : \A y \in T : ~(<<y, x>> \in OpToRel(<, Nat))
  BY NatLessThanWellFounded, WFMin
<1>2. \A y \in T : ~(y < x)
  BY <1>1 DEF OpToRel
<1> QED
  BY <1>2

(* Of the finite sets among some sets, one is smallest.                    *)
LEMMA SmallestOf ==
  ASSUME NEW C, C # {}, \A s \in C : IsFiniteSet(s)
  PROVE  \E s \in C : \A t \in C : Cardinality(s) =< Cardinality(t)
<1> DEFINE T == {Cardinality(s) : s \in C}
<1>1. T \subseteq Nat /\ T # {}
  BY FS_CardinalityType
<1>2. PICK n \in T : \A m \in T : n =< m
  BY <1>1, LeastOf
<1> QED
  BY <1>2

(* What remains of a finite set without one of its elements is smaller.    *)
LEMMA Smaller ==
  ASSUME NEW s, IsFiniteSet(s), NEW x \in s
  PROVE  IsFiniteSet(s \ {x}) /\ ~(Cardinality(s) =< Cardinality(s \ {x}))
<1>1. IsFiniteSet(s \ {x}) /\ Cardinality(s \ {x}) = Cardinality(s) - 1
  BY FS_RemoveElement
<1>2. Cardinality(s) \in Nat
  BY FS_CardinalityType
<1> QED
  BY <1>1, <1>2

LEMMA PickIsIn == \A s : s # {} => Pick(s) \in s
BY DEF Pick

LEMMA SumsAt ==
  ASSUME NEW f, NEW it, NEW S, Sums(f, it, S), NEW s \in SUBSET S
  PROVE  /\ s = {} => it[s] = 0
         /\ s # {} => it[s] = f[Pick(s)] + it[s \ {Pick(s)}]
<1>1. it[s] = IF s = {} THEN 0 ELSE f[Pick(s)] + it[s \ {Pick(s)}]
  BY Zenon DEF Sums
<1> QED
  BY <1>1

(* Folds over two sets agree on what is in both.                           *)
LEMMA SumsAgree ==
  ASSUME NEW f, NEW i, NEW j, NEW S, NEW T, IsFiniteSet(S),
         Sums(f, i, S), Sums(f, j, T), NEW s \in SUBSET S, s \in SUBSET T
  PROVE  i[s] = j[s]
<1> DEFINE C == {t \in SUBSET S : t \subseteq T /\ i[t] # j[t]}
<1>1. SUFFICES ASSUME C # {} PROVE FALSE
  OBVIOUS
<1>2. \A t \in C : IsFiniteSet(t)
  BY FS_Subset
<1>3. PICK t \in C : \A u \in C : Cardinality(t) =< Cardinality(u)
  BY <1>1, <1>2, SmallestOf
<1>4. t \in SUBSET S /\ t \in SUBSET T /\ i[t] # j[t]
  BY <1>3
<1>5. t # {}
  BY <1>4, SumsAt
<1> DEFINE x == Pick(t)
<1>6. /\ x \in t /\ t \ {x} \in SUBSET S /\ t \ {x} \in SUBSET T
      /\ i[t] = f[x] + i[t \ {x}] /\ j[t] = f[x] + j[t \ {x}]
  <2>1. i[t] = f[x] + i[t \ {x}] /\ j[t] = f[x] + j[t \ {x}]
    BY <1>4, <1>5, SumsAt
  <2>2. x \in t
    BY <1>5, PickIsIn
  <2> QED
    BY <1>4, <2>1, <2>2
<1>7. t \ {x} \in C
  BY <1>4, <1>6
<1> QED
  BY <1>2, <1>3, <1>6, <1>7, Smaller

(* A sum of numbers is a number.                                           *)
LEMMA SumsType ==
  ASSUME NEW f, NEW i, NEW S, IsFiniteSet(S), \A x \in S : f[x] \in Nat,
         Sums(f, i, S), NEW s \in SUBSET S
  PROVE  i[s] \in Nat
<1> DEFINE C == {t \in SUBSET S : i[t] \notin Nat}
<1>1. SUFFICES ASSUME C # {} PROVE FALSE
  OBVIOUS
<1>2. \A t \in C : IsFiniteSet(t)
  BY FS_Subset
<1>3. PICK t \in C : \A u \in C : Cardinality(t) =< Cardinality(u)
  BY <1>1, <1>2, SmallestOf
<1>4. t \in SUBSET S /\ i[t] \notin Nat
  BY <1>3
<1>5. t # {}
  <2>1. t = {} => i[t] = 0
    BY <1>4, SumsAt
  <2> QED
    BY <1>4, <2>1
<1> DEFINE x == Pick(t)
<1>6. x \in t /\ t \ {x} \in SUBSET S /\ i[t] = f[x] + i[t \ {x}]
  <2>1. t # {} => i[t] = f[Pick(t)] + i[t \ {Pick(t)}]
    BY <1>4, SumsAt
  <2>2. x \in t
    BY <1>5, PickIsIn
  <2> QED
    BY <1>4, <1>5, <2>1, <2>2
<1>7. t \ {x} \in C
  <2>1. f[x] \in Nat
    BY <1>4, <1>6
  <2> QED
    BY <1>4, <1>6, <2>1
<1> QED
  BY <1>2, <1>3, <1>6, <1>7, Smaller

(* Whichever element is taken first.                                       *)
LEMMA SumsAnyOrder ==
  ASSUME NEW f, NEW i, NEW S, IsFiniteSet(S), \A x \in S : f[x] \in Nat,
         Sums(f, i, S), NEW s \in SUBSET S, NEW y \in s
  PROVE  i[s] = f[y] + i[s \ {y}]
<1> DEFINE C == {t \in SUBSET S : \E z \in t : i[t] # f[z] + i[t \ {z}]}
<1>1. SUFFICES ASSUME C # {} PROVE FALSE
  OBVIOUS
<1>2. \A t \in C : IsFiniteSet(t)
  BY FS_Subset
<1>3. PICK t \in C : \A u \in C : Cardinality(t) =< Cardinality(u)
  BY <1>1, <1>2, SmallestOf
<1>4. t \in SUBSET S
  BY <1>3
<1>5. PICK z \in t : i[t] # f[z] + i[t \ {z}]
  BY <1>3
<1> DEFINE x == Pick(t)
<1>6. x \in t /\ i[t] = f[x] + i[t \ {x}]
  <2>1. t # {}
    BY <1>5
  <2> QED
    BY <1>4, <2>1, SumsAt, PickIsIn
<1>7. x # z
  BY <1>5, <1>6
<1>8. /\ t \ {x} \in SUBSET S /\ t \ {z} \in SUBSET S /\ (t \ {x}) \ {z} \in SUBSET S
      /\ z \in t \ {x} /\ x \in t \ {z} /\ (t \ {z}) \ {x} = (t \ {x}) \ {z}
  BY <1>4, <1>5, <1>6, <1>7
<1>9. t \ {x} \notin C /\ t \ {z} \notin C
  BY <1>2, <1>3, <1>5, <1>6, Smaller
<1>10. /\ i[t \ {x}] = f[z] + i[(t \ {x}) \ {z}]
       /\ i[t \ {z}] = f[x] + i[(t \ {x}) \ {z}]
  BY <1>8, <1>9
<1>11. f[x] \in Nat /\ f[z] \in Nat /\ i[(t \ {x}) \ {z}] \in Nat
  BY <1>4, <1>5, <1>6, <1>8, SumsType
<1> HIDE DEF x, C
<1> QED
  BY <1>5, <1>6, <1>10, <1>11

(* And there is such a function.                                           *)
LEMMA SumsExist ==
  ASSUME NEW f, NEW S, IsFiniteSet(S)
  PROVE  \E it : Sums(f, it, S)
<1> DEFINE C == {t \in SUBSET S : ~ \E it : Sums(f, it, t)}
<1>1. SUFFICES ASSUME C # {} PROVE FALSE
  BY Zenon
<1>2. \A t \in C : IsFiniteSet(t)
  BY FS_Subset
<1>3. PICK t \in C : \A u \in C : Cardinality(t) =< Cardinality(u)
  BY <1>1, <1>2, SmallestOf
<1> DEFINE g(s) == CHOOSE it : Sums(f, it, s)
<1>4. IsFiniteSet(t) /\ t \in SUBSET S /\ ~ \E it : Sums(f, it, t)
  BY <1>2, <1>3
<1>5. ASSUME NEW s \in SUBSET t, s # t PROVE Sums(f, g(s), s)
  <2>1. PICK y \in t : y \notin s
    BY <1>5
  <2>2. s \in SUBSET (t \ {y}) /\ s \in SUBSET S
    BY <1>4, <2>1
  <2>3. Cardinality(s) =< Cardinality(t \ {y}) /\ Cardinality(s) \in Nat
        /\ Cardinality(t \ {y}) \in Nat
    BY <1>4, <2>2, Smaller, FS_Subset, FS_CardinalityType
  <2>4. s \notin C
    <3>1. ~(Cardinality(t) =< Cardinality(t \ {y}))
      BY <1>4, Smaller
    <3>2. Cardinality(t) \in Nat
      BY <1>4, FS_CardinalityType
    <3> QED
      BY <1>3, <2>3, <3>1, <3>2
  <2> QED
    BY <2>2, <2>4
<1> DEFINE h == [s \in SUBSET t |->
                   IF s # t THEN g(s)[s]
                   ELSE IF t = {} THEN 0 ELSE f[Pick(t)] + g(t \ {Pick(t)})[t \ {Pick(t)}]]
<1>6. ASSUME NEW s \in SUBSET t
      PROVE  h[s] = IF s = {} THEN 0 ELSE f[Pick(s)] + h[s \ {Pick(s)}]
  <2> DEFINE x == Pick(s)
             r == s \ {x}
  <2>1. s # {} => x \in s /\ r \in SUBSET t /\ r # t /\ r # s
    BY PickIsIn
  <2>2. s # {} => h[r] = g(r)[r]
    BY <2>1
  <2>3. CASE s = t
    BY <2>2, <2>3
  <2>4. CASE s # t
    <3>1. h[s] = g(s)[s] /\ Sums(f, g(s), s)
      BY <1>5, <2>4
    <3>2. s = {} => h[s] = 0
      BY <3>1, SumsAt
    <3>3. ASSUME s # {} PROVE g(s)[s] = f[x] + g(r)[r]
      <4>1. g(s)[s] = f[x] + g(s)[r]
        BY <3>1, <3>3, SumsAt
      <4>2. Sums(f, g(r), r)
        BY <1>5, <2>1, <3>3
      <4>3. IsFiniteSet(s) /\ r \in SUBSET s /\ r \in SUBSET r
        BY <1>4, FS_Subset
      <4>4. g(s)[r] = g(r)[r]
        BY <3>1, <4>2, <4>3, SumsAgree
      <4> QED
        BY <4>1, <4>4
    <3> HIDE DEF h, g, r, x
    <3> QED
      BY <2>2, <3>1, <3>2, <3>3 DEF r, x
  <2> QED
    BY <2>3, <2>4
<1>7. Sums(f, h, t)
  <2>1. h = [s \in SUBSET t |-> h[s]]
    OBVIOUS
  <2> HIDE DEF h
  <2> QED
    BY <1>6, <2>1 DEF Sums
<1> QED
  BY <1>4, <1>7

(* The sum of what a set of requests spends is such a fold.                *)
LEMMA SpentBySums ==
  ASSUME NEW S, NEW f, \A r \in S : Charge(r) = f[r]
  PROVE  MapThenSumSet(Charge, S) = (CHOOSE it : Sums(f, it, S))[S]
<1> DEFINE body(it, s) == IF s = {} THEN 0 ELSE Charge(Pick(s)) + it[s \ {Pick(s)}]
<1>1. MapThenSumSet(Charge, S) = (CHOOSE it : it = [s \in SUBSET S |-> body(it, s)])[S]
  BY DEF MapThenSumSet, MapThenFoldSet, Pick
<1>2. ASSUME NEW it PROVE it = [s \in SUBSET S |-> body(it, s)] <=> Sums(f, it, S)
  <2>1. \A s \in SUBSET S :
          body(it, s) = IF s = {} THEN 0 ELSE f[Pick(s)] + it[s \ {Pick(s)}]
    BY PickIsIn
  <2> HIDE DEF body
  <2>2. [s \in SUBSET S |-> body(it, s)]
          = [s \in SUBSET S |-> IF s = {} THEN 0 ELSE f[Pick(s)] + it[s \ {Pick(s)}]]
    BY <2>1
  <2> QED
    BY <2>2 DEF Sums
<1> HIDE DEF body
<1>3. (CHOOSE it : it = [s \in SUBSET S |-> body(it, s)]) = CHOOSE it : Sums(f, it, S)
  BY <1>2
<1> QED
  BY <1>1, <1>3

LEMMA SpentByNone == MapThenSumSet(Charge, {}) = 0
<1> DEFINE f == [r \in {} |-> 0]
           it == CHOOSE i : Sums(f, i, {})
<1>1. MapThenSumSet(Charge, {}) = it[{}]
  BY SpentBySums
<1>2. Sums(f, it, {})
  BY SumsExist, FS_EmptySet
<1> HIDE DEF f, it
<1> QED
  BY <1>1, <1>2, SumsAt

(* One more request adds what it spends.                                   *)
LEMMA SpentByOneMore ==
  ASSUME TypeOK, NEW S \in SUBSET Requests, IsFiniteSet(S), NEW r \in Requests, r \notin S
  PROVE  MapThenSumSet(Charge, S \cup {r}) = MapThenSumSet(Charge, S) + Charge(r)
<1> DEFINE f == [q \in Requests |-> Charge(q)]
           T == S \cup {r}
           i == CHOOSE it : Sums(f, it, S)
           j == CHOOSE it : Sums(f, it, T)
<1>1. MapThenSumSet(Charge, S) = i[S] /\ MapThenSumSet(Charge, S \cup {r}) = j[T]
  BY SpentBySums
<1>2. IsFiniteSet(T) /\ S \in SUBSET S /\ S \in SUBSET T /\ T \ {r} = S
  BY FS_AddElement
<1>3. Sums(f, i, S) /\ Sums(f, j, T)
  BY <1>2, SumsExist
<1>4. \A q \in T : f[q] \in Nat
  BY ChargeIsNat
<1>5. f[r] = Charge(r)
  OBVIOUS
<1> HIDE DEF f, i, j
<1>6. i[S] = j[S] /\ i[S] \in Nat
  <2>1. \A q \in S : f[q] \in Nat
    BY <1>4
  <2>2. i[S] \in Nat
    BY <1>2, <1>3, <2>1, SumsType
  <2> QED
    BY <1>2, <1>3, <2>2, SumsAgree
<1>7. j[T] = f[r] + j[T \ {r}]
  BY <1>2, <1>3, <1>4, SumsAnyOrder
<1>8. f[r] \in Nat
  BY <1>4
<1> HIDE DEF T
<1>9. j[T] = i[S] + Charge(r)
  BY <1>2, <1>5, <1>6, <1>7, <1>8
<1> QED
  BY <1>1, <1>9, Zenon

-------------------------------------------------------------------------------
(* Usage.                                                                  *)

\* Only finitely many rows are charged: one more with each Phase A.
ChargedFinite == \A a \in Authorities, w \in Windows : IsFiniteSet(Charged(a, w))

UsageInv == UsageIsChargedSum /\ ChargedFinite

(* What requests ask for does not change, and so neither does what they    *)
(* spend.                                                                  *)
LEMMA SpentByKept ==
  ASSUME input' = input,
         \A a \in Authorities, w \in Windows :
           usage'[a][w] = [minor |-> MapThenSumSet(Charge, Charged(a, w)'),
                           calls |-> Cardinality(Charged(a, w)')]
  PROVE  UsageIsChargedSum'
<1> SUFFICES ASSUME NEW a \in Authorities, NEW w \in Windows
             PROVE  (usage[a][w] = [minor |-> MapThenSumSet(Charge, Charged(a, w)),
                                    calls |-> Cardinality(Charged(a, w))])'
  BY DEF UsageIsChargedSum
<1>1. MapThenSumSet(Charge, Charged(a, w))' = MapThenSumSet(Charge, Charged(a, w)')
  BY DEF MapThenSumSet, MapThenFoldSet, Charge
<1> QED
  BY <1>1

(* Steps that insert no row leave what was charged as it was.              *)
LEMMA NothingCharged ==
  ASSUME UsageInv, UNCHANGED <<usage, input>>,
         \A r \in Requests : /\ row[r] = "none" <=> row'[r] = "none"
                             /\ row[r] # "none" => window'[r] = window[r]
  PROVE  UsageInv'
<1>1. ASSUME NEW a \in Authorities, NEW w \in Windows PROVE Charged(a, w)' = Charged(a, w)
  BY DEF Charged
<1>2. \A a \in Authorities, w \in Windows :
        usage'[a][w] = [minor |-> MapThenSumSet(Charge, Charged(a, w)'),
                        calls |-> Cardinality(Charged(a, w)')]
  BY <1>1 DEF UsageInv, UsageIsChargedSum
<1> QED
  BY <1>1, <1>2, SpentByKept DEF UsageInv, ChargedFinite

(* Phase A charges its row.                                                *)
LEMMA OneCharged ==
  ASSUME TypeOK, RowDiscipline, UsageInv, NEW r \in Requests, CommitPhaseA(r)
  PROVE  UsageInv'
<1> DEFINE ra == input[r].authority
           rw == window[r]
<1>1. /\ row[r] = "none" /\ input' = input /\ window' = window
      /\ row' = [row EXCEPT ![r] = "pending"]
      /\ usage' = [usage EXCEPT ![ra][rw] =
                     [minor |-> @.minor + Charge(r), calls |-> @.calls + 1]]
  BY DEF CommitPhaseA, AddUsage, RowDiscipline
<1>2. ra \in Authorities /\ rw \in Windows
  BY DEF TypeOK, Inputs
<1>3. \A q \in Requests : row'[q] = IF q = r THEN "pending" ELSE row[q]
  BY <1>1 DEF TypeOK
<1>4. \A a \in Authorities, w \in Windows :
        usage'[a][w] = IF a = ra /\ w = rw
                       THEN [minor |-> usage[a][w].minor + Charge(r),
                             calls |-> usage[a][w].calls + 1]
                       ELSE usage[a][w]
  BY <1>1, <1>2 DEF TypeOK
<1>5. \A a \in Authorities, w \in Windows :
        /\ r \notin Charged(a, w) /\ Charged(a, w) \subseteq Requests
        /\ Charged(a, w)' = IF a = ra /\ w = rw THEN Charged(a, w) \cup {r} ELSE Charged(a, w)
  BY <1>1, <1>3 DEF Charged
<1> HIDE DEF ra, rw
<1>6. ASSUME NEW a \in Authorities, NEW w \in Windows
      PROVE  /\ usage'[a][w] = [minor |-> MapThenSumSet(Charge, Charged(a, w)'),
                                calls |-> Cardinality(Charged(a, w)')]
             /\ IsFiniteSet(Charged(a, w)')
  <2> DEFINE S == Charged(a, w)
             m == MapThenSumSet(Charge, S)
  <2>1. usage[a][w] = [minor |-> m, calls |-> Cardinality(S)] /\ IsFiniteSet(S)
    BY DEF UsageInv, UsageIsChargedSum, ChargedFinite
  <2>2. CASE a = ra /\ w = rw
    <3>1. /\ MapThenSumSet(Charge, S \cup {r}) = m + Charge(r)
          /\ IsFiniteSet(S \cup {r}) /\ Cardinality(S \cup {r}) = Cardinality(S) + 1
      BY <1>5, <2>1, SpentByOneMore, FS_AddElement
    <3>2. Charged(a, w)' = S \cup {r}
      BY <1>5, <2>2
    <3>3. usage'[a][w] = [minor |-> m + Charge(r), calls |-> Cardinality(S) + 1]
      <4>1. usage[a][w].minor = m /\ usage[a][w].calls = Cardinality(S)
        <5> HIDE DEF m, S
        <5> QED
          BY <2>1
      <4>2. usage'[a][w] = [minor |-> usage[a][w].minor + Charge(r),
                            calls |-> usage[a][w].calls + 1]
        BY <1>4, <2>2
      <4> HIDE DEF m, S
      <4> QED
        BY <4>1, <4>2
    <3> QED
      BY <3>1, <3>2, <3>3
  <2>3. CASE ~(a = ra /\ w = rw)
    BY <1>4, <1>5, <2>1, <2>3
  <2> QED
    BY <2>2, <2>3
<1> QED
  BY <1>1, <1>6, SpentByKept DEF UsageInv, ChargedFinite

(* The usage counter is the sum over the rows inserted, whatever overlaps, *)
(* fails, dies or is settled.                                              *)
THEOREM UsageCorrect == Spec => []UsageIsChargedSum
<1>1. Init => UsageInv
  <2> SUFFICES ASSUME Init PROVE UsageInv
    OBVIOUS
  <2>1. \A a \in Authorities, w \in Windows :
          Charged(a, w) = {} /\ usage[a][w] = [minor |-> 0, calls |-> 0]
    BY DEF Init, Charged
  <2> QED
    BY <2>1, SpentByNone, FS_EmptySet DEF UsageInv, UsageIsChargedSum, ChargedFinite
<1>2. TypeOK /\ RowDiscipline /\ UsageInv /\ [Next]_vars => UsageInv'
  <2> SUFFICES ASSUME TypeOK, RowDiscipline, UsageInv, [Next]_vars PROVE UsageInv'
    OBVIOUS
  <2>1. ASSUME NEW r \in Requests, Handle(r) PROVE UsageInv'
    <3>1. CASE ReadAuthority(r) \/ ReadUsage(r)
      <4>1. /\ UNCHANGED <<usage, input, row>> /\ row[r] = "none"
            /\ window' = [window EXCEPT ![r] = WindowAt(now)]
        BY <3>1 DEF ReadAuthority, ReadUsage, dbVars, RowDiscipline
      <4> QED
        BY <4>1, NothingCharged DEF TypeOK
    <3>2. CASE ConflictPhaseA(r) \/ ReceiveHeaders(r) \/ NoAnswer(r) \/ ReadBody(r)
               \/ BeginPhaseC(r) \/ Crash(r)
      <4>1. UNCHANGED <<usage, input, row, window>>
        BY <3>2 DEF ConflictPhaseA, ReceiveHeaders, NoAnswer, ReadBody, BeginPhaseC, Crash, dbVars
      <4> QED
        BY <4>1, NothingCharged
    <3>3. CASE CommitPhaseC(r)
      <4>1. /\ UNCHANGED <<usage, input, window>> /\ row[r] # "none"
            /\ row' = [row EXCEPT ![r] = OutcomeStatus(r)] /\ OutcomeStatus(r) # "none"
        BY <3>3 DEF CommitPhaseC, OutcomeStatus, RowDiscipline, Dispatching
      <4> QED
        BY <4>1, NothingCharged DEF TypeOK
    <3> QED
      BY <2>1, <3>1, <3>2, <3>3, OneCharged DEF Handle
  <2>2. ASSUME NEW w \in Reapers, Reap(w) PROVE UsageInv'
    <3>1. UNCHANGED <<usage, input, window>>
      BY <2>2 DEF Reap, ReaperClaim, ReaperCommit, ReaperAbort, handlerVars
    <3>2. \A r \in Requests : row[r] = "none" <=> row'[r] = "none"
      BY <2>2 DEF Reap, ReaperClaim, ReaperCommit, ReaperAbort, Held, RowDiscipline
    <3> QED
      BY <3>1, <3>2, NothingCharged
  <2>3. CASE (\E a \in Authorities : RevokeAuthority(a)) \/ Tick \/ UNCHANGED vars
    <3>1. UNCHANGED <<usage, input, row, window>>
      BY <2>3 DEF RevokeAuthority, Tick, vars, dbVars, handlerVars
    <3> QED
      BY <3>1, NothingCharged
  <2> QED
    BY <2>1, <2>2, <2>3 DEF Next
<1>3. UsageInv => UsageIsChargedSum
  BY DEF UsageInv
<1> QED
  BY <1>1, <1>2, <1>3, TypeCorrect, SettlementCorrect, PTL DEF Spec

-------------------------------------------------------------------------------
(* The refinement of Settlement: how each step looks from outside.         *)

LEMMA UnseenOutside ==
  ASSUME UNCHANGED <<row, trail, events>>, Answered' = Answered
  PROVE  UNCHANGED Promise!vars
BY DEF Promise!vars

LEMMA HandlerPromise ==
  ASSUME TypeOK, RowDiscipline, NEW r \in Requests, Handle(r)
  PROVE  [Promise!Next]_(Promise!vars)
<1> USE DEF dbVars, historyVars, Dispatching
<1>1. CASE \/ ReadAuthority(r) \/ ReadUsage(r) \/ ConflictPhaseA(r) \/ ReceiveHeaders(r)
           \/ NoAnswer(r) \/ ReadBody(r) \/ BeginPhaseC(r) \/ Crash(r)
  <2>1. UNCHANGED <<row, trail, events>>
    BY <1>1 DEF ReadAuthority, ReadUsage, ConflictPhaseA, ReceiveHeaders, NoAnswer, ReadBody,
                BeginPhaseC, Crash
  <2>2. \E p \in Phases : p # "done" /\ phase[r] # "done" /\ phase' = [phase EXCEPT ![r] = p]
    BY <1>1 DEF ReadAuthority, ReadUsage, ConflictPhaseA, ReceiveHeaders, NoAnswer, ReadBody,
                BeginPhaseC, Crash, Phases, Running
  <2>3. \A q \in Requests : phase'[q] = "done" <=> phase[q] = "done"
    BY <2>2 DEF TypeOK
  <2> QED
    BY <2>1, <2>3, UnseenOutside DEF Answered
<1>2. CASE CommitPhaseA(r)
  <2>1. row[r] = "none" /\ row' = [row EXCEPT ![r] = "pending"]
    BY <1>2 DEF CommitPhaseA, RowDiscipline
  <2>2. Promise!Announce(r, "action.dispatch")
    BY <1>2 DEF CommitPhaseA, Enqueue, Promise!Announce
  <2>3. \A q \in Requests : phase'[q] = "done" <=> phase[q] = "done"
    BY <1>2 DEF CommitPhaseA, TypeOK
  <2>4. Promise!Open(r)
    BY <2>1, <2>2, <2>3 DEF Promise!Open, Answered
  <2> QED
    BY <2>4 DEF Promise!Next
<1>3. CASE CommitPhaseC(r)
  <2> DEFINE o == OutcomeStatus(r)
  <2>1. /\ row[r] # "none" /\ r \notin Answered
        /\ o \in Promise!Outcomes /\ Promise!EntryOf(o) = OutcomeEntry(r)
    BY <1>3 DEF CommitPhaseC, RowDiscipline, Answered, OutcomeStatus, OutcomeEntry,
                Promise!Outcomes, Promise!EntryOf
  <2>2. row' = [row EXCEPT ![r] = o]
    BY <1>3 DEF CommitPhaseC
  <2>3. Promise!Announce(r, Promise!EntryOf(o))
    BY <1>3, <2>1 DEF CommitPhaseC, Enqueue, Promise!Announce
  <2>4. Answered' = Answered \cup {r}
    <3>1. \A q \in Requests : phase'[q] = "done" <=> phase[q] = "done" \/ q = r
      BY <1>3 DEF CommitPhaseC, TypeOK
    <3> QED
      BY <3>1 DEF Answered
  <2> HIDE DEF o
  <2>5. Promise!Conclude(r, o)
    BY <2>1, <2>2, <2>3, <2>4 DEF Promise!Conclude
  <2> QED
    BY <2>1, <2>5 DEF Promise!Next
<1> QED
  BY <1>1, <1>2, <1>3 DEF Handle

LEMMA ReaperPromise ==
  ASSUME TypeOK, RowDiscipline, NEW w \in Reapers, Reap(w)
  PROVE  [Promise!Next]_(Promise!vars)
<1>1. phase' = phase /\ Answered' = Answered
  BY DEF Reap, ReaperClaim, ReaperCommit, ReaperAbort, handlerVars, Answered
<1>2. CASE ReaperClaim(w) \/ ReaperAbort(w)
  BY <1>1, <1>2, UnseenOutside DEF ReaperClaim, ReaperAbort
<1>3. CASE ReaperCommit(w)
  <2>1. Held(w) \in SUBSET Requests /\ \A q \in Held(w) : row[q] = "pending"
    BY DEF Held, RowDiscipline
  <2>2. Promise!WriteOff(Held(w))
    BY <1>1, <1>3, <2>1 DEF ReaperCommit, Promise!WriteOff
  <2> QED
    BY <2>1, <2>2 DEF Promise!Next
<1> QED
  BY <1>2, <1>3 DEF Reap

(* Whatever races, crashes and is reaped, an action is seen from outside   *)
(* to be opened once and concluded at most once, and what its caller was   *)
(* told is what the log and the events end with.                           *)
THEOREM RefinesSettlement == Spec => ImplementsSettlement
<1>1. Init => Promise!Init
  BY DEF Init, Promise!Init, Answered
<1>2. TypeOK /\ RowDiscipline /\ [Next]_vars => [Promise!Next]_(Promise!vars)
  <2> SUFFICES ASSUME TypeOK, RowDiscipline, [Next]_vars PROVE [Promise!Next]_(Promise!vars)
    OBVIOUS
  <2>1. CASE (\E a \in Authorities : RevokeAuthority(a)) \/ Tick \/ UNCHANGED vars
    <3>1. UNCHANGED <<row, trail, events, phase>>
      BY <2>1 DEF RevokeAuthority, Tick, vars, dbVars, handlerVars
    <3> QED
      BY <3>1, UnseenOutside DEF Answered
  <2> QED
    BY <2>1, HandlerPromise, ReaperPromise DEF Next
<1> QED
  BY <1>1, <1>2, TypeCorrect, SettlementCorrect, PTL DEF Spec, ImplementsSettlement, Promise!Spec
===============================================================================
