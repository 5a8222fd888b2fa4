----------------------- MODULE AuthorityLifecycle_proofs -----------------------
(***************************************************************************)
(* Proofs about AuthorityLifecycle: what requests and cascades leave in    *)
(* the rows, in the audit trail and in each other's way.                   *)
(*                                                                         *)
(* Everything follows from who holds which lock.  A row's lock is held by  *)
(* the one transaction that revokes it, and while it is held the row is    *)
(* active; the chain's lock is held by a request about to commit, or by a  *)
(* cascade from the audit entry of its first row on.                       *)
(***************************************************************************)
EXTENDS AuthorityLifecycle, SequenceTheorems, TLAPS

\* A row is locked by the request that is revoking it or by the cascade that
\* took it, and is active for as long as it is locked.
RowsHeld ==
  /\ \A a \in Authorities, r \in Requests :
       rowLock[a] = r <=> stage[r] \in {"locked", "logged"} /\ Target[r] = a
  /\ \A a \in Authorities, c \in Consumers : rowLock[a] = c <=> a \in took[c]
  /\ \A a \in Authorities : rowLock[a] # Nobody => status[a] = "active"

\* The chain is locked by a request that has logged, or by a cascade past its
\* first audit entry; what is still to be logged was taken.
ChainHeld ==
  /\ \A r \in Requests : auditLock = r <=> stage[r] = "logged"
  /\ \A c \in Consumers :
       /\ unlogged[c] \subseteq took[c]
       /\ auditLock = c => took[c] # {}
       /\ took[c] # {} /\ unlogged[c] = {} => auditLock = c

\* An event being handled is the next one or one handled before, and what it
\* should revoke is listed, taken, no longer active, or was inserted late.
ListedOrLate ==
  \A c \in Consumers : handling[c] # 0 =>
    /\ handling[c] =< offset + 1
    /\ \A a \in Affected(log[handling[c]]) :
         status[a] = "active" =>
           a \in todo[c] \cup took[c] \/ <<handling[c], a>> \in behind

LifecycleInv ==
  /\ TypeOK /\ RowsHeld /\ ChainHeld /\ ListedOrLate
  /\ TrailMatchesStatus /\ AnsweredRevocationStands /\ CascadeMissesOnlyLateRows

-------------------------------------------------------------------------------
LEMMA TrailAppend ==
  /\ Append(<< >>, "issued") = <<"issued">>
  /\ Append(<<"issued">>, "revoked") = <<"issued", "revoked">>
  <1> DEFINE s == Append(<<"issued">>, "revoked")
             t == <<"issued", "revoked">>
             T == {"issued", "revoked"}
  <1>1. Append(<< >>, "issued") = <<"issued">>
    OBVIOUS
  <1>2. s \in Seq(T) /\ Len(s) = 2 /\ s[1] = "issued" /\ s[2] = "revoked"
    <2>1. <<"issued">> \in Seq(T) /\ Len(<<"issued">>) = 1 /\ <<"issued">>[1] = "issued"
      OBVIOUS
    <2> QED
      BY <2>1, AppendProperties
  <1>3. t \in Seq(T) /\ Len(t) = 2 /\ t[1] = "issued" /\ t[2] = "revoked"
    OBVIOUS
  <1>4. \A i \in 1 .. Len(s) : s[i] = t[i]
    BY <1>2, <1>3
  <1>5. s = t
    <2> HIDE DEF s, t, T
    <2>1. Len(s) = Len(t)
      BY <1>2, <1>3
    <2> QED
      BY <1>2, <1>3, <1>4, <2>1, SeqEqual
  <1> QED
    BY <1>1, <1>5

\* What an event is to revoke are rows of the table.
LEMMA AffectedIsIssued ==
  ASSUME NEW l \in Seq(EventTypes), NEW i \in 1 .. Len(l)
  PROVE  Affected(l[i]) \subseteq Authorities
  BY AuthorityAssumption DEF Affected, EventTypes

LEMMA InitLifecycleInv == Init => LifecycleInv
  <1> SUFFICES ASSUME Init PROVE LifecycleInv
    OBVIOUS
  <1> USE AuthorityAssumption, RevokerAssumption DEF Revokers
  <1>1. TypeOK
    BY DEF Init, TypeOK
  <1>2. RowsHeld /\ ChainHeld /\ ListedOrLate
    BY DEF Init, RowsHeld, ChainHeld, ListedOrLate
  <1>3. TrailMatchesStatus /\ AnsweredRevocationStands /\ CascadeMissesOnlyLateRows
    BY DEF Init, TrailMatchesStatus, AnsweredRevocationStands, CascadeMissesOnlyLateRows
  <1> QED
    BY <1>1, <1>2, <1>3 DEF LifecycleInv

\* A step of an issuance other than the insert: nothing the invariant speaks
\* of but types.
LEMMA QuietIssue ==
  ASSUME LifecycleInv, NEW a \in Authorities,
         RequestToken(a) \/ LoseToken(a) \/ Expire(a)
  PROVE  LifecycleInv'
  <1>1. UNCHANGED <<status, revokedBy, trail, lockVars, stage, log, offset, consumerVars, behind>>
    BY DEF RequestToken, LoseToken, Expire
  <1>2. TypeOK'
    BY <1>1 DEF LifecycleInv, TypeOK, Revokers, RequestToken, LoseToken, Expire, lockVars, consumerVars
  <1>3. RowsHeld' /\ ChainHeld' /\ ListedOrLate'
    BY <1>1 DEF LifecycleInv, RowsHeld, ChainHeld, ListedOrLate, lockVars, consumerVars
  <1>4. TrailMatchesStatus' /\ AnsweredRevocationStands' /\ CascadeMissesOnlyLateRows'
    BY <1>1 DEF LifecycleInv, TrailMatchesStatus, AnsweredRevocationStands, CascadeMissesOnlyLateRows
  <1> QED
    BY <1>2, <1>3, <1>4 DEF LifecycleInv

\* An insert is late for every event acknowledged or being handled.
LEMMA StoreAuthorityKeeps ==
  ASSUME LifecycleInv, NEW a \in Authorities, StoreAuthority(a)
  PROVE  LifecycleInv'
  <1> USE DEF LifecycleInv, StoreAuthority, lockVars, consumerVars
  <1>1. /\ \A b \in Authorities : status'[b] = IF b = a THEN "active" ELSE status[b]
        /\ \A b \in Authorities : trail'[b] = IF b = a THEN Append(trail[b], "issued") ELSE trail[b]
    BY DEF TypeOK
  <1>2. TypeOK'
    BY DEF TypeOK, Revokers
  <1>3. RowsHeld' /\ ChainHeld'
    BY <1>1 DEF RowsHeld, ChainHeld
  <1>4. \A i, b : <<i, b>> \in behind => <<i, b>> \in behind'
    OBVIOUS
  <1>5. ListedOrLate'
    <2> SUFFICES ASSUME NEW c \in Consumers, handling[c] # 0,
                        NEW b \in Affected(log[handling[c]]), status'[b] = "active"
                 PROVE  \/ b \in todo[c] \cup took[c] \/ <<handling[c], b>> \in behind'
      BY DEF ListedOrLate, Affected
    <2>1. b \in Authorities
      BY AuthorityAssumption DEF TypeOK, Affected, EventTypes
    <2>2. CASE b = a
      BY <2>2
    <2>3. CASE b # a
      BY <1>1, <1>4, <2>1, <2>3 DEF ListedOrLate
    <2> QED
      BY <2>2, <2>3
  <1>6. TrailMatchesStatus'
    BY <1>1, TrailAppend DEF TrailMatchesStatus
  <1>7. AnsweredRevocationStands'
    BY <1>1, RevokerAssumption DEF AnsweredRevocationStands
  <1>8. CascadeMissesOnlyLateRows'
    <2> SUFFICES ASSUME NEW i \in 1 .. offset, NEW b \in Affected(log[i]),
                        status'[b] = "active"
                 PROVE  <<i, b>> \in behind'
      BY DEF CascadeMissesOnlyLateRows, Affected
    <2>1. b \in Authorities
      BY AuthorityAssumption DEF TypeOK, Affected, EventTypes
    <2>2. CASE b = a
      BY <2>2
    <2>3. CASE b # a
      BY <1>1, <1>4, <2>1, <2>3 DEF CascadeMissesOnlyLateRows
    <2> QED
      BY <2>2, <2>3
  <1> QED
    BY <1>2, <1>3, <1>5, <1>6, <1>7, <1>8

\* A step of a request that neither takes nor releases a lock.
LEMMA QuietRequest ==
  ASSUME LifecycleInv, NEW r \in Requests,
         RejectRevocation(r) \/ ReadExisting(r)
  PROVE  LifecycleInv'
  <1> USE DEF LifecycleInv, authorityVars, lockVars, consumerVars
  <1>1. PICK s \in {"refused", "read"} : stage' = [stage EXCEPT ![r] = s]
    BY DEF RejectRevocation, ReadExisting
  <1>2. /\ stage[r] = "new"
        /\ UNCHANGED <<authorityVars, lockVars, log, offset, consumerVars, behind>>
    BY DEF RejectRevocation, ReadExisting
  <1>3. \A q \in Requests : stage'[q] = IF q = r THEN s ELSE stage[q]
    BY <1>1 DEF TypeOK
  <1>4. TypeOK'
    BY <1>1, <1>2 DEF TypeOK, Revokers
  <1>5. RowsHeld' /\ ChainHeld'
    BY <1>2, <1>3 DEF RowsHeld, ChainHeld
  <1>6. ListedOrLate' /\ TrailMatchesStatus' /\ CascadeMissesOnlyLateRows'
    BY <1>2 DEF ListedOrLate, TrailMatchesStatus, CascadeMissesOnlyLateRows
  <1>7. AnsweredRevocationStands'
    BY <1>2, <1>3 DEF AnsweredRevocationStands
  <1> QED
    BY <1>4, <1>5, <1>6, <1>7

LEMMA RevokeRowKeeps ==
  ASSUME LifecycleInv, NEW r \in Requests, RevokeRow(r)
  PROVE  LifecycleInv'
  <1> USE RevokerAssumption DEF LifecycleInv, RevokeRow, TakeRow, Revocable
  <1>1. UNCHANGED <<status, revokedBy, trail, auditLock, log, offset, handling,
                    todo, took, unlogged, behind>>
    BY DEF authorityVars, consumerVars
  <1>2. /\ \A q \in Requests : stage'[q] = IF q = r THEN "locked" ELSE stage[q]
        /\ \A a \in Authorities :
             rowLock'[a] = IF a = Target[r] THEN r ELSE rowLock[a]
    BY DEF TypeOK
  <1>3. TypeOK'
    BY DEF TypeOK, Revokers, authorityVars, consumerVars
  <1>4. RowsHeld'
    BY <1>1, <1>2 DEF RowsHeld
  <1>5. ChainHeld'
    BY <1>1, <1>2 DEF ChainHeld
  <1>6. ListedOrLate' /\ TrailMatchesStatus' /\ CascadeMissesOnlyLateRows'
    BY <1>1 DEF ListedOrLate, TrailMatchesStatus, CascadeMissesOnlyLateRows
  <1>7. AnsweredRevocationStands'
    BY <1>1, <1>2 DEF AnsweredRevocationStands
  <1> QED
    BY <1>3, <1>4, <1>5, <1>6, <1>7

LEMMA LogRevocationKeeps ==
  ASSUME LifecycleInv, NEW r \in Requests, LogRevocation(r)
  PROVE  LifecycleInv'
  <1> USE RevokerAssumption DEF LifecycleInv, LogRevocation, TakeChain
  <1>1. UNCHANGED <<status, revokedBy, trail, rowLock, log, offset, handling,
                    todo, took, unlogged, behind>>
    BY DEF authorityVars, consumerVars
  <1>2. \A q \in Requests : stage'[q] = IF q = r THEN "logged" ELSE stage[q]
    BY DEF TypeOK
  <1>3. TypeOK'
    BY DEF TypeOK, Revokers, authorityVars, consumerVars
  <1>4. RowsHeld'
    BY <1>1, <1>2 DEF RowsHeld
  <1>5. ChainHeld'
    BY <1>1, <1>2 DEF ChainHeld
  <1>6. ListedOrLate' /\ TrailMatchesStatus' /\ CascadeMissesOnlyLateRows'
    BY <1>1 DEF ListedOrLate, TrailMatchesStatus, CascadeMissesOnlyLateRows
  <1>7. AnsweredRevocationStands'
    BY <1>1, <1>2 DEF AnsweredRevocationStands
  <1> QED
    BY <1>3, <1>4, <1>5, <1>6, <1>7

\* A request ends without having revoked anything: its locks go.
LEMMA AbandonKeeps ==
  ASSUME LifecycleInv, NEW r \in Requests, RaceLost(r) \/ FailRevocation(r)
  PROVE  LifecycleInv'
  <1> USE RevokerAssumption DEF LifecycleInv
  <1>1. UNCHANGED <<token, status, revokedBy, expired, trail, log, offset, handling,
                    todo, took, unlogged, behind>>
    BY DEF RaceLost, FailRevocation, authorityVars, consumerVars
  <1>2. ReleaseLocks(r)
    BY DEF RaceLost, FailRevocation
  <1>3. PICK s \in {"refused", "failed"} : stage' = [stage EXCEPT ![r] = s]
    BY DEF RaceLost, FailRevocation
  <1>4. \A q \in Requests : stage'[q] = IF q = r THEN s ELSE stage[q]
    BY <1>3 DEF TypeOK
  <1>5. \A a \in Authorities : rowLock'[a] = IF rowLock[a] = r THEN Nobody ELSE rowLock[a]
    BY <1>2 DEF ReleaseLocks
  <1>6. auditLock' = IF auditLock = r THEN Nobody ELSE auditLock
    BY <1>2 DEF ReleaseLocks
  <1>7. TypeOK'
    BY <1>1, <1>2, <1>3 DEF TypeOK, Revokers, ReleaseLocks
  <1>8. RowsHeld'
    BY <1>1, <1>4, <1>5 DEF RowsHeld
  <1>9. ChainHeld'
    BY <1>1, <1>4, <1>6 DEF ChainHeld
  <1>10. ListedOrLate' /\ TrailMatchesStatus' /\ CascadeMissesOnlyLateRows'
    BY <1>1 DEF ListedOrLate, TrailMatchesStatus, CascadeMissesOnlyLateRows
  <1>11. AnsweredRevocationStands'
    <2>1. stage[r] # "done"
      BY DEF RaceLost, FailRevocation
    <2> QED
      BY <1>1, <1>4, <2>1 DEF AnsweredRevocationStands
  <1> QED
    BY <1>7, <1>8, <1>9, <1>10, <1>11

\* Rows that were active are revoked, and the rest is as before: each trail
\* matches, and no answered revocation is touched.
LEMMA CommitKeepsRows ==
  ASSUME LifecycleInv, NEW p \in Revokers, NEW S \in SUBSET Authorities,
         \A a \in S : status[a] = "active",
         CommitRevocation(p, S)
  PROVE  /\ TrailMatchesStatus'
         /\ \A a \in Authorities :
              /\ status'[a] = IF a \in S THEN "revoked" ELSE status[a]
              /\ revokedBy'[a] = IF a \in S THEN p ELSE revokedBy[a]
         /\ \A r \in Requests : stage[r] = "done" =>
              status'[Target[r]] = "revoked" /\ revokedBy'[Target[r]] = r
         /\ status' \in [Authorities -> {"absent", "active", "revoked"}]
         /\ revokedBy' \in [Authorities -> Revokers \cup {Nobody}]
         /\ trail' \in [Authorities -> Seq({"issued", "revoked"})]
         /\ UNCHANGED <<token, expired>>
  <1> USE RevokerAssumption DEF LifecycleInv, CommitRevocation
  <1>1. \A a \in Authorities :
          /\ status'[a] = IF a \in S THEN "revoked" ELSE status[a]
          /\ revokedBy'[a] = IF a \in S THEN p ELSE revokedBy[a]
          /\ trail'[a] = IF a \in S THEN Append(trail[a], "revoked") ELSE trail[a]
    OBVIOUS
  <1>2. TrailMatchesStatus'
    BY <1>1, TrailAppend DEF TrailMatchesStatus
  <1>3. \A r \in Requests : stage[r] = "done" =>
          status'[Target[r]] = "revoked" /\ revokedBy'[Target[r]] = r
    BY <1>1 DEF AnsweredRevocationStands
  <1>4. /\ status' \in [Authorities -> {"absent", "active", "revoked"}]
        /\ revokedBy' \in [Authorities -> Revokers \cup {Nobody}]
    BY DEF TypeOK
  <1>5. trail' \in [Authorities -> Seq({"issued", "revoked"})]
    BY DEF TypeOK
  <1> QED
    BY <1>1, <1>2, <1>3, <1>4, <1>5

\* Revoking rows and releasing their locks misses nothing.
LEMMA RevokedMissesNothing ==
  ASSUME LifecycleInv, UNCHANGED <<log, offset, handling, todo, took, behind>>,
         \A a \in Authorities : status'[a] = "active" => status[a] = "active"
  PROVE  ListedOrLate' /\ CascadeMissesOnlyLateRows'
  <1>1. \A i \in 1 .. Len(log) : \A a \in Affected(log[i]) :
          status'[a] = "active" => status[a] = "active"
    BY AffectedIsIssued DEF LifecycleInv, TypeOK
  <1>2. ListedOrLate'
    BY <1>1 DEF LifecycleInv, TypeOK, ListedOrLate
  <1>3. CascadeMissesOnlyLateRows'
    <2>1. \A i \in 1 .. offset : i \in 1 .. Len(log)
      BY DEF LifecycleInv, TypeOK
    <2> QED
      BY <1>1, <2>1 DEF LifecycleInv, CascadeMissesOnlyLateRows
  <1> QED
    BY <1>2, <1>3

LEMMA FinishRevocationKeeps ==
  ASSUME LifecycleInv, NEW r \in Requests, FinishRevocation(r)
  PROVE  LifecycleInv'
  <1> USE RevokerAssumption DEF LifecycleInv
  <1> DEFINE a == Target[r]
  <1>1. /\ UNCHANGED <<log, offset, handling, todo, took, unlogged, behind>>
        /\ stage[r] = "logged" /\ ReleaseLocks(r) /\ CommitRevocation(r, {a})
        /\ stage' = [stage EXCEPT ![r] = "done"]
    BY DEF FinishRevocation, consumerVars
  <1>2. a \in Authorities /\ rowLock[a] = r /\ status[a] = "active"
    BY <1>1 DEF RowsHeld
  <1>3. /\ TrailMatchesStatus'
        /\ \A b \in Authorities :
             /\ status'[b] = IF b = a THEN "revoked" ELSE status[b]
             /\ revokedBy'[b] = IF b = a THEN r ELSE revokedBy[b]
        /\ \A q \in Requests : stage[q] = "done" =>
             status'[Target[q]] = "revoked" /\ revokedBy'[Target[q]] = q
        /\ status' \in [Authorities -> {"absent", "active", "revoked"}]
        /\ revokedBy' \in [Authorities -> Revokers \cup {Nobody}]
        /\ trail' \in [Authorities -> Seq({"issued", "revoked"})]
        /\ UNCHANGED <<token, expired>>
    <2>1. r \in Revokers /\ {a} \in SUBSET Authorities /\ \A b \in {a} : status[b] = "active"
      BY <1>2 DEF Revokers
    <2> HIDE DEF a
    <2> QED
      BY <1>1, <2>1, CommitKeepsRows
  <1>4. \A q \in Requests : stage'[q] = IF q = r THEN "done" ELSE stage[q]
    BY <1>1 DEF TypeOK
  <1>5. \A b \in Authorities : rowLock'[b] = IF rowLock[b] = r THEN Nobody ELSE rowLock[b]
    BY <1>1 DEF ReleaseLocks
  <1>6. auditLock' = IF auditLock = r THEN Nobody ELSE auditLock
    BY <1>1 DEF ReleaseLocks
  <1>7. TypeOK'
    BY <1>1, <1>3 DEF TypeOK, Revokers, ReleaseLocks
  <1>8. RowsHeld'
    <2>1. \A b \in Authorities, q \in Requests :
            rowLock'[b] = q <=> stage'[q] \in {"locked", "logged"} /\ Target[q] = b
      <3> SUFFICES ASSUME NEW b \in Authorities, NEW q \in Requests
                   PROVE  rowLock'[b] = q <=> stage'[q] \in {"locked", "logged"} /\ Target[q] = b
        OBVIOUS
      <3>1. rowLock[b] = q <=> stage[q] \in {"locked", "logged"} /\ Target[q] = b
        BY DEF RowsHeld
      <3>2. q # Nobody /\ r # Nobody
        OBVIOUS
      <3> QED
        BY <1>4, <1>5, <3>1, <3>2
    <2>2. \A b \in Authorities, c \in Consumers : rowLock'[b] = c <=> b \in took'[c]
      BY <1>1, <1>5 DEF RowsHeld
    <2>3. \A b \in Authorities : rowLock'[b] # Nobody => status'[b] = "active"
      <3> SUFFICES ASSUME NEW b \in Authorities, rowLock'[b] # Nobody
                   PROVE  status'[b] = "active"
        OBVIOUS
      <3>1. rowLock[b] # r /\ rowLock[b] # Nobody
        BY <1>5
      <3>2. b # a /\ status[b] = "active"
        BY <1>2, <3>1 DEF RowsHeld
      <3> QED
        BY <1>3, <3>2
    <2> QED
      BY <2>1, <2>2, <2>3 DEF RowsHeld
  <1>9. ChainHeld'
    BY <1>1, <1>4, <1>6 DEF ChainHeld
  <1>10. \A b \in Authorities : status'[b] = "active" => status[b] = "active"
    BY <1>3
  <1>11. ListedOrLate'
    BY <1>1, <1>10, RevokedMissesNothing
  <1>12. CascadeMissesOnlyLateRows'
    BY <1>1, <1>10, RevokedMissesNothing
  <1>13. AnsweredRevocationStands'
    BY <1>3, <1>4 DEF AnsweredRevocationStands
  <1> QED
    BY <1>3, <1>7, <1>8, <1>9, <1>11, <1>12, <1>13

LEMMA PublishKeeps ==
  ASSUME LifecycleInv, Publish
  PROVE  LifecycleInv'
  <1> USE RevokerAssumption DEF LifecycleInv, Publish
  <1>1. UNCHANGED <<status, revokedBy, trail, rowLock, auditLock, stage, offset, handling,
                    todo, took, unlogged, behind>>
    BY DEF authorityVars, lockVars, consumerVars
  <1>2. PICK type \in EventTypes : log' = Append(log, type)
    OBVIOUS
  <1>3. /\ Len(log') = Len(log) + 1 /\ log' \in Seq(EventTypes)
        /\ \A i \in 1 .. Len(log) : log'[i] = log[i]
    BY <1>2 DEF TypeOK
  <1>4. TypeOK'
    <2>1. Len(log) \in Nat /\ Len(log') =< MaxEvents
      BY <1>3 DEF TypeOK
    <2>2. offset' \in 0 .. Len(log') /\ handling' \in [Consumers -> 0 .. Len(log')]
      BY <1>1, <1>3, <2>1 DEF TypeOK
    <2> QED
      BY <1>3, <2>1, <2>2 DEF TypeOK, authorityVars, lockVars, consumerVars, Revokers
  <1>5. RowsHeld' /\ ChainHeld' /\ TrailMatchesStatus' /\ AnsweredRevocationStands'
    BY <1>1 DEF RowsHeld, ChainHeld, TrailMatchesStatus, AnsweredRevocationStands
  <1>6. ListedOrLate'
    <2>1. \A c \in Consumers : handling[c] # 0 => log'[handling[c]] = log[handling[c]]
      BY <1>3 DEF TypeOK
    <2> QED
      BY <1>1, <2>1 DEF ListedOrLate
  <1>7. CascadeMissesOnlyLateRows'
    <2>1. \A i \in 1 .. offset : log'[i] = log[i]
      BY <1>3 DEF TypeOK
    <2> QED
      BY <1>1, <2>1 DEF CascadeMissesOnlyLateRows
  <1> QED
    BY <1>4, <1>5, <1>6, <1>7

LEMMA ReceiveKeeps ==
  ASSUME LifecycleInv, NEW c \in Consumers, Receive(c)
  PROVE  LifecycleInv'
  <1> USE RevokerAssumption DEF LifecycleInv, Receive
  <1> DEFINE i == offset + 1
  <1>1. UNCHANGED <<status, revokedBy, trail, rowLock, auditLock, stage, log, offset,
                    took, unlogged, behind>>
    BY DEF authorityVars, lockVars
  <1>2. i \in 1 .. Len(log)
    BY DEF TypeOK
  <1>3. /\ \A d \in Consumers : handling'[d] = IF d = c THEN i ELSE handling[d]
        /\ \A d \in Consumers :
             todo'[d] = IF d = c THEN {a \in Affected(log[i]) : status[a] = "active"} ELSE todo[d]
    BY DEF TypeOK
  <1>4. TypeOK'
    <2>1. handling' \in [Consumers -> 0 .. Len(log')]
      BY <1>1, <1>2 DEF TypeOK
    <2>2. todo' \in [Consumers -> SUBSET Authorities]
      BY <1>2, AffectedIsIssued DEF TypeOK
    <2> QED
      BY <2>1, <2>2 DEF TypeOK, authorityVars, lockVars, Revokers
  <1>5. RowsHeld' /\ ChainHeld' /\ TrailMatchesStatus' /\ AnsweredRevocationStands'
    BY <1>1 DEF RowsHeld, ChainHeld, TrailMatchesStatus, AnsweredRevocationStands
  <1>6. CascadeMissesOnlyLateRows'
    BY <1>1 DEF CascadeMissesOnlyLateRows
  <1>7. ListedOrLate'
    <2> SUFFICES ASSUME NEW d \in Consumers, handling'[d] # 0
                 PROVE  /\ handling'[d] =< offset + 1
                        /\ \A a \in Affected(log[handling'[d]]) :
                             status[a] = "active" =>
                               a \in todo'[d] \cup took[d] \/ <<handling'[d], a>> \in behind
      BY <1>1 DEF ListedOrLate
    <2>1. CASE d = c
      <3>1. /\ handling'[d] = i /\ i =< offset + 1
            /\ \A a \in Affected(log[i]) : status[a] = "active" => a \in todo'[d]
        BY <1>2, <1>3, <2>1 DEF TypeOK
      <3> QED
        BY <3>1
    <2>2. CASE d # c
      BY <1>3, <2>2 DEF ListedOrLate
    <2> QED
      BY <2>1, <2>2
  <1> QED
    BY <1>4, <1>5, <1>6, <1>7

LEMMA CascadeRowKeeps ==
  ASSUME LifecycleInv, NEW c \in Consumers, NEW a \in Authorities, CascadeRow(c, a)
  PROVE  LifecycleInv'
  <1> USE RevokerAssumption DEF LifecycleInv, CascadeRow, TakeRow, Revocable
  <1>1. UNCHANGED <<status, revokedBy, trail, auditLock, stage, log, offset, handling, behind>>
    BY DEF authorityVars
  <1>2. /\ \A b \in Authorities : rowLock'[b] = IF b = a THEN c ELSE rowLock[b]
        /\ \A d \in Consumers :
             /\ todo'[d] = IF d = c THEN todo[d] \ {a} ELSE todo[d]
             /\ took'[d] = IF d = c THEN took[d] \cup {a} ELSE took[d]
             /\ unlogged'[d] = IF d = c THEN {a} ELSE unlogged[d]
    BY DEF TypeOK
  <1>3. TypeOK'
    BY DEF TypeOK, Revokers, authorityVars
  <1>4. RowsHeld'
    <2>1. \A b \in Authorities, r \in Requests :
            rowLock'[b] = r <=> stage'[r] \in {"locked", "logged"} /\ Target[r] = b
      BY <1>1, <1>2 DEF RowsHeld
    <2>2. \A b \in Authorities, d \in Consumers : rowLock'[b] = d <=> b \in took'[d]
      BY <1>2 DEF RowsHeld
    <2>3. \A b \in Authorities : rowLock'[b] # Nobody => status'[b] = "active"
      BY <1>1, <1>2 DEF RowsHeld
    <2> QED
      BY <2>1, <2>2, <2>3 DEF RowsHeld
  <1>5. ChainHeld'
    <2>1. a \in took'[c] /\ unlogged'[c] = {a}
      BY <1>2
    <2>2. \A d \in Consumers : /\ unlogged'[d] \subseteq took'[d]
                               /\ auditLock' = d => took'[d] # {}
                               /\ took'[d] # {} /\ unlogged'[d] = {} => auditLock' = d
      <3> SUFFICES ASSUME NEW d \in Consumers
                   PROVE  /\ unlogged'[d] \subseteq took'[d]
                          /\ auditLock' = d => took'[d] # {}
                          /\ took'[d] # {} /\ unlogged'[d] = {} => auditLock' = d
        OBVIOUS
      <3>1. CASE d = c
        BY <2>1, <3>1
      <3>2. CASE d # c
        BY <1>1, <1>2, <3>2 DEF ChainHeld
      <3> QED
        BY <3>1, <3>2
    <2> QED
      BY <1>1, <2>2 DEF ChainHeld
  <1>6. TrailMatchesStatus' /\ CascadeMissesOnlyLateRows' /\ AnsweredRevocationStands'
    BY <1>1 DEF TrailMatchesStatus, CascadeMissesOnlyLateRows, AnsweredRevocationStands
  <1>7. ListedOrLate'
    <2>1. \A d \in Consumers : todo[d] \cup took[d] \subseteq todo'[d] \cup took'[d]
      BY <1>2
    <2> QED
      BY <1>1, <2>1 DEF ListedOrLate
  <1> QED
    BY <1>3, <1>4, <1>5, <1>6, <1>7

LEMMA SkipRowKeeps ==
  ASSUME LifecycleInv, NEW c \in Consumers, NEW a \in Authorities, SkipRow(c, a)
  PROVE  LifecycleInv'
  <1> USE RevokerAssumption DEF LifecycleInv, SkipRow, Gone, Revocable
  <1>1. UNCHANGED <<status, revokedBy, trail, rowLock, auditLock, stage, log, offset,
                    handling, took, unlogged, behind>>
    BY DEF authorityVars, lockVars
  <1>2. \A d \in Consumers : todo'[d] = IF d = c THEN todo[d] \ {a} ELSE todo[d]
    BY DEF TypeOK
  <1>3. TypeOK'
    BY DEF TypeOK, Revokers, authorityVars, lockVars
  <1>4. RowsHeld' /\ ChainHeld'
    BY <1>1 DEF RowsHeld, ChainHeld
  <1>5. TrailMatchesStatus' /\ CascadeMissesOnlyLateRows' /\ AnsweredRevocationStands'
    BY <1>1 DEF TrailMatchesStatus, CascadeMissesOnlyLateRows, AnsweredRevocationStands
  <1>6. ListedOrLate'
    BY <1>1, <1>2 DEF ListedOrLate
  <1> QED
    BY <1>3, <1>4, <1>5, <1>6

LEMMA LogCascadeKeeps ==
  ASSUME LifecycleInv, NEW c \in Consumers, LogCascade(c)
  PROVE  LifecycleInv'
  <1> USE RevokerAssumption DEF LifecycleInv, LogCascade, TakeChain
  <1>1. UNCHANGED <<status, revokedBy, trail, rowLock, stage, log, offset, handling,
                    todo, took, behind>>
    BY DEF authorityVars
  <1>2. \A d \in Consumers : unlogged'[d] = IF d = c THEN {} ELSE unlogged[d]
    BY DEF TypeOK
  <1>3. TypeOK'
    BY DEF TypeOK, Revokers, authorityVars
  <1>4. RowsHeld'
    BY <1>1 DEF RowsHeld
  <1>5. ChainHeld'
    BY <1>1, <1>2 DEF ChainHeld
  <1>6. TrailMatchesStatus' /\ CascadeMissesOnlyLateRows' /\ AnsweredRevocationStands'
    BY <1>1 DEF TrailMatchesStatus, CascadeMissesOnlyLateRows, AnsweredRevocationStands
  <1>7. ListedOrLate'
    BY <1>1 DEF ListedOrLate
  <1> QED
    BY <1>3, <1>4, <1>5, <1>6, <1>7

\* A cascade lets go of its rows and of the chain, having revoked them or not.
LEMMA StopKeepsLocks ==
  ASSUME LifecycleInv, NEW c \in Consumers, ReleaseLocks(c), StopHandling(c),
         UNCHANGED stage,
         \A a \in Authorities : a \notin took[c] => status'[a] = status[a]
  PROVE  /\ RowsHeld' /\ ChainHeld'
         /\ rowLock' \in [Authorities -> Revokers \cup {Nobody}]
         /\ auditLock' \in Revokers \cup {Nobody}
         /\ todo' \in [Consumers -> SUBSET Authorities]
         /\ took' \in [Consumers -> SUBSET Authorities]
         /\ unlogged' \in [Consumers -> SUBSET Authorities]
         /\ \A d \in Consumers : d # c =>
              handling'[d] = handling[d] /\ todo'[d] = todo[d] /\ took'[d] = took[d]
         /\ handling'[c] = 0 /\ handling' \in [Consumers -> 0 .. Len(log)]
  <1> USE RevokerAssumption DEF LifecycleInv
  <1>1. /\ \A a \in Authorities : rowLock'[a] = IF rowLock[a] = c THEN Nobody ELSE rowLock[a]
        /\ auditLock' = IF auditLock = c THEN Nobody ELSE auditLock
    BY DEF ReleaseLocks
  <1>2. \A d \in Consumers :
          /\ handling'[d] = IF d = c THEN 0 ELSE handling[d]
          /\ todo'[d] = IF d = c THEN {} ELSE todo[d]
          /\ took'[d] = IF d = c THEN {} ELSE took[d]
          /\ unlogged'[d] = IF d = c THEN {} ELSE unlogged[d]
    BY DEF StopHandling, TypeOK
  <1>3. RowsHeld'
    <2>1. \A a \in Authorities, r \in Requests :
            rowLock'[a] = r <=> stage'[r] \in {"locked", "logged"} /\ Target[r] = a
      BY <1>1 DEF RowsHeld
    <2>2. \A a \in Authorities, d \in Consumers : rowLock'[a] = d <=> a \in took'[d]
      BY <1>1, <1>2 DEF RowsHeld
    <2>3. \A a \in Authorities : rowLock'[a] # Nobody => status'[a] = "active"
      BY <1>1 DEF RowsHeld
    <2> QED
      BY <2>1, <2>2, <2>3 DEF RowsHeld
  <1>4. ChainHeld'
    BY <1>1, <1>2 DEF ChainHeld
  <1>5. /\ rowLock' \in [Authorities -> Revokers \cup {Nobody}]
        /\ auditLock' \in Revokers \cup {Nobody}
    BY DEF ReleaseLocks, TypeOK, Revokers
  <1>6. /\ todo' \in [Consumers -> SUBSET Authorities]
        /\ took' \in [Consumers -> SUBSET Authorities]
        /\ unlogged' \in [Consumers -> SUBSET Authorities]
        /\ handling' \in [Consumers -> 0 .. Len(log)]
    BY DEF StopHandling, TypeOK
  <1> QED
    BY <1>2, <1>3, <1>4, <1>5, <1>6

LEMMA FailCascadeKeeps ==
  ASSUME LifecycleInv, NEW c \in Consumers, FailCascade(c)
  PROVE  LifecycleInv'
  <1>1. /\ ReleaseLocks(c) /\ StopHandling(c)
        /\ UNCHANGED <<token, status, revokedBy, expired, trail, stage, log, offset, behind>>
    BY DEF FailCascade, authorityVars
  <1>2. /\ RowsHeld' /\ ChainHeld'
        /\ rowLock' \in [Authorities -> Revokers \cup {Nobody}]
        /\ auditLock' \in Revokers \cup {Nobody}
        /\ todo' \in [Consumers -> SUBSET Authorities]
        /\ took' \in [Consumers -> SUBSET Authorities]
        /\ unlogged' \in [Consumers -> SUBSET Authorities]
        /\ \A d \in Consumers : d # c =>
             handling'[d] = handling[d] /\ todo'[d] = todo[d] /\ took'[d] = took[d]
        /\ handling'[c] = 0 /\ handling' \in [Consumers -> 0 .. Len(log)]
    BY <1>1, StopKeepsLocks
  <1> USE DEF LifecycleInv
  <1>3. TypeOK'
    BY <1>1, <1>2 DEF TypeOK
  <1>4. TrailMatchesStatus' /\ CascadeMissesOnlyLateRows' /\ AnsweredRevocationStands'
    BY <1>1 DEF TrailMatchesStatus, CascadeMissesOnlyLateRows, AnsweredRevocationStands
  <1>5. ListedOrLate'
    BY <1>1, <1>2 DEF ListedOrLate
  <1> QED
    BY <1>2, <1>3, <1>4, <1>5

\* The transaction of a cascade that has come to the end of its list commits,
\* and its event is acknowledged or is not.
LEMMA FinishKeeps ==
  ASSUME LifecycleInv, NEW c \in Consumers, FinishCascade(c) \/ FinishUnacknowledged(c)
  PROVE  LifecycleInv'
  <1> USE DEF LifecycleInv
  <1>1. /\ Handled(c) /\ CommitRevocation(c, took[c]) /\ ReleaseLocks(c) /\ StopHandling(c)
        /\ UNCHANGED <<stage, log, behind>>
        /\ \/ offset' = offset
           \/ handling[c] > offset /\ offset' = handling[c]
    BY DEF FinishCascade, FinishUnacknowledged, Consumed
  <1>2. /\ c \in Revokers /\ took[c] \in SUBSET Authorities
        /\ \A a \in took[c] : status[a] = "active" /\ rowLock[a] = c
    BY RevokerAssumption DEF TypeOK, Revokers, RowsHeld
  <1>3. /\ TrailMatchesStatus'
        /\ \A a \in Authorities :
             /\ status'[a] = IF a \in took[c] THEN "revoked" ELSE status[a]
             /\ revokedBy'[a] = IF a \in took[c] THEN c ELSE revokedBy[a]
        /\ \A r \in Requests : stage[r] = "done" =>
             status'[Target[r]] = "revoked" /\ revokedBy'[Target[r]] = r
        /\ status' \in [Authorities -> {"absent", "active", "revoked"}]
        /\ revokedBy' \in [Authorities -> Revokers \cup {Nobody}]
        /\ trail' \in [Authorities -> Seq({"issued", "revoked"})]
        /\ UNCHANGED <<token, expired>>
    BY <1>1, <1>2, CommitKeepsRows
  <1>4. /\ RowsHeld' /\ ChainHeld'
        /\ rowLock' \in [Authorities -> Revokers \cup {Nobody}]
        /\ auditLock' \in Revokers \cup {Nobody}
        /\ todo' \in [Consumers -> SUBSET Authorities]
        /\ took' \in [Consumers -> SUBSET Authorities]
        /\ unlogged' \in [Consumers -> SUBSET Authorities]
        /\ \A d \in Consumers : d # c =>
             handling'[d] = handling[d] /\ todo'[d] = todo[d] /\ took'[d] = took[d]
        /\ handling'[c] = 0 /\ handling' \in [Consumers -> 0 .. Len(log)]
    <2>1. \A a \in Authorities : a \notin took[c] => status'[a] = status[a]
      BY <1>3
    <2> QED
      BY <1>1, <2>1, StopKeepsLocks
  <1>5. /\ offset \in Nat /\ offset' \in 0 .. Len(log) /\ offset' >= offset
        /\ handling[c] \in 1 .. Len(log) /\ handling[c] =< offset + 1
    BY <1>1 DEF TypeOK, Handled, ListedOrLate
  <1>6. TypeOK'
    BY <1>1, <1>3, <1>4, <1>5 DEF TypeOK
  <1>7. AnsweredRevocationStands'
    BY <1>1, <1>3 DEF AnsweredRevocationStands
  <1>8. \A i \in 1 .. Len(log) : \A a \in Affected(log[i]) :
          a \in Authorities /\ (status'[a] = "active" => status[a] = "active")
    BY <1>3, AffectedIsIssued DEF TypeOK
  <1>9. CascadeMissesOnlyLateRows'
    <2> SUFFICES ASSUME NEW i \in 1 .. offset', NEW a \in Affected(log[i]),
                        status'[a] = "active"
                 PROVE  <<i, a>> \in behind
      BY <1>1 DEF CascadeMissesOnlyLateRows
    <2>1. i \in 1 .. Len(log) /\ a \in Authorities /\ status[a] = "active" /\ a \notin took[c]
      BY <1>3, <1>5, <1>8
    <2>2. CASE i \in 1 .. offset
      BY <2>1, <2>2 DEF CascadeMissesOnlyLateRows
    <2>3. CASE i \notin 1 .. offset
      <3>1. i = handling[c]
        BY <1>1, <1>5, <2>1, <2>3
      <3> QED
        BY <1>1, <1>5, <2>1, <3>1 DEF ListedOrLate, Handled
    <2> QED
      BY <2>2, <2>3
  <1>10. ListedOrLate'
    <2> SUFFICES ASSUME NEW d \in Consumers, handling'[d] # 0
                 PROVE  /\ handling'[d] =< offset' + 1
                        /\ \A a \in Affected(log[handling'[d]]) :
                             status'[a] = "active" =>
                               a \in todo'[d] \cup took'[d] \/ <<handling'[d], a>> \in behind
      BY <1>1 DEF ListedOrLate
    <2>1. /\ d # c /\ handling'[d] = handling[d] /\ todo'[d] = todo[d] /\ took'[d] = took[d]
          /\ handling[d] \in 1 .. Len(log)
      BY <1>4 DEF TypeOK
    <2> QED
      BY <1>5, <1>8, <2>1 DEF ListedOrLate
  <1> QED
    BY <1>3, <1>4, <1>6, <1>7, <1>9, <1>10

LEMMA RequestKeeps ==
  ASSUME LifecycleInv, NEW r \in Requests, Revoke(r)
  PROVE  LifecycleInv'
  BY QuietRequest, RevokeRowKeeps, AbandonKeeps, LogRevocationKeeps, FinishRevocationKeeps
     DEF Revoke

LEMMA CascadeKeeps ==
  ASSUME LifecycleInv, NEW c \in Consumers, Cascade(c)
  PROVE  LifecycleInv'
  BY ReceiveKeeps, CascadeRowKeeps, SkipRowKeeps, LogCascadeKeeps, FinishKeeps
     DEF Cascade

LEMMA NextLifecycleInv == LifecycleInv /\ [Next]_vars => LifecycleInv'
  <1> SUFFICES ASSUME LifecycleInv, [Next]_vars PROVE LifecycleInv'
    OBVIOUS
  <1>1. ASSUME NEW a \in Authorities, Issue(a) PROVE LifecycleInv'
    BY <1>1, QuietIssue, StoreAuthorityKeeps DEF Issue
  <1>2. ASSUME NEW r \in Requests, Revoke(r) \/ FailRevocation(r) PROVE LifecycleInv'
    BY <1>2, RequestKeeps, AbandonKeeps
  <1>3. CASE Publish
    BY <1>3, PublishKeeps
  <1>4. ASSUME NEW c \in Consumers,
               Cascade(c) \/ FinishUnacknowledged(c) \/ FailCascade(c)
        PROVE  LifecycleInv'
    BY <1>4, CascadeKeeps, FinishKeeps, FailCascadeKeeps
  <1>5. CASE BreakDeadlock
    BY <1>5, AbandonKeeps, FailCascadeKeeps DEF BreakDeadlock, Fail
  <1>6. CASE UNCHANGED vars
    <2>1. UNCHANGED <<token, status, revokedBy, expired, trail, rowLock, auditLock, stage,
                      log, offset, handling, todo, took, unlogged, behind>>
      BY <1>6 DEF vars, authorityVars, lockVars, consumerVars
    <2> USE DEF LifecycleInv
    <2>2. TypeOK'
      BY <2>1 DEF TypeOK
    <2>3. RowsHeld' /\ ChainHeld' /\ ListedOrLate'
      BY <2>1 DEF RowsHeld, ChainHeld, ListedOrLate
    <2>4. TrailMatchesStatus' /\ AnsweredRevocationStands' /\ CascadeMissesOnlyLateRows'
      BY <2>1 DEF TrailMatchesStatus, AnsweredRevocationStands, CascadeMissesOnlyLateRows
    <2> QED
      BY <2>2, <2>3, <2>4
  <1> QED
    BY <1>1, <1>2, <1>3, <1>4, <1>5, <1>6 DEF Next

LEMMA LifecycleInvariant == Spec => []LifecycleInv
  BY InitLifecycleInv, NextLifecycleInv, PTL DEF Spec

\* The types of AuthorityLifecycle; no event is acknowledged that was not
\* published.
THEOREM TypeCorrect == Spec => []TypeOK
  <1>1. LifecycleInv => TypeOK
    BY DEF LifecycleInv
  <1> QED
    BY <1>1, LifecycleInvariant, PTL

\* Whatever revokes an authority, and however often an event is redelivered,
\* it has the audit entries and events of one issuance and at most one
\* revocation, and they agree with its row.
THEOREM OneRevocation == Spec => []TrailMatchesStatus
  <1>1. LifecycleInv => TrailMatchesStatus
    BY DEF LifecycleInv
  <1> QED
    BY <1>1, LifecycleInvariant, PTL

\* A caller who is told that the authority is revoked is the one who revoked
\* it, for good.
THEOREM AnswersStand == Spec => []AnsweredRevocationStands
  <1>1. LifecycleInv => AnsweredRevocationStands
    BY DEF LifecycleInv
  <1> QED
    BY <1>1, LifecycleInvariant, PTL

\* An acknowledged event leaves active, of what it should have revoked, only
\* rows inserted while it was handled or later.
THEOREM CascadeIsComplete == Spec => []CascadeMissesOnlyLateRows
  <1>1. LifecycleInv => CascadeMissesOnlyLateRows
    BY DEF LifecycleInv
  <1> QED
    BY <1>1, LifecycleInvariant, PTL

-------------------------------------------------------------------------------
(* Deadlocks.                                                              *)

\* Whoever is waited for and waits holds something: a request its row, a
\* cascade the chain.
LEMMA DeadlockHasCascade ==
  ASSUME LifecycleInv, NEW p \in Revokers, NEW q \in Revokers, Deadlocked(p, q)
  PROVE  \E c \in {p, q} \cap Consumers : auditLock = c /\ took[c] # {} /\ todo[c] # {}
  <1> USE RevokerAssumption DEF LifecycleInv, Revokers
  <1>1. q \in WaitsFor(p) /\ p \in WaitsFor(q)
    BY DEF Deadlocked
  <1>2. ASSUME NEW x \in Revokers, NEW y \in Revokers, y \in WaitsFor(x)
        PROVE  \/ /\ x \in Requests /\ stage[x] = "read" /\ rowLock[Target[x]] = y
               \/ /\ x \in Requests /\ stage[x] = "locked" /\ auditLock = y /\ y # x
               \/ /\ x \in Consumers /\ unlogged[x] # {} /\ auditLock = y /\ y # x
               \/ /\ x \in Consumers /\ unlogged[x] = {}
                  /\ \E a \in todo[x] : rowLock[a] = y
    BY <1>2 DEF WaitsFor, HoldersOf, ChainHolders
  <1>3. ASSUME NEW x \in Requests, NEW y \in Revokers,
               y \in WaitsFor(x), x \in WaitsFor(y)
        PROVE  y \in Consumers /\ auditLock = y /\ took[y] # {} /\ todo[y] # {}
    <2>1. stage[x] = "locked" /\ auditLock = y /\ y # x
      BY <1>2, <1>3 DEF RowsHeld, ChainHeld, TypeOK
    <2>2. y \in Consumers
      BY <1>2, <1>3, <2>1 DEF ChainHeld
    <2> QED
      BY <1>2, <1>3, <2>1, <2>2 DEF ChainHeld
  <1>4. CASE p \in Requests
    BY <1>1, <1>3, <1>4
  <1>5. CASE q \in Requests
    BY <1>1, <1>3, <1>5
  <1>6. CASE p \in Consumers /\ q \in Consumers
    <2>1. CASE unlogged[p] = {} /\ unlogged[q] # {}
      BY <1>1, <1>2, <1>6, <2>1 DEF ChainHeld
    <2>2. CASE unlogged[p] # {}
      BY <1>1, <1>2, <1>6, <2>2 DEF ChainHeld
    <2>3. CASE unlogged[p] = {} /\ unlogged[q] = {}
      <3>1. PICK a \in todo[q] : rowLock[a] = p
        BY <1>1, <1>2, <1>6, <2>3
      <3>2. PICK b \in todo[p] : rowLock[b] = q
        BY <1>1, <1>2, <1>6, <2>3
      <3>3. took[p] # {}
        BY <1>6, <3>1 DEF RowsHeld, TypeOK
      <3> QED
        BY <1>6, <2>3, <3>2, <3>3 DEF ChainHeld
    <2> QED
      BY <2>1, <2>2, <2>3
  <1> QED
    BY <1>4, <1>5, <1>6

\* A deadlock always has a cascade past its first row in it, holding the
\* chain; requests alone cannot deadlock.
THEOREM OnlyCascadesDeadlock == Spec => []DeadlocksNeedCascade
  <1>1. LifecycleInv => DeadlocksNeedCascade
    BY DeadlockHasCascade DEF DeadlocksNeedCascade
  <1> QED
    BY <1>1, LifecycleInvariant, PTL

-------------------------------------------------------------------------------
(* Revocation.                                                             *)

\* A commit revokes rows its transaction has locked, which are active.
LEMMA CommitPromise ==
  ASSUME NEW p, NEW S \in SUBSET Authorities, CommitRevocation(p, S),
         \A a \in S : status[a] = "active"
  PROVE  Promise!Revoke(p, S)
  BY DEF CommitRevocation, Promise!Revoke

LEMMA RequestPromise ==
  ASSUME LifecycleInv, NEW r \in Requests, Revoke(r) \/ FailRevocation(r)
  PROVE  [Promise!Next]_(Promise!vars)
  <1> USE RevokerAssumption DEF LifecycleInv
  <1>1. CASE FinishRevocation(r)
    <2>1. Target[r] \in Authorities /\ rowLock[Target[r]] = r
      BY <1>1 DEF FinishRevocation, RowsHeld
    <2>2. status[Target[r]] = "active"
      BY <2>1 DEF RowsHeld
    <2>3. Promise!Revoke(r, {Target[r]})
      BY <1>1, <2>1, <2>2, CommitPromise DEF FinishRevocation
    <2>4. r \notin Told /\ Told' = Told \cup {r}
      BY <1>1 DEF FinishRevocation, Told, TypeOK
    <2> QED
      BY <2>3, <2>4 DEF Promise!Next, Promise!RevokeAsAsked
  <1>2. CASE ~FinishRevocation(r)
    <2>1. UNCHANGED <<status, revokedBy, trail>>
      BY <1>2 DEF Revoke, RejectRevocation, ReadExisting, RevokeRow, RaceLost, LogRevocation,
         FailRevocation, authorityVars
    <2>2. \E x \in {"read", "locked", "logged", "refused", "failed"} :
            stage[r] # "done" /\ stage' = [stage EXCEPT ![r] = x]
      BY <1>2 DEF Revoke, RejectRevocation, ReadExisting, RevokeRow, RaceLost, LogRevocation,
         FailRevocation
    <2>3. Told' = Told
      BY <2>2 DEF Told, TypeOK
    <2> QED
      BY <2>1, <2>3 DEF Promise!vars
  <1> QED
    BY <1>1, <1>2

LEMMA CascadePromise ==
  ASSUME LifecycleInv, NEW c \in Consumers,
         Cascade(c) \/ FinishUnacknowledged(c) \/ FailCascade(c)
  PROVE  [Promise!Next]_(Promise!vars)
  <1> USE RevokerAssumption DEF LifecycleInv
  <1>1. Told' = Told
    BY DEF Cascade, Receive, CascadeRow, SkipRow, LogCascade, FinishCascade,
       FinishUnacknowledged, FailCascade, Told
  <1>2. CASE FinishCascade(c) \/ FinishUnacknowledged(c)
    <2>1. took[c] \in SUBSET Authorities
      BY DEF TypeOK
    <2>2. \A a \in took[c] : status[a] = "active"
      BY <2>1 DEF RowsHeld
    <2>3. CommitRevocation(c, took[c])
      BY <1>2 DEF FinishCascade, FinishUnacknowledged
    <2>4. Promise!Revoke(c, took[c])
      BY <2>1, <2>2, <2>3, CommitPromise
    <2> QED
      BY <1>1, <2>1, <2>4 DEF Promise!Next, Promise!RevokeUnasked
  <1>3. CASE ~(FinishCascade(c) \/ FinishUnacknowledged(c))
    <2>1. UNCHANGED <<status, revokedBy, trail>>
      BY <1>3 DEF Cascade, Receive, CascadeRow, SkipRow, LogCascade, FailCascade, authorityVars
    <2> QED
      BY <1>1, <2>1 DEF Promise!vars
  <1> QED
    BY <1>2, <1>3

LEMMA OthersPromise ==
  ASSUME \/ \E a \in Authorities : Issue(a)
         \/ Publish \/ UNCHANGED vars
  PROVE  [Promise!Next]_(Promise!vars)
  <1>1. Told' = Told
    BY DEF Issue, RequestToken, StoreAuthority, LoseToken, Expire, Publish, vars, Told
  <1>2. ASSUME NEW a \in Authorities, StoreAuthority(a) PROVE Promise!Next
    BY <1>1, <1>2 DEF StoreAuthority, Promise!Next, Promise!Issue
  <1>3. CASE \A a \in Authorities : ~StoreAuthority(a)
    <2>1. UNCHANGED <<status, revokedBy, trail>>
      BY <1>3 DEF Issue, RequestToken, LoseToken, Expire, Publish, vars, authorityVars
    <2> QED
      BY <1>1, <2>1 DEF Promise!vars
  <1> QED
    BY <1>2, <1>3

\* Whatever the locks, races, deadlocks and redeliveries: a revocation is final,
\* has one author who alone is told of it, and is logged as it happens; and
\* what a cascade takes is revoked in one step or not at all.
THEOREM RefinesRevocation == Spec => ImplementsRevocation
  <1>1. Init => Promise!Init
    BY DEF Init, Promise!Init, Told
  <1>2. LifecycleInv /\ [Next]_vars => [Promise!Next]_(Promise!vars)
    <2> SUFFICES ASSUME LifecycleInv, [Next]_vars PROVE [Promise!Next]_(Promise!vars)
      OBVIOUS
    <2>1. CASE BreakDeadlock
      BY <2>1, RequestPromise, CascadePromise DEF BreakDeadlock, Fail
    <2>2. CASE ~BreakDeadlock
      BY <2>2, RequestPromise, CascadePromise, OthersPromise DEF Next
    <2> QED
      BY <2>1, <2>2
  <1> QED
    BY <1>1, <1>2, LifecycleInvariant, PTL DEF Spec, ImplementsRevocation, Promise!Spec
===============================================================================
