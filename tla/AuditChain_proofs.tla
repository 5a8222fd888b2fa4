--------------------------- MODULE AuditChain_proofs ---------------------------
(***************************************************************************)
(* Proofs about AuditChain.  The argument is that of the writer's lock:    *)
(* only its holder has uncommitted rows, so what the holder read as latest *)
(* is still the latest of all rows when it inserts, and what a rollback    *)
(* takes away was inserted after everything that stays.                    *)
(***************************************************************************)
EXTENDS AuditChain, TLAPS

\* Uncommitted rows belong to the holder of the lock, and so does every
\* append that is under way.
OneAppender ==
  \A p \in Appenders :
    own[p] # {} \/ tx[p] \in {"locked", "chained"} => chainLock = p

\* Insertion numbers name rows, and uncommitted rows are the newest.
Numbered ==
  /\ Genesis \in log
  /\ \A e \in AllRows : e.hash =< inserted
  /\ \A e, f \in AllRows : e.hash = f.hash => e = f
  /\ \A p \in Appenders : \A e \in own[p], f \in log : f.hash < e.hash

\* What the holder has read is the latest of all rows.
HeadIsLatest ==
  \A p \in Appenders : tx[p] = "chained" =>
    \E e \in AllRows : IsLatest(e, AllRows) /\ head[p] = e.hash

ChainInv ==
  TypeOK /\ OneAppender /\ Numbered /\ HeadIsLatest /\ PreviousWasLatest

-------------------------------------------------------------------------------
LEMMA AllRowsMember ==
  ASSUME NEW e
  PROVE  e \in AllRows <=> e \in log \/ \E p \in Appenders : e \in own[p]
  BY DEF AllRows

LEMMA AllRowsMemberNext ==
  ASSUME NEW e
  PROVE  e \in AllRows' <=> e \in log' \/ \E p \in Appenders : e \in own'[p]
  BY DEF AllRows

LEMMA RowsTyped == TypeOK => AllRows \subseteq Entries
  BY DEF TypeOK, AllRows

LEMMA Milliseconds ==
  ASSUME NEW t \in Nat
  PROVE  t \div TicksPerMs \in Nat
  BY BoundAssumption, SMT

LEMMA NewEntryTyped ==
  ASSUME TypeOK, NEW p \in Appenders, NEW tag \in Tags
  PROVE  NewEntry(p, tag) \in Entries
  <1>1. now \in Nat /\ startedAt[p] \in Nat /\ head[p] \in Nat /\ inserted \in Nat
    BY DEF TypeOK
  <1>2. now \div TicksPerMs \in Nat
    BY <1>1, Milliseconds
  <1>3. tag \in Nat
    BY BoundAssumption
  <1> QED
    BY <1>1, <1>2, <1>3 DEF NewEntry, Entries

\* While p holds the lock it sees every row there is.
LEMMA HolderSeesAll ==
  ASSUME OneAppender, NEW p \in Appenders, chainLock = p
  PROVE  Visible(p) = AllRows
  BY SessionAssumption DEF OneAppender, Visible, AllRows

-------------------------------------------------------------------------------
(* Type correctness.                                                       *)

LEMMA InitTypeOK == Init => TypeOK
  BY SessionAssumption, BoundAssumption
     DEF Init, TypeOK, Genesis, Entries, Stages

LEMMA NextTypeOK == TypeOK /\ [Next]_vars => TypeOK'
  <1> SUFFICES ASSUME TypeOK, [Next]_vars PROVE TypeOK'
    OBVIOUS
  <1> USE SessionAssumption, BoundAssumption
  <1>1. ASSUME NEW p \in Appenders, Begin(p) PROVE TypeOK'
    BY <1>1 DEF TypeOK, Begin, Stages
  <1>2. ASSUME NEW p \in Appenders, LockChain(p) PROVE TypeOK'
    BY <1>2 DEF TypeOK, LockChain, LockGranted, Stages
  <1>3. ASSUME NEW p \in Appenders, ReadLatest(p) PROVE TypeOK'
    <2>1. Visible(p) \subseteq Entries
      BY DEF TypeOK, Visible
    <2>2. PICK e \in Visible(p) : head' = [head EXCEPT ![p] = e.hash]
      BY <1>3 DEF ReadLatest
    <2>3. e.hash \in Nat
      BY <2>1, <2>2 DEF Entries
    <2> QED
      BY <1>3, <2>2, <2>3 DEF TypeOK, ReadLatest, Stages
  <1>4. ASSUME NEW p \in Appenders, InsertEntry(p) PROVE TypeOK'
    <2>1. PICK tag \in Tags : own' = [own EXCEPT ![p] = @ \cup {NewEntry(p, tag)}]
      BY <1>4 DEF InsertEntry
    <2>2. NewEntry(p, tag) \in Entries
      BY <2>1, NewEntryTyped
    <2>3. own' \in [Appenders -> SUBSET Entries]
      BY <2>1, <2>2 DEF TypeOK
    <2>4. \A q \in Appenders : tx'[q] = "idle" => own'[q] = {} /\ chainLock' # q
      BY <1>4, <2>1 DEF TypeOK, InsertEntry
    <2> QED
      BY <1>4, <2>3, <2>4 DEF TypeOK, InsertEntry, Stages
  <1>5. ASSUME NEW p \in Appenders, Commit(p) PROVE TypeOK'
    BY <1>5 DEF TypeOK, Commit, Ended, Stages
  <1>6. ASSUME NEW p \in Appenders, Abort(p) PROVE TypeOK'
    BY <1>6 DEF TypeOK, Abort, Ended, Stages
  <1>7. CASE Tick
    BY <1>7 DEF TypeOK, Tick
  <1>8. CASE UNCHANGED vars
    BY <1>8 DEF TypeOK, vars
  <1> QED
    BY <1>1, <1>2, <1>3, <1>4, <1>5, <1>6, <1>7, <1>8 DEF Next, Append

\* Rows and sessions are well typed in every reachable state, for any number
\* of sessions, any clock and any ids.
THEOREM TypeCorrect == Spec => []TypeOK
  BY InitTypeOK, NextTypeOK, PTL DEF Spec

-------------------------------------------------------------------------------
(* The chain.                                                              *)

LEMMA InitChain == Init => ChainInv
  <1> SUFFICES ASSUME Init PROVE ChainInv
    OBVIOUS
  <1>1. AllRows = {Genesis}
    BY DEF Init, AllRows
  <1> QED
    BY <1>1, InitTypeOK
       DEF Init, ChainInv, OneAppender, Numbered, HeadIsLatest,
           PreviousWasLatest, Genesis

\* A step that leaves all rows in place leaves every pointer right.
LEMMA SameRowsKeepPointers ==
  ASSUME PreviousWasLatest, AllRows' = AllRows
  PROVE  PreviousWasLatest'
  BY DEF PreviousWasLatest, Earlier, IsLatest, Before, Genesis

LEMMA LockChainStep ==
  ASSUME ChainInv, NEW p \in Appenders, LockChain(p)
  PROVE  ChainInv'
  <1>1. TypeOK'
    BY NextTypeOK DEF ChainInv, Next, Append
  <1>2. AllRows' = AllRows
    BY DEF LockChain, AllRows
  <1>3. OneAppender'
    BY SessionAssumption DEF ChainInv, TypeOK, OneAppender, LockChain, LockGranted
  <1>4. Numbered'
    BY <1>2 DEF ChainInv, Numbered, LockChain, Genesis
  <1>5. HeadIsLatest'
    BY <1>2 DEF ChainInv, TypeOK, HeadIsLatest, LockChain, IsLatest, Before
  <1> QED
    BY <1>1, <1>2, <1>3, <1>4, <1>5, SameRowsKeepPointers DEF ChainInv

LEMMA ReadLatestStep ==
  ASSUME ChainInv, NEW p \in Appenders, ReadLatest(p)
  PROVE  ChainInv'
  <1>1. TypeOK'
    BY NextTypeOK DEF ChainInv, Next, Append
  <1>2. AllRows' = AllRows
    BY DEF ReadLatest, AllRows
  <1>3. OneAppender'
    BY DEF ChainInv, TypeOK, OneAppender, ReadLatest
  <1>4. Numbered'
    BY <1>2 DEF ChainInv, Numbered, ReadLatest, Genesis
  <1>5. Visible(p) = AllRows
    BY HolderSeesAll DEF ChainInv, OneAppender, ReadLatest
  <1>6. PICK e \in AllRows : /\ IsLatest(e, AllRows)
                             /\ head' = [head EXCEPT ![p] = e.hash]
    BY <1>5 DEF ReadLatest
  <1>7. IsLatest(e, AllRows')
    BY <1>2, <1>6
  <1>8. head'[p] = e.hash
    BY <1>6 DEF ChainInv, TypeOK
  <1>9. ASSUME NEW q \in Appenders, tx'[q] = "chained", q # p
        PROVE  FALSE
    BY <1>9 DEF ChainInv, TypeOK, OneAppender, ReadLatest
  <1>10. HeadIsLatest'
    BY <1>2, <1>6, <1>7, <1>8, <1>9 DEF HeadIsLatest, IsLatest, Before
  <1> QED
    BY <1>1, <1>2, <1>3, <1>4, <1>10, SameRowsKeepPointers DEF ChainInv

LEMMA InsertStep ==
  ASSUME ChainInv, NEW p \in Appenders, InsertEntry(p)
  PROVE  ChainInv'
  <1>1. TypeOK'
    BY NextTypeOK DEF ChainInv, Next, Append
  <1>2. PICK tag \in Tags : own' = [own EXCEPT ![p] = @ \cup {NewEntry(p, tag)}]
    BY DEF InsertEntry
  <1> DEFINE new == NewEntry(p, tag)
  <1>3. new \in Entries /\ new.hash = inserted + 1 /\ new.previous = head[p]
    BY NewEntryTyped DEF ChainInv, NewEntry
  <1>4. log' = log /\ inserted' = inserted + 1 /\ inserted \in Nat
    BY DEF InsertEntry, ChainInv, TypeOK
  <1>5. own'[p] = own[p] \cup {new} /\ \A q \in Appenders \ {p} : own'[q] = own[q]
    BY <1>2 DEF ChainInv, TypeOK
  <1>6. chainLock = p /\ chainLock' = p
    BY DEF InsertEntry, ChainInv, OneAppender
  <1> HIDE DEF new
  <1>7. AllRows' = AllRows \cup {new}
    BY <1>4, <1>5 DEF AllRows
  <1>8. \A e \in AllRows : e \in Entries /\ e.hash \in Nat /\ e.hash < new.hash
    BY <1>3, <1>4, RowsTyped DEF ChainInv, Numbered, Entries
  <1>9. OneAppender'
    BY <1>5, <1>6 DEF ChainInv, TypeOK, OneAppender, InsertEntry
  <1>10. Numbered'
    <2>1. Genesis \in log'
      BY <1>4 DEF ChainInv, Numbered, Genesis
    <2>2. \A e \in AllRows' : e.hash =< inserted'
      BY <1>3, <1>4, <1>7, <1>8 DEF ChainInv, Numbered
    <2>3. \A e, f \in AllRows' : e.hash = f.hash => e = f
      BY <1>3, <1>4, <1>7, <1>8 DEF ChainInv, Numbered
    <2>4. \A q \in Appenders : \A e \in own'[q], f \in log' : f.hash < e.hash
      BY <1>4, <1>5, <1>8, AllRowsMember DEF ChainInv, Numbered
    <2> QED
      BY <2>1, <2>2, <2>3, <2>4 DEF Numbered, Genesis
  <1>11. HeadIsLatest'
    <2>1. \A q \in Appenders : tx'[q] # "chained"
      BY <1>6 DEF ChainInv, TypeOK, OneAppender, InsertEntry
    <2> QED
      BY <2>1 DEF HeadIsLatest
  <1>12. PreviousWasLatest'
    <2>1. \A e \in AllRows : Earlier(e, AllRows') = Earlier(e, AllRows)
      BY <1>3, <1>4, <1>7, <1>8 DEF Earlier
    <2>2. Earlier(new, AllRows') = AllRows
      BY <1>3, <1>4, <1>7, <1>8 DEF Earlier
    <2>3. PICK f \in AllRows : IsLatest(f, AllRows) /\ head[p] = f.hash
      BY DEF ChainInv, HeadIsLatest, InsertEntry
    <2>4. ASSUME NEW e \in AllRows' \ {Genesis}
          PROVE  \E g \in Earlier(e, AllRows') :
                   IsLatest(g, Earlier(e, AllRows')) /\ e.previous = g.hash
      <3>1. CASE e = new
        BY <1>3, <2>2, <2>3, <3>1
      <3>2. CASE e # new
        <4>1. e \in AllRows \ {Genesis}
          BY <1>7, <2>4, <3>2
        <4> QED
          BY <2>1, <4>1 DEF ChainInv, PreviousWasLatest
      <3> QED
        BY <3>1, <3>2
    <2> QED
      BY <2>4 DEF PreviousWasLatest, Earlier, IsLatest, Before, Genesis
  <1> QED
    BY <1>1, <1>9, <1>10, <1>11, <1>12 DEF ChainInv

\* The end of a transaction: the rows it inserted stay or go, all of them.
LEMMA EndStep ==
  ASSUME ChainInv, TypeOK', NEW p \in Appenders, Ended(p), tx[p] # "idle",
         log' \in {log, log \cup own[p]}, inserted' = inserted
  PROVE  ChainInv'
  <1>1. own'[p] = {} /\ \A q \in Appenders \ {p} : own'[q] = own[q]
    BY DEF Ended, ChainInv, TypeOK
  <1>2. tx'[p] = "idle" /\ \A q \in Appenders \ {p} : tx'[q] = tx[q] /\ head'[q] = head[q]
    BY DEF Ended, ChainInv, TypeOK
  <1>3. \A q \in Appenders \ {p} : chainLock = q => chainLock' = q
    BY SessionAssumption DEF Ended
  <1>4. OneAppender'
    BY <1>1, <1>2, <1>3 DEF ChainInv, OneAppender
  <1>5. AllRows' \subseteq AllRows /\ log \subseteq log'
    BY <1>1, AllRowsMember, AllRowsMemberNext
  <1>6. \A q \in Appenders \ {p} : own[q] # {} => own[p] = {}
    BY DEF ChainInv, OneAppender
  <1>7. Numbered'
    <2>1. \A q \in Appenders : \A e \in own'[q], f \in log' : f.hash < e.hash
      BY <1>1, <1>6 DEF ChainInv, Numbered
    <2> QED
      BY <1>5, <2>1 DEF ChainInv, Numbered, Genesis
  <1>8. ASSUME NEW q \in Appenders, tx'[q] = "chained"
        PROVE  AllRows' = AllRows /\ head'[q] = head[q] /\ tx[q] = "chained"
    <2>1. q # p /\ tx[q] = "chained" /\ head'[q] = head[q]
      BY <1>2, <1>8
    <2>2. own[p] = {}
      BY <2>1 DEF ChainInv, OneAppender
    <2> QED
      BY <1>1, <2>1, <2>2, AllRowsMember, AllRowsMemberNext
  <1>9. HeadIsLatest'
    BY <1>8 DEF ChainInv, HeadIsLatest, IsLatest, Before
  <1>10. \A e \in AllRows', f \in AllRows \ AllRows' : e.hash < f.hash
    BY <1>1, <1>6, AllRowsMember, AllRowsMemberNext DEF ChainInv, Numbered
  <1>11. \A e \in AllRows' : Earlier(e, AllRows') = Earlier(e, AllRows)
    <2>1. \A e \in AllRows : e.hash \in Nat
      BY RowsTyped DEF ChainInv, Entries
    <2> QED
      BY <1>5, <1>10, <2>1 DEF Earlier
  <1>12. PreviousWasLatest'
    BY <1>5, <1>11 DEF ChainInv, PreviousWasLatest, Earlier, IsLatest, Before, Genesis
  <1> QED
    BY <1>4, <1>7, <1>9, <1>12 DEF ChainInv

LEMMA NextChain == ChainInv /\ [Next]_vars => ChainInv'
  <1> SUFFICES ASSUME ChainInv, [Next]_vars PROVE ChainInv'
    OBVIOUS
  <1>1. TypeOK'
    BY NextTypeOK DEF ChainInv
  <1>2. ASSUME NEW p \in Appenders, Begin(p) PROVE ChainInv'
    <2>1. AllRows' = AllRows
      BY <1>2 DEF Begin, AllRows
    <2>2. OneAppender' /\ Numbered'
      BY <1>2, <2>1 DEF ChainInv, TypeOK, OneAppender, Numbered, Begin, Genesis
    <2>3. HeadIsLatest'
      BY <1>2, <2>1 DEF ChainInv, TypeOK, HeadIsLatest, Begin, IsLatest, Before
    <2> QED
      BY <1>1, <2>1, <2>2, <2>3, SameRowsKeepPointers DEF ChainInv
  <1>3. ASSUME NEW p \in Appenders, Append(p) PROVE ChainInv'
    BY <1>3, LockChainStep, ReadLatestStep, InsertStep DEF Append
  <1>4. ASSUME NEW p \in Appenders, Commit(p) PROVE ChainInv'
    BY <1>1, <1>4, EndStep DEF Commit
  <1>5. ASSUME NEW p \in Appenders, Abort(p) PROVE ChainInv'
    BY <1>1, <1>5, EndStep DEF Abort
  <1>6. CASE Tick \/ UNCHANGED vars
    <2>1. AllRows' = AllRows
      BY <1>6 DEF Tick, vars, AllRows
    <2>2. OneAppender' /\ Numbered'
      BY <1>6, <2>1 DEF ChainInv, OneAppender, Numbered, Tick, vars, Genesis
    <2>3. HeadIsLatest'
      BY <1>6, <2>1 DEF ChainInv, HeadIsLatest, Tick, vars, IsLatest, Before
    <2> QED
      BY <1>1, <2>1, <2>2, <2>3, SameRowsKeepPointers DEF ChainInv
  <1> QED
    BY <1>2, <1>3, <1>4, <1>5, <1>6 DEF Next

\* Every entry is chained to the one that was the latest of all rows when it
\* was inserted, whichever transactions run, commit and roll back.
THEOREM ChainedToLatest == Spec => []PreviousWasLatest
  <1>1. ChainInv => PreviousWasLatest
    BY DEF ChainInv
  <1> QED
    BY InitChain, NextChain, <1>1, PTL DEF Spec

-------------------------------------------------------------------------------
(* What the verifier can find.  Both facts follow from the invariant alone. *)

LEMMA BeforeIsStrict ==
  ASSUME NEW e \in Entries, NEW f \in Entries, Before(e, f)
  PROVE  ~Before(f, e)
  BY DEF Before, Entries

LEMMA InvariantImpliesOnlyLateDrift == ChainInv => OnlyLateRowsDrift
  <1> SUFFICES ASSUME ChainInv, InOrder(log), NEW e \in log \ {Genesis}
               PROVE  \E f \in log : /\ IsLatest(f, {g \in log : Before(g, e)})
                                     /\ e.previous = f.hash
    BY DEF OnlyLateRowsDrift, Verifies
  <1>1. log \subseteq Entries /\ AllRows \subseteq Entries /\ log \subseteq AllRows
    BY RowsTyped, AllRowsMember DEF ChainInv, TypeOK
  <1>2. ASSUME NEW g \in log PROVE Before(g, e) <=> g.hash < e.hash
    <2>1. g.hash < e.hash => Before(g, e)
      BY <1>2 DEF InOrder
    <2>2. e.hash < g.hash => ~Before(g, e)
      BY <1>1, <1>2, BeforeIsStrict DEF InOrder
    <2>3. g = e => ~Before(g, e)
      BY <1>1, BeforeIsStrict
    <2>4. g.hash = e.hash => g = e
      BY <1>1, <1>2 DEF ChainInv, Numbered
    <2>5. g.hash \in Nat /\ e.hash \in Nat
      BY <1>1, <1>2 DEF Entries
    <2> QED
      BY <2>1, <2>2, <2>3, <2>4, <2>5
  <1>3. Earlier(e, AllRows) = {g \in log : Before(g, e)}
    <2>1. ASSUME NEW g \in AllRows, g.hash < e.hash PROVE g \in log
      <3>1. g.hash \in Nat /\ e.hash \in Nat
        BY <1>1 DEF Entries
      <3> QED
        BY <2>1, <3>1, AllRowsMember DEF ChainInv, Numbered
    <2> QED
      BY <1>1, <1>2, <2>1 DEF Earlier
  <1>4. PICK f \in Earlier(e, AllRows) :
          IsLatest(f, Earlier(e, AllRows)) /\ e.previous = f.hash
    BY <1>1 DEF ChainInv, PreviousWasLatest
  <1> QED
    BY <1>3, <1>4

\* As long as rows are inserted in the order they sort in, the verifier
\* finds nothing to report.
THEOREM DriftCorrect == Spec => []OnlyLateRowsDrift
  BY InitChain, NextChain, InvariantImpliesOnlyLateDrift, PTL DEF Spec

LEMMA InvariantImpliesForksStartLate == ChainInv => ForksStartLate
  <1> SUFFICES ASSUME ChainInv, NEW e \in AllRows, NEW f \in AllRows, NEW h \in AllRows,
                      e.hash < f.hash, e.previous = h.hash, f.previous = h.hash
               PROVE  Before(e, h)
    BY DEF ForksStartLate
  <1>1. e.hash \in Nat /\ f.hash \in Nat /\ h.hash \in Nat
    BY RowsTyped DEF ChainInv, Entries
  <1>2. f # Genesis
    BY <1>1 DEF Genesis
  <1>3. PICK g \in Earlier(f, AllRows) :
          IsLatest(g, Earlier(f, AllRows)) /\ f.previous = g.hash
    BY <1>2 DEF ChainInv, PreviousWasLatest
  <1>4. g = h
    BY <1>3 DEF ChainInv, Numbered, Earlier
  <1>5. e # Genesis
    BY <1>1, SessionAssumption DEF Genesis
  <1>6. PICK k \in AllRows : k.hash < e.hash /\ e.previous = k.hash
    BY <1>5 DEF ChainInv, PreviousWasLatest, Earlier
  <1>7. h.hash < e.hash
    BY <1>6
  <1>8. e # h
    BY <1>1, <1>7
  <1> QED
    BY <1>3, <1>4, <1>8 DEF Earlier, IsLatest

\* Of two entries chained to one predecessor, the first sorts before it.
THEOREM ForksCorrect == Spec => []ForksStartLate
  BY InitChain, NextChain, InvariantImpliesForksStartLate, PTL DEF Spec
===============================================================================
