------------------------------ MODULE AuditChain ------------------------------
(***************************************************************************)
(* The hash-chained audit log: appendAuditEntry                            *)
(* (src/src/lib/auditWriter.ts), called inside the business transaction of *)
(* every service and worker, the table of migration 0001, and the verifier *)
(* (src/scripts/verifyAuditChain.ts).                                      *)
(*                                                                         *)
(* What matters here is which entry a new one is chained to: the writer    *)
(* takes an advisory lock that lasts to the end of its transaction, reads  *)
(* the hash of the greatest entry in (created_at, id) order, and inserts   *)
(* its own.  created_at is the column default NOW(), the start of the      *)
(* transaction, which may be long before the lock is granted; id is a      *)
(* ULID, whose order within one millisecond is random.                     *)
(*                                                                         *)
(* Abstractions.  SHA-256 does not collide and covers the whole row, so an *)
(* entry's hash is the entry's identity, here the number of its insertion; *)
(* recomputing a hash always succeeds and only the chain pointers can fail *)
(* verification.  The rest of the business transaction is left out: it may *)
(* do anything between its start, its entries and its end.                 *)
(***************************************************************************)
EXTENDS Integers, FiniteSets

CONSTANTS
  Appenders,   \* database sessions that run business transactions
  Nobody,      \* the advisory lock is free
  NoEntry,     \* previous_hash of the genesis row
  TicksPerMs,  \* resolution of created_at relative to a ULID's timestamp
  Tags,        \* random parts of a ULID
  MaxPerTx,    \* bound: entries one transaction appends
  MaxEntries,  \* bound: entries ever inserted
  MaxTime      \* bound: the clock stops here

ASSUME SessionAssumption == Nobody \notin Appenders /\ NoEntry \notin Nat

ASSUME BoundAssumption ==
  /\ TicksPerMs \in Nat \ {0} /\ Tags \subseteq Nat
  /\ MaxPerTx \in Nat /\ MaxEntries \in Nat /\ MaxTime \in Nat \ {0}

VARIABLES
  now,        \* the clock, in ticks of created_at
  log,        \* committed rows of audit_log
  tx,         \* what each session's transaction is doing
  startedAt,  \* NOW() of the session's transaction
  own,        \* rows the open transaction has inserted
  head,       \* the hash it read as latest
  chainLock,  \* holder of AUDIT_CHAIN_LOCK_KEY
  inserted    \* history: how many rows were ever inserted

vars == <<now, log, tx, startedAt, own, head, chainLock, inserted>>

Stages == {"idle", "open", "locked", "chained"}
Entries ==
  [hash : Nat, previous : Nat \cup {NoEntry}, at : Nat, ms : Nat, tag : Nat]

Genesis == [hash |-> 0, previous |-> NoEntry, at |-> 0, ms |-> 0, tag |-> 0]

\* ORDER BY created_at, id: the ULID's timestamp, then its random part.
Before(e, f) ==
  \/ e.at < f.at
  \/ e.at = f.at /\ e.ms < f.ms
  \/ e.at = f.at /\ e.ms = f.ms /\ e.tag < f.tag

IsLatest(e, S) == e \in S /\ \A f \in S \ {e} : Before(f, e)

\* Rows in the table, committed or not.
AllRows == log \cup UNION {own[p] : p \in Appenders}

Init ==
  /\ now = 1
  /\ log = {Genesis}
  /\ tx = [p \in Appenders |-> "idle"]
  /\ startedAt = [p \in Appenders |-> 0]
  /\ own = [p \in Appenders |-> {}]
  /\ head = [p \in Appenders |-> 0]
  /\ chainLock = Nobody
  /\ inserted = 0

-------------------------------------------------------------------------------
\* The business transaction starts: NOW() is fixed for all of it.
Begin(p) ==
  /\ tx[p] = "idle"
  /\ tx' = [tx EXCEPT ![p] = "open"]
  /\ startedAt' = [startedAt EXCEPT ![p] = now]
  /\ UNCHANGED <<now, log, own, head, chainLock, inserted>>

\* Mutant of LockGranted: appenders do not queue.
LockIgnored(p) == TRUE

\* pg_advisory_xact_lock: granted when free, and again to its holder.
LockGranted(p) == chainLock \in {Nobody, p}

LockChain(p) ==
  /\ tx[p] = "open" /\ LockGranted(p)
  /\ Cardinality(own[p]) < MaxPerTx
  /\ tx' = [tx EXCEPT ![p] = "locked"]
  /\ chainLock' = p
  /\ UNCHANGED <<now, log, startedAt, own, head, inserted>>

\* Mutant of Visible: the latest row is read on another connection.
CommittedOnly(p) == log

\* READ COMMITTED: what others committed and what the transaction inserted.
Visible(p) == log \cup own[p]

ReadLatest(p) ==
  /\ tx[p] = "locked"
  /\ \E e \in Visible(p) : IsLatest(e, Visible(p)) /\ head' = [head EXCEPT ![p] = e.hash]
  /\ tx' = [tx EXCEPT ![p] = "chained"]
  /\ UNCHANGED <<now, log, startedAt, own, chainLock, inserted>>

NewEntry(p, tag) ==
  [hash |-> inserted + 1, previous |-> head[p], at |-> startedAt[p],
   ms |-> now \div TicksPerMs, tag |-> tag]

\* The id is new: no other row has the same timestamp and random part.
InsertEntry(p) ==
  /\ tx[p] = "chained" /\ inserted < MaxEntries
  /\ \E tag \in Tags :
       /\ \A e \in AllRows : <<e.ms, e.tag>> # <<now \div TicksPerMs, tag>>
       /\ own' = [own EXCEPT ![p] = @ \cup {NewEntry(p, tag)}]
  /\ inserted' = inserted + 1
  /\ tx' = [tx EXCEPT ![p] = "open"]
  /\ UNCHANGED <<now, log, startedAt, head, chainLock>>

\* COMMIT and ROLLBACK both release the transaction's advisory lock; its
\* locals go with it.
Ended(p) ==
  /\ tx' = [tx EXCEPT ![p] = "idle"]
  /\ own' = [own EXCEPT ![p] = {}]
  /\ chainLock' = IF chainLock = p THEN Nobody ELSE chainLock
  /\ startedAt' = [startedAt EXCEPT ![p] = 0]
  /\ head' = [head EXCEPT ![p] = 0]

Commit(p) ==
  /\ tx[p] = "open"
  /\ log' = log \cup own[p]
  /\ Ended(p)
  /\ UNCHANGED <<now, inserted>>

\* A later statement fails, the process dies, or the session is lost.
Abort(p) ==
  /\ tx[p] # "idle"
  /\ Ended(p)
  /\ UNCHANGED <<now, log, inserted>>

Tick ==
  /\ now < MaxTime
  /\ now' = now + 1
  /\ UNCHANGED <<log, tx, startedAt, own, head, chainLock, inserted>>

Append(p) == LockChain(p) \/ ReadLatest(p) \/ InsertEntry(p)

Next ==
  \/ \E p \in Appenders : Begin(p) \/ Append(p) \/ Commit(p) \/ Abort(p)
  \/ Tick

Spec == Init /\ [][Next]_vars

-------------------------------------------------------------------------------
(* Properties.                                                             *)

\* Rows and sessions have the shape of the schema and of the writer, and a
\* finished transaction leaves no row uncommitted and holds no lock.
TypeOK ==
  /\ now \in 1 .. MaxTime
  /\ log \subseteq Entries
  /\ tx \in [Appenders -> Stages]
  /\ startedAt \in [Appenders -> 0 .. now]
  /\ own \in [Appenders -> SUBSET Entries]
  /\ head \in [Appenders -> Nat]
  /\ chainLock \in Appenders \cup {Nobody}
  /\ inserted \in Nat
  /\ \A p \in Appenders : tx[p] = "idle" => own[p] = {} /\ chainLock # p

\* The rows of S that were inserted before e.
Earlier(e, S) == {f \in S : f.hash < e.hash}

\* Every entry, of a committed or an open transaction, is chained to the
\* entry that was the latest in (created_at, id) order among those inserted
\* before it: no entry is chained past one that was still uncommitted, and
\* none to a row that a rollback took away.
PreviousWasLatest ==
  \A e \in AllRows \ {Genesis} :
    \E f \in Earlier(e, AllRows) :
      IsLatest(f, Earlier(e, AllRows)) /\ e.previous = f.hash

\* What the verifier checks of a table that holds the rows S: each row's
\* previous_hash is the entry_hash of the row just before it.
Verifies(S) ==
  \A e \in S \ {Genesis} :
    \E f \in S : /\ IsLatest(f, {g \in S : Before(g, e)})
                 /\ e.previous = f.hash

\* A row is late if it was inserted after a row that it sorts before.
InOrder(S) == \A e, f \in S : e.hash < f.hash => Before(e, f)

\* Drift is only ever reported where some row is late: as long as
\* transactions append in the order they started and ids are drawn in
\* increasing order, concurrent appenders and rollbacks leave a clean chain.
OnlyLateRowsDrift == InOrder(log) => Verifies(log)

\* Two entries chained to one predecessor: the first of them is late, it
\* sorts before that predecessor.  Concurrency alone never forks the chain.
ForksStartLate ==
  \A e, f \in AllRows, h \in AllRows :
    e.hash < f.hash /\ e.previous = h.hash /\ f.previous = h.hash => Before(e, h)

\* The writer's chain invariant, previous_hash[N] = entry_hash[N-1], as the
\* verifier reads it off the table.
ChainVerifies == Verifies(log)
===============================================================================
