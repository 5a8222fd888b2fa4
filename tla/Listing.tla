------------------------------- MODULE Listing --------------------------------
(***************************************************************************)
(* A caller that walks one of the four lists of the API page by page:      *)
(* briefings, authorities, actions and the audit log.  Each page is one    *)
(* SELECT of the rows after a cursor, newest first, with one row more than *)
(* the page holds to know whether there is another page.                   *)
(*                                                                         *)
(* The cursor names the last row of a page by its created_at (issued_at)   *)
(* and id.  Postgres keeps microseconds, a Date of JavaScript only the     *)
(* milliseconds, so the time in the cursor is that of the row rounded      *)
(* down.  created_at is NOW(), the start of the transaction that inserts   *)
(* the row, which others see when it commits; rows of one transaction have *)
(* one created_at.                                                         *)
(*                                                                         *)
(* Abstractions.  A unit of time is a microsecond, of which there are few  *)
(* in a millisecond.  Ids are numbers in an order of their own.  A status  *)
(* stands for every filter on what may change, an account for every filter *)
(* on what may not.  Rows are not deleted.                                 *)
(***************************************************************************)
EXTENDS Integers, FiniteSets, Sequences

CONSTANTS
  Ids,           \* ids of the rows, numbers
  Owner,         \* [Ids -> Accounts]
  Accounts,      \* customers
  Queries,       \* what may be asked: kind, caller, account, status, limit
  Millisecond,   \* microseconds in one
  DefaultLimit,  \* rows of a page when the query does not say
  MaxLimit,      \* rows of a page at most
  MaxTime,       \* bound of the clock
  None           \* not given; no cursor

Lists == {"briefings", "authorities", "actions", "audit"}

ASSUME RowAssumption ==
  /\ Ids \subseteq Int /\ IsFiniteSet(Ids) /\ Owner \in [Ids -> Accounts]
  /\ \A q \in Queries : q.list \in Lists /\ q.limit \in Int \cup {None}

Cursors == [time : Int, id : Ids]

ASSUME CursorAssumption == None \notin Cursors

\* Every customer has an account; only a caller of the service kind has none.
ASSUME CallerAssumption ==
  /\ None \notin Accounts
  /\ \A q \in Queries : q.caller = "customer" => q.as \in Accounts

ASSUME BoundAssumption ==
  /\ Millisecond \in Nat \ {0} /\ MaxTime \in Nat
  /\ DefaultLimit \in 1 .. MaxLimit /\ MaxLimit \in Nat /\ None \notin Int

VARIABLES
  now,      \* the clock of the database
  query,    \* what the caller asks for
  created,  \* created_at of each row, None before its transaction begins
  visible,  \* the rows that are committed
  status,   \* the status of each row
  cursor,   \* what the next page is asked with
  walk,     \* new, going, over or refused
  seen,     \* the ids returned, in order
  ends,     \* history: the last row of each page with another after it
  late,     \* history: rows that were not there for the whole walk so far
  restarted \* history: whether the walk began again

rowVars == <<created, visible, status>>
walkVars == <<cursor, walk, seen, ends, restarted>>
vars == <<now, query, rowVars, walkVars, late>>

Init ==
  /\ now = 0
  /\ query \in Queries
  /\ created = [i \in Ids |-> None]
  /\ visible = {}
  /\ status = [i \in Ids |-> "active"]
  /\ cursor = None /\ walk = "new" /\ seen = << >> /\ ends = {}
  /\ late = {}
  /\ restarted = FALSE

-------------------------------------------------------------------------------
(* The rows.                                                               *)

Later == IF walk = "new" THEN {} ELSE Ids

\* A transaction begins and inserts a row; several rows may have one time.
Insert(i) ==
  /\ created[i] = None
  /\ created' = [created EXCEPT ![i] = now]
  /\ UNCHANGED <<now, query, visible, status, walkVars, late>>

Commit(i) ==
  /\ created[i] # None /\ i \notin visible
  /\ visible' = visible \cup {i}
  /\ late' = late \cup ({i} \cap Later)
  /\ UNCHANGED <<now, query, created, status, walkVars>>

\* Audit entries do not change.
ChangeStatus(i) ==
  /\ i \in visible /\ query.list # "audit" /\ status[i] = "active"
  /\ status' = [status EXCEPT ![i] = "ended"]
  /\ late' = late \cup ({i} \cap Later)
  /\ UNCHANGED <<now, query, created, visible, walkVars>>

Tick ==
  /\ now < MaxTime /\ now' = now + 1
  /\ UNCHANGED <<query, rowVars, walkVars, late>>

-------------------------------------------------------------------------------
(* One page.                                                               *)

\* A customer's own account, whatever is asked; briefings are only for
\* customers, the audit log only for operators.
AccountOf(q) == IF q.caller = "customer" THEN q.as ELSE q.account

Fits(i) ==
  /\ AccountOf(query) \in {None, Owner[i]}
  /\ query.status \in {None, status[i]}

\* ORDER BY created_at DESC, id DESC.
Before(i, j) == created[i] > created[j] \/ (created[i] = created[j] /\ i > j)

\* toISOString: microseconds are dropped.
ToMilliseconds(t) == (t \div Millisecond) * Millisecond

\* Mutant of After: rows of the cursor's very time are not told apart.
AfterByTime(i, c) == created[i] <= c.time

\* Strictly older, or of the same time with a smaller id.
After(i, c) == created[i] < c.time \/ (created[i] = c.time /\ i < c.id)

Selected(c) == {i \in visible : Fits(i) /\ (c = None \/ After(i, c))}

\* The place of a row among others, from the newest.
Place(S, i) == Cardinality({j \in S : Before(j, i)}) + 1

\* The first n of a set of rows, in order.
Newest(S, n) ==
  [k \in 1 .. IF Cardinality(S) < n THEN Cardinality(S) ELSE n |->
     CHOOSE i \in S : Place(S, i) = k]

Limit ==
  IF query.limit = None THEN DefaultLimit
  ELSE IF query.limit < 1 THEN 1
  ELSE IF query.limit > MaxLimit THEN MaxLimit ELSE query.limit

\* Mutant of LastShown: the row that was only read to look ahead.
LastShownAhead(rows) == rows[Limit + 1]

LastShown(rows) == rows[Limit]

\* One page from a cursor: the next cursor names the last row shown.
Show(c, before, ended) ==
  LET rows == Newest(Selected(c), Limit + 1)
      more == Len(rows) > Limit
  IN /\ seen' = before \o SubSeq(rows, 1, IF more THEN Limit ELSE Len(rows))
     /\ cursor' = IF ~more THEN None
                  ELSE [time |-> ToMilliseconds(created[LastShown(rows)]),
                        id |-> LastShown(rows)]
     /\ walk' = IF more THEN "going" ELSE "over"
     /\ ends' = IF more THEN ended \cup {LastShown(rows)} ELSE ended

Page ==
  /\ walk \in {"new", "going"}
  /\ Show(cursor, seen, ends)
  /\ UNCHANGED <<now, query, rowVars, late, restarted>>

\* A cursor that does not decode: refused, except that the list of actions
\* takes it for none and begins again.
PageOfBadCursor ==
  /\ walk = "going" /\ ~restarted
  /\ IF query.list = "actions"
     THEN Show(None, << >>, {}) /\ restarted' = TRUE /\ late' = {}
     ELSE /\ walk' = "refused"
          /\ UNCHANGED <<cursor, seen, ends, restarted, late>>
  /\ UNCHANGED <<now, query, rowVars>>

Next ==
  \/ \E i \in Ids : Insert(i) \/ Commit(i) \/ ChangeStatus(i)
  \/ Page \/ PageOfBadCursor \/ Tick

Spec == Init /\ [][Next]_vars

-------------------------------------------------------------------------------
(* Properties.                                                             *)

\* Whatever is inserted, committed late or changed while the caller walks, the
\* pages together are in the order of the list, newest first: so no row is
\* returned twice, and pages do not interleave.  A customer is shown rows of
\* their own account only.
PagesAreInOrder ==
  /\ \A m, n \in 1 .. Len(seen) : m < n => Before(seen[m], seen[n])
  /\ query.caller = "customer" => \A n \in 1 .. Len(seen) : Owner[seen[n]] = query.as

Missed == {i \in visible \ late : Fits(i) /\ \A n \in 1 .. Len(seen) : seen[n] # i}

SameMillisecond(i, j) ==
  ToMilliseconds(created[i]) = ToMilliseconds(created[j])

\* A walk to the end has returned every row that fitted throughout, except
\* rows that come after the last row of a page and were created in the same
\* millisecond: those the cursor passes over.
OnlyRowsOfTheCursorsMillisecondAreMissed ==
  walk = "over" =>
    \A i \in Missed : \E e \in ends : Before(e, i) /\ SameMillisecond(e, i)

\* "Strict (created_at, id) descending cursor ... with ties broken on id
\* descending" (operatorAudit/repo.ts; briefings/repo.ts says the same): of
\* rows with one created_at, those with smaller ids than the cursor's come on
\* the next pages.
TiesAreBrokenById ==
  walk = "over" => \A i \in Missed, e \in ends : created[i] = created[e] => i >= e
===============================================================================
