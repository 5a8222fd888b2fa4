---------------------------- MODULE Listing_proofs ----------------------------
(***************************************************************************)
(* Proofs about Listing.  A page is cut from rows that keep arriving, and  *)
(* asked for by a cursor that is a little older than the row it names.     *)
(*                                                                         *)
(* WalkInv says what a walk has behind it: the rows shown are in order,    *)
(* the cursor is the last of them rounded down, and a row that fitted all  *)
(* along is shown, still to come, or between the end of a page and the     *)
(* start of its millisecond.                                               *)
(***************************************************************************)
EXTENDS Listing, SequenceTheorems, FiniteSetTheorems, TLAPS

ListTyped ==
  /\ now \in Nat /\ query \in Queries
  /\ created \in [Ids -> Int \cup {None}]
  /\ visible \subseteq Ids /\ \A i \in visible : created[i] \in Int
  /\ status \in [Ids -> {"active", "ended"}]
  /\ late \subseteq Ids
  /\ walk \in {"new", "going", "over", "refused"}
  /\ seen \in Seq(Ids) /\ ends \subseteq visible

InOrder(s) == \A m, n \in 1 .. Len(s) : m < n => Before(s[m], s[n])

\* The rows of the caller's own account, for a customer.
Theirs(s) ==
  \A n \in 1 .. Len(s) :
    s[n] \in visible /\ (query.caller = "customer" => Owner[s[n]] = query.as)

\* Where a page that follows the rows s begins.
Follows(c, s) ==
  \/ c = None /\ s = << >>
  \/ /\ c \in Cursors /\ s # << >> /\ c.id = s[Len(s)]
     /\ c.time = ToMilliseconds(created[c.id])

Shown(i, s) == \E n \in 1 .. Len(s) : s[n] = i

\* A row the cursor of an earlier page passed over.
PassedOver(i, E) == \E e \in E : Before(e, i) /\ SameMillisecond(e, i)

\* Of the rows that fitted all along, L aside, the pages s have shown each, or
\* it was passed over, or it is to come after the cursor c.
AccountedFor(L, s, E, c, more) ==
  \A i \in visible \ L : Fits(i) =>
    Shown(i, s) \/ PassedOver(i, E) \/ (more /\ (c = None \/ After(i, c)))

\* Nothing is known of a walk that was refused.
WalkSound ==
  /\ walk = "new" => cursor = None /\ seen = << >> /\ ends = {} /\ late = {}
  /\ walk = "going" => cursor # None
  /\ walk \in {"new", "going"} => Follows(cursor, seen)

Accounted == walk # "refused" => AccountedFor(late, seen, ends, cursor, walk # "over")

WalkInv == ListTyped /\ WalkSound /\ InOrder(seen) /\ Theirs(seen) /\ Accounted

-------------------------------------------------------------------------------
(* The order of a list, and the places in it.                              *)

LEMMA BeforeIsAnOrder ==
  ASSUME ListTyped, NEW i \in visible, NEW j \in visible, NEW k \in visible
  PROVE  /\ ~Before(i, i)
         /\ Before(i, j) /\ Before(j, k) => Before(i, k)
         /\ i # j => Before(i, j) \/ Before(j, i)
BY RowAssumption DEF ListTyped, Before

\* Every row has a place of its own, and every place is taken.
LEMMA Places ==
  ASSUME ListTyped, NEW S \in SUBSET visible
  PROVE  /\ IsFiniteSet(S) /\ Cardinality(S) \in Nat
         /\ \A i \in S : Place(S, i) \in 1 .. Cardinality(S)
         /\ \A i, j \in S : Before(i, j) <=> Place(S, i) < Place(S, j)
         /\ \A k \in 1 .. Cardinality(S) : \E i \in S : Place(S, i) = k
<1>1. IsFiniteSet(S) /\ Cardinality(S) \in Nat
  BY RowAssumption, FS_Subset, FS_CardinalityType DEF ListTyped
<1> DEFINE Above(i) == {j \in S : Before(j, i)}
<1>2. \A i \in S : Place(S, i) = Cardinality(Above(i)) + 1
  BY DEF Place
<1>3. ASSUME NEW i \in S
      PROVE  /\ IsFiniteSet(Above(i)) /\ Cardinality(Above(i)) \in Nat
             /\ Cardinality(Above(i)) < Cardinality(S)
  <2>1. Above(i) \subseteq S /\ i \notin Above(i)
    BY BeforeIsAnOrder
  <2> HIDE DEF Above
  <2>2. Above(i) \in SUBSET S /\ Above(i) # S
    BY <2>1
  <2>3. /\ IsFiniteSet(Above(i)) /\ Cardinality(Above(i)) <= Cardinality(S)
        /\ Cardinality(S) # Cardinality(Above(i))
    BY <1>1, <2>2, FS_Subset
  <2>4. Cardinality(Above(i)) \in Nat
    BY <2>3, FS_CardinalityType
  <2> QED
    BY <1>1, <2>3, <2>4
<1>4. ASSUME NEW i \in S, NEW j \in S, Before(i, j)
      PROVE  Cardinality(Above(i)) < Cardinality(Above(j))
  <2>1. \A k \in S : Before(k, i) => Before(k, j)
    BY <1>4, BeforeIsAnOrder
  <2>2. Above(i) \subseteq Above(j) /\ i \in Above(j) /\ i \notin Above(i)
    BY <1>4, <2>1, BeforeIsAnOrder
  <2>3. IsFiniteSet(Above(j)) /\ Cardinality(Above(j)) \in Nat /\ Cardinality(Above(i)) \in Nat
    BY <1>3
  <2> HIDE DEF Above
  <2>4. Above(i) \in SUBSET Above(j) /\ Above(i) # Above(j)
    BY <2>2
  <2>5. /\ Cardinality(Above(i)) <= Cardinality(Above(j))
        /\ Cardinality(Above(j)) # Cardinality(Above(i))
    BY <2>3, <2>4, FS_Subset
  <2> QED
    BY <2>3, <2>5
<1> HIDE DEF Above
<1>5. \A i \in S : Place(S, i) \in 1 .. Cardinality(S)
  BY <1>1, <1>2, <1>3
<1>6. \A i, j \in S : Before(i, j) <=> Place(S, i) < Place(S, j)
  <2> SUFFICES ASSUME NEW i \in S, NEW j \in S
               PROVE  Before(i, j) <=> Place(S, i) < Place(S, j)
    OBVIOUS
  <2>1. /\ Before(i, j) => Place(S, i) < Place(S, j)
        /\ Before(j, i) => Place(S, j) < Place(S, i)
    BY <1>2, <1>3, <1>4
  <2>2. i = j \/ Before(i, j) \/ Before(j, i)
    BY BeforeIsAnOrder
  <2>3. Place(S, i) \in Int /\ Place(S, j) \in Int
    BY <1>2, <1>3
  <2> QED
    BY <2>1, <2>2, <2>3
<1>7. \A k \in 1 .. Cardinality(S) : \E i \in S : Place(S, i) = k
  <2> DEFINE T == 1 .. Cardinality(S)
             f == [i \in S |-> Place(S, i)]
  <2>1. \A i, j \in S : Place(S, i) = Place(S, j) => i = j
    BY <1>1, <1>5, <1>6, BeforeIsAnOrder
  <2>2. f \in Injection(S, T)
    BY <1>5, <2>1 DEF Injection, IsInjective
  <2>3. IsFiniteSet(T) /\ Cardinality(T) = Cardinality(S)
    BY <1>1, FS_Interval
  <2> HIDE DEF T, f
  <2>4. f \in Surjection(S, T)
    BY <2>2, <2>3, FS_Injection
  <2> USE DEF f, T
  <2> QED
    BY <2>4 DEF Surjection
<1> QED
  BY <1>1, <1>5, <1>6, <1>7

\* A page of rows is in order, and what it leaves out comes after it.
LEMMA NewestSound ==
  ASSUME ListTyped, NEW S \in SUBSET visible, NEW n \in Nat
  PROVE  LET rows == Newest(S, n)
         IN  /\ rows \in Seq(S) /\ Len(rows) <= n
             /\ InOrder(rows)
             /\ \A i \in S : ~Shown(i, rows) =>
                  Len(rows) = n /\ \A k \in 1 .. Len(rows) : Before(rows[k], i)
<1> DEFINE rows == Newest(S, n)
           len == IF Cardinality(S) < n THEN Cardinality(S) ELSE n
<1>1. len \in Nat /\ len <= n /\ len <= Cardinality(S) /\ Cardinality(S) \in Nat
  BY Places
<1>2. \A k \in 1 .. len : rows[k] \in S /\ Place(S, rows[k]) = k
  <2> SUFFICES ASSUME NEW k \in 1 .. len PROVE rows[k] \in S /\ Place(S, rows[k]) = k
    OBVIOUS
  <2>1. rows[k] = CHOOSE i \in S : Place(S, i) = k
    BY DEF Newest
  <2>2. \E i \in S : Place(S, i) = k
    BY <1>1, Places
  <2> QED
    BY <2>1, <2>2
<1>3. rows = [k \in 1 .. len |-> rows[k]]
  BY DEF Newest
<1> HIDE DEF rows, len
<1>4. rows \in Seq(S) /\ Len(rows) = len
  BY <1>1, <1>2, <1>3
<1>5. InOrder(rows)
  <2> SUFFICES ASSUME NEW k \in 1 .. len, NEW l \in 1 .. len, k < l
               PROVE  Before(rows[k], rows[l])
    BY <1>4 DEF InOrder
  <2> QED
    BY <1>2, Places
<1>6. ASSUME NEW i \in S, ~Shown(i, rows)
      PROVE  len = n /\ \A k \in 1 .. len : Before(rows[k], i)
  <2>1. \A k \in 1 .. len : rows[k] # i
    BY <1>4, <1>6 DEF Shown
  <2>2. Place(S, i) \in 1 .. Cardinality(S)
    BY Places
  <2>3. Place(S, i) \notin 1 .. len
    <3> SUFFICES ASSUME Place(S, i) \in 1 .. len PROVE FALSE
      OBVIOUS
    <3> DEFINE j == rows[Place(S, i)]
    <3>1. j \in S /\ Place(S, j) = Place(S, i) /\ j # i
      BY <1>2, <2>1
    <3> HIDE DEF j
    <3>2. Before(i, j) \/ Before(j, i)
      BY <3>1, BeforeIsAnOrder
    <3> QED
      BY <2>2, <3>1, <3>2, Places
  <2>4. len < Place(S, i) /\ len # Cardinality(S)
    BY <1>1, <2>2, <2>3
  <2>5. len = n
    BY <2>4 DEF len
  <2> QED
    BY <1>1, <1>2, <2>2, <2>4, <2>5, Places
<1> QED
  BY <1>1, <1>4, <1>5, <1>6 DEF rows

\* A time rounded down is not later, and names the millisecond it is in.
LEMMA Rounded ==
  ASSUME NEW t \in Int, NEW u \in Int
  PROVE  /\ ToMilliseconds(t) \in Int /\ ToMilliseconds(t) <= t
         /\ ToMilliseconds(t) <= u /\ u <= t => ToMilliseconds(u) = ToMilliseconds(t)
<1> DEFINE a == t \div Millisecond
           b == u \div Millisecond
<1>1. Millisecond \in Nat /\ Millisecond > 0
  BY BoundAssumption
<1>2. /\ a \in Int /\ a * Millisecond <= t /\ t < (a + 1) * Millisecond
      /\ b \in Int /\ b * Millisecond <= u /\ u < (b + 1) * Millisecond
  BY <1>1
<1>3. ToMilliseconds(t) = a * Millisecond /\ ToMilliseconds(u) = b * Millisecond
  BY DEF ToMilliseconds
<1> HIDE DEF a, b
<1>4. a * Millisecond \in Int /\ b * Millisecond \in Int
  BY <1>1, <1>2
<1>5. ASSUME a * Millisecond <= u, u <= t PROVE a = b
  <2>1. a * Millisecond < (b + 1) * Millisecond /\ b * Millisecond < (a + 1) * Millisecond
    BY <1>1, <1>2, <1>5
  <2>2. a < b + 1 /\ b < a + 1
    BY <1>1, <1>2, <2>1
  <2> QED
    BY <1>2, <2>2
<1> QED
  BY <1>2, <1>3, <1>4, <1>5

-------------------------------------------------------------------------------
(* The steps.                                                              *)

\* A page continues the order, and what it leaves out is accounted for.
LEMMA ShowSound ==
  ASSUME ListTyped, NEW c, NEW s \in Seq(Ids), NEW E \in SUBSET visible, NEW L,
         Follows(c, s), InOrder(s), Theirs(s), AccountedFor(L, s, E, c, TRUE),
         Show(c, s, E)
  PROVE  /\ walk' \in {"going", "over"} /\ seen' \in Seq(Ids) /\ ends' \subseteq visible
         /\ walk' = "going" => cursor' # None /\ Follows(cursor', seen')
         /\ InOrder(seen') /\ Theirs(seen')
         /\ AccountedFor(L, seen', ends', cursor', walk' = "going")
<1> DEFINE S == Selected(c)
           rows == Newest(S, Limit + 1)
           more == Len(rows) > Limit
           k == IF more THEN Limit ELSE Len(rows)
           last == rows[Limit]
<1>1. Limit \in Nat /\ Limit >= 1
  BY RowAssumption, BoundAssumption DEF ListTyped, Limit
<1>2. S \in SUBSET visible
  BY DEF Selected
<1>3. /\ rows \in Seq(S) /\ Len(rows) <= Limit + 1
      /\ InOrder(rows)
      /\ \A i \in S : ~Shown(i, rows) =>
           Len(rows) = Limit + 1 /\ \A l \in 1 .. Len(rows) : Before(rows[l], i)
  <2>1. ListTyped /\ Limit + 1 \in Nat
    BY <1>1
  <2> HIDE DEF S
  <2>2. /\ Newest(S, Limit + 1) \in Seq(S) /\ Len(Newest(S, Limit + 1)) <= Limit + 1
        /\ InOrder(Newest(S, Limit + 1))
        /\ \A i \in S : ~Shown(i, Newest(S, Limit + 1)) =>
             /\ Len(Newest(S, Limit + 1)) = Limit + 1
             /\ \A l \in 1 .. Len(Newest(S, Limit + 1)) : Before(Newest(S, Limit + 1)[l], i)
    BY ONLY <1>2, <2>1, NewestSound
  <2> QED
    BY <2>2
<1>4. /\ seen' = s \o SubSeq(rows, 1, k)
      /\ cursor' = IF ~more THEN None ELSE [time |-> ToMilliseconds(created[last]), id |-> last]
      /\ walk' = IF more THEN "going" ELSE "over"
      /\ ends' = IF more THEN E \cup {last} ELSE E
  BY DEF Show, LastShown
<1>5. \A i \in S : i \in visible /\ Fits(i) /\ (c = None \/ After(i, c))
  BY DEF Selected
<1>6. \A i \in visible : Fits(i) /\ (c = None \/ After(i, c)) => i \in S
  BY DEF Selected
<1> HIDE DEF S, rows
<1>7. k \in 0 .. Len(rows) /\ Len(rows) \in Nat /\ (more => k = Limit /\ last = rows[k] /\ k >= 1)
  BY <1>1, <1>3
<1>8. \A n \in 1 .. Len(rows) : rows[n] \in S
  BY <1>3
<1> HIDE DEF k, last
<1> DEFINE page == SubSeq(rows, 1, k)
<1>9. page \in Seq(Ids) /\ Len(page) = k /\ \A n \in 1 .. k : page[n] = rows[n]
  <2>1. rows \in Seq(Ids)
    BY <1>2, <1>3 DEF ListTyped
  <2> QED
    BY <1>7, <2>1
<1> HIDE DEF page
<1>10. /\ seen' \in Seq(Ids) /\ Len(seen') = Len(s) + k /\ Len(s) \in Nat
       /\ \A n \in 1 .. Len(s) : seen'[n] = s[n]
       /\ \A n \in 1 .. Len(s) + k : n > Len(s) => seen'[n] = rows[n - Len(s)]
       /\ \A n \in 1 .. k : seen'[Len(s) + n] = rows[n]
  <2>1. seen' = s \o page
    BY <1>4 DEF page
  <2>2. Len(s) \in Nat /\ k \in Nat
    BY <1>7
  <2>3. seen' \in Seq(Ids) /\ Len(seen') = Len(s) + Len(page)
    <3>1. page \in Seq(Ids)
      BY <1>9
    <3> QED
      BY <2>1, <3>1, ConcatProperties
  <2>4. \A n \in 1 .. Len(s) + Len(page) :
          seen'[n] = IF n <= Len(s) THEN s[n] ELSE page[n - Len(s)]
    <3>1. page \in Seq(Ids)
      BY <1>9
    <3> QED
      BY <2>1, <3>1, ConcatProperties
  <2>5. Len(page) = k /\ \A n \in 1 .. k : page[n] = rows[n]
    BY <1>9
  <2>6. ASSUME NEW n \in 1 .. Len(s) PROVE seen'[n] = s[n]
    BY ONLY <2>2, <2>4, <2>5, n \in 1 .. Len(s)
  <2>7. ASSUME NEW n \in 1 .. Len(s) + k, n > Len(s) PROVE seen'[n] = rows[n - Len(s)]
    <3>1. n - Len(s) \in 1 .. k
      BY ONLY <2>2, <2>7, n \in 1 .. Len(s) + k
    <3> QED
      BY ONLY <2>2, <2>4, <2>5, <2>7, <3>1, n \in 1 .. Len(s) + k
  <2>8. ASSUME NEW n \in 1 .. k PROVE seen'[Len(s) + n] = rows[n]
    <3>1. Len(s) + n \in 1 .. Len(s) + k /\ Len(s) + n > Len(s) /\ (Len(s) + n) - Len(s) = n
      BY ONLY <2>2, n \in 1 .. k
    <3> QED
      BY <2>7, <3>1
  <2> QED
    BY <2>2, <2>3, <2>5, <2>6, <2>7, <2>8
\* What follows the cursor comes after everything shown.
<1>11. ASSUME NEW n \in 1 .. Len(s), NEW i \in S PROVE Before(s[n], i)
  <2>1. s # << >> /\ Len(s) >= 1
    BY <1>10
  <2> DEFINE e == s[Len(s)]
  <2>2. c \in Cursors /\ c.id = e /\ c.time = ToMilliseconds(created[e]) /\ c # None
    BY <2>1, CursorAssumption DEF Follows
  <2>3. e \in visible /\ created[e] \in Int /\ created[i] \in Int /\ i \in visible /\ s[n] \in visible
    BY <1>5, <1>10, <2>1 DEF Theirs, ListTyped
  <2>4. c.time <= created[e]
    BY <2>2, <2>3, Rounded
  <2>5. c.time \in Int /\ c.id \in Int /\ i \in Int
    BY <2>2, <2>3, RowAssumption DEF Cursors, ListTyped
  <2>6. After(i, c)
    BY <1>5, <2>2
  <2>7. Before(e, i)
    <3> HIDE DEF e
    <3> QED
      BY <2>2, <2>3, <2>4, <2>5, <2>6 DEF After, Before
  <2>8. n = Len(s) \/ Before(s[n], e)
    BY <1>10 DEF InOrder
  <2> QED
    BY <2>3, <2>7, <2>8, BeforeIsAnOrder
<1>12. InOrder(seen')
  <2> SUFFICES ASSUME NEW m \in 1 .. Len(s) + k, NEW n \in 1 .. Len(s) + k, m < n
               PROVE  Before(seen'[m], seen'[n])
    BY <1>10 DEF InOrder
  <2>1. CASE n <= Len(s)
    BY <1>10, <2>1 DEF InOrder
  <2>2. CASE m <= Len(s) /\ n > Len(s)
    <3>1. n - Len(s) \in 1 .. Len(rows)
      BY <1>7, <1>10, <2>2
    <3>2. m \in 1 .. Len(s) /\ seen'[m] = s[m] /\ seen'[n] = rows[n - Len(s)]
      BY <1>10, <2>2
    <3> QED
      BY <1>8, <1>11, <3>1, <3>2
  <2>3. CASE m > Len(s)
    <3>1. m - Len(s) \in 1 .. Len(rows) /\ n - Len(s) \in 1 .. Len(rows) /\ m - Len(s) < n - Len(s)
      BY <1>7, <1>10, <2>3
    <3>2. seen'[m] = rows[m - Len(s)] /\ seen'[n] = rows[n - Len(s)]
      BY <1>10, <2>3
    <3> QED
      BY <1>3, <3>1, <3>2 DEF InOrder
  <2> QED
    BY <1>10, <1>7, <2>1, <2>2, <2>3
<1>13. Theirs(seen')
  <2> SUFFICES ASSUME NEW n \in 1 .. Len(s) + k
               PROVE  seen'[n] \in visible /\ (query.caller = "customer" => Owner[seen'[n]] = query.as)
    BY <1>10 DEF Theirs
  <2>1. CASE n <= Len(s)
    BY <1>10, <2>1 DEF Theirs
  <2>2. CASE n > Len(s)
    <3>1. n - Len(s) \in 1 .. Len(rows) /\ seen'[n] = rows[n - Len(s)]
      BY <1>7, <1>10, <2>2
    <3>2. seen'[n] \in visible /\ Fits(seen'[n])
      BY <1>5, <1>8, <3>1
    <3> QED
      BY <3>2, CallerAssumption DEF ListTyped, Fits, AccountOf
  <2> QED
    BY <1>7, <1>10, <2>1, <2>2
<1>14. ASSUME more
       PROVE  /\ last \in S /\ last \in visible /\ created[last] \in Int
              /\ walk' = "going" /\ cursor' = [time |-> ToMilliseconds(created[last]), id |-> last]
              /\ last = seen'[Len(seen')] /\ ends' = E \cup {last}
  <2>1. last \in S /\ last = rows[k] /\ k \in 1 .. Len(rows)
    BY <1>7, <1>8, <1>14
  <2>2. last \in visible /\ created[last] \in Int
    BY <1>5, <2>1 DEF ListTyped
  <2> QED
    BY <1>4, <1>7, <1>10, <1>14, <2>1, <2>2
<1>15. ASSUME walk' = "going" PROVE cursor' # None /\ Follows(cursor', seen')
  <2>1. more
    BY <1>4, <1>15
  <2>2. ToMilliseconds(created[last]) \in Int /\ last \in Ids
    BY <1>14, <2>1, Rounded DEF ListTyped
  <2>3. cursor' \in Cursors
    BY <1>14, <2>1, <2>2 DEF Cursors
  <2>4. seen' # << >>
    BY <1>7, <1>10, <2>1
  <2> QED
    BY <1>14, <2>1, <2>3, <2>4, CursorAssumption DEF Follows
<1>16. AccountedFor(L, seen', ends', cursor', walk' = "going")
  <2> SUFFICES ASSUME NEW i \in visible \ L, Fits(i), ~Shown(i, seen'), ~PassedOver(i, ends')
               PROVE  walk' = "going" /\ After(i, cursor')
    BY DEF AccountedFor
  <2>1. ~Shown(i, s) /\ \A n \in 1 .. k : rows[n] # i
    BY <1>7, <1>10 DEF Shown
  <2>2. E \subseteq ends'
    BY <1>4
  <2>3. i \in S
    BY <1>6, <2>1, <2>2 DEF AccountedFor, PassedOver
  <2>4. more /\ Before(last, i)
    <3>1. CASE Shown(i, rows)
      <4>1. PICK n \in 1 .. Len(rows) : rows[n] = i
        BY <3>1 DEF Shown
      <4>2. k < n
        BY <1>7, <2>1, <4>1
      <4>3. more
        BY <1>7, <4>1, <4>2 DEF k
      <4> QED
        BY <1>3, <1>7, <4>1, <4>2, <4>3 DEF InOrder
    <3>2. CASE ~Shown(i, rows)
      <4>1. Len(rows) = Limit + 1 /\ \A l \in 1 .. Len(rows) : Before(rows[l], i)
        BY <1>3, <2>3, <3>2
      <4> QED
        BY <1>1, <1>7, <4>1
    <3> QED
      BY <3>1, <3>2
  <2>5. i \in visible /\ created[i] \in Int /\ i \in Int /\ last \in Int
    BY <1>14, <2>4, RowAssumption DEF ListTyped
  <2>6. ~SameMillisecond(last, i)
    BY <1>14, <2>4 DEF PassedOver
  <2>7. /\ ToMilliseconds(created[last]) \in Int
        /\ ToMilliseconds(created[last]) <= created[i] /\ created[i] <= created[last] =>
             ToMilliseconds(created[i]) = ToMilliseconds(created[last])
    BY <1>14, <2>4, <2>5, Rounded
  <2>8. created[i] <= created[last] /\ created[last] \in Int
    BY <1>14, <2>4, <2>5 DEF Before
  <2>9. created[i] < ToMilliseconds(created[last])
    BY <2>5, <2>6, <2>7, <2>8 DEF SameMillisecond
  <2> QED
    BY <1>14, <2>4, <2>9 DEF After
<1> QED
  BY <1>4, <1>10, <1>12, <1>13, <1>14, <1>15, <1>16

\* Rows that come or change leave what was said of the others.
LEMMA RowsKept ==
  ASSUME WalkInv, ListTyped', UNCHANGED <<query, walkVars>>,
         \A i \in visible : created'[i] = created[i],
         visible \subseteq visible', late \subseteq late',
         walk = "new" => late' = {},
         walk # "new" =>
           \A i \in visible' \ late' : i \in visible /\ status'[i] = status[i]
  PROVE  WalkInv'
<1>1. /\ cursor' = cursor /\ seen' = seen /\ ends' = ends /\ walk' = walk /\ query' = query
      /\ seen \in Seq(Ids) /\ Len(seen) \in Nat /\ ends \subseteq visible
  BY DEF walkVars, WalkInv, ListTyped
<1>2. \A n \in 1 .. Len(seen) : seen[n] \in visible
  BY DEF WalkInv, Theirs
<1>3. \A i, j \in visible :
        /\ Before(i, j) <=> Before(i, j)'
        /\ SameMillisecond(i, j) <=> SameMillisecond(i, j)'
  BY DEF Before, SameMillisecond, ToMilliseconds
<1>4. InOrder(seen)'
  BY <1>1, <1>2, <1>3 DEF WalkInv, InOrder
<1>5. Theirs(seen)'
  BY <1>1 DEF WalkInv, Theirs
<1>6. Follows(cursor, seen) => Follows(cursor, seen)'
  <2>1. seen # << >> => seen[Len(seen)] \in visible
    BY <1>1, <1>2
  <2> QED
    BY <1>1, <2>1 DEF Follows, ToMilliseconds
<1>7. WalkSound'
  BY <1>1, <1>6 DEF WalkInv, WalkSound
<1>8. Accounted'
  <2> SUFFICES ASSUME walk # "refused", NEW i \in visible' \ late', Fits(i)'
               PROVE  \/ Shown(i, seen)' \/ PassedOver(i, ends)'
                      \/ walk' # "over" /\ (cursor' = None \/ After(i, cursor)')
    BY <1>1 DEF Accounted, AccountedFor, After
  <2>1. CASE walk = "new"
    BY <1>1, <2>1 DEF WalkInv, WalkSound
  <2>2. CASE walk # "new"
    <3>1. i \in visible \ late /\ Fits(i) /\ created'[i] = created[i]
      BY <1>1, <2>2 DEF Fits, AccountOf
    <3>2. Shown(i, seen) \/ PassedOver(i, ends) \/ (walk # "over" /\ (cursor = None \/ After(i, cursor)))
      BY <3>1 DEF WalkInv, Accounted, AccountedFor
    <3>3. Shown(i, seen) => Shown(i, seen)'
      BY <1>1 DEF Shown
    <3>4. PassedOver(i, ends) => PassedOver(i, ends)'
      BY <1>1, <1>3, <3>1 DEF PassedOver
    <3>5. After(i, cursor) => After(i, cursor)'
      BY <1>1, <3>1 DEF After
    <3> QED
      BY <1>1, <3>2, <3>3, <3>4, <3>5
  <2> QED
    BY <2>1, <2>2
<1> QED
  BY <1>4, <1>5, <1>7, <1>8 DEF WalkInv

\* A page that is asked for.
LEMMA PageSound ==
  ASSUME WalkInv, NEW c, NEW s \in Seq(Ids), NEW E \in SUBSET visible,
         Follows(c, s), InOrder(s), Theirs(s), AccountedFor(late', s, E, c, TRUE),
         Show(c, s, E), late' \subseteq Ids, UNCHANGED <<now, query, rowVars>>
  PROVE  WalkInv'
<1>1. ListTyped
  BY DEF WalkInv
<1>2. /\ walk' \in {"going", "over"} /\ seen' \in Seq(Ids) /\ ends' \subseteq visible
      /\ walk' = "going" => cursor' # None /\ Follows(cursor', seen')
      /\ InOrder(seen') /\ Theirs(seen')
      /\ AccountedFor(late', seen', ends', cursor', walk' = "going")
  BY <1>1, ShowSound
<1>3. UNCHANGED <<now, query, created, visible, status>>
  BY DEF rowVars
<1>4. ListTyped'
  BY <1>1, <1>2, <1>3 DEF ListTyped
<1>5. WalkSound'
  BY <1>2, <1>3 DEF WalkSound, Follows, ToMilliseconds
<1>6. InOrder(seen)' /\ Theirs(seen)'
  BY <1>2, <1>3 DEF InOrder, Theirs, Before
<1>7. Accounted'
  BY <1>2, <1>3 DEF Accounted, AccountedFor, Shown, PassedOver, Before, SameMillisecond,
       ToMilliseconds, After, Fits, AccountOf
<1> QED
  BY <1>4, <1>5, <1>6, <1>7 DEF WalkInv

LEMMA WalkInvHolds == Spec => []WalkInv
<1>1. Init => WalkInv
  <2> SUFFICES ASSUME Init PROVE WalkInv
    OBVIOUS
  <2>1. ListTyped
    BY DEF Init, ListTyped
  <2>2. WalkSound /\ Accounted
    BY DEF Init, WalkSound, Accounted, AccountedFor, Follows
  <2>3. InOrder(seen) /\ Theirs(seen)
    BY DEF Init, InOrder, Theirs
  <2> QED
    BY <2>1, <2>2, <2>3 DEF WalkInv
<1>2. WalkInv /\ [Next]_vars => WalkInv'
  <2> SUFFICES ASSUME WalkInv, [Next]_vars PROVE WalkInv'
    OBVIOUS
  <2>1. ASSUME NEW i \in Ids, Insert(i) PROVE WalkInv'
    <3>1. i \notin visible
      BY <2>1, BoundAssumption DEF WalkInv, ListTyped, Insert
    <3>2. ListTyped'
      BY <2>1, <3>1 DEF WalkInv, ListTyped, Insert, walkVars
    <3>3. \A j \in visible : created'[j] = created[j]
      BY <2>1, <3>1 DEF WalkInv, ListTyped, Insert
    <3>4. UNCHANGED <<query, walkVars, visible, late, status>>
      BY <2>1 DEF Insert
    <3>5. walk = "new" => late' = {}
      BY <3>4 DEF WalkInv, WalkSound
    <3> QED
      BY <3>2, <3>3, <3>4, <3>5, RowsKept
  <2>2. ASSUME NEW i \in Ids, Commit(i) PROVE WalkInv'
    <3>1. /\ UNCHANGED <<now, query, created, status, walkVars>>
          /\ visible' = visible \cup {i} /\ late' = late \cup ({i} \cap Later)
          /\ created[i] # None
      BY <2>2 DEF Commit
    <3>2. ListTyped'
      BY <3>1 DEF WalkInv, ListTyped, walkVars
    <3>3. /\ walk = "new" => late' = {}
          /\ walk # "new" => i \in late'
      BY <3>1 DEF WalkInv, WalkSound, Later
    <3> QED
      BY <3>1, <3>2, <3>3, RowsKept
  <2>3. ASSUME NEW i \in Ids, ChangeStatus(i) PROVE WalkInv'
    <3>1. /\ UNCHANGED <<now, query, created, visible, walkVars>>
          /\ status' = [status EXCEPT ![i] = "ended"] /\ late' = late \cup ({i} \cap Later)
      BY <2>3 DEF ChangeStatus
    <3>2. ListTyped'
      BY <3>1 DEF WalkInv, ListTyped, walkVars
    <3>3. /\ walk = "new" => late' = {}
          /\ walk # "new" => i \in late'
          /\ \A j \in visible : j # i => status'[j] = status[j]
      BY <3>1 DEF WalkInv, WalkSound, ListTyped, Later
    <3> QED
      BY <3>1, <3>2, <3>3, RowsKept
  <2>4. CASE Page
    <3>1. /\ walk \in {"new", "going"} /\ Show(cursor, seen, ends)
          /\ UNCHANGED <<now, query, rowVars>> /\ late' = late
      BY <2>4 DEF Page
    <3>2. /\ Follows(cursor, seen) /\ AccountedFor(late, seen, ends, cursor, walk # "over")
          /\ InOrder(seen) /\ Theirs(seen) /\ seen \in Seq(Ids) /\ ends \in SUBSET visible
          /\ late \subseteq Ids
      BY <3>1 DEF WalkInv, WalkSound, Accounted, ListTyped
    <3>3. AccountedFor(late', seen, ends, cursor, TRUE)
      BY <3>1, <3>2 DEF AccountedFor
    <3> QED
      BY <3>1, <3>2, <3>3, PageSound
  <2>5. CASE PageOfBadCursor
    <3>1. CASE query.list = "actions"
      <4>1. /\ Show(None, << >>, {}) /\ UNCHANGED <<now, query, rowVars>> /\ late' = {}
        BY <2>5, <3>1 DEF PageOfBadCursor
      <4>2. /\ Follows(None, << >>) /\ InOrder(<< >>) /\ Theirs(<< >>)
            /\ AccountedFor(late', << >>, {}, None, TRUE)
        BY DEF Follows, InOrder, Theirs, AccountedFor
      <4>3. << >> \in Seq(Ids) /\ {} \in SUBSET visible /\ late' \subseteq Ids
        BY <4>1
      <4> QED
        BY <4>1, <4>2, <4>3, PageSound
    <3>2. CASE query.list # "actions"
      <4>1. /\ walk' = "refused" /\ UNCHANGED <<cursor, seen, ends, late>>
            /\ UNCHANGED <<now, query, created, visible, status>>
        BY <2>5, <3>2 DEF PageOfBadCursor, rowVars
      <4>2. ListTyped'
        BY <4>1 DEF WalkInv, ListTyped
      <4>3. WalkSound' /\ Accounted'
        BY <4>1 DEF WalkSound, Accounted
      <4>4. InOrder(seen)' /\ Theirs(seen)'
        BY <4>1 DEF WalkInv, InOrder, Theirs, Before
      <4> QED
        BY <4>2, <4>3, <4>4 DEF WalkInv
    <3> QED
      BY <3>1, <3>2
  <2>6. CASE Tick
    <3>1. UNCHANGED <<query, created, visible, status, walkVars, late>> /\ now' = now + 1
      BY <2>6 DEF Tick, rowVars
    <3>2. ListTyped'
      BY <3>1 DEF WalkInv, ListTyped, walkVars
    <3>3. walk = "new" => late' = {}
      BY <3>1 DEF WalkInv, WalkSound
    <3> QED
      BY <3>1, <3>2, <3>3, RowsKept
  <2>7. CASE UNCHANGED vars
    <3>1. UNCHANGED <<now, query, created, visible, status, walkVars, late>>
      BY <2>7 DEF vars, rowVars
    <3>2. ListTyped'
      BY <3>1 DEF WalkInv, ListTyped, walkVars
    <3>3. walk = "new" => late' = {}
      BY <3>1 DEF WalkInv, WalkSound
    <3> QED
      BY <3>1, <3>2, <3>3, RowsKept
  <2> QED
    BY <2>1, <2>2, <2>3, <2>4, <2>5, <2>6, <2>7 DEF Next
<1> QED
  BY <1>1, <1>2, PTL DEF Spec

-------------------------------------------------------------------------------
(* The theorems.                                                           *)

(* Whatever arrives, commits late or changes while a caller walks a list,  *)
(* the pages together are in its order and hold no row twice; a customer   *)
(* is shown rows of their own account only.                                *)
THEOREM PagesInOrder == Spec => []PagesAreInOrder
<1>1. WalkInv => PagesAreInOrder
  BY DEF WalkInv, InOrder, Theirs, PagesAreInOrder
<1> QED
  BY <1>1, WalkInvHolds, PTL

(* A walk to the end misses a row that fitted throughout only if it lies   *)
(* between the last row of a page and the start of that row's millisecond. *)
THEOREM OnlyTiesAreMissed == Spec => []OnlyRowsOfTheCursorsMillisecondAreMissed
<1>1. WalkInv => OnlyRowsOfTheCursorsMillisecondAreMissed
  <2> SUFFICES ASSUME WalkInv, walk = "over", NEW i \in Missed
               PROVE  \E e \in ends : Before(e, i) /\ SameMillisecond(e, i)
    BY DEF OnlyRowsOfTheCursorsMillisecondAreMissed
  <2>1. i \in visible \ late /\ Fits(i) /\ ~Shown(i, seen)
    BY DEF Missed, Shown
  <2> QED
    BY <2>1 DEF WalkInv, Accounted, AccountedFor, PassedOver
<1> QED
  BY <1>1, WalkInvHolds, PTL

===============================================================================
