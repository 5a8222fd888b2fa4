------------------------- MODULE EventIngestion_proofs -------------------------
(***************************************************************************)
(* Proofs about EventIngestion: an event is matched once, with briefings   *)
(* that were live while its request was under way.  And about Matching,    *)
(* the engine that says which of them it is matched with.                  *)
(*                                                                         *)
(* The unique index gives the first half: a key has at most one open       *)
(* transaction, and none once it has a row, so the matches of a key are    *)
(* written by one commit.  The second half is that a briefing cannot       *)
(* become live unnoticed by a request under way, so that what a            *)
(* transaction lists is among what its request has seen live.              *)
(*                                                                         *)
(* What callers are told rests on what never goes away: the row of an      *)
(* event, the creator of a briefing and the first record of a key          *)
(* (AnswerInv).  The audit trail is a matter of briefings alone            *)
(* (TrailInv).  With PromiseInv, every step is one of KeyedRequest or is   *)
(* not seen there.                                                         *)
(*                                                                         *)
(* The engine's specification, EngineSpec, shares no variable with that of *)
(* the endpoint.  Every check of a matcher answers a part of what the      *)
(* intent asks (Decides), so a verdict answers the whole (Judged); the     *)
(* loop keeps one hit for every match, in order (EngineInv).               *)
(***************************************************************************)
EXTENDS EventIngestion, Matching, SequenceTheorems, FiniteSetTheorems,
        WellFoundedInduction, TLAPS

\* A row of briefings, as far as liveness depends on it.
IsRow(x) ==
  /\ x = [status |-> x.status, intent |-> x.intent,
          expiresAt |-> x.expiresAt, madeBy |-> x.madeBy]
  /\ x.expiresAt \in Nat \cup {Never}

Stages == InTransaction \cup {"new", "answering", "done", "lost"}

Shape ==
  /\ now \in Nat
  /\ input \in [Requests -> Inputs]
  /\ stage \in [Requests -> Stages]
  /\ event \in [Keys -> EventRow \cup {None}]
  /\ inserter \in [Keys -> Requests \cup {None}]
  /\ found \in [Requests -> SUBSET Briefings]
  /\ matches \in [Keys -> [Briefings -> {0, 1}]]
  /\ wasLive \in [Requests -> SUBSET Briefings]
  /\ briefing = [b \in Briefings |-> briefing[b]] /\ \A b \in Briefings : IsRow(briefing[b])

\* A handler runs under a key, and an event's stages belong to events.
Keyed ==
  \A r \in Requests :
    /\ stage[r] \in InTransaction => Key(r) \in Keys
    /\ stage[r] \in {"begun", "inserted", "matched"} => Kind(r) = "ingest"

\* The transaction that holds a key is the one inserting it, and the key has
\* no row yet.
IndexHeld ==
  /\ \A k \in Keys, r \in Requests :
       Holds(r, k) <=> stage[r] \in {"inserted", "matched"} /\ Key(r) = k
  /\ \A k \in Keys : inserter[k] # None => event[k] = None

\* Without a row there is no match; a row's request is not to come.
RowsFirst ==
  \A k \in Keys :
    /\ event[k] = None => \A b \in Briefings : matches[k][b] = 0
    /\ event[k] # None => stage[event[k].by] # "new"

\* A request under way has seen every briefing that is live.
LiveNoted ==
  \A r \in Requests : Kind(r) = "ingest" /\ stage[r] \in InTransaction =>
    \A b \in Briefings : LiveRow(briefing[b], now) => b \in wasLive[r]

\* And those it is about to match.
FoundLive == \A r \in Requests : stage[r] = "matched" => found[r] \subseteq wasLive[r]

IngestInv ==
  Shape /\ Keyed /\ IndexHeld /\ RowsFirst /\ LiveNoted /\ FoundLive /\ MatchedOnceWhileLive

-------------------------------------------------------------------------------
LEMMA InitIngestInv == Init => IngestInv
  <1> SUFFICES ASSUME Init PROVE IngestInv
    OBVIOUS
  <1> USE InputAssumption, MatchingAssumption, ValueAssumption, TimeAssumption
  <1>1. Shape
    <2>1. \A b \in Briefings : IsRow(briefing[b])
      BY DEF Init, IsRow, NoRow
    <2>2. briefing = [b \in Briefings |-> briefing[b]]
      BY DEF Init
    <2> QED
      BY <2>1, <2>2 DEF Init, Shape, Stages
  <1>2. Keyed /\ LiveNoted /\ FoundLive
    BY DEF Init, Keyed, LiveNoted, FoundLive, InTransaction
  <1>3. IndexHeld /\ RowsFirst /\ MatchedOnceWhileLive
    BY DEF Init, IndexHeld, Holds, RowsFirst, MatchedOnceWhileLive
  <1> QED
    BY <1>1, <1>2, <1>3 DEF IngestInv

\* MatchedOnceWhileLive speaks of events, matches and wasLive alone, and holds
\* on when a row's request has seen more.
LEMMA MatchesKept ==
  ASSUME IngestInv, UNCHANGED <<event, matches>>,
         \A r \in Requests : stage[r] # "new" => wasLive[r] \subseteq wasLive'[r]
  PROVE  MatchedOnceWhileLive'
  <1>1. \A k \in Keys : event[k] # None =>
          event[k].by \in Requests /\ stage[event[k].by] # "new"
    BY DEF IngestInv, Shape, RowsFirst, EventRow
  <1> QED
    BY <1>1 DEF IngestInv, MatchedOnceWhileLive

\* A step that moves a request from one stage to another, both outside the
\* event's insertion.
LEMMA MovesOn ==
  ASSUME IngestInv, NEW r \in Requests, NEW s \in {"begun", "read", "answering", "done"},
         Become(r, s), UNCHANGED <<now, input, eventVars, briefing, wasLive>>,
         stage[r] \in {"missed", "begun", "answering"},
         s \in {"begun", "read"} => stage[r] = "missed",
         s = "begun" => Kind(r) = "ingest"
  PROVE  IngestInv'
  <1> USE DEF eventVars
  <1>1. \A q \in Requests : stage'[q] = IF q = r THEN s ELSE stage[q]
    BY DEF IngestInv, Shape, Become
  <1>2. Shape'
    BY DEF IngestInv, Shape, Become, Stages, InTransaction
  <1>3. Keyed'
    BY <1>1 DEF IngestInv, Keyed, InTransaction, Key, Kind
  <1>4. IndexHeld'
    BY <1>1 DEF IngestInv, IndexHeld, Holds, Key
  <1>5. RowsFirst'
    BY <1>1, <1>2 DEF IngestInv, Shape, RowsFirst, EventRow
  <1>6. LiveNoted'
    BY <1>1 DEF IngestInv, LiveNoted, InTransaction, Kind, LiveRow
  <1>7. FoundLive'
    BY <1>1 DEF IngestInv, FoundLive
  <1>8. MatchedOnceWhileLive'
    BY MatchesKept
  <1> QED
    BY <1>2, <1>3, <1>4, <1>5, <1>6, <1>7, <1>8 DEF IngestInv

\* What the updates do to a row.
LEMMA RowRevoked ==
  ASSUME NEW x, IsRow(x), NEW y, y = [x EXCEPT !.status = "revoked"]
  PROVE  IsRow(y) /\ ~LiveRow(y, now)
  <1>1. y = [status |-> "revoked", intent |-> x.intent,
             expiresAt |-> x.expiresAt, madeBy |-> x.madeBy]
    BY DEF IsRow
  <1> QED
    BY <1>1 DEF IsRow, LiveRow

LEMMA PatchedFields ==
  ASSUME NEW x, IsRow(x), NEW p
  PROVE  PatchedRow(x, p) =
           [status |-> Set(p.status, x.status), intent |-> Set(p.intent, x.intent),
            expiresAt |-> Set(p.expiresAt, x.expiresAt), madeBy |-> x.madeBy]
  <1> DEFINE x1 == [x EXCEPT !.status = Set(p.status, @)]
             x2 == [x1 EXCEPT !.intent = Set(p.intent, @)]
             x3 == [x2 EXCEPT !.expiresAt = Set(p.expiresAt, @)]
  <1>1. PatchedRow(x, p) = x3
    BY DEF PatchedRow
  <1>2. x1 = [status |-> Set(p.status, x.status), intent |-> x.intent,
              expiresAt |-> x.expiresAt, madeBy |-> x.madeBy]
    BY DEF IsRow
  <1> HIDE DEF x1
  <1>3. x2 = [status |-> Set(p.status, x.status), intent |-> Set(p.intent, x.intent),
              expiresAt |-> x.expiresAt, madeBy |-> x.madeBy]
    BY <1>2
  <1> HIDE DEF x2
  <1>4. x3 = [status |-> Set(p.status, x.status), intent |-> Set(p.intent, x.intent),
              expiresAt |-> Set(p.expiresAt, x.expiresAt), madeBy |-> x.madeBy]
    BY <1>3
  <1> QED
    BY <1>1, <1>4

LEMMA RowPatched ==
  ASSUME Shape, NEW r \in Requests, Kind(r) = "patch",
         briefing' = [briefing EXCEPT ![On(r)] = PatchedRow(@, Body(r))] \/ briefing' = briefing
  PROVE  /\ briefing' = [c \in Briefings |-> briefing'[c]]
         /\ \A c \in Briefings : IsRow(briefing'[c])
  <1>1. briefing' = [c \in Briefings |-> briefing'[c]]
        /\ \A c \in Briefings : briefing'[c] \in {briefing[c], PatchedRow(briefing[c], Body(r))}
    BY DEF Shape
  <1>2. ASSUME NEW x, IsRow(x) PROVE IsRow(PatchedRow(x, Body(r)))
    <2>1. Body(r).expiresAt \in Nat \cup {Never, None}
      BY InputAssumption DEF Shape, Kind, Body
    <2> DEFINE e == Set(Body(r).expiresAt, x.expiresAt)
    <2>2. e \in Nat \cup {Never}
      BY <1>2, <2>1 DEF Set, IsRow
    <2>3. PatchedRow(x, Body(r)) =
            [status |-> Set(Body(r).status, x.status), intent |-> Set(Body(r).intent, x.intent),
             expiresAt |-> e, madeBy |-> x.madeBy]
      BY <1>2, PatchedFields
    <2> QED
      BY <2>2, <2>3 DEF IsRow
  <1> QED
    BY <1>1, <1>2 DEF Shape

-------------------------------------------------------------------------------
(* The request comes in, and the statements of its event.                  *)

LEMMA LookupStep ==
  ASSUME IngestInv, NEW r \in Requests, Lookup(r)
  PROVE  IngestInv'
  <1> USE DEF eventVars, briefingVars
  <1>1. PICK s \in {"missed", "done"} :
          stage' = [stage EXCEPT ![r] = s] /\ (s = "missed" => Key(r) # None)
    BY DEF Lookup, Become
  <1>2. /\ stage[r] = "new"
        /\ UNCHANGED <<now, input, event, inserter, found, matches, briefing>>
        /\ wasLive' = [wasLive EXCEPT ![r] =
             {b \in Briefings : Kind(r) = "ingest" /\ LiveRow(briefing[b], now)}]
    BY DEF Lookup, NoteArrival
  <1>3. \A q \in Requests : /\ stage'[q] = IF q = r THEN s ELSE stage[q]
                            /\ q # r => wasLive'[q] = wasLive[q]
    BY <1>1, <1>2 DEF IngestInv, Shape
  <1>4. wasLive'[r] = {b \in Briefings : Kind(r) = "ingest" /\ LiveRow(briefing[b], now)}
    BY <1>2 DEF IngestInv, Shape
  <1>5. Shape'
    BY <1>1, <1>2 DEF IngestInv, Shape, Stages, InTransaction
  <1>6. Keyed'
    <2>1. input[r] \in Inputs
      BY DEF IngestInv, Shape
    <2>2. s = "missed" => Key(r) \in Keys
      BY <1>1, <2>1, InputAssumption DEF Key
    <2> QED
      BY <1>2, <1>3, <2>2 DEF IngestInv, Keyed, InTransaction, Key, Kind
  <1>7. IndexHeld'
    BY <1>1, <1>2, <1>3 DEF IngestInv, IndexHeld, Holds, Key
  <1>8. RowsFirst'
    BY <1>2, <1>3, <1>5 DEF IngestInv, Shape, RowsFirst, EventRow
  <1>9. LiveNoted'
    BY <1>2, <1>3, <1>4 DEF IngestInv, LiveNoted, InTransaction, Kind, LiveRow
  <1>10. FoundLive'
    BY <1>2, <1>3 DEF IngestInv, FoundLive
  <1>11. MatchedOnceWhileLive'
    BY <1>2, <1>3, MatchesKept
  <1> QED
    BY <1>5, <1>6, <1>7, <1>8, <1>9, <1>10, <1>11 DEF IngestInv

LEMMA InsertStep ==
  ASSUME IngestInv, NEW r \in Requests, InsertEvent(r)
  PROVE  IngestInv'
  <1> USE DEF briefingVars
  <1> DEFINE k == Key(r)
  <1>1. /\ stage[r] = "begun" /\ inserter[k] = None /\ event[k] = None
        /\ stage' = [stage EXCEPT ![r] = "inserted"]
        /\ inserter' = [inserter EXCEPT ![k] = r]
        /\ UNCHANGED <<now, input, event, found, matches, briefing, wasLive>>
    BY DEF InsertEvent, KeyFree, Become
  <1>2. k \in Keys /\ Kind(r) = "ingest"
    BY <1>1 DEF IngestInv, Keyed, InTransaction
  <1> HIDE DEF k
  <1>3. \A q \in Requests : stage'[q] = IF q = r THEN "inserted" ELSE stage[q]
    BY <1>1 DEF IngestInv, Shape
  <1>4. Shape'
    BY <1>1, <1>2 DEF IngestInv, Shape, Stages, InTransaction
  <1>5. Keyed'
    BY <1>1, <1>2, <1>3 DEF IngestInv, Keyed, InTransaction, Key, Kind
  <1>6. IndexHeld'
    <2>1. \A l \in Keys : inserter'[l] = IF l = k THEN r ELSE inserter[l]
      BY <1>1, <1>2 DEF IngestInv, Shape
    <2> QED
      BY <1>1, <1>2, <1>3, <2>1, ValueAssumption DEF IngestInv, IndexHeld, Holds, Key, k
  <1>7. RowsFirst'
    BY <1>1, <1>3, <1>4 DEF IngestInv, Shape, RowsFirst, EventRow
  <1>8. LiveNoted'
    BY <1>1, <1>3 DEF IngestInv, LiveNoted, InTransaction, Kind, LiveRow
  <1>9. FoundLive'
    BY <1>1, <1>3 DEF IngestInv, FoundLive
  <1>10. MatchedOnceWhileLive'
    BY <1>1, MatchesKept
  <1> QED
    BY <1>4, <1>5, <1>6, <1>7, <1>8, <1>9, <1>10 DEF IngestInv

LEMMA MatchStep ==
  ASSUME IngestInv, NEW r \in Requests, MatchBriefings(r)
  PROVE  IngestInv'
  <1> USE DEF briefingVars
  <1> DEFINE m == {b \in Concerned[Body(r)] :
                     Listed(b) /\ <<briefing[b].intent, Body(r)>> \in Wants}
  <1>1. /\ stage[r] = "inserted"
        /\ stage' = [stage EXCEPT ![r] = "matched"]
        /\ found' = [found EXCEPT ![r] = m]
        /\ UNCHANGED <<now, input, event, inserter, matches, briefing, wasLive>>
    BY DEF MatchBriefings, Become
  <1>2. Kind(r) = "ingest" /\ Body(r) \in Bodies
    BY <1>1, InputAssumption DEF IngestInv, Shape, Keyed, Kind, Body
  <1>3. m \subseteq wasLive[r] /\ m \subseteq Briefings
    <2>1. m \subseteq Briefings
      BY <1>2, MatchingAssumption
    <2>2. \A b \in m : LiveRow(briefing[b], now)
      BY DEF Listed, LiveRow
    <2> QED
      BY <1>1, <1>2, <2>1, <2>2 DEF IngestInv, LiveNoted, InTransaction
  <1> HIDE DEF m
  <1>4. \A q \in Requests : /\ stage'[q] = IF q = r THEN "matched" ELSE stage[q]
                            /\ found'[q] = IF q = r THEN m ELSE found[q]
    BY <1>1 DEF IngestInv, Shape
  <1>5. Shape'
    BY <1>1, <1>3 DEF IngestInv, Shape, Stages, InTransaction
  <1>6. Keyed'
    BY <1>1, <1>2, <1>4 DEF IngestInv, Keyed, InTransaction, Key, Kind
  <1>7. IndexHeld'
    BY <1>1, <1>4 DEF IngestInv, IndexHeld, Holds, Key
  <1>8. RowsFirst'
    BY <1>1, <1>4, <1>5 DEF IngestInv, Shape, RowsFirst, EventRow
  <1>9. LiveNoted'
    BY <1>1, <1>4 DEF IngestInv, LiveNoted, InTransaction, Kind, LiveRow
  <1>10. FoundLive'
    BY <1>1, <1>3, <1>4 DEF IngestInv, FoundLive
  <1>11. MatchedOnceWhileLive'
    BY <1>1, MatchesKept
  <1> QED
    BY <1>5, <1>6, <1>7, <1>8, <1>9, <1>10, <1>11 DEF IngestInv

\* The commit writes the matches of a key that had none.
LEMMA CommitStep ==
  ASSUME IngestInv, NEW r \in Requests, CommitEvent(r)
  PROVE  IngestInv'
  <1> USE DEF Forget, Respond, Become
  <1> DEFINE k == Key(r)
             n == Cardinality(found[r])
             x == [body |-> Body(r), by |-> r, count |-> n]
             m == [b \in Briefings |-> matches[k][b] + IF b \in found[r] THEN 1 ELSE 0]
  <1>1. /\ stage[r] = "matched"
        /\ event' = [event EXCEPT ![k] = x]
        /\ matches' = [matches EXCEPT ![k] =
             [b \in Briefings |-> @[b] + IF b \in found[r] THEN 1 ELSE 0]]
        /\ inserter' = [inserter EXCEPT ![k] = None]
        /\ found' = [found EXCEPT ![r] = {}]
        /\ stage' = [stage EXCEPT ![r] = "answering"]
        /\ UNCHANGED <<now, input, briefing, wasLive>>
    BY DEF CommitEvent
  <1>2. k \in Keys /\ Kind(r) = "ingest" /\ Body(r) \in Bodies
    BY <1>1, InputAssumption DEF IngestInv, Shape, Keyed, InTransaction, Kind, Body
  <1>3. inserter[k] = r /\ event[k] = None
    BY <1>1, <1>2, ValueAssumption DEF IngestInv, IndexHeld, Holds
  <1>4. found[r] \subseteq wasLive[r] /\ found[r] \subseteq Briefings
    BY <1>1 DEF IngestInv, Shape, FoundLive
  <1>5. n \in Nat
    BY <1>4, MatchingAssumption, FS_Subset, FS_CardinalityType
  <1>6. x \in EventRow /\ x # None
    BY <1>2, <1>5, ValueAssumption DEF EventRow
  <1>7. m = [b \in Briefings |-> IF b \in found[r] THEN 1 ELSE 0]
    BY <1>2, <1>3 DEF IngestInv, RowsFirst
  <1>8. matches' = [matches EXCEPT ![k] = m]
    BY <1>1
  <1> HIDE DEF k, n, x, m
  <1>9. \A q \in Requests : /\ stage'[q] = IF q = r THEN "answering" ELSE stage[q]
                            /\ q # r => found'[q] = found[q]
    BY <1>1 DEF IngestInv, Shape
  <1>10. \A l \in Keys : /\ event'[l] = IF l = k THEN x ELSE event[l]
                         /\ inserter'[l] = IF l = k THEN None ELSE inserter[l]
                         /\ matches'[l] = IF l = k THEN m ELSE matches[l]
    BY <1>1, <1>8 DEF IngestInv, Shape
  <1>11. Shape'
    <2>1. m \in [Briefings -> {0, 1}]
      BY <1>7
    <2> QED
      BY <1>1, <1>2, <1>6, <1>8, <2>1 DEF IngestInv, Shape, Stages, InTransaction
  <1>12. Keyed'
    BY <1>1, <1>9 DEF IngestInv, Keyed, InTransaction, Key, Kind
  <1>13. IndexHeld'
    <2>1. \A l \in Keys, q \in Requests :
            Holds(q, l)' <=> stage'[q] \in {"inserted", "matched"} /\ Key(q)' = l
      BY <1>1, <1>3, <1>9, <1>10, ValueAssumption DEF IngestInv, IndexHeld, Holds, Key, k
    <2>2. \A l \in Keys : inserter'[l] # None => event'[l] = None
      BY <1>10 DEF IngestInv, IndexHeld
    <2> QED
      BY <2>1, <2>2 DEF IndexHeld
  <1>14. RowsFirst'
    <2> SUFFICES ASSUME NEW l \in Keys
                 PROVE  /\ event'[l] = None => \A b \in Briefings : matches'[l][b] = 0
                        /\ event'[l] # None => stage'[event'[l].by] # "new"
      BY DEF RowsFirst
    <2>1. CASE l = k
      <3>1. event'[l] = x /\ x.by = r
        BY <1>10, <2>1 DEF x
      <3> QED
        BY <1>6, <1>9, <3>1
    <2>2. CASE l # k
      <3>1. event[l] # None => event[l].by \in Requests
        BY DEF IngestInv, Shape, EventRow
      <3> QED
        BY <1>9, <1>10, <2>2, <3>1 DEF IngestInv, RowsFirst
    <2> QED
      BY <2>1, <2>2
  <1>15. LiveNoted'
    BY <1>1, <1>9 DEF IngestInv, LiveNoted, InTransaction, Kind, LiveRow
  <1>16. FoundLive'
    BY <1>1, <1>9 DEF IngestInv, FoundLive
  <1>17. MatchedOnceWhileLive'
    <2> SUFFICES ASSUME NEW l \in Keys, NEW b \in Briefings
                 PROVE  /\ matches'[l][b] \in {0, 1}
                        /\ matches'[l][b] = 1 => event'[l] # None /\ b \in wasLive'[event'[l].by]
                        /\ event'[l] # None => event'[l].count =
                             Cardinality({c \in Briefings : matches'[l][c] = 1})
      BY DEF MatchedOnceWhileLive
    <2>1. CASE l = k
      <3>1. /\ event'[l] = x /\ x.by = r /\ x.count = n
            /\ \A c \in Briefings : matches'[l][c] = IF c \in found[r] THEN 1 ELSE 0
        BY <1>7, <1>10, <2>1 DEF x
      <3>2. {c \in Briefings : matches'[l][c] = 1} = found[r]
        BY <1>4, <3>1
      <3> QED
        BY <1>1, <1>4, <1>6, <3>1, <3>2 DEF n
    <2>2. CASE l # k
      BY <1>1, <1>10, <2>2 DEF IngestInv, MatchedOnceWhileLive
    <2> QED
      BY <2>1, <2>2
  <1> QED
    BY <1>11, <1>12, <1>13, <1>14, <1>15, <1>16, <1>17 DEF IngestInv

-------------------------------------------------------------------------------
(* Handlers that end without an event, and the clock.                      *)

\* A handler gives up its transaction.
LEMMA GivesUp ==
  ASSUME IngestInv, NEW r \in Requests, NEW s \in {"answering", "lost"},
         stage[r] \in InTransaction \cup {"answering"},
         Become(r, s), ReleaseKey(r), Forget(r),
         UNCHANGED <<now, input, event, matches, briefing, wasLive>>
  PROVE  IngestInv'
  <1> USE DEF Become, Forget
  <1>1. \A q \in Requests : /\ stage'[q] = IF q = r THEN s ELSE stage[q]
                            /\ q # r => found'[q] = found[q]
    BY DEF IngestInv, Shape
  <1>2. \A k \in Keys : inserter'[k] = IF inserter[k] = r THEN None ELSE inserter[k]
    BY DEF ReleaseKey, Holds
  <1>3. Shape'
    <2>1. inserter' \in [Keys -> Requests \cup {None}]
      BY DEF ReleaseKey, IngestInv, Shape
    <2> QED
      BY <2>1 DEF IngestInv, Shape, Stages, InTransaction
  <1>4. Keyed'
    BY <1>1 DEF IngestInv, Keyed, InTransaction, Key, Kind
  <1>5. IndexHeld'
    BY <1>1, <1>2, ValueAssumption DEF IngestInv, IndexHeld, Holds, Key
  <1>6. RowsFirst'
    BY <1>1, <1>3 DEF IngestInv, Shape, RowsFirst, EventRow
  <1>7. LiveNoted'
    BY <1>1 DEF IngestInv, LiveNoted, InTransaction, Kind, LiveRow
  <1>8. FoundLive'
    BY <1>1 DEF IngestInv, FoundLive
  <1>9. MatchedOnceWhileLive'
    BY MatchesKept
  <1> QED
    BY <1>3, <1>4, <1>5, <1>6, <1>7, <1>8, <1>9 DEF IngestInv

\* A briefing changes, and what has become live is noted.
LEMMA BriefingChanges ==
  ASSUME IngestInv, NEW r \in Requests,
         stage[r] \in {"missed", "read"}, Become(r, "answering"),
         UNCHANGED <<now, input, event, inserter, matches>>,
         found' \in [Requests -> SUBSET Briefings],
         \A q \in Requests \ {r} : found'[q] = found[q],
         briefing' = [b \in Briefings |-> briefing'[b]],
         \A b \in Briefings : IsRow(briefing'[b]),
         \/ NoteLive
         \/ /\ wasLive' = wasLive
            /\ \A b \in Briefings : LiveRow(briefing'[b], now) => LiveRow(briefing[b], now)
  PROVE  IngestInv'
  <1> USE DEF Become
  <1>1. \A q \in Requests : stage'[q] = IF q = r THEN "answering" ELSE stage[q]
    BY DEF IngestInv, Shape
  <1>2. wasLive' \in [Requests -> SUBSET Briefings]
        /\ \A q \in Requests : wasLive[q] \subseteq wasLive'[q]
    BY DEF IngestInv, Shape, NoteLive
  <1>3. Shape'
    BY <1>2 DEF IngestInv, Shape, Stages, InTransaction, IsRow
  <1>4. Keyed'
    BY <1>1 DEF IngestInv, Keyed, InTransaction, Key, Kind
  <1>5. IndexHeld'
    BY <1>1 DEF IngestInv, IndexHeld, Holds, Key
  <1>6. RowsFirst'
    BY <1>1, <1>3 DEF IngestInv, Shape, RowsFirst, EventRow
  <1>7. LiveNoted'
    <2> SUFFICES ASSUME NEW q \in Requests, Kind(q) = "ingest", stage'[q] \in InTransaction,
                        NEW b \in Briefings, LiveRow(briefing'[b], now)
                 PROVE  b \in wasLive'[q]
      BY DEF LiveNoted, LiveRow, Kind
    <2>1. stage[q] \in InTransaction
      BY <1>1 DEF InTransaction
    <2>2. CASE NoteLive
      BY <2>1, <2>2 DEF NoteLive
    <2>3. CASE wasLive' = wasLive /\ LiveRow(briefing[b], now)
      BY <2>1, <2>3 DEF IngestInv, LiveNoted
    <2> QED
      BY <2>2, <2>3
  <1>8. FoundLive'
    BY <1>1, <1>2 DEF IngestInv, FoundLive
  <1>9. MatchedOnceWhileLive'
    BY <1>2, MatchesKept
  <1> QED
    BY <1>3, <1>4, <1>5, <1>6, <1>7, <1>8, <1>9 DEF IngestInv

\* An expiry is only ever passed.
LEMMA TickStep == IngestInv /\ Tick => IngestInv'
  <1> SUFFICES ASSUME IngestInv, Tick PROVE IngestInv'
    OBVIOUS
  <1> USE DEF Tick, requestVars, eventVars, briefingVars
  <1>1. Shape'
    BY DEF IngestInv, Shape
  <1>2. Keyed' /\ IndexHeld' /\ FoundLive'
    BY DEF IngestInv, Keyed, IndexHeld, FoundLive, Holds, Key, Kind
  <1>3. RowsFirst' /\ MatchedOnceWhileLive'
    BY DEF IngestInv, RowsFirst, MatchedOnceWhileLive
  <1>4. LiveNoted'
    <2>1. \A b \in Briefings : LiveRow(briefing[b], now + 1) => LiveRow(briefing[b], now)
      BY DEF IngestInv, Shape, IsRow, LiveRow
    <2>2. now' = now + 1 /\ UNCHANGED <<input, stage, briefing, wasLive>>
      OBVIOUS
    <2>3. \A b \in Briefings : LiveRow(briefing[b], now)' => LiveRow(briefing[b], now)
      BY <2>1, <2>2 DEF LiveRow
    <2> QED
      BY <2>2, <2>3 DEF IngestInv, LiveNoted, Kind
  <1> QED
    BY <1>1, <1>2, <1>3, <1>4 DEF IngestInv

-------------------------------------------------------------------------------
LEMMA NextIngestInv == IngestInv /\ [Next]_vars => IngestInv'
  <1> SUFFICES ASSUME IngestInv, [Next]_vars PROVE IngestInv'
    OBVIOUS
  <1>1. ASSUME NEW r \in Requests, Ingest(r) PROVE IngestInv'
    <2>1. CASE FindPrior(r)
      <3>1. CASE event[Key(r)] # None
        BY <2>1, <3>1, MovesOn DEF FindPrior, Respond, briefingVars
      <3>2. CASE event[Key(r)] = None
        BY <2>1, <3>2, MovesOn DEF FindPrior, eventVars, briefingVars
      <3> QED
        BY <3>1, <3>2
    <2>2. CASE DuplicateEvent(r)
      BY <2>2, MovesOn DEF DuplicateEvent, Respond, briefingVars
    <2> QED
      BY <1>1, <2>1, <2>2, InsertStep, MatchStep, CommitStep DEF Ingest
  <1>2. ASSUME NEW r \in Requests, Brief(r) PROVE IngestInv'
    <2>1. ASSUME NEW b \in Briefings, CreateBriefing(r, b) PROVE IngestInv'
      <3>1. briefing' = [c \in Briefings |-> briefing'[c]]
            /\ \A c \in Briefings : IsRow(briefing'[c])
        BY <2>1, InputAssumption DEF CreateBriefing, IngestInv, Shape, IsRow, Kind, Body
      <3> QED
        BY <2>1, <3>1, BriefingChanges
           DEF CreateBriefing, Respond, eventVars, IngestInv, Shape
    <2>2. CASE BriefingMissing(r)
      BY <2>2, MovesOn DEF BriefingMissing, Respond, briefingVars
    <2>3. CASE PatchBriefing(r)
      <3>1. briefing' = [c \in Briefings |-> briefing'[c]]
            /\ \A c \in Briefings : IsRow(briefing'[c])
        BY <2>3, RowPatched DEF PatchBriefing, IngestInv, Shape
      <3> QED
        BY <2>3, <3>1, BriefingChanges
           DEF PatchBriefing, Respond, eventVars, IngestInv, Shape
    <2>4. CASE ReadForRevoke(r)
      BY <2>4, MovesOn DEF ReadForRevoke
    <2>5. CASE RevokeBriefing(r)
      <3>1. /\ briefing' = [c \in Briefings |-> briefing'[c]]
            /\ \A c \in Briefings : briefing'[c] = briefing[c]
                 \/ briefing'[c] = [briefing[c] EXCEPT !.status = "revoked"]
        BY <2>5 DEF RevokeBriefing, IngestInv, Shape
      <3>2. \A c \in Briefings : /\ IsRow(briefing'[c])
                                 /\ LiveRow(briefing'[c], now) => LiveRow(briefing[c], now)
        BY <3>1, RowRevoked DEF IngestInv, Shape
      <3> QED
        BY <2>5, <3>1, <3>2, BriefingChanges
           DEF RevokeBriefing, Respond, Forget, IngestInv, Shape
    <2> QED
      BY <1>2, <2>1, <2>2, <2>3, <2>4, <2>5 DEF Brief
  <1>3. ASSUME NEW r \in Requests, FailHandler(r) \/ Crash(r) PROVE IngestInv'
    BY <1>3, GivesUp DEF FailHandler, Crash, Respond
  <1>4. ASSUME NEW r \in Requests, StoreAnswer(r) \/ StoreFails(r) PROVE IngestInv'
    <2>1. PICK s \in {"answering", "done"} : Become(r, s)
      BY <1>4 DEF StoreAnswer, StoreFails, Respond
    <2>2. stage[r] = "answering" /\ UNCHANGED <<now, input, eventVars, briefing, wasLive>>
      BY <1>4 DEF StoreAnswer, StoreFails, briefingVars
    <2> QED
      BY <2>1, <2>2, MovesOn
  <1>5. CASE UNCHANGED vars
    <2> USE <1>5 DEF vars, requestVars, eventVars, briefingVars, IngestInv
    <2>1. Shape'
      BY DEF Shape
    <2>2. Keyed' /\ IndexHeld' /\ FoundLive'
      BY DEF Keyed, IndexHeld, FoundLive, Holds, Key, Kind
    <2>3. RowsFirst' /\ MatchedOnceWhileLive'
      BY DEF RowsFirst, MatchedOnceWhileLive
    <2>4. LiveNoted'
      BY DEF LiveNoted, LiveRow, Kind
    <2> QED
      BY <2>1, <2>2, <2>3, <2>4
  <1> QED
    BY <1>1, <1>2, <1>3, <1>4, <1>5, LookupStep, TickStep DEF Next

\* Every event is matched once, with briefings that were live after its
\* request came in, for any requests, bodies, briefings and bounds.
THEOREM MatchingCorrect == Spec => []MatchedOnceWhileLive
  <1>1. IngestInv => MatchedOnceWhileLive
    BY DEF IngestInv
  <1> QED
    BY InitIngestInv, NextIngestInv, <1>1, PTL DEF Spec

-------------------------------------------------------------------------------
(* What callers were told.                                                 *)

\* What an answer says of a request with this scope and body is so.
Truthful(s, body, a) ==
  /\ a.code = 202 => s[3] \in Keys /\ event[s[3]] # None /\ event[s[3]].body = a.of
  /\ a.code = 201 =>
       LET q == briefing[a.of].madeBy
       IN a.of \in Briefings /\ q \in Requests /\ Scope(q) = s /\ Body(q) = body

IsSuccess(a) == a.code \in {200, 201, 202}

AnswersTyped ==
  /\ answer \in [Requests -> Answers]
  /\ record \in [Scopes -> RecordRow \cup {None}]
  /\ arrived \in [Requests -> Nat \cup {None}]
  /\ before \in [Requests -> SUBSET Requests]

\* A success is recorded before it is given, and only under a key.
Recorded ==
  /\ \A r \in Requests : stage[r] = "answering" => Key(r) \in Keys
  /\ \A s \in Scopes : record[s] # None => s[3] \in Keys
  /\ \A r \in Requests : stage[r] = "done" /\ IsSuccess(answer[r]) => record[Scope(r)] # None

\* Answers, given or stored, are true.
Told ==
  /\ \A r \in Requests : stage[r] \in {"answering", "done"} =>
       Truthful(Scope(r), Body(r), answer[r])
  /\ \A s \in Scopes : record[s] # None => Truthful(s, record[s].body, record[s].answer)

\* Requests under the same key that were answered before this one came.
Earlier ==
  \A r \in Requests :
    /\ stage[r] = "new" => before[r] = {}
    /\ \A q \in before[r] : stage[q] = "done" /\ Scope(q) = Scope(r)

\* A row nobody created has nobody who did.
Unmade == \A b \in Briefings : briefing[b].status = "absent" => briefing[b].madeBy = None

AnswerInv == AnswersTyped /\ Recorded /\ Told /\ Earlier /\ Unmade /\ RetriesAreReplayed

\* Trails are written in these words.
Entries == Statuses \cup {"edited"}

TrailInv ==
  /\ trail \in [Briefings -> Seq(Entries)]
  /\ seen = [r \in Requests |-> seen[r]]
  /\ \A r \in Requests : stage[r] = "read" => seen[r] # "absent"
  /\ StatusIsAudited

-------------------------------------------------------------------------------
LEMMA InitAnswerInv == Init => AnswerInv /\ TrailInv
  <1> SUFFICES ASSUME Init PROVE AnswerInv /\ TrailInv
    OBVIOUS
  <1> USE ValueAssumption
  <1>1. AnswersTyped
    BY DEF Init, AnswersTyped, Answers, NoAnswer, Answer
  <1>2. Recorded /\ Told /\ Earlier
    BY DEF Init, Recorded, Told, Earlier
  <1>3. \A b \in Briefings : briefing[b].status \in {"absent", "active"} /\ briefing[b].madeBy = None
    BY DEF Init, NoRow
  <1>4. Unmade
    BY <1>3 DEF Unmade
  <1>5. RetriesAreReplayed
    BY DEF Init, RetriesAreReplayed
  <1>6. TrailInv
    <2>1. trail = [b \in Briefings |-> IF briefing[b].status = "absent" THEN << >> ELSE <<"active">>]
      BY DEF Init
    <2>2. trail \in [Briefings -> Seq(Entries)]
      <3>1. << >> \in Seq(Entries)
        OBVIOUS
      <3>2. <<"active">> \in Seq(Entries)
        BY DEF Entries, Statuses, Patchable
      <3> QED
        BY <2>1, <3>1, <3>2
    <2>3. \A r \in Requests : stage[r] = "new"
      BY DEF Init
    <2>4. ASSUME NEW b \in Briefings
          PROVE  /\ briefing[b].status # "absent" =>
                      \E n \in DOMAIN trail[b] : NamesStatus(trail[b], n) /\ trail[b][n] = briefing[b].status
                 /\ \A m, n \in DOMAIN trail[b] : ~(m < n)
      <3>1. CASE briefing[b].status = "absent"
        BY <2>1, <3>1
      <3>2. CASE briefing[b].status = "active"
        <4>1. trail[b] = <<"active">>
          BY <2>1, <3>2
        <4>2. DOMAIN trail[b] = {1} /\ trail[b][1] = "active"
          BY <4>1
        <4> QED
          BY <3>2, <4>2 DEF NamesStatus
      <3> QED
        BY <1>3, <3>1, <3>2
    <2>5. seen = [r \in Requests |-> seen[r]]
      BY DEF Init
    <2> QED
      BY <2>2, <2>3, <2>4, <2>5 DEF TrailInv, StatusIsAudited
  <1> QED
    BY <1>1, <1>2, <1>4, <1>5, <1>6 DEF AnswerInv

\* Nothing that an answer may be about goes away: a row of events stays what it
\* is, and so does who created a briefing, and so does a record.
Lasting ==
  /\ input' = input
  /\ \A k \in Keys : event[k] # None => event'[k] = event[k]
  /\ \A b \in Briefings : briefing[b].madeBy # None => briefing'[b].madeBy = briefing[b].madeBy
  /\ \A s \in Scopes : record[s] # None => record'[s] = record[s]

\* Truthful after the step, of values before it.
TruthfulThen(s, body, a) ==
  /\ a.code = 202 => s[3] \in Keys /\ event'[s[3]] # None /\ event'[s[3]].body = a.of
  /\ a.code = 201 =>
       LET q == briefing'[a.of].madeBy
       IN a.of \in Briefings /\ q \in Requests /\ Scope(q) = s /\ Body(q) = body

LEMMA TruthLasts ==
  Lasting => \A s, body, a : Truthful(s, body, a) => TruthfulThen(s, body, a)
  <1> SUFFICES ASSUME Lasting, NEW s, NEW body, NEW a, Truthful(s, body, a)
               PROVE  TruthfulThen(s, body, a)
    OBVIOUS
  <1>1. \A q : Scope(q)' = Scope(q) /\ Body(q)' = Body(q)
    BY DEF Lasting, Scope, Body
  <1>2. a.code = 202 => s[3] \in Keys /\ event'[s[3]] # None /\ event'[s[3]].body = a.of
    BY DEF Truthful, Lasting
  <1>3. ASSUME a.code = 201
        PROVE  /\ a.of \in Briefings /\ briefing'[a.of].madeBy \in Requests
               /\ Scope(briefing'[a.of].madeBy) = s /\ Body(briefing'[a.of].madeBy) = body
    <2>1. /\ a.of \in Briefings /\ briefing[a.of].madeBy \in Requests
          /\ Scope(briefing[a.of].madeBy) = s /\ Body(briefing[a.of].madeBy) = body
      BY <1>3 DEF Truthful
    <2>2. briefing'[a.of].madeBy = briefing[a.of].madeBy
      BY <2>1, ValueAssumption DEF Lasting
    <2> QED
      BY <2>1, <2>2
  <1> QED
    BY <1>1, <1>2, <1>3 DEF TruthfulThen

\* Request r takes a step, and the others stay where they are.
Alone(r) ==
  \A q \in Requests \ {r} : /\ stage'[q] = stage[q] /\ answer'[q] = answer[q]
                            /\ arrived'[q] = arrived[q] /\ before'[q] = before[q]

\* It is enough to look at the request that takes a step, and at the record
\* its step adds.
LEMMA AnswerStep ==
  ASSUME IngestInv, AnswerInv, NEW r \in Requests, Alone(r), Lasting, AnswersTyped', Unmade',
         stage[r] # "done", stage'[r] # "new",
         stage'[r] = "answering" => Key(r) \in Keys,
         stage'[r] \in {"answering", "done"} => TruthfulThen(Scope(r), Body(r), answer'[r]),
         stage'[r] = "done" /\ IsSuccess(answer'[r]) => record'[Scope(r)] # None,
         \A s \in Scopes : record[s] = None /\ record'[s] # None =>
           s[3] \in Keys /\ TruthfulThen(s, record'[s].body, record'[s].answer),
         \A q \in before'[r] : q # r /\ stage[q] = "done" /\ Scope(q) = Scope(r),
         \A q \in before'[r] : IsSuccess(answer[q]) =>
           LET rec == record'[Scope(r)]
           IN arrived'[r] < rec.expires =>
                /\ stage'[r] = "done"
                /\ \/ Body(r) = rec.body /\ answer'[r] = rec.answer
                   \/ Body(r) # rec.body /\ answer'[r].code = 409
  PROVE  AnswerInv'
  <1>1. \A q : Scope(q)' = Scope(q) /\ Body(q)' = Body(q) /\ Key(q)' = Key(q)
    BY DEF Lasting, Scope, Body, Key
  <1>2. \A q \in Requests : Scope(q) \in Scopes
    BY DEF IngestInv, Shape, Scope, Scopes
  <1>3. Recorded'
    BY <1>1, <1>2 DEF AnswerInv, Recorded, Alone, Lasting
  <1>4. Told'
    <2>1. ASSUME NEW q \in Requests, stage'[q] \in {"answering", "done"}
          PROVE  TruthfulThen(Scope(q), Body(q), answer'[q])
      <3>1. CASE q = r
        BY <2>1, <3>1
      <3>2. CASE q # r
        BY <2>1, <3>2, TruthLasts DEF Alone, AnswerInv, Told
      <3> QED
        BY <3>1, <3>2
    <2>2. ASSUME NEW s \in Scopes, record'[s] # None
          PROVE  TruthfulThen(s, record'[s].body, record'[s].answer)
      <3>1. CASE record[s] = None
        BY <2>2, <3>1
      <3>2. CASE record[s] # None
        BY <2>2, <3>2, TruthLasts DEF Lasting, AnswerInv, Told
      <3> QED
        BY <3>1, <3>2
    <2> QED
      BY <1>1, <2>1, <2>2 DEF Told, Truthful, TruthfulThen
  <1>5. Earlier'
    BY <1>1 DEF AnswerInv, Earlier, Alone, AnswersTyped
  <1>6. RetriesAreReplayed'
    <2> SUFFICES ASSUME NEW p \in Requests, NEW q \in before'[p], IsSuccess(answer'[q])
                 PROVE  LET rec == record'[Scope(p)]
                        IN /\ rec # None
                           /\ arrived'[p] < rec.expires =>
                                /\ stage'[p] = "done"
                                /\ \/ Body(p) = rec.body /\ answer'[p] = rec.answer
                                   \/ Body(p) # rec.body /\ answer'[p].code = 409
      BY <1>1 DEF RetriesAreReplayed, IsSuccess
    <2>1. q \in Requests /\ q # r /\ stage[q] = "done" /\ Scope(q) = Scope(p)
          /\ answer'[q] = answer[q]
      BY DEF AnswersTyped, AnswerInv, Earlier, Alone
    <2>2. record[Scope(p)] # None /\ record'[Scope(p)] = record[Scope(p)]
      BY <1>2, <2>1 DEF AnswerInv, Recorded, Lasting
    <2>3. CASE p = r
      BY <2>1, <2>2, <2>3
    <2>4. CASE p # r
      <3>1. /\ stage'[p] = stage[p] /\ answer'[p] = answer[p]
            /\ arrived'[p] = arrived[p] /\ before'[p] = before[p]
        BY <2>4 DEF Alone
      <3> QED
        BY <2>1, <2>2, <3>1 DEF AnswerInv, RetriesAreReplayed, IsSuccess
    <2> QED
      BY <2>3, <2>4
  <1> QED
    BY <1>3, <1>4, <1>5, <1>6 DEF AnswerInv

\* A handler goes on, ends, or is lost; nothing is recorded.
LEMMA HandlerStep ==
  ASSUME IngestInv, AnswerInv, NEW r \in Requests,
         stage[r] \in InTransaction \cup {"answering"},
         NEW s \in InTransaction \cup {"answering", "done", "lost"}, Become(r, s),
         NEW a \in Answers, answer' = [answer EXCEPT ![r] = a],
         UNCHANGED <<arrived, before, record>>, Lasting, Unmade',
         s \in {"answering", "done"} => TruthfulThen(Scope(r), Body(r), a),
         s = "done" => ~IsSuccess(a)
  PROVE  AnswerInv'
  <1>1. Alone(r) /\ stage'[r] = s /\ answer'[r] = a
    BY DEF IngestInv, Shape, AnswerInv, AnswersTyped, Become, Alone
  <1>2. AnswersTyped'
    BY DEF AnswerInv, AnswersTyped
  <1>3. stage[r] \notin {"new", "done"} /\ s # "new"
    BY DEF InTransaction
  <1>4. Key(r) \in Keys
    BY DEF IngestInv, Keyed, AnswerInv, Recorded
  <1>5. \A q \in before'[r] : q # r /\ stage[q] = "done" /\ Scope(q) = Scope(r)
    BY <1>3 DEF AnswerInv, Earlier
  <1>6. ASSUME NEW q \in before'[r], IsSuccess(answer[q])
        PROVE  ~(arrived'[r] < record'[Scope(r)].expires)
    BY <1>3, <1>6 DEF AnswerInv, RetriesAreReplayed, IsSuccess
  <1> QED
    BY <1>1, <1>2, <1>3, <1>4, <1>5, <1>6, AnswerStep

\* A briefing that nobody created still has no creator, and a creator stays.
LEMMA BriefingsKept ==
  ASSUME AnswerInv, UNCHANGED <<input, event, record>>,
         \A b \in Briefings :
           \/ briefing'[b] = briefing[b]
           \/ briefing'[b].status # "absent" /\ briefing'[b].madeBy = briefing[b].madeBy
           \/ briefing'[b].status # "absent" /\ briefing[b].status = "absent"
  PROVE  Lasting /\ Unmade'
  BY DEF AnswerInv, Unmade, Lasting

LEMMA FailureSaysNothing ==
  /\ \A s, body : TruthfulThen(s, body, Failure) /\ TruthfulThen(s, body, NoAnswer)
  /\ ~IsSuccess(Failure) /\ ~IsSuccess(NoAnswer) /\ Failure \in Answers /\ NoAnswer \in Answers
  BY DEF TruthfulThen, Failure, NoAnswer, Answer, Answers, IsSuccess

LEMMA IngestAnswers ==
  ASSUME IngestInv, AnswerInv, NEW r \in Requests, Ingest(r)
  PROVE  AnswerInv'
  <1> USE DEF eventVars, briefingVars, Respond
  <1>1. answer[r] \in Answers /\ answer = [answer EXCEPT ![r] = answer[r]]
    BY DEF AnswerInv, AnswersTyped
  <1>2. stage[r] \in InTransaction => Key(r) \in Keys
    BY DEF IngestInv, Keyed
  <1>3. Scope(r)[3] = Key(r) /\ Scope(r)[1] = Kind(r)
    BY DEF Scope, ScopeOf, Key, Kind
  <1>4. input[r] \in Inputs
    BY DEF IngestInv, Shape
  <1>5. CASE FindPrior(r)
    <2>1. /\ stage[r] = "missed" /\ Kind(r) = "ingest"
          /\ UNCHANGED <<input, arrived, before, record, event, briefing>>
      BY <1>5 DEF FindPrior
    <2>2. Lasting /\ Unmade'
      BY <2>1, BriefingsKept
    <2>3. CASE event[Key(r)] # None
      <3>1. event[Key(r)] \in EventRow
        BY <1>2, <2>1, <2>3 DEF IngestInv, Shape, InTransaction
      <3>2. PICK a \in Answers : a = Answer(202, event[Key(r)].body)
        BY <3>1 DEF Answer, Answers, EventRow
      <3>3. /\ a.code = 202 /\ a.of = event[Key(r)].body
            /\ Become(r, "answering") /\ answer' = [answer EXCEPT ![r] = a]
        BY <1>5, <2>3, <3>2 DEF FindPrior, Answer
      <3>4. TruthfulThen(Scope(r), Body(r), a)
        BY <1>2, <1>3, <2>1, <2>3, <3>3 DEF TruthfulThen, InTransaction
      <3> QED
        <4>1. stage[r] \in InTransaction \cup {"answering"}
          BY <2>1 DEF InTransaction
        <4>2. UNCHANGED <<arrived, before, record>>
          BY <2>1
        <4> QED
          BY <2>2, <3>3, <3>4, <4>1, <4>2, HandlerStep
    <2>4. CASE event[Key(r)] = None
      <3>1. Become(r, "begun") /\ answer' = answer
        BY <1>5, <2>4 DEF FindPrior
      <3> QED
        BY <1>1, <2>1, <2>2, <3>1, HandlerStep DEF InTransaction
    <2> QED
      BY <2>3, <2>4
  <1>6. CASE InsertEvent(r) \/ MatchBriefings(r)
    <2>1. PICK s \in {"inserted", "matched"} : Become(r, s)
      BY <1>6 DEF InsertEvent, MatchBriefings
    <2>2. /\ stage[r] \in InTransaction
          /\ UNCHANGED <<input, answer, arrived, before, record, event, briefing>>
      BY <1>6 DEF InsertEvent, MatchBriefings, InTransaction
    <2>3. Lasting /\ Unmade'
      BY <2>2, BriefingsKept
    <2> QED
      BY <1>1, <2>1, <2>2, <2>3, HandlerStep DEF InTransaction
  <1>7. CASE DuplicateEvent(r)
    <2>1. /\ stage[r] \in InTransaction /\ Become(r, "answering")
          /\ answer' = [answer EXCEPT ![r] = Failure]
          /\ UNCHANGED <<input, arrived, before, record, event, briefing>>
      BY <1>7 DEF DuplicateEvent, InTransaction
    <2>2. Lasting /\ Unmade'
      BY <2>1, BriefingsKept
    <2> QED
      BY <2>1, <2>2, FailureSaysNothing, HandlerStep
  <1>8. CASE CommitEvent(r)
    <2> DEFINE k == Key(r)
               x == [body |-> Body(r), by |-> r, count |-> Cardinality(found[r])]
    <2>1. /\ stage[r] = "matched" /\ Become(r, "answering")
          /\ answer' = [answer EXCEPT ![r] = Answer(202, Body(r))]
          /\ event' = [event EXCEPT ![k] = x]
          /\ UNCHANGED <<input, arrived, before, record, briefing>>
      BY <1>8 DEF CommitEvent
    <2>2. k \in Keys /\ Kind(r) = "ingest" /\ Body(r) \in Bodies /\ event[k] = None
      BY <1>4, <2>1, InputAssumption, ValueAssumption
         DEF IngestInv, Keyed, IndexHeld, Holds, InTransaction, Kind, Body
    <2>3. IngestInv'
      BY <1>8, CommitStep
    <2>4. event'[k] = x /\ x.body = Body(r) /\ \A l \in Keys : l # k => event'[l] = event[l]
      BY <2>1, <2>2 DEF IngestInv, Shape
    <2>5. event'[k] # None
      <3>1. found[r] \subseteq Briefings
        BY DEF IngestInv, Shape
      <3>2. Cardinality(found[r]) \in Nat
        BY <3>1, MatchingAssumption, FS_Subset, FS_CardinalityType
      <3> QED
        BY <2>2, <2>4, <3>2, ValueAssumption DEF EventRow
    <2>6. PICK a \in Answers : a = Answer(202, Body(r))
      BY <2>2 DEF Answer, Answers
    <2> HIDE DEF k, x
    <2>7. Lasting /\ Unmade'
      BY <2>1, <2>2, <2>4 DEF Lasting, AnswerInv, Unmade
    <2>8. TruthfulThen(Scope(r), Body(r), a)
      BY <1>3, <2>2, <2>4, <2>5, <2>6 DEF TruthfulThen, Answer, k
    <2> QED
      <3>1. stage[r] \in InTransaction \cup {"answering"}
        BY <2>1 DEF InTransaction
      <3>2. /\ Become(r, "answering") /\ answer' = [answer EXCEPT ![r] = a]
            /\ UNCHANGED <<arrived, before, record>>
        BY <2>1, <2>6
      <3> QED
        BY <2>7, <2>8, <3>1, <3>2, HandlerStep
  <1> QED
    BY <1>5, <1>6, <1>7, <1>8 DEF Ingest

\* What the statements about a briefing do to its row.
LEMMA RowsChange ==
  ASSUME IngestInv, NEW r \in Requests, Brief(r)
  PROVE  \A b \in Briefings :
           \/ briefing'[b] = briefing[b]
           \/ /\ briefing[b].status = "absent" /\ CreateBriefing(r, b)
              /\ briefing'[b].status = "active" /\ briefing'[b].madeBy = r
           \/ /\ PatchBriefing(r) /\ ~IsNoop(Body(r)) /\ b = On(r)
              /\ briefing[b].status # "absent" /\ briefing'[b].madeBy = briefing[b].madeBy
              /\ briefing'[b].status = Set(Body(r).status, briefing[b].status)
           \/ /\ RevokeBriefing(r) /\ b = On(r)
              /\ briefing'[b].status = "revoked" /\ briefing'[b].madeBy = briefing[b].madeBy
  <1> TAKE b \in Briefings
  <1>1. briefing = [c \in Briefings |-> briefing[c]] /\ IsRow(briefing[b])
    BY DEF IngestInv, Shape
  <1>2. ASSUME NEW c \in Briefings, CreateBriefing(r, c)
        PROVE  briefing'[b] = briefing[b] \/
               /\ briefing[b].status = "absent" /\ CreateBriefing(r, b)
               /\ briefing'[b].status = "active" /\ briefing'[b].madeBy = r
    <2>1. /\ briefing[c].status = "absent"
          /\ briefing' = [briefing EXCEPT ![c] =
               [status |-> "active", intent |-> Body(r).intent,
                expiresAt |-> Body(r).expiresAt, madeBy |-> r]]
      BY <1>2 DEF CreateBriefing
    <2>2. CASE b = c
      BY <1>1, <1>2, <2>1, <2>2
    <2>3. CASE b # c
      BY <1>1, <2>1, <2>3
    <2> QED
      BY <2>2, <2>3
  <1>3. CASE PatchBriefing(r)
    <2>1. CASE IsNoop(Body(r)) \/ b # On(r)
      BY <1>1, <1>3, <2>1 DEF PatchBriefing
    <2>2. CASE ~IsNoop(Body(r)) /\ b = On(r)
      <3>1. briefing[b].status # "absent" /\ briefing'[b] = PatchedRow(briefing[b], Body(r))
        BY <1>1, <1>3, <2>2 DEF PatchBriefing
      <3>2. PatchedRow(briefing[b], Body(r)) =
              [status |-> Set(Body(r).status, briefing[b].status),
               intent |-> Set(Body(r).intent, briefing[b].intent),
               expiresAt |-> Set(Body(r).expiresAt, briefing[b].expiresAt),
               madeBy |-> briefing[b].madeBy]
        BY <1>1, PatchedFields
      <3> QED
        BY <1>3, <2>2, <3>1, <3>2
    <2> QED
      BY <2>1, <2>2
  <1>4. CASE RevokeBriefing(r)
    <2>1. briefing' = [briefing EXCEPT ![On(r)].status = "revoked"]
      BY <1>4 DEF RevokeBriefing
    <2>2. CASE b = On(r)
      <3>1. briefing'[b] = [briefing[b] EXCEPT !.status = "revoked"]
        BY <1>1, <2>1, <2>2
      <3>2. briefing'[b].status = "revoked" /\ briefing'[b].madeBy = briefing[b].madeBy
        BY <1>1, <3>1 DEF IsRow
      <3> QED
        BY <1>4, <2>2, <3>2
    <2>3. CASE b # On(r)
      BY <1>1, <2>1, <2>3
    <2> QED
      BY <2>2, <2>3
  <1>5. CASE BriefingMissing(r) \/ ReadForRevoke(r)
    BY <1>5 DEF BriefingMissing, ReadForRevoke, briefingVars
  <1> QED
    BY <1>2, <1>3, <1>4, <1>5 DEF Brief

LEMMA BriefAnswers ==
  ASSUME IngestInv, AnswerInv, NEW r \in Requests, Brief(r)
  PROVE  AnswerInv'
  <1>1. answer[r] \in Answers /\ answer = [answer EXCEPT ![r] = answer[r]]
    BY DEF AnswerInv, AnswersTyped
  <1>2. UNCHANGED <<input, event, record>>
    BY DEF Brief, CreateBriefing, BriefingMissing, PatchBriefing, ReadForRevoke,
           RevokeBriefing, eventVars
  <1>3. \A b \in Briefings : Set(Body(r).status, briefing[b].status) = "absent"
          => ~PatchBriefing(r) \/ briefing[b].status = "absent"
    BY InputAssumption DEF IngestInv, Shape, Set, Body, PatchBriefing, Kind, Patchable
  <1>4. Lasting /\ Unmade'
    BY <1>2, <1>3, RowsChange, BriefingsKept
  <1>5. UNCHANGED <<arrived, before, record>> /\ stage[r] \in InTransaction \cup {"answering"}
    BY DEF Brief, CreateBriefing, BriefingMissing, PatchBriefing, ReadForRevoke,
           RevokeBriefing, InTransaction
  <1>6. ASSUME NEW b \in Briefings, CreateBriefing(r, b) PROVE AnswerInv'
    <2>1. PICK a \in Answers : a = Answer(201, b)
      BY DEF Answer, Answers
    <2>2. Become(r, "answering") /\ answer' = [answer EXCEPT ![r] = a]
      BY <1>6, <2>1 DEF CreateBriefing, Respond
    <2>3. briefing'[b].madeBy = r
      BY <1>6 DEF CreateBriefing, IngestInv, Shape
    <2>4. TruthfulThen(Scope(r), Body(r), a)
      BY <2>1, <2>3 DEF TruthfulThen, Answer
    <2> QED
      BY <1>4, <1>5, <2>2, <2>4, HandlerStep
  <1>7. CASE PatchBriefing(r) \/ RevokeBriefing(r) \/ BriefingMissing(r)
    <2>1. On(r) \in Briefings \/ ~PatchBriefing(r)
      BY InputAssumption DEF IngestInv, Shape, On, PatchBriefing, Kind
    <2>2. PICK a \in Answers : /\ Respond(r, a)
                               /\ a.code \notin {201, 202}
      BY <1>7, <2>1 DEF PatchBriefing, RevokeBriefing, BriefingMissing, Answer, Answers
    <2>3. Become(r, "answering") /\ answer' = [answer EXCEPT ![r] = a]
      BY <2>2 DEF Respond
    <2>4. TruthfulThen(Scope(r), Body(r), a)
      BY <2>2 DEF TruthfulThen
    <2> QED
      BY <1>4, <1>5, <2>3, <2>4, HandlerStep
  <1>8. CASE ReadForRevoke(r)
    <2>1. PICK a \in Answers : answer' = [answer EXCEPT ![r] = a]
      BY <1>1, <1>8 DEF ReadForRevoke
    <2>2. PICK t \in InTransaction : Become(r, t) /\ t \notin {"answering", "done"}
      BY <1>8 DEF ReadForRevoke, InTransaction
    <2> QED
      BY <1>4, <1>5, <2>1, <2>2, HandlerStep
  <1> QED
    BY <1>6, <1>7, <1>8 DEF Brief

LEMMA EndAnswers ==
  ASSUME IngestInv, AnswerInv, NEW r \in Requests,
         FailHandler(r) \/ Crash(r) \/ StoreFails(r)
  PROVE  AnswerInv'
  <1>1. /\ UNCHANGED <<input, event, record, briefing, arrived, before>>
        /\ stage[r] \in InTransaction \cup {"answering"}
    BY DEF FailHandler, Crash, StoreFails, eventVars, briefingVars
  <1>2. Lasting /\ Unmade'
    BY <1>1, BriefingsKept
  <1>3. CASE FailHandler(r) \/ (StoreFails(r) /\ answer[r] # Failure)
    <2>1. Become(r, "answering") /\ answer' = [answer EXCEPT ![r] = Failure]
      BY <1>3 DEF FailHandler, StoreFails, Respond
    <2> QED
      BY <1>1, <1>2, <2>1, FailureSaysNothing, HandlerStep
  <1>4. CASE Crash(r)
    <2>1. Become(r, "lost") /\ answer' = [answer EXCEPT ![r] = NoAnswer]
      BY <1>4 DEF Crash
    <2> QED
      BY <1>1, <1>2, <2>1, FailureSaysNothing, HandlerStep
  <1>5. CASE StoreFails(r) /\ answer[r] = Failure
    <2>1. Become(r, "done") /\ answer' = [answer EXCEPT ![r] = Failure]
      BY <1>5 DEF StoreFails, AnswerInv, AnswersTyped
    <2> QED
      BY <1>1, <1>2, <2>1, FailureSaysNothing, HandlerStep
  <1> QED
    BY <1>3, <1>4, <1>5

\* The first answer of a key is the one that stays.
LEMMA StoreAnswers ==
  ASSUME IngestInv, AnswerInv, NEW r \in Requests, StoreAnswer(r)
  PROVE  AnswerInv'
  <1> DEFINE s == Scope(r)
             new == [body |-> Body(r), answer |-> answer[r], expires |-> now + TTL]
  <1>1. /\ stage[r] = "answering" /\ stage' = [stage EXCEPT ![r] = "done"]
        /\ record' = [record EXCEPT ![s] = Stored(@, new)]
        /\ UNCHANGED <<input, event, briefing, answer, arrived, before>>
    BY DEF StoreAnswer, Become, eventVars, briefingVars
  <1>2. s \in Scopes /\ s[3] = Key(r) /\ Key(r) \in Keys
    BY <1>1 DEF IngestInv, Shape, Scope, Scopes, ScopeOf, Key, AnswerInv, Recorded
  <1>3. new \in RecordRow /\ new # None
    BY TimeAssumption, ValueAssumption
       DEF RecordRow, IngestInv, Shape, Body, AnswerInv, AnswersTyped
  <1>4. new.body = Body(r) /\ new.answer = answer[r]
    OBVIOUS
  <1> HIDE DEF s, new
  <1>5. \A t \in Scopes : record'[t] = IF t = s /\ record[s] = None THEN new ELSE record[t]
    BY <1>1, <1>2 DEF AnswerInv, AnswersTyped, Stored
  <1>6. AnswersTyped'
    <2>1. Stored(record[s], new) \in RecordRow \cup {None}
      BY <1>2, <1>3 DEF Stored, AnswerInv, AnswersTyped
    <2> QED
      BY <1>1, <2>1 DEF AnswerInv, AnswersTyped
  <1>7. Lasting /\ Unmade'
    BY <1>1, <1>5 DEF Lasting, AnswerInv, Unmade
  <1>8. Alone(r) /\ stage'[r] = "done"
    BY <1>1 DEF Alone, IngestInv, Shape
  <1>9. Truthful(s, Body(r), answer[r])
    BY <1>1 DEF AnswerInv, Told, s
  <1>10. TruthfulThen(s, Body(r), answer'[r])
    BY <1>1, <1>7, <1>9, TruthLasts
  <1>11. \A t \in Scopes : record[t] = None /\ record'[t] # None =>
           t[3] \in Keys /\ TruthfulThen(t, record'[t].body, record'[t].answer)
    BY <1>1, <1>2, <1>4, <1>5, <1>10
  <1>12. \A q \in before'[r] : q # r /\ stage[q] = "done" /\ s = Scope(q)
    BY <1>1 DEF AnswerInv, Earlier, s
  <1>13. ASSUME NEW q \in before'[r], IsSuccess(answer[q])
         PROVE  ~(arrived'[r] < record'[s].expires)
    <2>1. record[s] # None /\ ~(arrived[r] < record[s].expires)
      BY <1>1, <1>13 DEF AnswerInv, RetriesAreReplayed, IsSuccess, s
    <2> QED
      BY <1>1, <1>2, <1>5, <2>1
  <1>14. record'[s] # None
    BY <1>2, <1>3, <1>5
  <1> QED
    BY <1>1, <1>6, <1>7, <1>8, <1>10, <1>11, <1>12, <1>13, <1>14, AnswerStep DEF s

\* A request that comes in finds what its predecessors left.
LEMMA LookupAnswers ==
  ASSUME IngestInv, AnswerInv, NEW r \in Requests, Lookup(r)
  PROVE  AnswerInv'
  <1> DEFINE s == Scope(r)
             rec == record[s]
  <1>1. /\ stage[r] = "new"
        /\ arrived' = [arrived EXCEPT ![r] = now]
        /\ before' = [before EXCEPT ![r] =
             {q \in Requests : stage[q] = "done" /\ Scope(q) = s}]
        /\ UNCHANGED <<input, event, briefing, record>>
    BY DEF Lookup, NoteArrival, eventVars, briefingVars
  <1>2. PICK st \in {"missed", "done"}, a \in Answers :
          /\ stage' = [stage EXCEPT ![r] = st] /\ answer' = [answer EXCEPT ![r] = a]
          /\ \/ Key(r) = None /\ st = "done" /\ a.code = 400
             \/ ~Unexpired(rec) /\ st = "missed"
             \/ Unexpired(rec) /\ rec.body # Body(r) /\ st = "done" /\ a.code = 409
             \/ Unexpired(rec) /\ rec.body = Body(r) /\ st = "done" /\ a = rec.answer
    <2>1. s \in Scopes /\ (Unexpired(rec) => rec \in RecordRow)
      BY DEF IngestInv, Shape, Scope, Scopes, AnswerInv, AnswersTyped, Unexpired
    <2>2. CASE Key(r) = None /\ answer' = [answer EXCEPT ![r] = Answer(400, None)]
               /\ Become(r, "done")
      <3>1. PICK a \in Answers : a = Answer(400, None)
        <4>1. Answer(400, None) \in Answers
          BY DEF Answer, Answers
        <4> QED
          BY <4>1
      <3> QED
        BY <2>2, <3>1 DEF Answer, Become
    <2>3. CASE ~Unexpired(rec) /\ Become(r, "missed") /\ answer' = answer
      <3>1. PICK a \in Answers : answer' = [answer EXCEPT ![r] = a]
        BY <2>3 DEF AnswerInv, AnswersTyped
      <3> QED
        BY <2>3, <3>1 DEF Become
    <2>4. CASE Unexpired(rec) /\ ~SameBody(r, rec) /\ Become(r, "done")
               /\ answer' = [answer EXCEPT ![r] = Answer(409, None)]
      <3>1. PICK a \in Answers : a = Answer(409, None)
        <4>1. Answer(409, None) \in Answers
          BY DEF Answer, Answers
        <4> QED
          BY <4>1
      <3> QED
        BY <2>4, <3>1 DEF Answer, Become, SameBody
    <2>5. CASE Unexpired(rec) /\ SameBody(r, rec) /\ Become(r, "done")
               /\ answer' = [answer EXCEPT ![r] = rec.answer]
      <3>1. PICK a \in Answers : a = rec.answer
        BY <2>1, <2>5 DEF RecordRow
      <3> QED
        BY <2>5, <3>1 DEF Become, SameBody
    <2> QED
      BY <2>2, <2>3, <2>4, <2>5 DEF Lookup
  <1>3. Lasting /\ Unmade'
    BY <1>1, BriefingsKept
  <1>4. stage'[r] = st /\ answer'[r] = a /\ arrived'[r] = now
        /\ before'[r] = {q \in Requests : stage[q] = "done" /\ Scope(q) = s}
    BY <1>1, <1>2 DEF IngestInv, Shape, AnswerInv, AnswersTyped
  <1>5. Alone(r)
    BY <1>1, <1>2 DEF Alone, IngestInv, Shape, AnswerInv, AnswersTyped
  <1>6. AnswersTyped'
    <2>1. now \in Nat
      BY DEF IngestInv, Shape
    <2> QED
      BY <1>1, <1>2, <2>1 DEF AnswerInv, AnswersTyped
  <1>7. s \in Scopes /\ s[3] = Key(r)
    BY DEF IngestInv, Shape, Scope, Scopes, ScopeOf, Key
  <1> HIDE DEF s, rec
  <1>8. st = "done" => TruthfulThen(s, Body(r), a)
    <2>1. CASE Unexpired(rec) /\ rec.body = Body(r) /\ a = rec.answer
      <3>1. Truthful(s, Body(r), a)
        BY <1>7, <2>1 DEF rec, Unexpired, AnswerInv, Told
      <3> QED
        BY <1>3, <3>1, TruthLasts
    <2>2. CASE a.code \in {400, 409}
      BY <2>2 DEF TruthfulThen
    <2> QED
      BY <1>2, <2>1, <2>2
  <1>9. st = "done" /\ IsSuccess(a) => record'[s] # None
    BY <1>1, <1>2 DEF rec, Unexpired, IsSuccess
  <1>10. \A q \in before'[r] : q # r /\ stage[q] = "done" /\ Scope(q) = s
    BY <1>1, <1>4
  <1>11. ASSUME NEW q \in before'[r], IsSuccess(answer[q]), now < record'[s].expires
         PROVE  st = "done" /\ \/ Body(r) = record'[s].body /\ a = record'[s].answer
                               \/ Body(r) # record'[s].body /\ a.code = 409
    <2>1. rec # None
      BY <1>4, <1>10, <1>11 DEF AnswerInv, Recorded, rec
    <2>2. Unexpired(rec)
      <3>1. rec \in RecordRow /\ now \in Nat
        BY <1>7, <2>1 DEF AnswerInv, AnswersTyped, rec, IngestInv, Shape
      <3>2. rec.expires \in Nat
        BY <3>1 DEF RecordRow
      <3> QED
        BY <1>1, <1>11, <2>1, <3>1, <3>2 DEF Unexpired, rec
    <2>3. Key(r) # None
      BY <1>7, <2>1, ValueAssumption DEF AnswerInv, Recorded, rec
    <2> QED
      BY <1>1, <1>2, <2>2, <2>3 DEF rec
  <1>12. st \in {"missed", "done"}
    OBVIOUS
  <1>13. stage[r] # "done" /\ stage'[r] \notin {"new", "answering"}
    BY <1>1, <1>4, <1>12
  <1>14. \A t \in Scopes : record'[t] = record[t]
    BY <1>1
  <1> QED
    BY <1>3, <1>4, <1>5, <1>6, <1>8, <1>9, <1>10, <1>11, <1>13, <1>14, AnswerStep DEF s

LEMMA NextAnswerInv == IngestInv /\ AnswerInv /\ [Next]_vars => AnswerInv'
  <1> SUFFICES ASSUME IngestInv, AnswerInv, [Next]_vars PROVE AnswerInv'
    OBVIOUS
  <1>1. CASE Tick \/ UNCHANGED vars
    <2>1. UNCHANGED <<requestVars, record, event, briefing>>
      BY <1>1 DEF Tick, vars, eventVars, briefingVars
    <2> USE <2>1 DEF requestVars
    <2>2. AnswersTyped' /\ Earlier' /\ Unmade'
      BY DEF AnswerInv, AnswersTyped, Earlier, Unmade, Scope
    <2>3. Recorded'
      BY DEF AnswerInv, Recorded, Scope, Key
    <2>4. Told'
      BY DEF AnswerInv, Told, Truthful, Scope, Body
    <2>5. RetriesAreReplayed'
      BY DEF AnswerInv, RetriesAreReplayed, Scope, Body
    <2> QED
      BY <2>2, <2>3, <2>4, <2>5 DEF AnswerInv
  <1> QED
    BY <1>1, LookupAnswers, IngestAnswers, BriefAnswers, EndAnswers, StoreAnswers DEF Next

-------------------------------------------------------------------------------
(* The audit trail.                                                        *)

\* No two revocations without another status between them.
RevokedOnce(es) ==
  \A m, n \in DOMAIN es :
    m < n /\ es[m] = "revoked" /\ es[n] = "revoked" =>
      \E k \in DOMAIN es : m < k /\ k < n /\ es[k] \in Patchable

\* The last entry that is not about an edit names this status.
Shows(es, status) == \E n \in DOMAIN es : NamesStatus(es, n) /\ es[n] = status

LEMMA TrailGrows ==
  ASSUME NEW es \in Seq(Entries), NEW e \in Entries,
         NEW fs, fs = Append(es, e), RevokedOnce(es)
  PROVE  /\ fs \in Seq(Entries)
         /\ e # "edited" => Shows(fs, e)
         /\ e = "edited" => \A status : Shows(es, status) => Shows(fs, status)
         /\ (e = "revoked" => \E status : Shows(es, status) /\ status # "revoked") =>
              RevokedOnce(fs)
  <1> DEFINE l == Len(es) + 1
  <1>1. /\ l \in Nat /\ DOMAIN es = 1 .. l - 1 /\ DOMAIN fs = 1 .. l
        /\ fs[l] = e /\ \A n \in DOMAIN es : fs[n] = es[n] /\ es[n] \in Entries
        /\ fs \in Seq(Entries)
    OBVIOUS
  <1> HIDE DEF l
  <1>2. e # "edited" => Shows(fs, e)
    <2>1. e # "edited" => NamesStatus(fs, l)
      BY <1>1 DEF NamesStatus
    <2> QED
      BY <1>1, <2>1 DEF Shows
  <1>3. ASSUME e = "edited", NEW status, Shows(es, status)
        PROVE  Shows(fs, status)
    <2>1. PICK n \in DOMAIN es : NamesStatus(es, n) /\ es[n] = status
      BY <1>3 DEF Shows
    <2>2. n \in DOMAIN fs /\ NamesStatus(fs, n) /\ fs[n] = status
      BY <1>1, <1>3, <2>1 DEF NamesStatus
    <2> QED
      BY <2>2 DEF Shows
  <1>4. ASSUME e = "revoked" => \E status : Shows(es, status) /\ status # "revoked",
               NEW m \in DOMAIN fs, NEW n \in DOMAIN fs, m < n,
               fs[m] = "revoked", fs[n] = "revoked"
        PROVE  \E k \in DOMAIN fs : m < k /\ k < n /\ fs[k] \in Patchable
    <2>1. m \in DOMAIN es
      BY <1>1, <1>4
    <2>2. CASE n \in DOMAIN es
      <3>1. PICK k \in DOMAIN es : m < k /\ k < n /\ es[k] \in Patchable
        BY <1>1, <1>4, <2>1, <2>2 DEF RevokedOnce
      <3> QED
        BY <1>1, <3>1
    <2>3. CASE n = l
      <3>1. PICK k \in DOMAIN es : NamesStatus(es, k) /\ es[k] # "revoked"
        BY <1>1, <1>4, <2>3 DEF Shows
      <3>2. es[k] \in Patchable
        BY <1>1, <3>1 DEF NamesStatus, Entries, Statuses
      <3>3. m < k
        BY <1>1, <1>4, <2>1, <3>1 DEF NamesStatus
      <3> QED
        BY <1>1, <2>3, <3>2, <3>3
    <2> QED
      BY <1>1, <2>2, <2>3
  <1> QED
    BY <1>1, <1>2, <1>3, <1>4 DEF RevokedOnce

\* What StatusIsAudited says of one briefing.
Audited(status, es) ==
  /\ status # "absent" => Shows(es, status)
  /\ RevokedOnce(es)

LEMMA AuditedEach == StatusIsAudited <=>
    \A b \in Briefings \ raced : Audited(briefing[b].status, trail[b])
  BY DEF StatusIsAudited, Audited, Shows, RevokedOnce

\* An update of one briefing, with its entry if it has one.
LEMMA BriefTrail ==
  ASSUME IngestInv, TrailInv, NEW r \in Requests, Brief(r)
  PROVE  /\ trail' \in [Briefings -> Seq(Entries)]
         /\ \A b \in Briefings \ raced' : Audited(briefing'[b].status, trail'[b])
  <1>1. trail \in [Briefings -> Seq(Entries)] /\ raced \subseteq raced'
    BY DEF TrailInv, Brief, CreateBriefing, BriefingMissing, PatchBriefing,
           ReadForRevoke, RevokeBriefing, briefingVars
  <1>2. \A b \in Briefings \ raced' : Audited(briefing[b].status, trail[b])
    BY <1>1, AuditedEach DEF TrailInv
  <1>3. ASSUME NEW b \in Briefings, NEW e \in Entries, trail' = [trail EXCEPT ![b] = Append(@, e)],
               \A c \in Briefings \ {b} : briefing'[c] = briefing[c],
               b \notin raced' =>
                 \/ e # "edited" /\ briefing'[b].status = e
                    /\ (e = "revoked" => briefing[b].status \notin {"absent", "revoked"})
                 \/ e = "edited" /\ briefing'[b].status = briefing[b].status
                    /\ briefing[b].status # "absent"
        PROVE  /\ trail' \in [Briefings -> Seq(Entries)]
               /\ \A c \in Briefings \ raced' : Audited(briefing'[c].status, trail'[c])
    <2>0. PICK es, fs : es = trail[b] /\ fs = Append(es, e)
      OBVIOUS
    <2>1. \A c \in Briefings : trail'[c] = IF c = b THEN fs ELSE trail[c]
      BY <1>1, <1>3, <2>0
    <2>2. fs \in Seq(Entries)
      BY <1>1, <2>0
    <2>3. trail' \in [Briefings -> Seq(Entries)]
      BY <1>1, <1>3, <2>0, <2>2
    <2>4. ASSUME b \notin raced' PROVE Audited(briefing'[b].status, fs)
      <3>1. Audited(briefing[b].status, es)
        BY <1>2, <2>0, <2>4
      <3>2. es \in Seq(Entries)
        BY <1>1, <2>0
      <3>3. RevokedOnce(es)
        BY <3>1 DEF Audited
      <3>4. CASE e # "edited" /\ briefing'[b].status = e
                 /\ (e = "revoked" => briefing[b].status \notin {"absent", "revoked"})
        <4>1. e = "revoked" => Shows(es, briefing[b].status) /\ briefing[b].status # "revoked"
          BY <3>1, <3>4 DEF Audited
        <4>2. fs = Append(es, e) /\ e # "edited"
          BY <2>0, <3>4
        <4>3. Shows(fs, e) /\ RevokedOnce(fs)
          BY <3>2, <3>3, <4>1, <4>2, TrailGrows
        <4> QED
          BY <3>4, <4>3 DEF Audited
      <3>5. CASE e = "edited" /\ briefing'[b].status = briefing[b].status
                 /\ briefing[b].status # "absent"
        <4>1. fs = Append(es, e) /\ e = "edited" /\ e # "revoked"
          BY <2>0, <3>5
        <4>2. Shows(es, briefing[b].status)
          BY <3>1, <3>5 DEF Audited
        <4>3. Shows(fs, briefing[b].status) /\ RevokedOnce(fs)
          BY <3>2, <3>3, <4>1, <4>2, TrailGrows
        <4> QED
          BY <3>5, <4>3 DEF Audited
      <3> QED
        BY <1>3, <2>4, <3>4, <3>5
    <2> QED
      BY <1>2, <1>3, <2>1, <2>3, <2>4
  <1>4. ASSUME NEW b \in Briefings, CreateBriefing(r, b)
        PROVE  \A c \in Briefings \ {b} : briefing'[c] = briefing[c]
    BY <1>4 DEF CreateBriefing, IngestInv, Shape
  <1>5. ASSUME NEW b \in Briefings, CreateBriefing(r, b)
        PROVE  /\ trail' \in [Briefings -> Seq(Entries)]
               /\ \A c \in Briefings \ raced' : Audited(briefing'[c].status, trail'[c])
    <2>1. trail' = [trail EXCEPT ![b] = Append(@, "active")] /\ "active" \in Entries
      BY <1>5 DEF CreateBriefing, Entries, Statuses, Patchable
    <2>2. briefing'[b].status = "active"
      BY <1>5 DEF CreateBriefing, IngestInv, Shape
    <2> QED
      BY <1>3, <1>4, <1>5, <2>1, <2>2
  <1>6. CASE PatchBriefing(r)
    <2> DEFINE b == On(r)
    <2>1. b \in Briefings /\ Body(r).status \in Patchable \cup {None}
          /\ briefing[b].status # "absent"
      BY <1>6, InputAssumption DEF IngestInv, Shape, PatchBriefing, Kind, On, Body
    <2>2. \A c \in Briefings \ {b} : briefing'[c] = briefing[c]
      BY <1>6 DEF PatchBriefing, IngestInv, Shape
    <2>3. CASE IsNoop(Body(r))
      <3>1. UNCHANGED <<briefing, trail>>
        BY <1>6, <2>3 DEF PatchBriefing
      <3> QED
        BY <1>1, <1>2, <3>1
    <2>4. CASE ~IsNoop(Body(r))
      <3>1. PICK e \in Entries : e = PatchEntry(Body(r))
        BY <2>1 DEF PatchEntry, Entries, Statuses
      <3>2. trail' = [trail EXCEPT ![b] = Append(@, e)]
        BY <1>6, <2>4, <3>1 DEF PatchBriefing
      <3>3. briefing'[b].status = Set(Body(r).status, briefing[b].status)
        <4>1. briefing'[b] = PatchedRow(briefing[b], Body(r)) /\ IsRow(briefing[b])
          BY <1>6, <2>1, <2>4 DEF PatchBriefing, IngestInv, Shape
        <4> QED
          BY <4>1, PatchedFields
      <3>4. \/ e \in Patchable /\ briefing'[b].status = e
            \/ e = "edited" /\ briefing'[b].status = briefing[b].status
        BY <2>1, <3>1, <3>3 DEF PatchEntry, Set
      <3> HIDE DEF b
      <3>5. \/ e # "edited" /\ e # "revoked" /\ briefing'[b].status = e
            \/ e = "edited" /\ briefing'[b].status = briefing[b].status
        BY <3>4 DEF Patchable
      <3> QED
        BY <1>3, <2>1, <2>2, <3>2, <3>5
    <2> QED
      BY <2>3, <2>4
  <1>7. CASE RevokeBriefing(r)
    <2> DEFINE b == On(r)
    <2>1. /\ briefing' = [briefing EXCEPT ![b].status = "revoked"]
          /\ trail' = IF IsTransition(seen[r])
                      THEN [trail EXCEPT ![b] = Append(@, "revoked")] ELSE trail
          /\ raced' = IF briefing[b].status = seen[r] THEN raced ELSE raced \cup {b}
          /\ seen[r] # "absent"
      BY <1>7 DEF RevokeBriefing, TrailInv
    <2> HIDE DEF b
    <2>2. \A c \in Briefings \ {b} : briefing'[c] = briefing[c]
      BY <2>1 DEF IngestInv, Shape
    <2>3. b \in Briefings => briefing'[b].status = "revoked"
      <3>1. b \in Briefings => briefing'[b] = [briefing[b] EXCEPT !.status = "revoked"]
        BY <2>1 DEF IngestInv, Shape
      <3> QED
        BY <3>1 DEF IngestInv, Shape, IsRow
    <2>4. CASE b \in Briefings /\ IsTransition(seen[r])
      <3>1. "revoked" \in Entries
        BY DEF Entries, Statuses
      <3>2. trail' = [trail EXCEPT ![b] = Append(@, "revoked")]
        BY <2>1, <2>4
      <3>3. b \notin raced' => briefing[b].status \notin {"absent", "revoked"}
        BY <2>1, <2>4 DEF IsTransition
      <3>4. "revoked" # "edited"
        OBVIOUS
      <3> QED
        BY <1>3, <2>2, <2>3, <2>4, <3>1, <3>2, <3>3, <3>4
    <2>5. CASE b \in Briefings /\ ~IsTransition(seen[r])
      <3>1. trail' = trail /\ seen[r] = "revoked"
        BY <2>1, <2>5 DEF IsTransition
      <3>2. b \notin raced' => briefing'[b].status = briefing[b].status
        BY <2>1, <2>3, <2>5, <3>1
      <3> QED
        BY <1>1, <1>2, <2>2, <3>1, <3>2
    <2>6. CASE b \notin Briefings
      <3>1. trail' = trail
        BY <1>1, <2>1, <2>6
      <3> QED
        BY <1>1, <1>2, <2>2, <2>6, <3>1
    <2> QED
      BY <2>4, <2>5, <2>6
  <1>8. CASE BriefingMissing(r) \/ ReadForRevoke(r)
    BY <1>1, <1>2, <1>8 DEF BriefingMissing, ReadForRevoke, briefingVars
  <1> QED
    BY <1>5, <1>6, <1>7, <1>8 DEF Brief

LEMMA NextTrailInv == IngestInv /\ TrailInv /\ [Next]_vars => TrailInv'
  <1> SUFFICES ASSUME IngestInv, TrailInv, [Next]_vars PROVE TrailInv'
    OBVIOUS
  <1>1. ASSUME UNCHANGED <<briefing, trail, raced>>
        PROVE  trail' \in [Briefings -> Seq(Entries)] /\ StatusIsAudited'
    BY <1>1 DEF TrailInv, StatusIsAudited
  <1>2. ASSUME NEW r \in Requests, NEW s, Become(r, s), s # "read", Forget(r) \/ seen' = seen
        PROVE  /\ seen' = [q \in Requests |-> seen'[q]]
               /\ \A q \in Requests : stage'[q] = "read" => seen'[q] # "absent"
    BY <1>2 DEF TrailInv, Become, Forget, IngestInv, Shape
  <1>3. ASSUME NEW r \in Requests, Brief(r) PROVE TrailInv'
    <2>1. /\ seen' = [q \in Requests |-> seen'[q]]
          /\ \A q \in Requests : stage'[q] = "read" => seen'[q] # "absent"
      <3>1. CASE ReadForRevoke(r)
        <4>1. /\ stage' = [stage EXCEPT ![r] = "read"]
              /\ seen' = [seen EXCEPT ![r] = briefing[On(r)].status]
              /\ briefing[On(r)].status # "absent"
          BY <3>1 DEF ReadForRevoke, Become
        <4> QED
          BY <4>1 DEF TrailInv, IngestInv, Shape
      <3>2. CASE ~ReadForRevoke(r)
        <4>1. Become(r, "answering") /\ (Forget(r) \/ seen' = seen)
          BY <1>3, <3>2 DEF Brief, CreateBriefing, BriefingMissing, PatchBriefing,
                            RevokeBriefing, Respond, briefingVars
        <4> QED
          BY <1>2, <4>1
      <3> QED
        BY <3>1, <3>2
    <2>2. trail' \in [Briefings -> Seq(Entries)] /\ StatusIsAudited'
      BY <1>3, BriefTrail DEF StatusIsAudited, Audited, Shows, RevokedOnce
    <2> QED
      BY <2>1, <2>2 DEF TrailInv
  <1>4. ASSUME NEW r \in Requests,
               \/ Lookup(r) \/ Ingest(r) \/ FailHandler(r) \/ Crash(r)
               \/ StoreAnswer(r) \/ StoreFails(r)
        PROVE  TrailInv'
    <2>1. UNCHANGED <<briefing, trail, raced>>
      BY <1>4 DEF Lookup, Ingest, FindPrior, InsertEvent, DuplicateEvent, MatchBriefings,
                  CommitEvent, FailHandler, Crash, StoreAnswer, StoreFails, briefingVars
    <2>2. PICK s : Become(r, s) /\ s # "read" /\ (Forget(r) \/ seen' = seen)
      BY <1>4 DEF Lookup, Ingest, FindPrior, InsertEvent, DuplicateEvent, MatchBriefings,
                  CommitEvent, FailHandler, Crash, StoreAnswer, StoreFails, briefingVars, Respond
    <2> QED
      BY <1>1, <1>2, <2>1, <2>2 DEF TrailInv
  <1>5. CASE Tick \/ UNCHANGED vars
    <2>1. UNCHANGED <<stage, briefing, trail, seen, raced>>
      BY <1>5 DEF Tick, vars, requestVars, briefingVars
    <2> QED
      BY <1>1, <2>1 DEF TrailInv
  <1> QED
    BY <1>3, <1>4, <1>5 DEF Next

-------------------------------------------------------------------------------
\* What a caller was told exists, for any requests, retries, lifetimes of
\* stored answers, failures and crashes.
THEOREM AnswersTrue == Spec => []AnswersAreTrue
  <1>1. AnswerInv => AnswersAreTrue
    BY ValueAssumption DEF AnswerInv, Told, Truthful, AnswersAreTrue, Scope, ScopeOf, Key
  <1> QED
    BY InitIngestInv, NextIngestInv, InitAnswerInv, NextAnswerInv, <1>1, PTL DEF Spec

\* A retry of what succeeded is replayed, or refused where its body differs,
\* while the first record of its key is not expired.
THEOREM RetriesReplayed == Spec => []RetriesAreReplayed
  <1>1. AnswerInv => RetriesAreReplayed
    BY DEF AnswerInv
  <1> QED
    BY InitIngestInv, NextIngestInv, InitAnswerInv, NextAnswerInv, <1>1, PTL DEF Spec

\* The audit trail explains the status of every briefing that no revocation
\* raced with.
THEOREM StatusAudited == Spec => []StatusIsAudited
  <1>1. TrailInv => StatusIsAudited
    BY DEF TrailInv
  <1> QED
    BY InitIngestInv, NextIngestInv, InitAnswerInv, NextTrailInv, <1>1, PTL DEF Spec

-------------------------------------------------------------------------------
(* The refinement of KeyedRequest.                                         *)

Handled == InTransaction \cup {"answering"}

\* What is answered can be told, a success without content apart; who has made
\* a briefing is done with it; what is about to be matched is concerned.
PromiseInv ==
  /\ \A r \in Requests : stage[r] = "answering" => answer[r].code \in Codes \cup {204}
  /\ \A b \in Briefings, r \in Requests :
       briefing[b].madeBy = r => stage[r] \notin InTransaction \cup {"new"}
  /\ \A r \in Requests : stage[r] = "matched" => found[r] \subseteq Concerned[Body(r)]

\* A statement of a handler, or its failure, or that of the plugin's store.
Works(r) ==
  Ingest(r) \/ Brief(r) \/ FailHandler(r) \/ (StoreFails(r) /\ answer[r] # Failure)

\* It leaves the request handled, and touches nobody else's.
LEMMA WorkGoesOn ==
  ASSUME IngestInv, AnswerInv, NEW r \in Requests, Works(r)
  PROVE  /\ stage[r] \in Handled /\ UNCHANGED <<now, input, record>>
         /\ \A q \in Requests \ {r} : answer'[q] = answer[q]
         /\ \E s \in Handled :
              /\ Become(r, s) /\ stage' = [stage EXCEPT ![r] = s]
              /\ s = "matched" => MatchBriefings(r)
              /\ s \in InTransaction => stage[r] \in InTransaction
              /\ s = "answering" => answer'[r].code \in Codes \cup {204}
  <1> USE DEF Respond, Become, Handled, InTransaction, Answer, Failure, Codes
  <1>1. answer \in [Requests -> Answers]
    BY DEF AnswerInv, AnswersTyped
  <1>2. CASE Ingest(r)
    <2>1. CASE FindPrior(r)
      BY <1>1, <2>1 DEF FindPrior
    <2>2. CASE DuplicateEvent(r)
      BY <1>1, <2>2 DEF DuplicateEvent
    <2>3. CASE CommitEvent(r)
      BY <1>1, <2>3 DEF CommitEvent
    <2>4. CASE InsertEvent(r) \/ MatchBriefings(r)
      BY <1>1, <2>4 DEF InsertEvent, MatchBriefings
    <2> QED
      BY <1>2, <2>1, <2>2, <2>3, <2>4 DEF Ingest
  <1>3. CASE Brief(r)
    <2>1. ASSUME NEW b \in Briefings, CreateBriefing(r, b) PROVE Respond(r, Answer(201, b))
      BY <2>1 DEF CreateBriefing
    <2>2. /\ UNCHANGED <<now, input, record>> /\ stage[r] \in InTransaction
      BY <1>3 DEF Brief, CreateBriefing, BriefingMissing, PatchBriefing, ReadForRevoke,
                  RevokeBriefing
    <2>3. CASE ReadForRevoke(r)
      BY <1>1, <2>2, <2>3 DEF ReadForRevoke
    <2>4. CASE ~ReadForRevoke(r)
      <3>1. \E c \in {200, 201, 204, 404}, of \in Briefings \cup {None, On(r)} : Respond(r, Answer(c, of))
        BY <1>3, <2>1, <2>4 DEF Brief, BriefingMissing, PatchBriefing, RevokeBriefing
      <3> QED
        BY <1>1, <2>2, <3>1
    <2> QED
      BY <2>3, <2>4
  <1>4. CASE FailHandler(r) \/ (StoreFails(r) /\ answer[r] # Failure)
    BY <1>1, <1>4 DEF FailHandler, StoreFails
  <1> QED
    BY <1>2, <1>3, <1>4 DEF Works

\* Only a commit of an event and the insert of a briefing are seen.
LEMMA WorkUnseen ==
  ASSUME IngestInv, AnswerInv, NEW r \in Requests, Works(r)
  PROVE  /\ CommitEvent(r) \/ UNCHANGED <<event, matches>>
         /\ (\E b \in Briefings : CreateBriefing(r, b)) \/ Made' = Made
         /\ (CommitEvent(r) => Made' = Made)
         /\ (\E b \in Briefings : CreateBriefing(r, b)) => UNCHANGED <<event, matches>>
  <1> USE DEF eventVars, briefingVars
  <1>1. CASE Ingest(r)
    BY <1>1 DEF Ingest, FindPrior, InsertEvent, DuplicateEvent, MatchBriefings, CommitEvent,
                CreateBriefing, Made
  <1>2. CASE Brief(r)
    <2>1. UNCHANGED <<event, matches>>
      BY <1>2 DEF Brief, CreateBriefing, BriefingMissing, PatchBriefing, ReadForRevoke,
                  RevokeBriefing
    <2>2. (\A b \in Briefings : ~CreateBriefing(r, b)) => Made' = Made
      BY <1>2, RowsChange DEF Made
    <2>3. ~CommitEvent(r)
      BY <1>2 DEF Brief, CreateBriefing, BriefingMissing, PatchBriefing, ReadForRevoke,
                  RevokeBriefing, CommitEvent
    <2> QED
      BY <2>1, <2>2, <2>3
  <1>3. CASE FailHandler(r) \/ (StoreFails(r) /\ answer[r] # Failure)
    BY <1>3 DEF FailHandler, StoreFails, Made, CommitEvent, CreateBriefing
  <1> QED
    BY <1>1, <1>2, <1>3 DEF Works

\* Where a request is, and what it was told, as seen from outside.
LEMMA PhaseMoves ==
  ASSUME IngestInv, NEW r \in Requests, NEW s, Become(r, s)
  PROVE  Phase' = [Phase EXCEPT ![r] = PhaseOf(s)]
  <1>1. \A q \in Requests : stage'[q] = IF q = r THEN s ELSE stage[q]
    BY DEF Become, IngestInv, Shape
  <1>2. Phase' = [q \in Requests |-> IF q = r THEN PhaseOf(s) ELSE PhaseOf(stage[q])]
    BY <1>1 DEF Phase
  <1> QED
    BY <1>2 DEF Phase

LEMMA NothingHeard ==
  ASSUME IngestInv, NEW r \in Requests, NEW s, Become(r, s), s # "done", stage[r] # "done",
         \A q \in Requests \ {r} : answer'[q] = answer[q]
  PROVE  Heard' = Heard
  <1>1. \A q \in Requests : stage'[q] = IF q = r THEN s ELSE stage[q]
    BY DEF Become, IngestInv, Shape
  <1> QED
    BY <1>1 DEF Heard

LEMMA AnswerHeard ==
  ASSUME IngestInv, NEW r \in Requests, NEW a, Become(r, "done"), answer'[r] = a,
         \A q \in Requests \ {r} : answer'[q] = answer[q]
  PROVE  Promise!Tell(r, a)
  <1>1. \A q \in Requests : stage'[q] = IF q = r THEN "done" ELSE stage[q]
    BY DEF Become, IngestInv, Shape
  <1>2. Heard' = [q \in Requests |-> IF q = r THEN a ELSE Heard[q]]
    BY <1>1 DEF Heard
  <1>3. Heard' = [Heard EXCEPT ![r] = a]
    BY <1>2 DEF Heard
  <1>4. Phase' = [Phase EXCEPT ![r] = "answered"]
    BY PhaseMoves DEF PhaseOf
  <1> QED
    BY <1>3, <1>4 DEF Promise!Tell, Promise!Enter

LEMMA InitPromiseInv == Init => PromiseInv
  <1> SUFFICES ASSUME Init PROVE PromiseInv
    OBVIOUS
  <1>1. \A b \in Briefings : briefing[b].madeBy = None
    BY DEF Init, NoRow
  <1> QED
    BY <1>1, ValueAssumption DEF Init, PromiseInv

LEMMA NextPromiseInv == IngestInv /\ AnswerInv /\ PromiseInv /\ [Next]_vars => PromiseInv'
  <1> SUFFICES ASSUME IngestInv, AnswerInv, PromiseInv, [Next]_vars PROVE PromiseInv'
    OBVIOUS
  <1> USE DEF eventVars, briefingVars, InTransaction
  <1>1. ASSUME NEW r \in Requests, Works(r) PROVE PromiseInv'
    <2>1. PICK s \in Handled :
            /\ \A q \in Requests : stage'[q] = IF q = r THEN s ELSE stage[q]
            /\ s = "matched" => MatchBriefings(r)
            /\ s \in InTransaction => stage[r] \in InTransaction
            /\ s = "answering" => answer'[r].code \in Codes \cup {204}
      BY <1>1, WorkGoesOn DEF IngestInv, Shape
    <2>2. stage[r] \in Handled /\ input' = input /\ \A q \in Requests \ {r} : answer'[q] = answer[q]
      BY <1>1, WorkGoesOn
    <2>3. \A q \in Requests : stage'[q] = "answering" => answer'[q].code \in Codes \cup {204}
      BY <2>1, <2>2 DEF PromiseInv
    <2>4. ASSUME NEW b \in Briefings, NEW q \in Requests, briefing'[b].madeBy = q
          PROVE  stage'[q] \notin InTransaction \cup {"new"}
      <3>1. CASE CreateBriefing(r, b)
        <4>1. s = "answering" /\ briefing'[b].madeBy = r
          BY <2>1, <3>1 DEF CreateBriefing, Respond, Become, IngestInv, Shape
        <4> QED
          BY <2>1, <2>4, <4>1
      <3>2. CASE ~CreateBriefing(r, b)
        <4>1. briefing'[b].madeBy = briefing[b].madeBy
          <5>1. CASE Brief(r)
            BY <3>2, <5>1, RowsChange
          <5>2. CASE ~Brief(r)
            BY <1>1, <5>2 DEF Works, Ingest, FindPrior, InsertEvent, DuplicateEvent,
                              MatchBriefings, CommitEvent, FailHandler, StoreFails
          <5> QED
            BY <5>1, <5>2
        <4> QED
          BY <2>1, <2>2, <2>4, <4>1 DEF PromiseInv, Handled
      <3> QED
        BY <3>1, <3>2
    <2>5. ASSUME NEW q \in Requests, stage'[q] = "matched"
          PROVE  found'[q] \subseteq Concerned[Body(q)']
      <3>1. CASE q = r
        <4>1. found' = [found EXCEPT ![r] = {b \in Concerned[Body(r)] :
                          Listed(b) /\ <<briefing[b].intent, Body(r)>> \in Wants}]
          BY <2>1, <2>5, <3>1 DEF MatchBriefings
        <4>2. found'[r] \subseteq Concerned[Body(r)]
          BY <4>1 DEF IngestInv, Shape
        <4> QED
          BY <2>2, <3>1, <4>2 DEF Body
      <3>2. CASE q # r
        <4>1. \E S : found' = found \/ found' = [found EXCEPT ![r] = S]
          <5>1. CASE Ingest(r)
            BY <5>1 DEF Ingest, FindPrior, InsertEvent, DuplicateEvent, MatchBriefings,
                        CommitEvent, Forget
          <5>2. CASE Brief(r)
            BY <5>2 DEF Brief, CreateBriefing, BriefingMissing, PatchBriefing, ReadForRevoke,
                        RevokeBriefing, Forget
          <5>3. CASE FailHandler(r) \/ StoreFails(r)
            BY <5>3 DEF FailHandler, StoreFails, Forget
          <5> QED
            BY <1>1, <5>1, <5>2, <5>3 DEF Works
        <4>2. found'[q] = found[q]
          BY <3>2, <4>1 DEF IngestInv, Shape
        <4> QED
          BY <2>1, <2>2, <2>5, <3>2, <4>2 DEF PromiseInv, Body
      <3> QED
        BY <3>1, <3>2
    <2> QED
      BY <2>3, <2>4, <2>5 DEF PromiseInv
  <1>2. ASSUME NEW r \in Requests,
               Lookup(r) \/ Crash(r) \/ StoreAnswer(r) \/ (StoreFails(r) /\ answer[r] = Failure)
        PROVE  PromiseInv'
    <2>1. PICK s \in {"missed", "done", "lost"} :
            /\ \A q \in Requests : stage'[q] = IF q = r THEN s ELSE stage[q]
            /\ s = "missed" => stage[r] = "new"
      BY <1>2 DEF Lookup, Crash, StoreAnswer, StoreFails, Become, IngestInv, Shape
    <2>2. /\ UNCHANGED <<input, briefing>>
          /\ \A q \in Requests \ {r} : answer'[q] = answer[q] /\ found'[q] = found[q]
      BY <1>2 DEF Lookup, Crash, StoreAnswer, StoreFails, NoteArrival, Forget, IngestInv, Shape,
                  AnswerInv, AnswersTyped
    <2> QED
      BY <2>1, <2>2 DEF PromiseInv, Body
  <1>3. CASE Tick \/ UNCHANGED vars
    BY <1>3 DEF Tick, vars, requestVars, PromiseInv, Body
  <1> QED
    BY <1>1, <1>2, <1>3 DEF Next, Works

-------------------------------------------------------------------------------
(* Each step, as it is seen from outside.                                  *)

LEMMA WorkPromise ==
  ASSUME IngestInv, AnswerInv, PromiseInv, NEW r \in Requests, Works(r)
  PROVE  [Promise!Next]_(Promise!vars)
  <1>1. /\ stage[r] \in Handled /\ UNCHANGED <<now, input, record>>
        /\ \A q \in Requests \ {r} : answer'[q] = answer[q]
    BY WorkGoesOn
  <1>2. PICK s \in Handled : Become(r, s) /\ stage' = [stage EXCEPT ![r] = s]
    BY WorkGoesOn
  <1>3. PhaseOf(s) = "handled" /\ Phase[r] = "handled" /\ stage[r] # "done" /\ s # "done"
    BY <1>1 DEF Handled, InTransaction, PhaseOf, Phase
  <1>4. Phase' = Phase
    BY <1>2, <1>3, PhaseMoves DEF Phase
  <1>5. Heard' = Heard
    BY <1>1, <1>2, <1>3, NothingHeard
  <1>6. CASE CommitEvent(r)
    <2> DEFINE k == Key(r)
               S == found[r]
    <2>1. /\ event' = [event EXCEPT ![k] =
               [body |-> Body(r), by |-> r, count |-> Cardinality(S)]]
          /\ matches' = [matches EXCEPT ![k] =
               [b \in Briefings |-> @[b] + IF b \in S THEN 1 ELSE 0]]
          /\ stage[r] = "matched"
      BY <1>6 DEF CommitEvent
    <2>2. Kind(r) = "ingest" /\ k \in Keys /\ event[k] = None
      BY <2>1, ValueAssumption DEF IngestInv, Keyed, IndexHeld, Holds, InTransaction
    <2>3. S \in SUBSET Briefings /\ S \subseteq Concerned[Body(r)]
      BY <2>1 DEF IngestInv, Shape, PromiseInv
    <2>4. Notified' = [Notified EXCEPT ![k] = S]
      <3>1. \A b \in Briefings : matches[k][b] = 0
        BY <2>2 DEF IngestInv, RowsFirst
      <3>2. \A b \in Briefings : matches'[k][b] = IF b \in S THEN 1 ELSE 0
        BY <2>1, <2>2, <3>1 DEF IngestInv, Shape
      <3>3. {b \in Briefings : matches'[k][b] > 0} = S
        BY <2>3, <3>2
      <3>4. \A j \in Keys \ {k} : matches'[j] = matches[j]
        BY <2>1 DEF IngestInv, Shape
      <3>5. Notified' = [j \in Keys |-> IF j = k THEN S ELSE Notified[j]]
        BY <2>2, <3>3, <3>4 DEF Notified
      <3> QED
        BY <2>2, <3>5 DEF Notified
    <2>5. Made' = Made
      BY <1>6, WorkUnseen
    <2> HIDE DEF S
    <2>6. Promise!Cardinality(S) = Cardinality(S)
      BY DEF Promise!Cardinality, Cardinality
    <2>7. Promise!Publish(r, S)
      BY <1>1, <1>3, <1>4, <1>5, <2>1, <2>2, <2>3, <2>4, <2>5, <2>6
         DEF Promise!Publish, Kind, Key, Body
    <2> QED
      BY <2>3, <2>7 DEF Promise!Next
  <1>7. ASSUME NEW b \in Briefings, CreateBriefing(r, b) PROVE [Promise!Next]_(Promise!vars)
    <2>1. /\ stage[r] = "missed" /\ Kind(r) = "create" /\ briefing[b].status = "absent"
          /\ briefing' = [briefing EXCEPT ![b] =
               [status |-> "active", intent |-> Body(r).intent,
                expiresAt |-> Body(r).expiresAt, madeBy |-> r]]
      BY <1>7 DEF CreateBriefing
    <2>2. Made[b] = None /\ \A c \in Briefings : Made[c] # r
      BY <2>1 DEF AnswerInv, Unmade, PromiseInv, InTransaction, Made
    <2>3. \A c \in Briefings : briefing'[c].madeBy = IF c = b THEN r ELSE Made[c]
      BY <2>1 DEF IngestInv, Shape, Made
    <2>4. Made' = [Made EXCEPT ![b] = r]
      BY <2>3 DEF Made
    <2>5. UNCHANGED <<event, Notified>>
      BY <1>7, WorkUnseen DEF Notified
    <2>6. Promise!Make(r, b)
      BY <1>1, <1>3, <1>4, <1>5, <2>1, <2>2, <2>4, <2>5 DEF Promise!Make, Kind
    <2> QED
      BY <2>6 DEF Promise!Next
  <1>8. CASE ~CommitEvent(r) /\ \A b \in Briefings : ~CreateBriefing(r, b)
    <2>1. UNCHANGED <<event, Notified, Made>>
      BY <1>8, WorkUnseen DEF Notified
    <2> QED
      BY <1>1, <1>4, <1>5, <2>1 DEF Promise!vars, Promise!effects
  <1> QED
    BY <1>6, <1>7, <1>8

LEMMA LookupPromise ==
  ASSUME IngestInv, AnswerInv, NEW r \in Requests, Lookup(r)
  PROVE  [Promise!Next]_(Promise!vars)
  <1> DEFINE rec == record[Scope(r)]
  <1>1. /\ stage[r] = "new" /\ UNCHANGED <<now, input, record, event, matches, briefing>>
    BY DEF Lookup, eventVars, briefingVars
  <1>2. Phase[r] = "sent" /\ UNCHANGED <<Promise!effects>>
    BY <1>1 DEF Phase, PhaseOf, Promise!effects, Notified, Made
  <1>3. /\ Promise!Scope(r) = Scope(r) /\ (Promise!Fresh(Scope(r)) <=> Unexpired(rec))
    BY DEF Promise!Scope, Scope, ScopeOf, Promise!Fresh, Unexpired
  <1>4. \A a : answer' = [answer EXCEPT ![r] = a] =>
          answer'[r] = a /\ \A q \in Requests \ {r} : answer'[q] = answer[q]
    BY DEF AnswerInv, AnswersTyped
  <1>5. CASE Key(r) = None /\ answer' = [answer EXCEPT ![r] = Answer(400, None)]
             /\ Become(r, "done")
    <2> DEFINE a == [code |-> 400, of |-> None]
    <2>1. answer' = [answer EXCEPT ![r] = a]
      BY <1>5 DEF Answer
    <2> HIDE DEF a
    <2>2. answer'[r] = a /\ \A q \in Requests \ {r} : answer'[q] = answer[q]
      BY <1>4, <2>1
    <2>3. Promise!Tell(r, a)
      BY <1>5, <2>2, AnswerHeard
    <2> USE DEF a
    <2>4. Promise!Tell(r, [code |-> 400, of |-> None])
      BY <2>3
    <2>5. Promise!Refuse(r)
      BY <1>1, <1>2, <1>5, <2>4 DEF Promise!Refuse, Key
    <2> QED
      BY <2>5 DEF Promise!Next
  <1>6. CASE Key(r) # None /\ ~Unexpired(rec) /\ Become(r, "missed") /\ UNCHANGED answer
    <2>1. Heard' = Heard
      BY <1>1, <1>6, NothingHeard
    <2>2. Promise!Enter(r, "handled")
      BY <1>6, PhaseMoves DEF PhaseOf, Promise!Enter
    <2>3. Promise!Handle(r)
      BY <1>1, <1>2, <1>3, <1>6, <2>1, <2>2 DEF Promise!Handle, Key
    <2> QED
      BY <2>3 DEF Promise!Next
  <1>7. CASE /\ Key(r) # None /\ Unexpired(rec) /\ Become(r, "done")
             /\ answer' = [answer EXCEPT ![r] =
                  IF SameBody(r, rec) THEN rec.answer ELSE Answer(409, None)]
    <2> DEFINE a == IF rec.body = input[r].body THEN rec.answer
                    ELSE [code |-> 409, of |-> None]
    <2>1. answer' = [answer EXCEPT ![r] = a]
      BY <1>7 DEF Answer, SameBody, Body
    <2> HIDE DEF a
    <2>2. answer'[r] = a /\ \A q \in Requests \ {r} : answer'[q] = answer[q]
      BY <1>4, <2>1
    <2>3. Promise!Tell(r, a)
      BY <1>7, <2>2, AnswerHeard
    <2> USE DEF a
    <2>4. Promise!Tell(r, IF rec.body = input[r].body THEN rec.answer
                          ELSE [code |-> 409, of |-> None])
      BY <2>3
    <2>5. Promise!Recall(r)
      BY <1>1, <1>2, <1>3, <1>7, <2>4 DEF Promise!Recall, Key
    <2> QED
      BY <2>5 DEF Promise!Next
  <1> QED
    BY <1>5, <1>6, <1>7 DEF Lookup

LEMMA EndPromise ==
  ASSUME IngestInv, AnswerInv, PromiseInv, NEW r \in Requests,
         StoreAnswer(r) \/ (StoreFails(r) /\ answer[r] = Failure) \/ Crash(r)
  PROVE  [Promise!Next]_(Promise!vars)
  <1>1. /\ stage[r] \in Handled /\ UNCHANGED <<now, input, event, matches, briefing>>
        /\ \A q \in Requests \ {r} : answer'[q] = answer[q]
    BY DEF StoreAnswer, StoreFails, Crash, Handled, eventVars, briefingVars,
           AnswerInv, AnswersTyped
  <1>2. Phase[r] = "handled" /\ stage[r] # "done" /\ UNCHANGED <<Promise!effects>>
    BY <1>1 DEF Phase, PhaseOf, Handled, InTransaction, Promise!effects, Notified, Made
  <1>3. CASE StoreAnswer(r)
    <2> DEFINE a == answer[r]
               s == Scope(r)
    <2>1. /\ stage[r] = "answering" /\ a.code # 204 /\ answer' = answer /\ Become(r, "done")
          /\ record' = [record EXCEPT ![s] =
               Stored(@, [body |-> Body(r), answer |-> a, expires |-> now + TTL])]
      BY <1>3 DEF StoreAnswer
    <2>2. a \in [code : Codes, of : Bodies \cup Briefings \cup {None}]
      <3>1. a \in Answers /\ a.code \in Codes
        BY <2>1 DEF AnswerInv, AnswersTyped, PromiseInv
      <3> QED
        BY <3>1 DEF Answers
    <2>3. Promise!Tell(r, a)
      BY <1>1, <2>1, AnswerHeard
    <2>4. Promise!IsTrue(r, a)
      <3>1. Truthful(s, Body(r), a)
        BY <2>1 DEF AnswerInv, Told
      <3>2. s[3] = Key(r)
        BY DEF Scope, ScopeOf, Key
      <3>3. a.of \in Briefings => Made[a.of] = briefing[a.of].madeBy
        BY DEF Made
      <3> QED
        BY <3>1, <3>2, <3>3 DEF Truthful, Promise!IsTrue, Promise!Scope, Scope, ScopeOf, Key, Body
    <2>5. record' = [record EXCEPT ![Promise!Scope(r)] =
            IF @ # None THEN @
            ELSE [body |-> input[r].body, answer |-> a, expires |-> now + TTL]]
      <3>1. Promise!Scope(r) = s
        BY DEF Promise!Scope, Scope, ScopeOf
      <3> QED
        BY <2>1, <3>1 DEF Stored, Body
    <2> HIDE DEF a, s
    <2>6. Promise!Answer(r, a)
      BY <1>1, <1>2, <2>3, <2>4, <2>5 DEF Promise!Answer
    <2> QED
      BY <2>2, <2>6 DEF Promise!Next
  <1>4. CASE StoreFails(r) /\ answer[r] = Failure
    <2>1. Become(r, "done") /\ answer' = answer /\ record' = record
      BY <1>4 DEF StoreFails
    <2>2. Promise!Tell(r, [code |-> 500, of |-> None])
      <3>1. Promise!Tell(r, Failure)
        BY <1>1, <1>4, <2>1, AnswerHeard
      <3> QED
        BY <3>1 DEF Failure, Answer
    <2>3. Promise!Fail(r)
      BY <1>1, <1>2, <2>1, <2>2 DEF Promise!Fail
    <2> QED
      BY <2>3 DEF Promise!Next
  <1>5. CASE Crash(r)
    <2>1. Become(r, "lost") /\ record' = record
      BY <1>5 DEF Crash
    <2>2. Heard' = Heard
      BY <1>1, <1>2, <2>1, NothingHeard
    <2>3. Promise!Enter(r, "lost")
      BY <2>1, PhaseMoves DEF PhaseOf, Promise!Enter
    <2>4. Promise!Lose(r)
      BY <1>1, <1>2, <2>1, <2>2, <2>3 DEF Promise!Lose
    <2> QED
      BY <2>4 DEF Promise!Next
  <1> QED
    BY <1>3, <1>4, <1>5

LEMMA TickPromise ==
  ASSUME Tick \/ UNCHANGED vars
  PROVE  [Promise!Next]_(Promise!vars)
  <1>1. UNCHANGED <<input, Phase, Heard, record, event, Notified, Made>>
    BY DEF Tick, vars, requestVars, eventVars, briefingVars, Phase, Heard, Notified, Made
  <1>2. CASE Tick
    <2>1. Promise!Pass
      BY <1>1, <1>2 DEF Tick, Promise!Pass, Promise!effects
    <2> QED
      BY <2>1 DEF Promise!Next
  <1>3. CASE UNCHANGED vars
    BY <1>1, <1>3 DEF vars, Promise!vars, Promise!effects
  <1> QED
    BY <1>2, <1>3

LEMMA InitPromise == Init => Promise!Init
  <1> SUFFICES ASSUME Init PROVE Promise!Init
    OBVIOUS
  <1>1. \A b \in Briefings : briefing[b].madeBy = None
    BY DEF Init, NoRow
  <1>2. Made = [b \in Briefings |-> None]
    BY <1>1 DEF Made
  <1>3. Notified = [k \in Keys |-> {}]
    <2>1. \A k \in Keys : {b \in Briefings : matches[k][b] > 0} = {}
      BY DEF Init
    <2> QED
      BY <2>1 DEF Notified
  <1>4. Phase = [r \in Requests |-> "sent"] /\ Heard = [r \in Requests |-> NoAnswer]
    BY DEF Init, Phase, PhaseOf, Heard
  <1> QED
    BY <1>2, <1>3, <1>4 DEF Init, Promise!Init

\* For any requests, keys, bodies, briefings and lifetimes: to callers and
\* customers the endpoints under the plugin are those of KeyedRequest.
THEOREM RefinesKeyedRequest == Spec => ImplementsKeyedRequest
  <1>1. Init => IngestInv /\ AnswerInv /\ PromiseInv /\ Promise!Init
    BY InitIngestInv, InitAnswerInv, InitPromiseInv, InitPromise
  <1>2. IngestInv /\ AnswerInv /\ PromiseInv /\ [Next]_vars =>
          IngestInv' /\ AnswerInv' /\ PromiseInv'
    BY NextIngestInv, NextAnswerInv, NextPromiseInv
  <1>3. IngestInv /\ AnswerInv /\ PromiseInv /\ [Next]_vars => [Promise!Next]_(Promise!vars)
    BY WorkPromise, LookupPromise, EndPromise, TickPromise DEF Next, Works
  <1> QED
    BY <1>1, <1>2, <1>3, PTL DEF Spec, ImplementsKeyedRequest, Promise!Spec
-------------------------------------------------------------------------------
(* Matching.                                                               *)

(* Remainders.                                                             *)

LEMMA DivMod ==
  ASSUME NEW a \in Int, NEW d \in Nat \ {0}
  PROVE  /\ a \div d \in Int /\ a % d \in Int /\ 0 =< a % d /\ a % d < d
         /\ a = d * (a \div d) + (a % d)
  OBVIOUS

LEMMA Times ==
  ASSUME NEW d \in Nat \ {0}, NEW p \in Int, NEW q \in Int, p < q
  PROVE  d * p \in Int /\ d * q \in Int /\ d * p + d =< d * q
<1>1. d * (p + 1) = d * p + d /\ d * p \in Int /\ d * q \in Int
  OBVIOUS
<1>2. q - (p + 1) \in Nat
  OBVIOUS
<1>3. d * (q - (p + 1)) \in Nat
  BY <1>2
<1>4. d * (q - (p + 1)) = d * q - d * (p + 1)
  OBVIOUS
<1> QED
  BY <1>1, <1>3, <1>4

(* A remainder is known by any quotient.                                   *)
LEMMA ModIs ==
  ASSUME NEW a \in Int, NEW d \in Nat \ {0}, NEW q \in Int, NEW r \in 0 .. d - 1,
         a = d * q + r
  PROVE  a % d = r
<1> DEFINE p == a \div d
           s == a % d
<1>1. p \in Int /\ s \in Int /\ 0 =< s /\ s < d /\ a = d * p + s
  BY DivMod
<1>2. d * p \in Int /\ d * q \in Int /\ r \in Int /\ 0 =< r /\ r < d
  BY <1>1
<1>3. p < q => d * p + d =< d * q
  BY <1>1, Times
<1>4. q < p => d * q + d =< d * p
  BY <1>1, Times
<1>5. p = q
  <2> HIDE DEF p, s
  <2> QED
    BY <1>1, <1>2, <1>3, <1>4
<1> QED
  BY <1>1, <1>2, <1>5

\* The least amount that makes a debit round is what is left of the unit.
LEMMA MissingIs ==
  ASSUME NEW a \in Int, NEW u \in Nat \ {0}
  PROVE  /\ a % u = 0 => Missing(a, u) = 0
         /\ a % u # 0 => Missing(a, u) = u - (a % u)
<1> DEFINE r == a % u
           p == a \div u
           m == IF r = 0 THEN 0 ELSE u - r
<1>1. /\ p \in Int /\ r \in Int /\ 0 =< r /\ r < u /\ a = u * p + r
      /\ u * p \in Int /\ u * (p + 1) = u * p + u
  BY DivMod
<1>2. m \in 0 .. u - 1 /\ 0 \in 0 .. u - 1
  <2> HIDE DEF r
  <2> QED
    BY <1>1
<1>3. (a + m) % u = 0
  <2> HIDE DEF r, p
  <2>1. CASE r = 0
    <3>1. a + m = u * p + 0 /\ a + m \in Int
      BY <1>1, <2>1
    <3> HIDE DEF m
    <3> QED
      BY <1>1, <1>2, <3>1, ModIs
  <2>2. CASE r # 0
    <3>1. a + m = u * (p + 1) + 0 /\ a + m \in Int /\ p + 1 \in Int
      BY <1>1, <2>2
    <3> HIDE DEF m
    <3> QED
      BY <1>1, <1>2, <3>1, ModIs
  <2> QED
    BY <2>1, <2>2
<1>4. ASSUME NEW n \in 0 .. u - 1, (a + n) % u = 0 PROVE n = m
  <2> DEFINE o == (a + n) \div u
  <2>1. /\ o \in Int /\ a + n \in Int /\ n \in Int /\ 0 =< n /\ n < u
        /\ a + n = u * o + 0 /\ u * o \in Int /\ u * (o - 1) = u * o - u
    BY <1>4, DivMod
  <2> HIDE DEF o
  <2>2. CASE n = 0
    <3>1. r = 0
      BY <1>4, <2>2
    <3> QED
      BY <2>2, <3>1
  <2>3. CASE n # 0
    <3>1. a = u * (o - 1) + (u - n) /\ u - n \in 0 .. u - 1 /\ o - 1 \in Int
      BY <2>1, <2>3
    <3>2. r = u - n
      BY <3>1, ModIs
    <3> HIDE DEF r
    <3> QED
      BY <2>1, <2>3, <3>2
  <2> QED
    BY <2>2, <2>3
<1>5. Missing(a, u) = m
  <2> HIDE DEF m
  <2> QED
    BY <1>2, <1>3, <1>4 DEF Missing
<1> QED
  BY <1>5

(* Least and greatest.                                                     *)

LEMMA LeastOf ==
  ASSUME NEW T, T \subseteq Nat, T # {}
  PROVE  \E x \in T : \A y \in T : x =< y
<1>1. PICK x \in T : \A y \in T : ~(<<y, x>> \in OpToRel(<, Nat))
  BY NatLessThanWellFounded, WFMin
<1>2. \A y \in T : ~(y < x)
  BY <1>1 DEF OpToRel
<1> QED
  BY <1>2

LEMMA MinIs ==
  ASSUME NEW T, T \subseteq Nat, T # {}
  PROVE  Min(T) \in T
BY LeastOf DEF Min

LEMMA MaxIs ==
  ASSUME NEW T, NEW k \in Nat, T \subseteq 1 .. k, T # {}
  PROVE  Max(T) \in T /\ \A y \in T : y =< Max(T)
<1> DEFINE R == {k - x : x \in T}
<1>1. R \subseteq Nat /\ R # {}
  <2>1. \A x \in T : x \in Int /\ 1 =< x /\ x =< k /\ k - x \in Nat
    OBVIOUS
  <2> QED
    BY <2>1
<1>2. PICK r \in R : \A y \in R : r =< y
  <2> HIDE DEF R
  <2> QED
    BY <1>1, LeastOf
<1>3. PICK x \in T : r = k - x
  BY <1>2
<1>4. x \in T /\ T \subseteq Int
  BY <1>3
<1>5. ASSUME NEW y \in T PROVE x >= y
  <2>1. k - y \in R
    OBVIOUS
  <2>2. k - x =< k - y
    BY <1>2, <1>3, <2>1
  <2> QED
    BY <1>4, <2>2
<1>6. Max(T) \in T /\ \A y \in T : Max(T) >= y
  <2> HIDE DEF R
  <2> QED
    BY Zenon, <1>4, <1>5 DEF Max
<1> QED
  BY <1>4, <1>6

(* Values.                                                                 *)
Field == Json \cup {Undefined}

LEMMA FieldType ==
  ASSUME NEW v \in Field, NEW name
  PROVE  Get(v, name) \in Field
<1>1. v = Undefined => v[1] # "object"
  BY DEF Undefined
<1>2. ASSUME v \in Json, v[1] = "object" PROVE v[2] \in [DOMAIN v[2] -> Json]
  BY <1>2, JsonAssumption DEF IsJson
<1>3. CASE v[1] = "object" /\ name \in DOMAIN v[2]
  <2>1. v \in Json
    BY <1>1, <1>3 DEF Field
  <2>2. v[2][name] \in Json
    BY <1>2, <1>3, <2>1
  <2> QED
    BY <1>3, <2>2 DEF Field, Get
<1> QED
  BY <1>3 DEF Field, Get

LEMMA ElementsType ==
  ASSUME NEW v \in Field
  PROVE  Elements(v) \in Seq(Json)
<1>1. v = Undefined => v[1] # "array"
  BY DEF Undefined
<1>2. ASSUME v \in Json, v[1] = "array" PROVE v[2] \in Seq(Json)
  BY <1>2, JsonAssumption DEF IsJson
<1> QED
  BY <1>1, <1>2 DEF Field, Elements

LEMMA ElementsAre ==
  ASSUME NEW v \in Field
  PROVE  /\ Len(Elements(v)) \in Nat /\ DOMAIN Elements(v) = 1 .. Len(Elements(v))
         /\ \A n \in 1 .. Len(Elements(v)) : Elements(v)[n] \in Field
         /\ ToSet(Elements(v)) = {Elements(v)[n] : n \in 1 .. Len(Elements(v))}
         /\ Elements(v) = << >> <=> Len(Elements(v)) = 0
BY ElementsType DEF Field, ToSet

LEMMA NumberType ==
  ASSUME NEW v \in Field, IsNumber(v)
  PROVE  v = <<"number", v[2]>> /\ v[2] \in Int /\ v[2] =< Infinity
<1>1. v # Undefined
  BY DEF Undefined, IsNumber
<1>2. v \in Json
  BY <1>1 DEF Field
<1>3. v = <<v[1], v[2]>> /\ v[1] = "number"
  BY <1>2, JsonAssumption DEF IsJson, IsNumber
<1>4. v[2] \in Int /\ v[2] =< Infinity
  BY <1>2, <1>3, JsonAssumption DEF IsJson
<1> QED
  BY <1>3, <1>4

(* Outcomes.                                                               *)
Outcomes == {"skipped", "met", "failed", "throws"}

\* A check that is skipped or met says yes to a question, one that fails no,
\* and one that throws has a cause.
Decides(outcome, question, cause) ==
  /\ outcome \in Outcomes
  /\ outcome \in {"skipped", "met"} => question
  /\ outcome = "failed" => ~question
  /\ outcome = "throws" => cause

LEMMA SettledIs ==
  ASSUME NEW os, NEW k \in Nat, DOMAIN os = 1 .. k, \A n \in 1 .. k : os[n] \in Outcomes
  PROVE  \/ Settled(os) = "met" /\ \A n \in 1 .. k : os[n] \in {"skipped", "met"}
         \/ Settled(os) = "failed" /\ \E n \in 1 .. k : os[n] = "failed"
         \/ Settled(os) = "throws" /\ \E n \in 1 .. k : os[n] = "throws"
<1> DEFINE T == {n \in DOMAIN os : os[n] \in {"failed", "throws"}}
<1>1. Settled(os) = IF T = {} THEN "met" ELSE os[Min(T)]
  BY DEF Settled
<1>2. CASE T = {}
  BY <1>1, <1>2 DEF Outcomes
<1>3. CASE T # {}
  <2>1. T \subseteq Nat
    OBVIOUS
  <2>2. Min(T) \in T
    <3> HIDE DEF T
    <3> QED
      BY <1>3, <2>1, MinIs
  <2>3. Min(T) \in 1 .. k /\ os[Min(T)] \in {"failed", "throws"}
    BY <2>2
  <2> HIDE DEF T
  <2> QED
    BY <1>1, <1>3, <2>3
<1> QED
  BY <1>2, <1>3

(* The checks.                                                             *)
LEMMA CheckedList ==
  ASSUME NEW name, NEW list \in Seq(Json), NEW v
  PROVE  Decides(Whitelisted(name, list, v).outcome, Anyone(list, v), FALSE)
<1>1. Includes(list, v) <=> Truthy(v) /\ v[1] \notin {"array", "object"} /\ v \in ToSet(list)
  BY DEF Includes, Same, ToSet
<1> QED
  BY <1>1 DEF Whitelisted, Check, Trial, Decides, Outcomes, Anyone

LEMMA CheckedFloor ==
  ASSUME NEW name, NEW floor \in Field, NEW v \in Field
  PROVE  Decides(AtLeast(name, floor, v).outcome,
                 IsNumber(floor) => IsNumber(v) /\ ~(v[2] < floor[2]), FALSE)
<1>1. IsNumber(floor) /\ IsNumber(v) => (v[2] >= floor[2] <=> ~(v[2] < floor[2]))
  BY NumberType
<1> QED
  BY <1>1 DEF AtLeast, Check, Trial, Decides, Outcomes

LEMMA CheckedCeiling ==
  ASSUME NEW name, NEW ceiling \in Field, NEW v \in Field
  PROVE  Decides(AtMost(name, ceiling, v).outcome, Within(v, ceiling), FALSE)
<1>1. IsNumber(ceiling) /\ IsNumber(v) => (v[2] =< ceiling[2] <=> ~(v[2] > ceiling[2]))
  BY NumberType
<1> QED
  BY <1>1 DEF AtMost, Check, Trial, Decides, Outcomes, Within

\* The distance is asked for, and known.
Measured(i, p) == IsNumber(Get(i, "max_distance_km")) /\ Located(Get(i, "origin"))
                    /\ Located(Get(p, "location"))

LEMMA CheckedDistance ==
  ASSUME NEW i, NEW p
  PROVE  /\ Decides(WithinDistance(i, p).outcome, Near(i, p), FALSE)
         /\ WithinDistance(i, p).outcome = "skipped" <=> ~Measured(i, p)
         /\ WithinDistance(i, p).name = "within_max_distance_km"
BY DEF WithinDistance, Check, Trial, Decides, Outcomes, Near, Measured

LEMMA RoundTheClock ==
  ASSUME NEW m \in MinutesOfDay, NEW s \in MinutesOfDay, NEW e \in MinutesOfDay
  PROVE  minutesInWindow(m, s, e) <=> From(s, m) =< From(s, e)
BY DEF MinutesOfDay, minutesInWindow, From

LEMMA CheckedTime ==
  ASSUME NEW w, NEW at
  PROVE  Decides(WithinTimeWindow(w, at).outcome, InsideWindow(w, at), SpoiltWindow(w, at))
<1> DEFINE start == Get(w, "start")
           end == Get(w, "end")
           instant == IF Truthy(at) THEN at ELSE Undefined
           dated == instant \in Dates \cup {Undefined}
           unread == \/ instant \in Unprintable
                     \/ dated /\ (Zone(w) \notin Zones \/ start \in Unprintable
                                  \/ end \in Unprintable)
           inside == /\ dated /\ {start, end} \subseteq DOMAIN Hhmm
                     /\ minutesInWindow(Minute(instant, Zone(w)), Hhmm[start], Hhmm[end])
           round == /\ dated /\ {start, end} \subseteq DOMAIN Hhmm
                    /\ From(Hhmm[start], Minute(instant, Zone(w)))
                         =< From(Hhmm[start], Hhmm[end])
<1>1. WithinTimeWindow(w, at).outcome =
        IF ~Windowed(w) THEN "skipped" ELSE IF unread THEN "throws"
        ELSE IF inside THEN "met" ELSE "failed"
  BY DEF WithinTimeWindow, Trial
<1>2. InsideWindow(w, at) <=> (Windowed(w) => round)
  BY DEF InsideWindow
<1>3. unread /\ Windowed(w) => SpoiltWindow(w, at)
  <2>1. Undefined \notin Unprintable
    BY JsonAssumption DEF Undefined
  <2>2. instant \in Unprintable => at \in Unprintable
    BY <2>1
  <2> QED
    BY <2>2 DEF SpoiltWindow
<1>4. ~unread => (inside <=> round)
  <2> SUFFICES ASSUME ~unread, dated, {start, end} \subseteq DOMAIN Hhmm
               PROVE  minutesInWindow(Minute(instant, Zone(w)), Hhmm[start], Hhmm[end]) <=>
                        From(Hhmm[start], Minute(instant, Zone(w)))
                          =< From(Hhmm[start], Hhmm[end])
    OBVIOUS
  <2>1. instant \in Dates \cup {Undefined} /\ Zone(w) \in Zones
    OBVIOUS
  <2> HIDE DEF instant
  <2>2. Minute(instant, Zone(w)) \in MinutesOfDay
    BY <2>1, ClockAssumption
  <2>3. start \in DOMAIN Hhmm /\ end \in DOMAIN Hhmm
    OBVIOUS
  <2> HIDE DEF start, end
  <2>4. Hhmm[start] \in MinutesOfDay /\ Hhmm[end] \in MinutesOfDay
    BY <2>3, ClockAssumption
  <2> QED
    BY <2>2, <2>4, RoundTheClock
<1> HIDE DEF unread, inside, round
<1> QED
  BY <1>1, <1>2, <1>3, <1>4 DEF Decides, Outcomes

(* The matchers.                                                           *)
Outcome(checks) == Settled([n \in DOMAIN checks |-> checks[n].outcome])

Met(checks) == {c.name : c \in {d \in ToSet(checks) : d.outcome = "met"}}

LEMMA OutcomeIs ==
  ASSUME NEW checks, NEW k \in Nat, DOMAIN checks = 1 .. k,
         \A n \in 1 .. k : checks[n].outcome \in Outcomes
  PROVE  \/ Outcome(checks) = "met" /\ \A n \in 1 .. k : checks[n].outcome \in {"skipped", "met"}
         \/ Outcome(checks) = "failed" /\ \E n \in 1 .. k : checks[n].outcome = "failed"
         \/ Outcome(checks) = "throws" /\ \E n \in 1 .. k : checks[n].outcome = "throws"
<1> DEFINE os == [n \in DOMAIN checks |-> checks[n].outcome]
<1>1. DOMAIN os = 1 .. k /\ \A n \in 1 .. k : os[n] = checks[n].outcome
  OBVIOUS
<1>2. Outcome(checks) = Settled(os)
  BY DEF Outcome
<1> HIDE DEF os
<1> QED
  BY <1>1, <1>2, SettledIs

\* Of four checks, one that can throw.
LEMMA FourChecks ==
  ASSUME NEW a, NEW b, NEW c, NEW d,
         NEW asks, NEW spoils,
         a.outcome \in Outcomes, b.outcome \in Outcomes,
         c.outcome \in Outcomes, d.outcome \in Outcomes,
         "throws" \notin {a.outcome, b.outcome, d.outcome},
         c.outcome = "throws" => spoils,
         {a.outcome, b.outcome, c.outcome, d.outcome} \subseteq {"skipped", "met"} => asks,
         "failed" \in {a.outcome, b.outcome, c.outcome, d.outcome} => ~asks
  PROVE  /\ Decides(Outcome(<<a, b, c, d>>), asks, spoils)
         /\ Outcome(<<a, b, c, d>>) = "met" => b.outcome \in {"skipped", "met"}
<1> DEFINE cs == <<a, b, c, d>>
<1>1. /\ DOMAIN cs = 1 .. 4 /\ 1 .. 4 = {1, 2, 3, 4}
      /\ cs[1] = a /\ cs[2] = b /\ cs[3] = c /\ cs[4] = d
  OBVIOUS
<1> HIDE DEF cs
<1>2. \A n \in 1 .. 4 : cs[n].outcome \in Outcomes
  BY <1>1
<1>3. \/ Outcome(cs) = "met" /\ \A n \in 1 .. 4 : cs[n].outcome \in {"skipped", "met"}
      \/ Outcome(cs) = "failed" /\ \E n \in 1 .. 4 : cs[n].outcome = "failed"
      \/ Outcome(cs) = "throws" /\ \E n \in 1 .. 4 : cs[n].outcome = "throws"
  BY <1>1, <1>2, OutcomeIs
<1>4. CASE Outcome(cs) = "met"
  <2>1. {a.outcome, b.outcome, c.outcome, d.outcome} \subseteq {"skipped", "met"}
    BY <1>1, <1>3, <1>4
  <2>2. asks
    BY <2>1
  <2> QED
    BY <1>4, <2>1, <2>2 DEF Decides, Outcomes, cs
<1>5. CASE Outcome(cs) = "failed"
  <2>1. "failed" \in {a.outcome, b.outcome, c.outcome, d.outcome}
    BY <1>1, <1>3, <1>5
  <2> QED
    BY <1>5, <2>1 DEF Decides, Outcomes, cs
<1>6. CASE Outcome(cs) = "throws"
  <2>1. c.outcome = "throws"
    BY <1>1, <1>3, <1>6
  <2> QED
    BY <1>6, <2>1 DEF Decides, Outcomes, cs
<1> QED
  BY <1>3, <1>4, <1>5, <1>6

\* The distance is a reason when it was measured.
LEMMA DistanceMet ==
  ASSUME NEW a, NEW b, NEW c, NEW d,
         a.name # "within_max_distance_km", b.name = "within_max_distance_km",
         c.name # "within_max_distance_km", d.name # "within_max_distance_km",
         b.outcome \in {"skipped", "met"}
  PROVE  "within_max_distance_km" \notin Met(<<a, b, c, d>>) <=> b.outcome = "skipped"
<1>1. ToSet(<<a, b, c, d>>) = {a, b, c, d}
  BY DEF ToSet
<1> QED
  BY <1>1 DEF Met

LEMMA JudgedShift ==
  ASSUME NEW i \in Json, NEW p \in Json
  PROVE  /\ Decides(Outcome(KlokdShift(i, p)), AsksShift(i, p),
                    SpoiltWindow(Get(i, "time_window"), Get(p, "start_time")))
         /\ Outcome(KlokdShift(i, p)) = "met" =>
              ("within_max_distance_km" \notin Met(KlokdShift(i, p)) <=> ~Measured(i, p))
<1> DEFINE a == Whitelisted("category_in_whitelist", Elements(Get(i, "categories")),
                            Get(p, "category"))
           b == WithinDistance(i, p)
           c == WithinTimeWindow(Get(i, "time_window"), Get(p, "start_time"))
           d == AtLeast("min_pay_minor_met", Get(i, "min_pay_minor"), Get(p, "pay_minor"))
<1>1. i \in Field /\ p \in Field
  BY DEF Field
<1>2. Decides(a.outcome, Anyone(Elements(Get(i, "categories")), Get(p, "category")), FALSE)
  BY <1>1, FieldType, ElementsType, CheckedList
<1>3. Decides(b.outcome, Near(i, p), FALSE) /\ (b.outcome = "skipped" <=> ~Measured(i, p))
  BY CheckedDistance
<1>4. Decides(c.outcome, InsideWindow(Get(i, "time_window"), Get(p, "start_time")),
              SpoiltWindow(Get(i, "time_window"), Get(p, "start_time")))
  BY CheckedTime
<1>5. Decides(d.outcome,
              IsNumber(Get(i, "min_pay_minor")) =>
                IsNumber(Get(p, "pay_minor"))
                /\ ~(Get(p, "pay_minor")[2] < Get(i, "min_pay_minor")[2]), FALSE)
  BY <1>1, FieldType, CheckedFloor
<1>6. /\ a.name = "category_in_whitelist" /\ b.name = "within_max_distance_km"
      /\ c.name = "within_time_window" /\ d.name = "min_pay_minor_met"
  BY DEF Whitelisted, WithinDistance, WithinTimeWindow, AtLeast, Check, Trial
<1>7. KlokdShift(i, p) = <<a, b, c, d>>
  BY DEF KlokdShift
<1> HIDE DEF a, b, c, d
<1> DEFINE asks == AsksShift(i, p)
           spoils == SpoiltWindow(Get(i, "time_window"), Get(p, "start_time"))
<1>8. /\ a.outcome \in Outcomes /\ b.outcome \in Outcomes
      /\ c.outcome \in Outcomes /\ d.outcome \in Outcomes
      /\ "throws" \notin {a.outcome, b.outcome, d.outcome} /\ (c.outcome = "throws" => spoils)
  BY <1>2, <1>3, <1>4, <1>5 DEF Decides
<1>9. /\ {a.outcome, b.outcome, c.outcome, d.outcome} \subseteq {"skipped", "met"} => asks
      /\ "failed" \in {a.outcome, b.outcome, c.outcome, d.outcome} => ~asks
  BY <1>2, <1>3, <1>4, <1>5 DEF Decides, AsksShift
<1> HIDE DEF asks, spoils
<1>10. /\ Decides(Outcome(<<a, b, c, d>>), asks, spoils)
       /\ Outcome(<<a, b, c, d>>) = "met" => b.outcome \in {"skipped", "met"}
  BY <1>8, <1>9, FourChecks
<1>11. Outcome(<<a, b, c, d>>) = "met" =>
         ("within_max_distance_km" \notin Met(<<a, b, c, d>>) <=> ~Measured(i, p))
  BY <1>3, <1>6, <1>10, DistanceMet
<1> QED
  BY <1>7, <1>10, <1>11 DEF asks, spoils

LEMMA JudgedArrival ==
  ASSUME NEW i \in Json, NEW p \in Json
  PROVE  /\ Decides(Outcome(FreshArrivals(i, p)), AsksArrival(i, p),
                    SpoiltWindow(Get(i, "time_window"), Get(p, "arrived_at")))
         /\ Outcome(FreshArrivals(i, p)) = "met" =>
              ("within_max_distance_km" \notin Met(FreshArrivals(i, p)) <=> ~Measured(i, p))
<1> DEFINE a == Whitelisted("category_in_whitelist", Elements(Get(i, "categories")),
                            Get(p, "category"))
           b == WithinDistance(i, p)
           c == WithinTimeWindow(Get(i, "time_window"), Get(p, "arrived_at"))
           d == AtMost("within_max_price_minor", Get(i, "max_price_minor"), Get(p, "price_minor"))
<1>1. i \in Field /\ p \in Field
  BY DEF Field
<1>2. Decides(a.outcome, Anyone(Elements(Get(i, "categories")), Get(p, "category")), FALSE)
  BY <1>1, FieldType, ElementsType, CheckedList
<1>3. Decides(b.outcome, Near(i, p), FALSE) /\ (b.outcome = "skipped" <=> ~Measured(i, p))
  BY CheckedDistance
<1>4. Decides(c.outcome, InsideWindow(Get(i, "time_window"), Get(p, "arrived_at")),
              SpoiltWindow(Get(i, "time_window"), Get(p, "arrived_at")))
  BY CheckedTime
<1>5. Decides(d.outcome, Within(Get(p, "price_minor"), Get(i, "max_price_minor")), FALSE)
  BY <1>1, FieldType, CheckedCeiling
<1>6. /\ a.name = "category_in_whitelist" /\ b.name = "within_max_distance_km"
      /\ c.name = "within_time_window" /\ d.name = "within_max_price_minor"
  BY DEF Whitelisted, WithinDistance, WithinTimeWindow, AtMost, Check, Trial
<1>7. FreshArrivals(i, p) = <<a, b, c, d>>
  BY DEF FreshArrivals
<1> HIDE DEF a, b, c, d
<1> DEFINE asks == AsksArrival(i, p)
           spoils == SpoiltWindow(Get(i, "time_window"), Get(p, "arrived_at"))
<1>8. /\ a.outcome \in Outcomes /\ b.outcome \in Outcomes
      /\ c.outcome \in Outcomes /\ d.outcome \in Outcomes
      /\ "throws" \notin {a.outcome, b.outcome, d.outcome} /\ (c.outcome = "throws" => spoils)
  BY <1>2, <1>3, <1>4, <1>5 DEF Decides
<1>9. /\ {a.outcome, b.outcome, c.outcome, d.outcome} \subseteq {"skipped", "met"} => asks
      /\ "failed" \in {a.outcome, b.outcome, c.outcome, d.outcome} => ~asks
  BY <1>2, <1>3, <1>4, <1>5 DEF Decides, AsksArrival
<1> HIDE DEF asks, spoils
<1>10. /\ Decides(Outcome(<<a, b, c, d>>), asks, spoils)
       /\ Outcome(<<a, b, c, d>>) = "met" => b.outcome \in {"skipped", "met"}
  BY <1>8, <1>9, FourChecks
<1>11. Outcome(<<a, b, c, d>>) = "met" =>
         ("within_max_distance_km" \notin Met(<<a, b, c, d>>) <=> ~Measured(i, p))
  BY <1>3, <1>6, <1>10, DistanceMet
<1> QED
  BY <1>7, <1>10, <1>11 DEF asks, spoils

LEMMA JudgedGoal ==
  ASSUME NEW i \in Json, NEW p \in Json
  PROVE  Decides(Outcome(GoalAcceleration(i, p)), AsksGoal(i, p), FALSE)
<1> DEFINE cs == GoalAcceleration(i, p)
           goal == Get(i, "goal_id")
           paced == Get(p, "goal_id")
           alert == Get(i, "alert_when")
           signal == Get(p, "signal")
<1>1. Decides(cs[1].outcome, Anyone(<<goal>>, paced), FALSE)
  <2>1. Anyone(<<goal>>, paced) <=> Truthy(paced) /\ paced[1] \notin {"array", "object"} /\ paced = goal
    BY DEF Anyone, ToSet
  <2>2. cs[1] = Check("goal_id_match", TRUE, Truthy(goal) /\ Same(goal, paced))
    BY DEF GoalAcceleration
  <2>3. Truthy(goal) /\ Same(goal, paced) <=> Anyone(<<goal>>, paced)
    BY <2>1 DEF Same
  <2> HIDE DEF cs, goal, paced
  <2> QED
    BY <2>2, <2>3 DEF Decides, Check, Trial, Outcomes
<1>2. Decides(cs[2].outcome, Truthy(alert) => Anyone(<<alert>>, signal), FALSE)
  <2>1. Anyone(<<alert>>, signal) <=>
          Truthy(signal) /\ signal[1] \notin {"array", "object"} /\ signal = alert
    BY DEF Anyone, ToSet
  <2>2. cs[2] = Check("signal_match", Truthy(alert), Same(signal, alert))
    BY DEF GoalAcceleration
  <2>3. Truthy(alert) => (Same(signal, alert) <=> Anyone(<<alert>>, signal))
    BY <2>1 DEF Same
  <2> HIDE DEF cs, alert, signal
  <2> QED
    BY <2>2, <2>3 DEF Decides, Check, Trial, Outcomes
<1>3. AsksGoal(i, p) <=> Anyone(<<goal>>, paced) /\ (Truthy(alert) => Anyone(<<alert>>, signal))
  BY DEF AsksGoal
<1>4. DOMAIN cs = 1 .. 2 /\ 1 .. 2 = {1, 2}
  BY DEF GoalAcceleration
<1> HIDE DEF cs, goal, paced, alert, signal
<1>5. \A n \in 1 .. 2 : cs[n].outcome \in Outcomes
  BY <1>1, <1>2, <1>4 DEF Decides
<1>6. \/ Outcome(cs) = "met" /\ \A n \in 1 .. 2 : cs[n].outcome \in {"skipped", "met"}
      \/ Outcome(cs) = "failed" /\ \E n \in 1 .. 2 : cs[n].outcome = "failed"
      \/ Outcome(cs) = "throws" /\ \E n \in 1 .. 2 : cs[n].outcome = "throws"
  BY <1>4, <1>5, OutcomeIs
<1> QED
  BY <1>1, <1>2, <1>3, <1>4, <1>6 DEF Decides, Outcomes, cs

LEMMA JudgedGeneric ==
  ASSUME NEW i \in Json, NEW p \in Json, p[1] = "object"
  PROVE  Decides(Outcome(Generic(i, p)), AsksGeneric(i, p), FALSE)
<1> DEFINE match == Get(i, "match")
           covered == match[1] = "object" /\ payloadCovers(p[2], match[2])
           cs == Generic(i, p)
<1>1. match \in Field
  BY FieldType DEF Field
<1>2. ASSUME match[1] = "object"
      PROVE  payloadCovers(p[2], match[2]) <=> \A k \in DOMAIN match[2] : Get(p, k) = match[2][k]
  <2>1. match \in Json
    BY <1>1, <1>2 DEF Field, Undefined
  <2>2. match[2] \in [DOMAIN match[2] -> Json]
    BY <1>2, <2>1, JsonAssumption DEF IsJson
  <2>3. Undefined \notin Json
    BY JsonAssumption DEF IsJson, Undefined
  <2>4. ASSUME NEW k \in DOMAIN match[2]
        PROVE  Get(p, k) = match[2][k] <=> k \in DOMAIN p[2] /\ p[2][k] = match[2][k]
    <3>1. match[2][k] # Undefined
      BY <2>2, <2>3
    <3> QED
      BY <3>1 DEF Get
  <2> QED
    BY <2>4 DEF payloadCovers
<1>3. covered <=> AsksGeneric(i, p)
  BY <1>2 DEF AsksGeneric
<1>4. cs = <<Check("generic_key_equality", TRUE, covered)>>
  BY DEF Generic
<1> HIDE DEF covered, match
<1>5. cs[1].outcome = IF covered THEN "met" ELSE "failed"
  BY <1>4 DEF Check, Trial
<1>6. DOMAIN cs = 1 .. 1 /\ 1 .. 1 = {1}
  BY <1>4
<1> HIDE DEF cs
<1>7. \/ Outcome(cs) = "met" /\ cs[1].outcome \in {"skipped", "met"}
      \/ Outcome(cs) = "failed" /\ cs[1].outcome = "failed"
      \/ Outcome(cs) = "throws" /\ cs[1].outcome = "throws"
  BY <1>5, <1>6, OutcomeIs DEF Outcomes
<1> QED
  BY <1>3, <1>5, <1>7 DEF Decides, Outcomes, cs

LEMMA JudgedMenu ==
  ASSUME NEW ws \in Seq(Json), NEW items \in Seq(Json)
  PROVE  Decides(MenuOutcome(ws, items),
                 \E w \in ToSet(ws), item \in ToSet(items) :
                   IsString(Get(item, "name")) /\ Lower(w[2]) = Lower(Get(item, "name")[2]),
                 (\E w \in ToSet(ws) : ~IsString(w)) \/ Null \in ToSet(items))
<1> DEFINE wanted(item) == Wanted(ws, item)
           T == {n \in DOMAIN items : items[n] = Null \/ wanted(items[n])}
           hit == \E w \in ToSet(ws), item \in ToSet(items) :
                    IsString(Get(item, "name")) /\ Lower(w[2]) = Lower(Get(item, "name")[2])
           odd == \E w \in ToSet(ws) : ~IsString(w)
           strange == \E n \in DOMAIN ws : ~IsString(ws[n])
<1>1. ToSet(ws) = {ws[n] : n \in DOMAIN ws} /\ ToSet(items) = {items[n] : n \in DOMAIN items}
      /\ DOMAIN items \subseteq Nat
  BY DEF ToSet
<1>2. hit <=> \E n \in DOMAIN items : wanted(items[n])
  BY <1>1 DEF Wanted
<1>3. strange => odd
  BY <1>1
<1>4. MenuOutcome(ws, items) = IF strange THEN "throws" ELSE IF T = {} THEN "failed"
                               ELSE IF items[Min(T)] = Null THEN "throws" ELSE "met"
  BY DEF MenuOutcome
<1>5. T # {} => Min(T) \in T
  <2>1. T \subseteq Nat
    BY <1>1
  <2> HIDE DEF T
  <2> QED
    BY <2>1, MinIs
<1>6. T # {} => Min(T) \in DOMAIN items /\ (items[Min(T)] = Null \/ wanted(items[Min(T)]))
  BY <1>5
<1>7. T # {} /\ items[Min(T)] = Null => Null \in ToSet(items)
  BY <1>1, <1>6
<1>8. T # {} /\ items[Min(T)] # Null => hit
  BY <1>2, <1>6
<1>9. T = {} => ~hit
  BY <1>2
<1> HIDE DEF T, hit, odd, strange
<1> QED
  BY <1>3, <1>4, <1>7, <1>8, <1>9 DEF Decides, Outcomes, hit, odd

LEMMA MerchantsType ==
  ASSUME NEW i \in Json
  PROVE  Merchants(i) \in Seq(Json)
<1> DEFINE first == Get(i, "merchant_id")
           rest == Elements(Get(i, "fallback_merchant_ids"))
<1>1. first \in Field /\ rest \in Seq(Json)
  BY FieldType, ElementsType DEF Field
<1>2. ~Truthy(Undefined)
  BY Zenon DEF Truthy
<1>3. Truthy(first) => first \in Json
  BY <1>1, <1>2 DEF Field
<1>4. Merchants(i) = (IF Truthy(first) THEN <<first>> ELSE << >>) \o rest
  BY DEF Merchants
<1> HIDE DEF first, rest
<1>5. (IF Truthy(first) THEN <<first>> ELSE << >>) \in Seq(Json)
  BY <1>3
<1> QED
  BY <1>1, <1>4, <1>5

LEMMA JudgedPlan ==
  ASSUME NEW i \in Json, NEW p \in Json
  PROVE  Decides(Outcome(WeeklyPlan(i, p)), AsksPlan(i, p),
                 LET wishes == ToSet(Elements(Get(i, "menu_preference")))
                 IN \/ \E w \in wishes : ~IsString(w)
                    \/ wishes # {} /\ Null \in ToSet(Elements(Get(p, "items"))))
<1> DEFINE ws == Elements(Get(i, "menu_preference"))
           items == Elements(Get(p, "items"))
           menu == MenuOutcome(ws, items)
           cs == WeeklyPlan(i, p)
           hit == \E w \in ToSet(ws), item \in ToSet(items) :
                    IsString(Get(item, "name")) /\ Lower(w[2]) = Lower(Get(item, "name")[2])
           odd == \E w \in ToSet(ws) : ~IsString(w)
           torn == Null \in ToSet(items)
           merchant == Anyone(Merchants(i), Get(p, "merchant_id"))
           within == Within(Get(p, "total_minor"), Get(i, "max_per_order_minor"))
<1>1. i \in Field /\ p \in Field
  BY DEF Field
<1>2. ws \in Seq(Json) /\ items \in Seq(Json)
  BY <1>1, FieldType, ElementsType
<1>3. Decides(menu, hit, odd \/ torn)
  BY <1>2, JudgedMenu
<1>4. Decides(cs[1].outcome, merchant, FALSE)
  <2>1. cs[1] = Whitelisted("merchant", Merchants(i), Get(p, "merchant_id"))
    BY DEF WeeklyPlan
  <2> HIDE DEF cs
  <2> QED
    BY <2>1, MerchantsType, CheckedList
<1>5. Decides(cs[3].outcome, within, FALSE)
  <2>1. cs[3] = AtMost("within_max_per_order_minor", Get(i, "max_per_order_minor"),
                       Get(p, "total_minor"))
    BY DEF WeeklyPlan
  <2> HIDE DEF cs
  <2> QED
    BY <1>1, <2>1, FieldType, CheckedCeiling
<1>6. cs[2].outcome = IF ws = << >> THEN "skipped" ELSE IF menu = "throws" THEN "throws"
                      ELSE IF menu = "met" THEN "met" ELSE "failed"
  <2>1. cs[2] = Trial("menu_preference_hit", ws # << >>, menu = "throws", menu = "met")
    BY DEF WeeklyPlan
  <2> HIDE DEF cs, ws, menu
  <2> QED
    BY <2>1 DEF Trial
<1>7. AsksPlan(i, p) <=> merchant /\ (ws # << >> => hit) /\ within
  BY DEF AsksPlan
<1>8. ws # << >> => ToSet(ws) # {}
  <2> HIDE DEF ws
  <2>1. ws # << >> => 1 \in DOMAIN ws
    BY <1>2
  <2> QED
    BY <2>1 DEF ToSet
<1>9. DOMAIN cs = 1 .. 3 /\ 1 .. 3 = {1, 2, 3}
  BY DEF WeeklyPlan
<1>10. menu # "skipped"
  BY DEF MenuOutcome
<1> HIDE DEF cs, hit, merchant, within, menu, ws, items, odd, torn
<1>11. Decides(cs[2].outcome, ws # << >> => hit, ws # << >> /\ (odd \/ torn))
  BY <1>3, <1>6, <1>10 DEF Decides, Outcomes
<1>12. \A n \in 1 .. 3 : cs[n].outcome \in Outcomes
  BY <1>4, <1>5, <1>9, <1>11 DEF Decides
<1>13. \/ Outcome(cs) = "met" /\ \A n \in 1 .. 3 : cs[n].outcome \in {"skipped", "met"}
       \/ Outcome(cs) = "failed" /\ \E n \in 1 .. 3 : cs[n].outcome = "failed"
       \/ Outcome(cs) = "throws" /\ \E n \in 1 .. 3 : cs[n].outcome = "throws"
  BY <1>9, <1>12, OutcomeIs
<1>14. Decides(Outcome(cs), AsksPlan(i, p), ws # << >> /\ (odd \/ torn))
  <2>1. CASE Outcome(cs) = "met"
    BY <1>4, <1>5, <1>7, <1>9, <1>11, <1>13, <2>1 DEF Decides, Outcomes
  <2>2. CASE Outcome(cs) = "failed"
    BY <1>4, <1>5, <1>7, <1>9, <1>11, <1>13, <2>2 DEF Decides, Outcomes
  <2>3. CASE Outcome(cs) = "throws"
    BY <1>4, <1>5, <1>9, <1>11, <1>13, <2>3 DEF Decides, Outcomes
  <2> QED
    BY <1>13, <2>1, <2>2, <2>3
<1>15. ws # << >> /\ (odd \/ torn) =>
         \/ \E w \in ToSet(ws) : ~IsString(w)
         \/ ToSet(ws) # {} /\ Null \in ToSet(items)
  BY <1>8 DEF odd, torn
<1> QED
  BY <1>14, <1>15 DEF Decides, cs, ws, items

LEMMA UnitType ==
  ASSUME NEW i \in Json
  PROVE  Unit(i) \in Nat \ {0}
<1>1. Get(i, "round_unit_minor") \in Field
  BY FieldType DEF Field
<1> QED
  BY <1>1, NumberType, UnitAssumption DEF Unit

LEMMA JudgedRoundUp ==
  ASSUME NEW i \in Json, NEW p \in Json, Debit(p) # <<"number", Infinity>>
  PROVE  /\ Decides(Outcome(RoundUpOffer(i, p)), AsksRoundUp(i, p), FALSE)
         /\ Outcome(RoundUpOffer(i, p)) = "met" => RoundUp(i, p) = Missing(Debit(p)[2], Unit(i))
<1> DEFINE u == Unit(i)
           a == Debit(p)[2]
           r == Unrounded(i, p)
           m == Missing(a, u)
           least == Get(i, "min_unrounded_minor")
           most == Get(i, "max_round_up_minor")
           cs == RoundUpOffer(i, p)
<1>1. u \in Nat \ {0}
  BY UnitType
<1>2. Debit(p) \in Field /\ least \in Field /\ most \in Field
  BY FieldType DEF Field, Debit
<1>3. CASE ~IsNumber(Debit(p)) \/ a =< 0
  <2>1. cs = <<Check("amount", TRUE, FALSE)>>
    BY <1>3 DEF RoundUpOffer
  <2>2. cs[1].outcome = "failed" /\ DOMAIN cs = 1 .. 1 /\ 1 .. 1 = {1}
    BY <2>1 DEF Check, Trial
  <2>3. IsNumber(Debit(p)) => a \in Int
    BY <1>2, NumberType
  <2>4. ~AsksRoundUp(i, p)
    BY <1>3, <2>3 DEF AsksRoundUp
  <2> HIDE DEF cs
  <2>5. Outcome(cs) = "failed"
    <3>1. \A n \in 1 .. 1 : cs[n].outcome \in Outcomes
      BY <2>2 DEF Outcomes
    <3>2. \/ Outcome(cs) = "met" /\ \A n \in 1 .. 1 : cs[n].outcome \in {"skipped", "met"}
          \/ Outcome(cs) = "failed" /\ \E n \in 1 .. 1 : cs[n].outcome = "failed"
          \/ Outcome(cs) = "throws" /\ \E n \in 1 .. 1 : cs[n].outcome = "throws"
      BY <2>2, <3>1, OutcomeIs
    <3> QED
      BY <2>2, <3>2
  <2> QED
    BY <2>4, <2>5 DEF Decides, Outcomes, cs
<1>4. CASE IsNumber(Debit(p)) /\ ~(a =< 0)
  <2>1. a \in Int /\ a > 0 /\ a # Infinity
    BY <1>2, <1>4, NumberType
  <2>2. r = a % u /\ RoundUp(i, p) = u - r
    BY DEF Unrounded, RoundUp
  <2>3. r \in Int /\ 0 =< r /\ r < u /\ u \in Int
    BY <1>1, <2>1, <2>2, DivMod
  <2>4. (r = 0 => m = 0) /\ (r # 0 => m = u - r)
    BY <1>1, <2>1, <2>2, MissingIs
  <2>5. cs = <<Check("round_up_positive", TRUE, a = Infinity \/ r # 0),
               Check("min_unrounded_minor_met", IsNumber(least), a = Infinity \/ r >= least[2]),
               Check("within_max_round_up_minor", IsNumber(most),
                     a = Infinity \/ RoundUp(i, p) =< most[2])>>
    BY <1>4 DEF RoundUpOffer
  <2>6. AsksRoundUp(i, p) <=>
          /\ m > 0 /\ Within(<<"number", m>>, most)
          /\ IsNumber(least) => u >= m + least[2]
    BY <1>4, <2>1 DEF AsksRoundUp
  <2>7. IsNumber(least) => least[2] \in Int
    BY <1>2, NumberType
  <2>8. IsNumber(most) => most[2] \in Int
    BY <1>2, NumberType
  <2>9. Within(<<"number", m>>, most) <=> (IsNumber(most) => ~(m > most[2]))
    BY DEF Within, IsNumber
  <2> HIDE DEF a, u, r, m, least, most, cs
  <2>10. DOMAIN cs = 1 .. 3 /\ 1 .. 3 = {1, 2, 3}
    BY <2>5
  <2>11. /\ cs[1].outcome = IF r # 0 THEN "met" ELSE "failed"
         /\ cs[2].outcome = IF ~IsNumber(least) THEN "skipped"
                            ELSE IF r >= least[2] THEN "met" ELSE "failed"
         /\ cs[3].outcome = IF ~IsNumber(most) THEN "skipped"
                            ELSE IF u - r =< most[2] THEN "met" ELSE "failed"
    BY <2>1, <2>2, <2>5 DEF Check, Trial
  <2>12. \A n \in 1 .. 3 : cs[n].outcome \in Outcomes
    BY <2>10, <2>11 DEF Outcomes
  <2>13. \/ Outcome(cs) = "met" /\ \A n \in 1 .. 3 : cs[n].outcome \in {"skipped", "met"}
         \/ Outcome(cs) = "failed" /\ \E n \in 1 .. 3 : cs[n].outcome = "failed"
         \/ Outcome(cs) = "throws" /\ \E n \in 1 .. 3 : cs[n].outcome = "throws"
    BY <2>10, <2>12, OutcomeIs
  <2>14. Outcome(cs) # "throws"
    BY <2>10, <2>11, <2>13
  <2>15. Outcome(cs) = "met" => AsksRoundUp(i, p) /\ RoundUp(i, p) = m
    <3> SUFFICES ASSUME Outcome(cs) = "met" PROVE AsksRoundUp(i, p) /\ RoundUp(i, p) = m
      OBVIOUS
    <3>1. r # 0 /\ (IsNumber(least) => r >= least[2]) /\ (IsNumber(most) => u - r =< most[2])
      BY <2>10, <2>11, <2>13
    <3> QED
      BY <2>2, <2>3, <2>4, <2>6, <2>7, <2>8, <2>9, <3>1
  <2>16. Outcome(cs) = "failed" => ~AsksRoundUp(i, p)
    <3> SUFFICES ASSUME Outcome(cs) = "failed" PROVE ~AsksRoundUp(i, p)
      OBVIOUS
    <3>1. r = 0 \/ (IsNumber(least) /\ ~(r >= least[2])) \/ (IsNumber(most) /\ ~(u - r =< most[2]))
      BY <2>10, <2>11, <2>13
    <3> QED
      BY <2>3, <2>4, <2>6, <2>7, <2>8, <2>9, <3>1
  <2> QED
    BY <2>13, <2>14, <2>15, <2>16 DEF Decides, Outcomes, cs, a, u, m
<1> QED
  BY <1>3, <1>4

(* Baskets.                                                                *)
LEMMA ByKeyIs ==
  ASSUME NEW items \in Seq(Json), NEW key, key \notin DOMAIN Inherited(<< >>),
         Naming(items, "__proto__") = {}
  PROVE  /\ key \in DOMAIN byKey(items) <=> Naming(items, key) # {}
         /\ Naming(items, key) # {} => byKey(items)[key] = Ceiling(items[Max(Naming(items, key))])
<1> DEFINE T == {n \in DOMAIN items : Truthy(Sku(items[n]))}
           own == {Text(Sku(items[n])) : n \in T} \ {"__proto__"}
           given == [n \in Naming(items, "__proto__") |-> Ceiling(items[n])]
           last(k) == Ceiling(items[Max(Naming(items, k))])
<1>1. given = << >>
  OBVIOUS
<1>2. byKey(items) = [k \in own \cup DOMAIN Inherited(<< >>) |->
                        IF k \in own THEN last(k) ELSE Inherited(<< >>)[k]]
  <2>1. byKey(items) = [k \in own \cup DOMAIN Inherited(given) |->
                          IF k \in own THEN last(k) ELSE Inherited(given)[k]]
    BY DEF byKey
  <2> HIDE DEF given, own, last
  <2> QED
    BY <1>1, <2>1
<1>3. key \in own <=> Naming(items, key) # {}
  BY DEF Naming
<1> HIDE DEF own, last
<1>4. key \in DOMAIN byKey(items) <=> key \in own
  BY <1>2
<1>5. key \in own => byKey(items)[key] = last(key)
  BY <1>2
<1> QED
  BY <1>3, <1>4, <1>5 DEF last

LEMMA EntryIs ==
  ASSUME NEW items \in Seq(Json), NEW line, Truthy(Sku(line))
  PROVE  LET T == Naming(items, Text(Sku(line)))
         IN EntryFor(items, line) = IF T = {} THEN {} ELSE {items[Max(T)]}
<1> DEFINE key == Text(Sku(line))
           T == Naming(items, key)
           named(k) == Truthy(Sku(items[k])) /\ Text(Sku(items[k])) = key
           N == {k \in 1 .. Len(items) : named(k) /\ \A l \in k + 1 .. Len(items) : ~named(l)}
<1>1. EntryFor(items, line) = {items[k] : k \in N}
  BY DEF EntryFor
<1>2. Len(items) \in Nat /\ DOMAIN items = 1 .. Len(items)
  OBVIOUS
<1>3. T = {k \in 1 .. Len(items) : named(k)}
  BY <1>2 DEF Naming
<1>4. T \subseteq 1 .. Len(items)
  BY <1>3
<1> HIDE DEF T
<1>5. T # {} => Max(T) \in T /\ \A y \in T : y =< Max(T)
  BY <1>2, <1>4, MaxIs
<1>6. T = {} => N = {}
  BY <1>3
<1>7. ASSUME T # {} PROVE N = {Max(T)}
  <2> DEFINE m == Max(T)
  <2>1. m \in 1 .. Len(items) /\ named(m) /\ \A y \in T : y =< m
    BY <1>3, <1>5, <1>7
  <2> HIDE DEF m
  <2>2. ASSUME NEW l \in m + 1 .. Len(items) PROVE ~named(l)
    <3>1. l \in 1 .. Len(items) /\ ~(l =< m)
      BY <1>2, <2>1
    <3> HIDE DEF named
    <3> QED
      BY <1>3, <2>1, <3>1
  <2>3. m \in N
    BY <2>1, <2>2
  <2>4. ASSUME NEW k \in N PROVE k = m
    <3>1. k \in T /\ k \in 1 .. Len(items) /\ \A l \in k + 1 .. Len(items) : ~named(l)
      BY <1>3, <2>4
    <3>2. k =< m
      BY <2>1, <3>1
    <3>3. m \notin k + 1 .. Len(items)
      BY <2>1, <3>1
    <3> HIDE DEF named, N
    <3> QED
      BY <1>2, <2>1, <3>1, <3>2, <3>3
  <2> HIDE DEF N
  <2> QED
    BY <2>3, <2>4 DEF m
<1> HIDE DEF N
<1> QED
  BY <1>1, <1>6, <1>7 DEF T

LEMMA JudgedLine ==
  ASSUME NEW items \in Seq(Json), NEW line \in Json,
         Truthy(Sku(line)) => Text(Sku(line)) \notin DOMAIN Inherited(<< >>),
         Naming(items, "__proto__") = {}
  PROVE  Decides(LineOutcome(line, byKey(items)),
                 \E e \in EntryFor(items, line) : Within(Get(line, "price_minor"), Ceiling(e)),
                 Unreadable(line))
<1> DEFINE key == Text(Sku(line))
           T == Naming(items, key)
           price == Get(line, "price_minor")
           last == items[Max(T)]
           asked == \E e \in EntryFor(items, line) : Within(price, Ceiling(e))
<1>1. CASE ~Truthy(Sku(line))
  <2>1. EntryFor(items, line) = {}
    BY <1>1 DEF EntryFor
  <2>2. LineOutcome(line, byKey(items)) \in {"throws", "failed"}
        /\ (LineOutcome(line, byKey(items)) = "throws" => Unreadable(line))
    BY <1>1 DEF LineOutcome
  <2> QED
    BY <2>1, <2>2 DEF Decides, Outcomes
<1>2. CASE Truthy(Sku(line))
  <2>1. /\ key \in DOMAIN byKey(items) <=> T # {}
        /\ T # {} => byKey(items)[key] = Ceiling(last)
    BY <1>2, ByKeyIs
  <2>2. EntryFor(items, line) = IF T = {} THEN {} ELSE {last}
    BY <1>2, EntryIs
  <2>3. LineOutcome(line, byKey(items)) =
          IF Unreadable(line) THEN "throws"
          ELSE IF key \in DOMAIN byKey(items) /\ UnderCeiling(price, byKey(items)[key])
          THEN "met" ELSE "failed"
    BY <1>2 DEF LineOutcome
  <2> HIDE DEF key, T, last, price
  <2>4. T # {} => (UnderCeiling(price, Ceiling(last)) <=> Within(price, Ceiling(last)))
    <3> SUFFICES ASSUME T # {}
                 PROVE  UnderCeiling(price, Ceiling(last)) <=> Within(price, Ceiling(last))
      OBVIOUS
    <3>1. last \in Field
      <4>1. DOMAIN items = 1 .. Len(items) /\ Len(items) \in Nat
        OBVIOUS
      <4>2. T \subseteq 1 .. Len(items)
        BY <4>1 DEF T, Naming
      <4>3. Max(T) \in 1 .. Len(items)
        BY <4>1, <4>2, MaxIs
      <4> QED
        BY <4>3 DEF last, Field
    <3>2. Ceiling(last) \in Field /\ price \in Field
      BY <3>1, FieldType DEF Field, Ceiling, price
    <3>3. IsNumber(Ceiling(last)) /\ IsNumber(price) =>
            (price[2] =< Ceiling(last)[2] <=> ~(price[2] > Ceiling(last)[2]))
      BY <3>2, NumberType
    <3> QED
      BY <3>3 DEF UnderCeiling, Within
  <2> QED
    BY <2>1, <2>2, <2>3, <2>4 DEF Decides, Outcomes, price
<1> QED
  BY <1>1, <1>2

\* No line has a SKU every object has, and no entry changes the table.
Plain(items, lines) ==
  /\ \A line \in ToSet(lines) :
       Truthy(Sku(line)) => Text(Sku(line)) \notin DOMAIN Inherited(<< >>)
  /\ \A e \in ToSet(items) : Truthy(Sku(e)) => Text(Sku(e)) # "__proto__"

AllowedLines(items, lines) ==
  \A line \in ToSet(lines) :
    \E e \in EntryFor(items, line) : Within(Get(line, "price_minor"), Ceiling(e))

LEMMA JudgedLines ==
  ASSUME NEW items \in Seq(Json), NEW lines \in Seq(Json)
  PROVE  /\ LinesOutcome(items, lines) \in Outcomes \ {"skipped"}
         /\ LinesOutcome(items, lines) = "throws" =>
              \/ \E e \in ToSet(items) : Unreadable(e)
              \/ \E line \in ToSet(lines) : Unreadable(line)
         /\ Plain(items, lines) =>
              /\ LinesOutcome(items, lines) = "met" => AllowedLines(items, lines)
              /\ LinesOutcome(items, lines) = "failed" => ~AllowedLines(items, lines)
<1> DEFINE os == [n \in DOMAIN lines |-> LineOutcome(lines[n], byKey(items))]
           asked(line) ==
             \E e \in EntryFor(items, line) : Within(Get(line, "price_minor"), Ceiling(e))
<1>1. /\ Len(lines) \in Nat /\ DOMAIN lines = 1 .. Len(lines)
      /\ \A n \in 1 .. Len(lines) : lines[n] \in Json /\ lines[n] \in ToSet(lines)
      /\ \A line \in ToSet(lines) : \E n \in 1 .. Len(lines) : line = lines[n]
  BY DEF ToSet
<1>2. DOMAIN os = 1 .. Len(lines)
      /\ \A n \in 1 .. Len(lines) : os[n] = LineOutcome(lines[n], byKey(items))
  BY <1>1
<1>3. LinesOutcome(items, lines) =
        IF \E n \in DOMAIN items : Unreadable(items[n]) THEN "throws" ELSE Settled(os)
  BY DEF LinesOutcome
<1> HIDE DEF os
<1>4. \A n \in 1 .. Len(lines) :
        /\ os[n] \in Outcomes \ {"skipped"}
        /\ os[n] = "throws" => Unreadable(lines[n])
  BY <1>2 DEF LineOutcome, Outcomes
<1>5. \/ Settled(os) = "met" /\ \A n \in 1 .. Len(lines) : os[n] \in {"skipped", "met"}
      \/ Settled(os) = "failed" /\ \E n \in 1 .. Len(lines) : os[n] = "failed"
      \/ Settled(os) = "throws" /\ \E n \in 1 .. Len(lines) : os[n] = "throws"
  BY <1>1, <1>2, <1>4, SettledIs
<1>6. (\E n \in DOMAIN items : Unreadable(items[n])) => \E e \in ToSet(items) : Unreadable(e)
  BY DEF ToSet
<1>7. ASSUME Plain(items, lines), NEW n \in 1 .. Len(lines)
      PROVE  Decides(os[n], asked(lines[n]), Unreadable(lines[n]))
  <2>1. Naming(items, "__proto__") = {}
    BY <1>7 DEF Plain, Naming, ToSet
  <2>2. Truthy(Sku(lines[n])) => Text(Sku(lines[n])) \notin DOMAIN Inherited(<< >>)
    BY <1>1, <1>7 DEF Plain
  <2> QED
    BY <1>1, <1>2, <2>1, <2>2, JudgedLine
<1>8. AllowedLines(items, lines) <=> \A n \in 1 .. Len(lines) : asked(lines[n])
  BY <1>1 DEF AllowedLines
<1> HIDE DEF asked
<1>9. LinesOutcome(items, lines) \in Outcomes \ {"skipped"}
  BY <1>3, <1>5 DEF Outcomes
<1>10. LinesOutcome(items, lines) = "throws" =>
         \/ \E e \in ToSet(items) : Unreadable(e)
         \/ \E line \in ToSet(lines) : Unreadable(line)
  BY <1>1, <1>3, <1>4, <1>5, <1>6
<1>11. ASSUME Plain(items, lines), LinesOutcome(items, lines) = "met"
       PROVE  AllowedLines(items, lines)
  BY <1>3, <1>5, <1>7, <1>8, <1>11 DEF Decides
<1>12. ASSUME Plain(items, lines), LinesOutcome(items, lines) = "failed"
       PROVE  ~AllowedLines(items, lines)
  BY <1>3, <1>5, <1>7, <1>8, <1>12 DEF Decides
<1> QED
  BY <1>9, <1>10, <1>11, <1>12

LEMMA JudgedBasket ==
  ASSUME NEW i \in Json, NEW p \in Json
  PROVE  LET items == Elements(Get(i, "items"))
             lines == Elements(Get(p, "line_items"))
             spoils == \/ \E e \in ToSet(items) : Unreadable(e)
                       \/ ToSet(items) # {} /\ \E line \in ToSet(lines) : Unreadable(line)
         IN \E asks \in BOOLEAN :
              /\ Decides(Outcome(BasketRefill(i, p)), asks, spoils)
              /\ Plain(items, lines) => (asks <=> AsksBasket(i, p))
<1> DEFINE items == Elements(Get(i, "items"))
           lines == Elements(Get(p, "line_items"))
           o == LinesOutcome(items, lines)
           spoils == \/ \E e \in ToSet(items) : Unreadable(e)
                     \/ ToSet(items) # {} /\ \E line \in ToSet(lines) : Unreadable(line)
           a == Whitelisted("merchant_in_allowlist", Elements(Get(i, "merchant_ids")),
                            Get(p, "merchant_id"))
           b == Check("lines", lines = << >>, FALSE)
           c == Trial("all_lines_approved", items # << >>, o = "throws", o = "met")
           d == AtMost("within_max_total_minor", Get(i, "max_total_minor"), Get(p, "total_minor"))
           merchant == Anyone(Elements(Get(i, "merchant_ids")), Get(p, "merchant_id"))
           within == Within(Get(p, "total_minor"), Get(i, "max_total_minor"))
           allowed == AllowedLines(items, lines)
           plain == Plain(items, lines)
<1>1. i \in Field /\ p \in Field
  BY DEF Field
<1>2. items \in Seq(Json) /\ lines \in Seq(Json)
  BY <1>1, FieldType, ElementsType
<1>3. Decides(a.outcome, merchant, FALSE)
  BY <1>1, FieldType, ElementsType, CheckedList
<1>4. Decides(d.outcome, within, FALSE)
  BY <1>1, FieldType, CheckedCeiling
<1>5. BasketRefill(i, p) = <<a, b, c, d>>
  BY DEF BasketRefill
<1>6. b.outcome = IF lines = << >> THEN "failed" ELSE "skipped"
  BY DEF Check, Trial
<1>7. c.outcome = IF items = << >> THEN "skipped" ELSE IF o = "throws" THEN "throws"
                  ELSE IF o = "met" THEN "met" ELSE "failed"
  BY DEF Trial
<1>8. AsksBasket(i, p) <=> merchant /\ lines # << >> /\ (items # << >> => allowed) /\ within
  BY DEF AsksBasket, AllowedLines
<1>9. /\ o \in Outcomes \ {"skipped"}
      /\ plain => (o = "met" => allowed) /\ (o = "failed" => ~allowed)
  BY <1>2, JudgedLines
<1>10. o = "throws" /\ items # << >> => spoils
  <2>1. o = "throws" => \/ \E e \in ToSet(items) : Unreadable(e)
                        \/ \E line \in ToSet(lines) : Unreadable(line)
    BY <1>2, JudgedLines
  <2>2. items # << >> => ToSet(items) # {}
    <3> HIDE DEF items
    <3>1. items # << >> => 1 \in DOMAIN items
      BY <1>2
    <3> QED
      BY <3>1 DEF ToSet
  <2> QED
    BY <2>1, <2>2
<1> HIDE DEF a, b, c, d, o, items, lines, spoils, merchant, within, allowed, plain
<1> DEFINE all == {a.outcome, b.outcome, c.outcome, d.outcome}
<1>11. /\ a.outcome \in Outcomes /\ b.outcome \in Outcomes
       /\ c.outcome \in Outcomes /\ d.outcome \in Outcomes
       /\ "throws" \notin {a.outcome, b.outcome, d.outcome} /\ (c.outcome = "throws" => spoils)
  BY <1>3, <1>4, <1>6, <1>7, <1>10 DEF Decides, Outcomes
<1>12. plain => /\ all \subseteq {"skipped", "met"} => AsksBasket(i, p)
                /\ "failed" \in all => ~AsksBasket(i, p)
  BY <1>3, <1>4, <1>6, <1>7, <1>8, <1>9 DEF Decides, Outcomes
<1> DEFINE question == IF plain THEN AsksBasket(i, p) ELSE "failed" \notin all
<1>13. (all \subseteq {"skipped", "met"} => question) /\ ("failed" \in all => ~question)
  BY <1>12
<1> HIDE DEF question
<1>14. Decides(Outcome(<<a, b, c, d>>), question, spoils)
  BY <1>11, <1>13, FourChecks
<1>15. question \in BOOLEAN
  BY DEF question, AsksBasket
<1>16. Plain(items, lines) => (question <=> AsksBasket(i, p))
  BY DEF question, plain
<1> QED
  BY <1>5, <1>14, <1>15, <1>16 DEF items, lines, spoils

(* The engine.                                                             *)
LEMMA NotSkipped ==
  ASSUME NEW checks, DOMAIN checks \subseteq Nat
  PROVE  Outcome(checks) # "skipped"
<1> DEFINE os == [n \in DOMAIN checks |-> checks[n].outcome]
           T == {n \in DOMAIN os : os[n] \in {"failed", "throws"}}
<1>1. Outcome(checks) = IF T = {} THEN "met" ELSE os[Min(T)]
  BY DEF Outcome, Settled
<1>2. T \subseteq Nat
  OBVIOUS
<1>3. T # {} => Min(T) \in T
  <2> HIDE DEF T
  <2> QED
    BY <1>2, MinIs
<1>4. T # {} => os[Min(T)] # "skipped"
  BY <1>3
<1> HIDE DEF T, os
<1> QED
  BY <1>1, <1>4

\* Whose checks are made, by domain.
LEMMA ChecksAre ==
  ASSUME NEW i, NEW p
  PROVE  /\ DomainIs(i, "klokd.shift_search") =>
              Checks(i, p) = KlokdShift(i, p) /\ (Asks(i, p) <=> AsksShift(i, p))
         /\ DomainIs(i, "lunchdrop.weekly_plan") =>
              Checks(i, p) = WeeklyPlan(i, p) /\ (Asks(i, p) <=> AsksPlan(i, p))
         /\ DomainIs(i, "chapaa.round_up_offer") =>
              Checks(i, p) = RoundUpOffer(i, p) /\ (Asks(i, p) <=> AsksRoundUp(i, p))
         /\ DomainIs(i, "chapaa.goal_acceleration") =>
              Checks(i, p) = GoalAcceleration(i, p) /\ (Asks(i, p) <=> AsksGoal(i, p))
         /\ DomainIs(i, "family_discovery.fresh_arrivals") =>
              Checks(i, p) = FreshArrivals(i, p) /\ (Asks(i, p) <=> AsksArrival(i, p))
         /\ DomainIs(i, "family_discovery.basket_auto_refill") =>
              Checks(i, p) = BasketRefill(i, p) /\ (Asks(i, p) <=> AsksBasket(i, p))
         /\ (\A d \in Domains : ~DomainIs(i, d)) =>
              Checks(i, p) = Generic(i, p) /\ (Asks(i, p) <=> AsksGeneric(i, p))
<1> DEFINE domain == Get(i, "domain")[2]
<1>1. \A d \in Domains : DomainIs(i, d) => domain = d
  BY DEF DomainIs
<1>2. \A d \in Domains, e \in Domains : DomainIs(i, d) /\ DomainIs(i, e) => d = e
  BY <1>1
<1> QED
  BY <1>2 DEF Checks, Asks, Domains

LEMMA ChecksListed ==
  ASSUME NEW i, NEW p
  PROVE  DOMAIN Checks(i, p) \subseteq Nat
<1>1. /\ DOMAIN KlokdShift(i, p) \subseteq Nat /\ DOMAIN WeeklyPlan(i, p) \subseteq Nat
      /\ DOMAIN RoundUpOffer(i, p) \subseteq Nat /\ DOMAIN GoalAcceleration(i, p) \subseteq Nat
      /\ DOMAIN FreshArrivals(i, p) \subseteq Nat /\ DOMAIN BasketRefill(i, p) \subseteq Nat
      /\ DOMAIN Generic(i, p) \subseteq Nat
  BY DEF KlokdShift, WeeklyPlan, RoundUpOffer, GoalAcceleration, FreshArrivals,
         BasketRefill, Generic
<1> QED
  BY <1>1, ChecksAre DEF Domains

\* What a verdict says of an intent and a payload.
Judged(i, p) ==
  /\ Verdict(i, p) \in {"met", "failed", "throws", "stray"}
  /\ ~Misread(i, p) => /\ Verdict(i, p) = "met" => Asks(i, p)
                       /\ Verdict(i, p) = "failed" => ~Asks(i, p)
  /\ Verdict(i, p) \in {"throws", "stray"} => Spoils(i, p)

LEMMA RoundUpNeverThrows ==
  ASSUME NEW i, NEW p
  PROVE  Outcome(RoundUpOffer(i, p)) \in {"met", "failed"}
<1> DEFINE cs == RoundUpOffer(i, p)
<1>1. \E k \in Nat : /\ DOMAIN cs = 1 .. k
                    /\ \A n \in 1 .. k : cs[n].outcome \in {"skipped", "met", "failed"}
  <2>1. CASE ~IsNumber(Debit(p)) \/ Debit(p)[2] =< 0
    <3>1. cs = <<Check("amount", TRUE, FALSE)>>
      BY <2>1 DEF RoundUpOffer
    <3>2. DOMAIN cs = 1 .. 1 /\ 1 .. 1 = {1} /\ cs[1] = Check("amount", TRUE, FALSE)
      BY <3>1
    <3> HIDE DEF cs
    <3> QED
      BY <3>2 DEF Check, Trial
  <2>2. CASE ~(~IsNumber(Debit(p)) \/ Debit(p)[2] =< 0)
    <3>1. DOMAIN cs = 1 .. 3 /\ 1 .. 3 = {1, 2, 3}
      BY <2>2 DEF RoundUpOffer
    <3>2. \A n \in {1, 2, 3} : cs[n].outcome \in {"skipped", "met", "failed"}
      BY <2>2 DEF RoundUpOffer, Check, Trial
    <3> HIDE DEF cs
    <3> QED
      BY <3>1, <3>2
  <2> QED
    BY <2>1, <2>2
<1>2. PICK k \in Nat : /\ DOMAIN cs = 1 .. k
                      /\ \A n \in 1 .. k : cs[n].outcome \in {"skipped", "met", "failed"}
  BY <1>1
<1> HIDE DEF cs
<1>3. \A n \in 1 .. k : cs[n].outcome \in Outcomes
  BY <1>2 DEF Outcomes
<1>4. \/ Outcome(cs) = "met" \/ Outcome(cs) = "failed"
      \/ Outcome(cs) = "throws" /\ \E n \in 1 .. k : cs[n].outcome = "throws"
  BY <1>2, <1>3, OutcomeIs
<1> QED
  BY <1>2, <1>4 DEF cs

LEMMA JudgedRegistered ==
  ASSUME NEW i \in Json, NEW p \in Json, NEW d \in Domains, DomainIs(i, d)
  PROVE  Judged(i, p) /\ Verdict(i, p) # "stray"
<1> DEFINE o == Outcome(Checks(i, p))
<1>1. Verdict(i, p) = o
  <2>1. ~InheritedDomain(i)
    BY DEF InheritedDomain, DomainIs
  <2> QED
    BY <2>1 DEF Verdict, Outcome
<1>2. o # "skipped"
  BY ChecksListed, NotSkipped
<1>3. /\ o \in Outcomes
      /\ ~Misread(i, p) => (o = "met" => Asks(i, p)) /\ (o = "failed" => ~Asks(i, p))
      /\ o = "throws" => Spoils(i, p)
  <2>1. CASE DomainIs(i, "klokd.shift_search")
    BY <2>1, ChecksAre, JudgedShift DEF Decides, Spoils
  <2>2. CASE DomainIs(i, "lunchdrop.weekly_plan")
    BY <2>2, ChecksAre, JudgedPlan DEF Decides, Spoils
  <2>3. CASE DomainIs(i, "chapaa.round_up_offer")
    <3>1. o = Outcome(RoundUpOffer(i, p)) /\ (Asks(i, p) <=> AsksRoundUp(i, p))
      BY <2>3, ChecksAre
    <3>2. CASE Debit(p) # <<"number", Infinity>>
      BY <3>1, <3>2, JudgedRoundUp DEF Decides
    <3>3. CASE Debit(p) = <<"number", Infinity>>
      <4>1. Misread(i, p)
        BY <2>3, <3>3 DEF Misread
      <4>2. o \in Outcomes /\ o # "throws"
        BY <3>1, RoundUpNeverThrows DEF Outcomes
      <4> QED
        BY <4>1, <4>2
    <3> QED
      BY <3>2, <3>3
  <2>4. CASE DomainIs(i, "chapaa.goal_acceleration")
    BY <2>4, ChecksAre, JudgedGoal DEF Decides
  <2>5. CASE DomainIs(i, "family_discovery.fresh_arrivals")
    BY <2>5, ChecksAre, JudgedArrival DEF Decides, Spoils
  <2>6. CASE DomainIs(i, "family_discovery.basket_auto_refill")
    <3> DEFINE items == Elements(Get(i, "items"))
               lines == Elements(Get(p, "line_items"))
               spoils == \/ \E e \in ToSet(items) : Unreadable(e)
                         \/ ToSet(items) # {} /\ \E line \in ToSet(lines) : Unreadable(line)
    <3>1. o = Outcome(BasketRefill(i, p)) /\ (Asks(i, p) <=> AsksBasket(i, p))
      BY <2>6, ChecksAre
    <3>2. spoils => Spoils(i, p)
      BY <2>6 DEF Spoils
    <3>3. ~Misread(i, p) => Plain(items, lines)
      BY <2>6 DEF Misread, Plain
    <3>4. PICK asks \in BOOLEAN : /\ Decides(Outcome(BasketRefill(i, p)), asks, spoils)
                                  /\ Plain(items, lines) => (asks <=> AsksBasket(i, p))
      BY JudgedBasket
    <3> HIDE DEF o, items, lines, spoils
    <3> QED
      BY <3>1, <3>2, <3>3, <3>4 DEF Decides
  <2> QED
    BY <2>1, <2>2, <2>3, <2>4, <2>5, <2>6 DEF Domains
<1> HIDE DEF o
<1> QED
  BY <1>1, <1>2, <1>3 DEF Judged, Outcomes

LEMMA JudgedIntent ==
  ASSUME NEW i \in Json, NEW p \in Json, p[1] = "object"
  PROVE  Judged(i, p)
<1>1. CASE InheritedDomain(i)
  <2>1. Verdict(i, p) \in {"stray", "throws"}
    BY <1>1 DEF Verdict
  <2> QED
    BY <1>1, <2>1 DEF Judged, Spoils
<1>2. CASE \E d \in Domains : DomainIs(i, d)
  BY <1>2, JudgedRegistered
<1>3. CASE ~InheritedDomain(i) /\ \A d \in Domains : ~DomainIs(i, d)
  <2>1. Checks(i, p) = Generic(i, p) /\ (Asks(i, p) <=> AsksGeneric(i, p))
    BY <1>3, ChecksAre
  <2>2. Verdict(i, p) = Outcome(Checks(i, p))
    BY <1>3 DEF Verdict, Outcome
  <2>3. Decides(Outcome(Generic(i, p)), AsksGeneric(i, p), FALSE)
    BY JudgedGeneric
  <2>4. Outcome(Checks(i, p)) # "skipped"
    BY ChecksListed, NotSkipped
  <2> QED
    BY <2>1, <2>2, <2>3, <2>4 DEF Decides, Outcomes, Judged
<1> QED
  BY <1>1, <1>2, <1>3

\* The amount and the reasons of a match.
LEMMA MatchSays ==
  ASSUME NEW i \in Json, NEW p \in Json, Verdict(i, p) \in {"met", "stray"}
  PROVE  /\ DomainIs(i, "chapaa.round_up_offer") /\ ~Misread(i, p) =>
              Amount(i, p) = <<"number", Missing(Debit(p)[2], Unit(i))>>
         /\ DomainIs(i, "klokd.shift_search") \/ DomainIs(i, "family_discovery.fresh_arrivals") =>
              ("within_max_distance_km" \notin Reasons(i, p) <=> ~Measured(i, p))
<1>1. ASSUME NEW d \in Domains, DomainIs(i, d) PROVE Outcome(Checks(i, p)) = "met"
  <2>1. ~InheritedDomain(i)
    BY <1>1 DEF InheritedDomain, DomainIs
  <2>2. Verdict(i, p) = Outcome(Checks(i, p))
    BY <2>1 DEF Verdict, Outcome
  <2>3. Verdict(i, p) # "stray"
    BY <1>1, JudgedRegistered
  <2> QED
    BY <2>2, <2>3
<1>2. Reasons(i, p) = Met(Checks(i, p))
  BY DEF Reasons, Met
<1>3. ASSUME DomainIs(i, "chapaa.round_up_offer"), ~Misread(i, p)
      PROVE  Amount(i, p) = <<"number", Missing(Debit(p)[2], Unit(i))>>
  <2>1. Debit(p) # <<"number", Infinity>>
    BY <1>3 DEF Misread
  <2>2. Outcome(RoundUpOffer(i, p)) = "met"
    BY <1>1, <1>3, ChecksAre DEF Domains
  <2> QED
    BY <1>3, <2>1, <2>2, JudgedRoundUp DEF Amount
<1>4. ASSUME DomainIs(i, "klokd.shift_search")
      PROVE  "within_max_distance_km" \notin Reasons(i, p) <=> ~Measured(i, p)
  <2>1. Checks(i, p) = KlokdShift(i, p) /\ Outcome(Checks(i, p)) = "met"
    BY <1>1, <1>4, ChecksAre DEF Domains
  <2> QED
    BY <1>2, <2>1, JudgedShift
<1>5. ASSUME DomainIs(i, "family_discovery.fresh_arrivals")
      PROVE  "within_max_distance_km" \notin Reasons(i, p) <=> ~Measured(i, p)
  <2>1. Checks(i, p) = FreshArrivals(i, p) /\ Outcome(Checks(i, p)) = "met"
    BY <1>1, <1>5, ChecksAre DEF Domains
  <2> QED
    BY <1>2, <2>1, JudgedArrival
<1> QED
  BY <1>3, <1>4, <1>5

(* The loop over the briefings.                                            *)
VerdictFor(c, n) == Verdict(c.intents[n], c.payload)

HitFor(c, n) ==
  [briefing |-> n, stray |-> VerdictFor(c, n) = "stray",
   reasons |-> Reasons(c.intents[n], c.payload), amount |-> Amount(c.intents[n], c.payload)]

Hitting(c, k) == {n \in 1 .. k - 1 : VerdictFor(c, n) \in {"met", "stray"}}

\* What has been found so far: the briefings evaluated with a match, each once
\* and in order.  What the event comes to is what the worst verdict makes of it.
EngineInv ==
  /\ case \in Cases /\ fate \in {"open", "committed", "rolled back"}
  /\ next \in Nat /\ 1 =< next /\ next - 1 =< Len(case.intents)
  /\ hits \in Seq({HitFor(case, n) : n \in Hitting(case, next)})
  /\ \A n \in Hitting(case, next) : \E m \in 1 .. Len(hits) : hits[m].briefing = n
  /\ \A m \in 1 .. Len(hits) - 1 : hits[m].briefing < hits[m + 1].briefing
  /\ fate # "rolled back" => \A n \in 1 .. next - 1 : VerdictFor(case, n) # "throws"
  /\ fate = "rolled back" =>
       \E n \in 1 .. next - 1 : VerdictFor(case, n) \in {"throws", "stray"}
  /\ fate = "committed" =>
       /\ next - 1 = Len(case.intents)
       /\ \A n \in 1 .. next - 1 : VerdictFor(case, n) # "stray"

LEMMA EngineInit ==
  ASSUME Start
  PROVE  EngineInv
<1>1. case \in Cases /\ next = 1 /\ hits = << >> /\ fate = "open"
  BY DEF Start
<1>2. Len(case.intents) \in Nat
  BY <1>1, CaseAssumption
<1>3. Hitting(case, next) = {}
  BY <1>1 DEF Hitting
<1>4. 1 .. next - 1 = {} /\ Len(hits) = 0
  BY <1>1
<1>5. hits \in Seq({HitFor(case, n) : n \in Hitting(case, next)})
  BY <1>1
<1>6. 1 =< next /\ next - 1 =< Len(case.intents) /\ 1 .. Len(hits) - 1 = {} /\ next \in Nat
  BY <1>1, <1>2, <1>4
<1>7. fate \in {"open", "committed", "rolled back"} /\ fate # "rolled back" /\ fate # "committed"
  BY <1>1
<1> QED
  BY ONLY <1>1, <1>3, <1>4, <1>5, <1>6, <1>7 DEF EngineInv

LEMMA EngineEvaluate ==
  ASSUME EngineInv, Evaluate
  PROVE  EngineInv'
<1> DEFINE v == VerdictFor(case, next)
           struck == v \in {"met", "stray"}
           hit == HitFor(case, next)
           old == {HitFor(case, n) : n \in Hitting(case, next)}
           new == {HitFor(case, n) : n \in Hitting(case, next + 1)}
<1>1. /\ fate = "open" /\ next =< Len(case.intents) /\ case' = case /\ next' = next + 1
      /\ fate' = IF v = "throws" THEN "rolled back" ELSE "open"
      /\ hits' = IF ~struck THEN hits ELSE Append(hits, hit)
  BY DEF Evaluate, Intent, Payload, VerdictFor, HitFor
<1>2. /\ case \in Cases /\ next \in Nat /\ 1 =< next /\ hits \in Seq(old)
      /\ \A n \in Hitting(case, next) : \E m \in 1 .. Len(hits) : hits[m].briefing = n
      /\ \A m \in 1 .. Len(hits) - 1 : hits[m].briefing < hits[m + 1].briefing
      /\ \A n \in 1 .. next - 1 : VerdictFor(case, n) # "throws"
  BY <1>1 DEF EngineInv
<1>3. Len(case.intents) \in Nat
  BY <1>2, CaseAssumption
<1>4. 1 .. next = (1 .. next - 1) \cup {next} /\ next \notin 1 .. next - 1
        /\ next + 1 - 1 = next /\ 1 .. next + 1 - 1 = 1 .. next
  BY <1>2
<1>5. Hitting(case, next + 1) = Hitting(case, next) \cup (IF struck THEN {next} ELSE {})
  BY <1>4 DEF Hitting
<1>6. old \subseteq new
  BY <1>5
<1>7. hit.briefing = next /\ \A n \in Hitting(case, next) : HitFor(case, n).briefing = n
  BY DEF HitFor
<1>8. \A n \in Hitting(case, next) : n \in Nat /\ n < next
  BY <1>2 DEF Hitting
<1>9. Len(hits) \in Nat /\ \A m \in 1 .. Len(hits) : hits[m] \in old
  BY <1>2
<1>10. \A m \in 1 .. Len(hits) : hits[m].briefing \in Nat /\ hits[m].briefing < next
  BY <1>7, <1>8, <1>9
<1> HIDE DEF struck, v, hit
<1>11. /\ hits' \in Seq(new)
       /\ \A n \in Hitting(case, next + 1) : \E m \in 1 .. Len(hits') : hits'[m].briefing = n
       /\ \A m \in 1 .. Len(hits') - 1 : hits'[m].briefing < hits'[m + 1].briefing
  <2>1. CASE ~struck
    <3>1. hits' = hits /\ Hitting(case, next + 1) = Hitting(case, next) /\ new = old
      BY <1>1, <1>5, <2>1
    <3> HIDE DEF old, new
    <3> QED
      BY <1>2, <3>1
  <2>2. CASE struck
    <3>1. hits' = Append(hits, hit) /\ hit \in new /\ next \in Hitting(case, next + 1)
      BY <1>1, <1>5, <2>2 DEF hit
    <3> HIDE DEF old, new
    <3>2. hits \in Seq(new)
      BY <1>2, <1>6
    <3>3. /\ hits' \in Seq(new) /\ Len(hits') = Len(hits) + 1
          /\ hits'[Len(hits) + 1] = hit
          /\ \A m \in 1 .. Len(hits) : hits'[m] = hits[m]
      BY <3>1, <3>2
    <3>4. ASSUME NEW n \in Hitting(case, next + 1)
          PROVE  \E m \in 1 .. Len(hits') : hits'[m].briefing = n
      <4>1. CASE n = next
        <5>1. Len(hits) + 1 \in 1 .. Len(hits')
          BY <1>9, <3>3
        <5> QED
          BY <1>7, <3>3, <4>1, <5>1
      <4>2. CASE n # next
        <5>1. n \in Hitting(case, next)
          BY <1>5, <4>2
        <5>2. PICK m \in 1 .. Len(hits) : hits[m].briefing = n
          BY <1>2, <5>1
        <5>3. m \in 1 .. Len(hits') /\ hits'[m] = hits[m]
          BY <1>9, <3>3
        <5> QED
          BY <5>2, <5>3
      <4> QED
        BY <4>1, <4>2
    <3>5. ASSUME NEW m \in 1 .. Len(hits') - 1
          PROVE  hits'[m].briefing < hits'[m + 1].briefing
      <4>1. m \in 1 .. Len(hits) /\ hits'[m] = hits[m]
        BY <1>9, <3>3
      <4>2. CASE m = Len(hits)
        BY <1>7, <1>10, <3>3, <4>1, <4>2
      <4>3. CASE m # Len(hits)
        <5>1. m \in 1 .. Len(hits) - 1 /\ m + 1 \in 1 .. Len(hits)
          BY <1>9, <4>1, <4>3
        <5>2. hits'[m + 1] = hits[m + 1]
          BY <3>3, <5>1
        <5>3. hits[m].briefing < hits[m + 1].briefing
          BY <1>2, <5>1
        <5> QED
          BY <4>1, <5>2, <5>3
      <4> QED
        BY <4>2, <4>3
    <3> QED
      BY <3>3, <3>4, <3>5
  <2> QED
    BY <2>1, <2>2
<1>12. /\ fate' # "rolled back" => \A n \in 1 .. next : VerdictFor(case, n) # "throws"
       /\ fate' = "rolled back" => \E n \in 1 .. next : VerdictFor(case, n) \in {"throws", "stray"}
  BY <1>1, <1>2, <1>4 DEF v
<1>13. /\ case' \in Cases /\ fate' \in {"open", "committed", "rolled back"}
       /\ next' \in Nat /\ 1 =< next'
       /\ next' - 1 =< Len(case'.intents) /\ next' - 1 = next /\ fate' # "committed"
  <2> DEFINE l == Len(case.intents)
  <2>1. next' = next + 1 /\ next \in Nat /\ 1 =< next /\ next =< l /\ l \in Nat
    BY <1>1, <1>2, <1>3
  <2> HIDE DEF l
  <2>2. next' \in Nat /\ 1 =< next' /\ next' - 1 =< l /\ next' - 1 = next
    BY <2>1
  <2>3. case' \in Cases /\ l = Len(case'.intents)
    BY <1>1, <1>2 DEF l
  <2>4. fate' \in {"open", "committed", "rolled back"} /\ fate' # "committed"
    BY <1>1
  <2> QED
    BY <2>2, <2>3, <2>4
<1>14. /\ hits' \in Seq({HitFor(case', n) : n \in Hitting(case', next')})
       /\ \A n \in Hitting(case', next') : \E m \in 1 .. Len(hits') : hits'[m].briefing = n
  BY <1>1, <1>11
<1>15. /\ fate' # "rolled back" =>
            \A n \in 1 .. next' - 1 : VerdictFor(case', n) # "throws"
       /\ fate' = "rolled back" =>
            \E n \in 1 .. next' - 1 : VerdictFor(case', n) \in {"throws", "stray"}
  BY <1>1, <1>12, <1>13
<1> QED
  BY <1>11, <1>13, <1>14, <1>15 DEF EngineInv, VerdictFor, HitFor, Hitting

(* A hit is the match of a briefing that was evaluated.                    *)
LEMMA HitIs ==
  ASSUME EngineInv, NEW m \in ToSet(hits)
  PROVE  /\ m.briefing \in 1 .. next - 1 /\ VerdictFor(case, m.briefing) \in {"met", "stray"}
         /\ m = HitFor(case, m.briefing)
<1>1. hits \in Seq({HitFor(case, k) : k \in Hitting(case, next)})
  BY DEF EngineInv
<1>2. PICK k \in Hitting(case, next) : m = HitFor(case, k)
  BY <1>1 DEF ToSet
<1>3. m.briefing = k
  BY <1>2 DEF HitFor
<1> QED
  BY <1>2, <1>3 DEF Hitting

LEMMA EngineStore ==
  ASSUME EngineInv, StoreMatches
  PROVE  EngineInv'
<1> DEFINE strays == \E h \in ToSet(hits) : h.stray
<1>1. /\ fate = "open" /\ next > Len(case.intents)
      /\ fate' = IF strays THEN "rolled back" ELSE "committed"
      /\ case' = case /\ next' = next /\ hits' = hits
  BY DEF StoreMatches
<1>2. case \in Cases /\ next \in Nat /\ next - 1 =< Len(case.intents)
  BY DEF EngineInv
<1>3. Len(case.intents) \in Nat
  BY <1>2, CaseAssumption
<1>4. next - 1 = Len(case.intents)
  <2> DEFINE l == Len(case.intents)
  <2>1. next > l /\ next \in Nat /\ next - 1 =< l /\ l \in Nat
    BY <1>1, <1>2, <1>3
  <2> HIDE DEF l
  <2>2. next - 1 = l
    BY <2>1
  <2> QED
    BY <2>2 DEF l
<1>5. strays => \E n \in 1 .. next - 1 : VerdictFor(case, n) = "stray"
  <2> SUFFICES ASSUME NEW h \in ToSet(hits), h.stray
               PROVE  \E n \in 1 .. next - 1 : VerdictFor(case, n) = "stray"
    OBVIOUS
  <2>1. h.briefing \in 1 .. next - 1 /\ h = HitFor(case, h.briefing)
    BY HitIs
  <2>2. HitFor(case, h.briefing).stray = (VerdictFor(case, h.briefing) = "stray")
    BY DEF HitFor
  <2> QED
    BY <2>1, <2>2
<1>6. ASSUME NEW n \in 1 .. next - 1, VerdictFor(case, n) = "stray" PROVE strays
  <2>1. n \in Hitting(case, next)
    BY <1>6 DEF Hitting
  <2>2. PICK m \in 1 .. Len(hits) : hits[m].briefing = n
    BY <2>1 DEF EngineInv
  <2>3. hits \in Seq({HitFor(case, k) : k \in Hitting(case, next)})
    BY DEF EngineInv
  <2>4. hits[m] \in ToSet(hits)
    BY <2>2, <2>3 DEF ToSet
  <2>5. hits[m] = HitFor(case, n)
    BY <2>2, <2>4, HitIs
  <2>6. HitFor(case, n).stray = (VerdictFor(case, n) = "stray")
    BY DEF HitFor
  <2>7. HitFor(case, n).stray
    BY <1>6, <2>6
  <2> QED
    BY <2>4, <2>5, <2>7
<1> HIDE DEF strays
<1>7. /\ fate' \in {"open", "committed", "rolled back"}
      /\ fate' # "rolled back" => \A n \in 1 .. next - 1 : VerdictFor(case, n) # "throws"
      /\ fate' = "rolled back" =>
           \E n \in 1 .. next - 1 : VerdictFor(case, n) \in {"throws", "stray"}
      /\ fate' = "committed" =>
           /\ next - 1 = Len(case.intents)
           /\ \A n \in 1 .. next - 1 : VerdictFor(case, n) # "stray"
  BY <1>1, <1>4, <1>5, <1>6 DEF EngineInv
<1> QED
  BY <1>1, <1>7 DEF EngineInv, VerdictFor, HitFor, Hitting

LEMMA EngineInductive ==
  EngineInv /\ [EngineNext]_engineVars => EngineInv'
<1>1. ASSUME EngineInv, UNCHANGED engineVars PROVE EngineInv'
  BY <1>1 DEF EngineInv, engineVars
<1> QED
  BY <1>1, EngineEvaluate, EngineStore DEF EngineNext

(* What the invariant says of one briefing.                                *)
LEMMA EvaluatedIntent ==
  ASSUME EngineInv, NEW n \in 1 .. next - 1
  PROVE  /\ Intent(n) \in Json /\ Payload \in Json /\ Judged(Intent(n), Payload)
         /\ VerdictFor(case, n) = Verdict(Intent(n), Payload)
         /\ Matched(n) <=> VerdictFor(case, n) \in {"met", "stray"}
<1>1. /\ case \in Cases /\ next \in Nat /\ next - 1 =< Len(case.intents)
      /\ hits \in Seq({HitFor(case, k) : k \in Hitting(case, next)})
      /\ \A k \in Hitting(case, next) : \E m \in 1 .. Len(hits) : hits[m].briefing = k
  BY DEF EngineInv
<1>2. /\ case.payload \in Json /\ case.payload[1] = "object" /\ case.intents \in Seq(Json)
      /\ Len(case.intents) \in Nat
  BY <1>1, CaseAssumption
<1>3. n \in 1 .. Len(case.intents)
  BY <1>1, <1>2
<1>4. case.intents[n] \in Json
  BY <1>2, <1>3
<1>5. Judged(Intent(n), Payload)
  BY <1>2, <1>4, JudgedIntent DEF Intent, Payload
<1>6. ToSet(hits) = {hits[m] : m \in 1 .. Len(hits)}
  BY <1>1 DEF ToSet
<1>7. ASSUME Matched(n) PROVE VerdictFor(case, n) \in {"met", "stray"}
  <2>1. PICK h \in ToSet(hits) : h.briefing = n
    BY <1>7 DEF Matched
  <2> QED
    BY <2>1, HitIs
<1>8. ASSUME VerdictFor(case, n) \in {"met", "stray"} PROVE Matched(n)
  <2>1. n \in Hitting(case, next)
    BY <1>8 DEF Hitting
  <2> QED
    BY <1>1, <1>6, <2>1 DEF Matched
<1> QED
  BY <1>2, <1>4, <1>5, <1>7, <1>8 DEF Intent, Payload, VerdictFor

LEMMA MeantByInv ==
  ASSUME EngineInv
  PROVE  MatchesMeanTheIntent
<1>1. ASSUME fate = "committed", NEW n \in 1 .. Len(case.intents), ~Misread(Intent(n), Payload)
      PROVE  Matched(n) <=> Asks(Intent(n), Payload)
  <2>1. n \in 1 .. next - 1 /\ VerdictFor(case, n) \notin {"throws", "stray"}
    BY <1>1 DEF EngineInv
  <2>2. /\ Judged(Intent(n), Payload) /\ VerdictFor(case, n) = Verdict(Intent(n), Payload)
        /\ Matched(n) <=> VerdictFor(case, n) \in {"met", "stray"}
    BY <2>1, EvaluatedIntent
  <2> QED
    BY <1>1, <2>1, <2>2 DEF Judged
<1>2. ASSUME NEW h \in ToSet(hits), DomainIs(Intent(h.briefing), "chapaa.round_up_offer"),
             ~Misread(Intent(h.briefing), Payload)
      PROVE  h.amount = <<"number", Missing(Debit(Payload)[2], Unit(Intent(h.briefing)))>>
  <2> DEFINE n == h.briefing
  <2>1. /\ n \in 1 .. next - 1 /\ VerdictFor(case, n) \in {"met", "stray"}
        /\ h = HitFor(case, n)
    BY HitIs
  <2>2. /\ Intent(n) \in Json /\ Payload \in Json
        /\ Verdict(Intent(n), Payload) \in {"met", "stray"}
    BY <2>1, EvaluatedIntent
  <2>3. h.amount = Amount(Intent(n), Payload)
    BY <2>1 DEF HitFor, Intent, Payload
  <2> QED
    BY <1>2, <2>2, <2>3, MatchSays
<1> QED
  BY <1>1, <1>2 DEF MatchesMeanTheIntent

LEMMA CausedByInv ==
  ASSUME EngineInv
  PROVE  LossesHaveACause
<1>1. \A m \in 1 .. Len(hits) - 1 : hits[m].briefing < hits[m + 1].briefing
  BY DEF EngineInv
<1>2. ASSUME fate = "rolled back"
      PROVE  \E n \in 1 .. next - 1 : Spoils(Intent(n), Payload)
  <2>1. PICK n \in 1 .. next - 1 : VerdictFor(case, n) \in {"throws", "stray"}
    BY <1>2 DEF EngineInv
  <2>2. Judged(Intent(n), Payload) /\ VerdictFor(case, n) = Verdict(Intent(n), Payload)
    BY EvaluatedIntent
  <2> QED
    BY <2>1, <2>2 DEF Judged
<1>3. ASSUME NEW h \in ToSet(hits),
             \/ DomainIs(Intent(h.briefing), "klokd.shift_search")
             \/ DomainIs(Intent(h.briefing), "family_discovery.fresh_arrivals")
      PROVE  "within_max_distance_km" \notin h.reasons <=> ~Measured(Intent(h.briefing), Payload)
  <2> DEFINE n == h.briefing
  <2>1. /\ n \in 1 .. next - 1 /\ VerdictFor(case, n) \in {"met", "stray"}
        /\ h = HitFor(case, n)
    BY HitIs
  <2>2. /\ Intent(n) \in Json /\ Payload \in Json
        /\ Verdict(Intent(n), Payload) \in {"met", "stray"}
    BY <2>1, EvaluatedIntent
  <2>3. h.reasons = Reasons(Intent(n), Payload)
    BY <2>1 DEF HitFor, Intent, Payload
  <2> QED
    BY <1>3, <2>2, <2>3, MatchSays
<1> QED
  BY <1>1, <1>2, <1>3 DEF LossesHaveACause, Measured

(* Once an event commits, a briefing has been matched exactly when the     *)
(* payload is all its intent asks for, but where the code misreads them;   *)
(* and a round-up is the least amount that makes the debit round: for any  *)
(* JSON objects as payloads and intents, and any tables of dates, zones,   *)
(* distances and inherited names.                                          *)
THEOREM MatchingMeansIntent ==
  EngineSpec => []MatchesMeanTheIntent
<1>1. Start => EngineInv
  BY EngineInit
<1>2. EngineInv /\ [EngineNext]_engineVars => EngineInv'
  BY EngineInductive
<1>3. EngineInv => MatchesMeanTheIntent
  BY MeantByInv
<1> QED
  BY <1>1, <1>2, <1>3, PTL DEF EngineSpec

(* Every listed briefing is evaluated and reported once and in order, and  *)
(* only one that spoils it, as Spoils says, has the event rolled back; and *)
(* a match says whether the distance was checked.                          *)
THEOREM MatchingLossesHaveACause ==
  EngineSpec => []LossesHaveACause
<1>1. Start => EngineInv
  BY EngineInit
<1>2. EngineInv /\ [EngineNext]_engineVars => EngineInv'
  BY EngineInductive
<1>3. EngineInv => LossesHaveACause
  BY CausedByInv
<1> QED
  BY <1>1, <1>2, <1>3, PTL DEF EngineSpec
================================================================================
