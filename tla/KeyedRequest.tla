---------------------------- MODULE KeyedRequest ----------------------------
(***************************************************************************)
(* What a write endpoint under an idempotency key is to its callers and to *)
(* the customers it notifies.  A request is refused without a key, told    *)
(* what is kept for its key while that is fresh, or handled.  Handling it  *)
(* may have its effect, all at once and at most once: an event is          *)
(* published with every notification of it, a briefing is made.  The       *)
(* caller is then told something true, which is kept for the key unless    *)
(* something is kept already, or told of a failure, or not told.           *)
(*                                                                         *)
(* There are no transactions, indexes, reads or plugins here, and no       *)
(* success without content: nobody can be told 204, since that cannot be   *)
(* kept.  EventIngestion implements this.                                  *)
(***************************************************************************)
EXTENDS Integers, FiniteSets

CONSTANTS
  Callers,    \* requests
  Sends,      \* what they may ask for: functions on Callers
  Scopes,     \* what an answer is kept for
  Keys,       \* keys of events
  Briefings,  \* what may be made, and notified
  Concerned,  \* [bodies of events -> SUBSET Briefings]
  Sayings,    \* what a caller can be told: a code, and what it is about
  Unsaid,     \* what is not said yet
  Lifetime,   \* how long what is kept is fresh
  Nothing     \* no key, nothing kept, nothing published or made

VARIABLES
  time,       \* the clock
  asked,      \* what each caller asked for
  phase,      \* sent, handled, answered or lost
  told,       \* what each caller was told
  kept,       \* what is kept for each scope
  published,  \* the event under each key, by whom, and its count of notices
  notified,   \* the briefings notified of it
  made        \* who made each briefing

effects == <<published, notified, made>>
vars == <<time, asked, phase, told, kept, effects>>

Scope(r) == <<asked[r].kind, asked[r].on, asked[r].key>>

Init ==
  /\ time = 0
  /\ asked \in Sends
  /\ phase = [r \in Callers |-> "sent"]
  /\ told = [r \in Callers |-> Unsaid]
  /\ kept = [s \in Scopes |-> Nothing]
  /\ published = [k \in Keys |-> Nothing]
  /\ notified = [k \in Keys |-> {}]
  /\ made = [b \in Briefings |-> Nothing]

Fresh(s) == kept[s] # Nothing /\ kept[s].expires > time

Enter(r, p) == phase' = [phase EXCEPT ![r] = p]

Tell(r, a) ==
  /\ told' = [told EXCEPT ![r] = a]
  /\ Enter(r, "answered")

-------------------------------------------------------------------------------
(* Without being handled.                                                  *)

Refuse(r) ==
  /\ phase[r] = "sent" /\ asked[r].key = Nothing
  /\ Tell(r, [code |-> 400, of |-> Nothing])
  /\ UNCHANGED <<time, asked, kept, effects>>

\* The same answer again, or a conflict with the body it was about.
Recall(r) ==
  LET k == kept[Scope(r)]
  IN /\ phase[r] = "sent" /\ asked[r].key # Nothing /\ Fresh(Scope(r))
     /\ Tell(r, IF k.body = asked[r].body THEN k.answer ELSE [code |-> 409, of |-> Nothing])
     /\ UNCHANGED <<time, asked, kept, effects>>

-------------------------------------------------------------------------------
(* Handled.                                                                *)

Handle(r) ==
  /\ phase[r] = "sent" /\ asked[r].key # Nothing /\ ~Fresh(Scope(r))
  /\ Enter(r, "handled")
  /\ UNCHANGED <<time, asked, told, kept, effects>>

\* An event is published once under its key, and S is notified with it: some of
\* those it concerns.
Publish(r, S) ==
  LET k == asked[r].key
  IN /\ phase[r] = "handled" /\ asked[r].kind = "ingest" /\ published[k] = Nothing
     /\ S \subseteq Concerned[asked[r].body]
     /\ published' = [published EXCEPT ![k] =
          [body |-> asked[r].body, by |-> r, count |-> Cardinality(S)]]
     /\ notified' = [notified EXCEPT ![k] = S]
     /\ UNCHANGED <<time, asked, phase, told, kept, made>>

\* A caller makes one briefing at most.
Make(r, b) ==
  /\ phase[r] = "handled" /\ asked[r].kind = "create"
  /\ made[b] = Nothing /\ \A c \in Briefings : made[c] # r
  /\ made' = [made EXCEPT ![b] = r]
  /\ UNCHANGED <<time, asked, phase, told, kept, published, notified>>

\* Of a success: the event is the one under the caller's key, the briefing was
\* made on a request with the caller's scope and body.
IsTrue(r, a) ==
  /\ a.code = 202 => LET e == published[asked[r].key] IN e # Nothing /\ e.body = a.of
  /\ a.code = 201 =>
       LET q == made[a.of]
       IN a.of \in Briefings /\ q \in Callers /\ Scope(q) = Scope(r) /\ asked[q].body = asked[r].body

\* The first answer is kept, and what is kept is never replaced.
Answer(r, a) ==
  /\ phase[r] = "handled" /\ IsTrue(r, a)
  /\ Tell(r, a)
  /\ kept' = [kept EXCEPT ![Scope(r)] =
       IF @ # Nothing THEN @
       ELSE [body |-> asked[r].body, answer |-> a, expires |-> time + Lifetime]]
  /\ UNCHANGED <<time, asked, effects>>

Fail(r) ==
  /\ phase[r] = "handled"
  /\ Tell(r, [code |-> 500, of |-> Nothing])
  /\ UNCHANGED <<time, asked, kept, effects>>

Lose(r) ==
  /\ phase[r] = "handled"
  /\ Enter(r, "lost")
  /\ UNCHANGED <<time, asked, told, kept, effects>>

Pass ==
  /\ time' = time + 1
  /\ UNCHANGED <<asked, phase, told, kept, effects>>

Next ==
  \/ \E r \in Callers :
       \/ Refuse(r) \/ Recall(r) \/ Handle(r) \/ Fail(r) \/ Lose(r)
       \/ \E S \in SUBSET Briefings : Publish(r, S)
       \/ \E b \in Briefings : Make(r, b)
       \/ \E a \in Sayings : Answer(r, a)
  \/ Pass

Spec == Init /\ [][Next]_vars
===============================================================================
