-------------------------------- MODULE Delivery -------------------------------
(***************************************************************************)
(* At-least-once delivery with a budget of failures, as the outbox and the *)
(* webhook worker promise it to the code that enqueues: an item that was   *)
(* offered is attempted again and again until it is settled, and how it    *)
(* was settled says something: "delivered" that a copy is out, "abandoned" *)
(* that the budget is spent.  There are no replicas, batches, claims or    *)
(* clocks here; Outbox and WebhookDelivery implement this.                 *)
(***************************************************************************)
EXTENDS Integers

CONSTANTS
  Items,   \* what may be offered
  Budget   \* failures after which an item may be abandoned

VARIABLES
  state,   \* absent, pending, delivered or abandoned
  sent,    \* items with a copy at the receiver
  failed   \* failures of each item, at most Budget

vars == <<state, sent, failed>>

Init ==
  /\ state = [i \in Items |-> "absent"]
  /\ sent = {}
  /\ failed = [i \in Items |-> 0]

Offer(i) ==
  /\ state[i] = "absent"
  /\ state' = [state EXCEPT ![i] = "pending"]
  /\ UNCHANGED <<sent, failed>>

\* A copy is sent, or a failure noticed, or both: an answer may be lost.  It
\* may be the attempt of one who does not know that the item is settled.
Attempt(i) ==
  /\ state[i] # "absent"
  /\ sent' \in {sent, sent \cup {i}}
  /\ failed' \in {failed, [failed EXCEPT ![i] = IF @ < Budget THEN @ + 1 ELSE @]}
  /\ UNCHANGED state

Deliver(i) ==
  /\ state[i] # "absent" /\ i \in sent
  /\ state' = [state EXCEPT ![i] = "delivered"]
  /\ UNCHANGED <<sent, failed>>

GiveUp(i) ==
  /\ state[i] # "absent" /\ failed[i] = Budget
  /\ state' = [state EXCEPT ![i] = "abandoned"]
  /\ UNCHANGED <<sent, failed>>

Next == \E i \in Items : Offer(i) \/ Attempt(i) \/ Deliver(i) \/ GiveUp(i)

Spec == Init /\ [][Next]_vars
===============================================================================
