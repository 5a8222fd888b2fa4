------------------------------- MODULE Revocation ------------------------------
(***************************************************************************)
(* What an authority is to those who rely on it: the customer who wants it *)
(* revoked, the auditor, and the relying parties that evict it when they   *)
(* are told.  It is issued once and revoked at most once, for good, by one *)
(* party the row names; the audit trail tells of both as they happen.  A   *)
(* caller is told of the revocation that caller made.  The system may      *)
(* revoke many at once, and then they are revoked together or not at all.  *)
(*                                                                         *)
(* There are no transactions, locks, deadlocks, events or redeliveries     *)
(* here; AuthorityLifecycle implements this.                               *)
(***************************************************************************)
EXTENDS Sequences

CONSTANTS
  Authorities,  \* what may be issued
  Callers,      \* who may ask for a revocation
  Named,        \* [Callers -> Authorities]: the one each asks to revoke
  System,       \* who may revoke unasked
  Nobody        \* who has revoked what is not revoked

VARIABLES
  status,     \* absent, active or revoked
  revokedBy,  \* who revoked each
  trail,      \* what is told of each, in order
  told        \* callers who were told that the authority is revoked

vars == <<status, revokedBy, trail, told>>

Init ==
  /\ status = [a \in Authorities |-> "absent"]
  /\ revokedBy = [a \in Authorities |-> Nobody]
  /\ trail = [a \in Authorities |-> << >>]
  /\ told = {}

Issue(a) ==
  /\ status[a] = "absent"
  /\ status' = [status EXCEPT ![a] = "active"]
  /\ trail' = [trail EXCEPT ![a] = Append(@, "issued")]
  /\ UNCHANGED <<revokedBy, told>>

\* All of S together, none of which was revoked before.
Revoke(p, S) ==
  /\ \A a \in S : status[a] = "active"
  /\ status' = [a \in Authorities |-> IF a \in S THEN "revoked" ELSE status[a]]
  /\ revokedBy' = [a \in Authorities |-> IF a \in S THEN p ELSE revokedBy[a]]
  /\ trail' = [a \in Authorities |-> IF a \in S THEN Append(trail[a], "revoked") ELSE trail[a]]

RevokeAsAsked(r) ==
  /\ r \notin told
  /\ Revoke(r, {Named[r]})
  /\ told' = told \cup {r}

RevokeUnasked(p, S) == Revoke(p, S) /\ UNCHANGED told

Next ==
  \/ \E a \in Authorities : Issue(a)
  \/ \E r \in Callers : RevokeAsAsked(r)
  \/ \E p \in System, S \in SUBSET Authorities : RevokeUnasked(p, S)

Spec == Init /\ [][Next]_vars
===============================================================================
