------------------------------- MODULE MCOutbox -------------------------------
(* Instances of Outbox for model checking.                                 *)
EXTENDS Outbox, TLC

CONSTANTS e1, e2, d1, d2, acct

MCAccountOf == [e \in Events |-> acct]
MCBackoff == [n \in 0 .. MaxAttempts - 1 |-> n + 1]

MCSymmetry == Permutations(Events) \cup Permutations(Drainers)
===============================================================================
