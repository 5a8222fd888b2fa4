----------------------------- MODULE MCAuditChain -----------------------------
(* Instances of AuditChain for model checking.                             *)
EXTENDS AuditChain, TLC

CONSTANTS p1, p2, p3

MCSymmetry == Permutations(Appenders)
===============================================================================
