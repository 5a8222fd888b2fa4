------------------------ MODULE MCAuthorityLifecycle ------------------------
(* Instances of AuthorityLifecycle for model checking.                     *)
EXTENDS AuthorityLifecycle

CONSTANTS r1, r2, c1, c2

MCTarget == [r \in Requests |-> 1]
===============================================================================
