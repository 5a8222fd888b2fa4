--------------------------- MODULE MCActionDispatch ---------------------------
(* Instances of ActionDispatch for model checking.                         *)
EXTENDS ActionDispatch, TLC

CONSTANTS r1, r2, r3, a1, k1, k2, w1, w2

\* One authority with a period limit that two of the larger amounts exceed.
MCAmountLimit == [a \in Authorities |-> 2]
MCPeriodLimit == [a \in Authorities |-> 3]
MCExpiresAt == [a \in Authorities |-> 2]

\* Keys are interchangeable and so are requests: of the states that differ by
\* nothing else one is enough to begin with.  (SYMMETRY is unsound for liveness.)
Rank(x) == IF x = NoAmount THEN 0 ELSE x
MCInit ==
  /\ Init
  /\ input[r1].key = k1
  /\ Rank(input[r1].amount) =< Rank(input[r2].amount)

MCSpec == MCInit /\ [][Next]_vars /\ Fairness
===============================================================================
