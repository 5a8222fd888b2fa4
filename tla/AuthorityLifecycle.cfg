SPECIFICATION FairSpec
CONSTANTS
  r1 = r1
  r2 = r2
  c1 = c1
  c2 = c2
  Nobody = Nobody
  Authorities = {1, 2}
  HighStakes = {1}
  Requests = {r1, r2}
  Target <- MCTarget
  Foreign = {}
  Consumers = {c1, c2}
  MaxEvents = 1
INVARIANTS
  TrailMatchesStatus
  AnsweredRevocationStands
  CascadeMissesOnlyLateRows
  DeadlocksNeedCascade
PROPERTIES
  ImplementsRevocation
  EventsTakeEffect
CHECK_DEADLOCK FALSE
