SPECIFICATION Spec
CONSTANTS
  e1 = e1
  e2 = e2
  d1 = d1
  d2 = d2
  acct = acct
  Events = {e1, e2}
  Accounts = {acct}
  AccountOf <- MCAccountOf
  Drainers = {d1, d2}
  Nobody = Nobody
  BatchSize = 2
  MaxAttempts = 2
  Backoff <- MCBackoff
  MaxTime = 2
SYMMETRY MCSymmetry
INVARIANTS
  TypeOK
  TableMatchesTopic
  NotAbandonedEarly
  DuplicatesHaveACause
PROPERTIES
  ImplementsDelivery
CHECK_DEADLOCK FALSE
