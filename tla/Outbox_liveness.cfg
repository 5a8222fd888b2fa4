SPECIFICATION FairSpec
CONSTANTS
  e1 = e1
  e2 = e2
  d1 = d1
  d2 = d2
  acct = acct
  Events = {e1}
  Accounts = {acct}
  AccountOf <- MCAccountOf
  Drainers = {d1, d2}
  Nobody = Nobody
  BatchSize = 2
  MaxAttempts = 3
  Backoff <- MCBackoff
  MaxTime = 2
PROPERTIES
  EveryEventSettles
CHECK_DEADLOCK FALSE
