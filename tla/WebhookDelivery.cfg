SPECIFICATION FairSpec
CONSTANTS
  d1 = d1
  d2 = d2
  w1 = w1
  w2 = w2
  Deliveries = {d1, d2}
  Workers = {w1, w2}
  Responsive = {w1}
  BatchSize = 2
  MaxAttempts = 2
  Backoff <- MCBackoff
  MaxTime = 1
INVARIANTS
  TableIsTruthful
PROPERTIES
  ImplementsDelivery
  OnlySharedRowsGoBack
  EveryDeliverySettles
CHECK_DEADLOCK FALSE
