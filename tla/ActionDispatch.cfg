SPECIFICATION MCSpec
CONSTANTS
  r1 = r1
  r2 = r2
  r3 = r3
  a1 = a1
  k1 = k1
  k2 = k2
  w1 = w1
  w2 = w2
  Requests = {r1, r2}
  Authorities = {a1}
  Keys = {k1, k2}
  NoAmount = NoAmount
  NoLimit = NoLimit
  Amounts = {2, 3, NoAmount}
  AmountLimit <- MCAmountLimit
  PeriodLimit <- MCPeriodLimit
  ExpiresAt <- MCExpiresAt
  WindowLength = 1
  DispatchTimeout = 1
  StaleAfter = 2
  BatchSize = 2
  Reapers = {w1, w2}
  Horizon = 1
  MaxTime = 4
  Api = Api
  Nobody = Nobody
INVARIANTS
  SettlementTrail
  EventsMirrorTrail
  UsageIsChargedSum
  OnlyStaleReadsOverspend
  AcknowledgedOutcomeIsDurable
PROPERTIES
  ImplementsSettlement
  RevocationStopsNewDispatches
  EveryActionSettles
CHECK_DEADLOCK FALSE
