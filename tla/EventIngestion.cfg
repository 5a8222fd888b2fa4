SPECIFICATION Spec
CONSTANTS
  r1 = r1
  r2 = r2
  r3 = r3
  b1 = b1
  b2 = b2
  k1 = k1
  x1 = x1
  x2 = x2
  i1 = i1
  i2 = i2
  Requests = {r1, r2, r3}
  Keys = {k1}
  Bodies = {x1, x2}
  Concerned <- MCConcerned
  Briefings = {b1, b2}
  Existing = {b1}
  Intents = {i1, i2}
  Wants <- MCWants
  Inputs <- MCInputs
  Scenarios <- MCScenarios
  TTL = 1
  Never = Never
  None = None
  MaxTime = 1
INVARIANTS
  MatchedOnceWhileLive
  AnswersAreTrue
  RetriesAreReplayed
  StatusIsAudited
PROPERTY ImplementsKeyedRequest
CHECK_DEADLOCK FALSE
