SPECIFICATION Spec
CONSTANTS
  alice = alice
  bob = bob
  Ids = {1, 2, 3, 4}
  Owner <- MCOwner
  Accounts = {alice, bob}
  Queries <- MCQueries
  Millisecond = 2
  DefaultLimit = 1
  MaxLimit = 2
  MaxTime = 2
  None = None
INVARIANTS
  PagesAreInOrder
  OnlyRowsOfTheCursorsMillisecondAreMissed
CHECK_DEADLOCK FALSE
