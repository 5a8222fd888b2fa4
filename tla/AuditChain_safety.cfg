SPECIFICATION Spec
CONSTANTS
  p1 = p1
  p2 = p2
  p3 = p3
  Appenders = {p1, p2, p3}
  Nobody = Nobody
  NoEntry = NoEntry
  TicksPerMs = 2
  Tags = {1, 2}
  MaxPerTx = 2
  MaxEntries = 3
  MaxTime = 3
SYMMETRY MCSymmetry
INVARIANTS
  PreviousWasLatest
  OnlyLateRowsDrift
  ForksStartLate
