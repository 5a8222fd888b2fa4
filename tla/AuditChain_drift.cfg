SPECIFICATION Spec
CONSTANTS
  p1 = p1
  p2 = p2
  p3 = p3
  Appenders = {p1, p2, p3}
  Nobody = Nobody
  NoEntry = NoEntry
  TicksPerMs = 1
  Tags = {1}
  MaxPerTx = 1
  MaxEntries = 3
  MaxTime = 3
SYMMETRY MCSymmetry
INVARIANTS
  ChainVerifies
