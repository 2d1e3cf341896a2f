SPECIFICATION Spec
CONSTANTS
  Ids = {1, 2}
  Amounts = {1}
  Writers = {w1, w2}
  Limit = 2
  MaxVersion = 2
  MaxClock = 5
SYMMETRY WriterSymmetry
INVARIANTS
  TombstonesAvailable
CHECK_DEADLOCK FALSE
