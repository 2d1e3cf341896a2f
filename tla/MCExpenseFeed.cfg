SPECIFICATION Spec
CONSTANTS
  Ids = {1, 2}
  Amounts = {1, 2}
  Writers = {w1, w2}
  Limit = 1
  MaxVersion = 2
  MaxClock = 5
SYMMETRY WriterSymmetry
INVARIANTS
  TypeOK
  OnlyOverlappedChangesAreMissed
  MixedCopiesHeal
PROPERTIES
  ReplicaNeverGoesBack
  RowClockNeverGoesBack
CHECK_DEADLOCK FALSE
