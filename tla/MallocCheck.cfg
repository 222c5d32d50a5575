CONSTANTS
  Sizes    <- MCSizes
  NewSizes <- MCNewSizes
  Arena    = 50
  MaxCalls = 9

SPECIFICATION Spec

INVARIANTS
  MmCheck

CHECK_DEADLOCK FALSE
