CONSTANTS
  Sizes    <- MCSizes
  NewSizes <- MCNewSizes
  Arena    = 50
  MaxCalls = 9

SPECIFICATION Spec

INVARIANTS
  TypeOK
  LiveBlocksApart
  FreetreeIndexesFreed
  FreetreeHasRoom

PROPERTIES
  GrowsOnlyWhenFull

CHECK_DEADLOCK FALSE
