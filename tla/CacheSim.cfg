CONSTANTS
  SetCnt    = 2
  LineCnt   = 2
  BlockCnt  = 2
  Addresses <- MCAddresses
  MaxOrder  = 18

SPECIFICATION Spec

INVARIANTS
  TypeOK

PROPERTIES
  LruSpec

CHECK_DEADLOCK FALSE
