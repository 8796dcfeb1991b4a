CONSTANTS
  FmStart <- MCFmStart
  FmEnd <- MCFmEnd
SPECIFICATION Spec
INVARIANTS
  TypeOK
  FreelistComplete
PROPERTIES
  PoolSpec
  OwnedMemoryStable
CHECK_DEADLOCK FALSE
