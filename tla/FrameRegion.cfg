CONSTANTS
  FmStart <- HoleFmStart
  FmEnd <- HoleFmEnd
SPECIFICATION Spec
INVARIANTS
  NothingPastFreememEnd
CHECK_DEADLOCK FALSE
