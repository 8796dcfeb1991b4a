CONSTANTS
  Maps <- MCMaps
  FREEMEMORY_START <- MCFreememoryStart
SPECIFICATION Spec
INVARIANTS
  TypeOK
  LongestSoFar
  FramesAreFree
CHECK_DEADLOCK FALSE
