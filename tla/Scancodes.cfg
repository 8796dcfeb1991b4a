CONSTANTS
  Noise <- MCNoise
SPECIFICATION FairSpec
INVARIANTS
  TypeOK
  BufferIsPrefix
  EveryKeyReportedOnce
PROPERTIES
  LoopEnds
