CONSTANTS
  QueueSize = 4
  DataLength <- MCDataLength
  MaxCommands = 7
  MaxAccepted = 8
  MaxLine = 3
SPECIFICATION FairSpec
INVARIANTS
  TypeOK
PROPERTIES
  RingQueueSpec
  CommandQueueSpec
  DecoderGetsScanCodes
  EveryCommandDone
CHECK_DEADLOCK FALSE
