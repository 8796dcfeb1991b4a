CONSTANTS
  Frames <- MCFrames
  Candidates <- MCCandidates
  Index <- MCIndex
  UserPages <- MCUserPages
  DynamicPages = {}
  FixedPages <- MCFixedPages
  kernel_pml4 = kernel_pml4
  kernel_pagedirtable = kernel_pagedirtable
  kernel_pagedir = kernel_pagedir
  kernel_linear = kernel_linear
  RAM = RAM
  NULL = NULL
  MaxHeld = 3
  MaxSpaces = 10
  DEFAULT_FRAME_SIZE = 4
  STACK_ALIGNMENT = 2
  BootModules <- MCBootModules
  Lines <- MCLines
  FaultVectors <- MCFaultVectors
SPECIFICATION BootSpec
INVARIANTS
  BootTypeOK
  ProgramLoaded
  CommandLineOnStack
  ProcessIsolation
  FramesAccounted
  NoDeviceInterrupt
  FaultsStopForGood
  SegmentsFit
PROPERTIES
  EveryModuleStarted
CHECK_DEADLOCK FALSE
