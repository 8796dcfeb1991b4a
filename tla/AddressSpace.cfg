CONSTANTS
  Frames <- MCNineFrames
  Candidates <- MCCandidates
  Index <- MCIndex
  UserPages <- MCUserPages
  DynamicPages <- MCDynamicPages
  FixedPages <- MCFixedPages
  kernel_pml4 = kernel_pml4
  kernel_pagedirtable = kernel_pagedirtable
  kernel_pagedir = kernel_pagedir
  kernel_linear = kernel_linear
  RAM = RAM
  NULL = NULL
  MaxHeld = 1
  MaxSpaces = 2
SPECIFICATION Spec
INVARIANTS
  TypeOK
  EveryFrameHasOneUse
  UserIsolation
PROPERTIES
  VirtualMemorySpec
CHECK_DEADLOCK FALSE
