CONSTANTS
  t1 = t1
  t2 = t2
  t3 = t3
  Tasks <- MCTasks
  Idle = Idle
  NULL = NULL
  Band = 3
  Priorities <- MCPriorities
SPECIFICATION FairSpec
INVARIANTS
  TypeOK
  SuspendedNeverRuns
  HaltLosesAtMostOne
PROPERTIES
  EveryTurnComesNearer
  UrgentFirst
  ReadySlotIsServed
CHECK_DEADLOCK FALSE
