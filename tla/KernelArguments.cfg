CONSTANTS
  t1 = t1
  t2 = t2
  Tasks <- MCTasks
  Idle = Idle
  NULL = NULL
  KernelSpace = KernelSpace
  Band = 3
  Priorities <- MCPriorities
  Versions = {0, 1}
  Syscalls <- MCSyscalls
  PageZero <- MCPageZero
SPECIFICATION KernelSpec
PROPERTIES
  ArgumentsSurvive
CHECK_DEADLOCK FALSE
