SPECIFICATION MutexSpec
CONSTANTS
  Task = {1, 2, 3}
  Idle = 4
  InitPriority <- MCPriority3
  configMAX_TASK_PRIORITY = 5
  TICK_COUNT_OVERFLOW = 2
  TimeWait = {1}
  CriticalNests = FALSE
  MAX_EVENT = 2
  BlockTargets = {2}
  DeleteWithWaiters = FALSE
  Ceilings = {4, 5}
  LifoRelease = FALSE
INVARIANTS
  ScheduledThreadExists
