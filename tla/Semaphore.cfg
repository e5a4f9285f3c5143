SPECIFICATION SemFairSpec
CONSTANTS
  Task = {1, 2, 3}
  Idle = 4
  InitPriority <- MCPriority3
  configMAX_TASK_PRIORITY = 3
  TICK_COUNT_OVERFLOW = 3
  TimeWait = {1, 2}
  CriticalNests = TRUE
  MAX_EVENT = 1
  SEM_COUNT_MAX = 2
  BlockTargets = {2}
  DeleteWithWaiters = FALSE
INVARIANTS
  SemTypeOK
  WaitListExact
  NoWakeupLost
  NoCountWithWaiters
  DelayListContract
PROPERTIES
  ResultMatchesPost
  TickPreempts
  TimedPendEnds
