SPECIFICATION FairSpec
CONSTANTS
  Task = {1, 2, 3}
  Idle = 4
  InitPriority <- MCPriority
  configMAX_TASK_PRIORITY = 4
  TICK_COUNT_OVERFLOW = 4
  TimeWait = {1, 3, 4}
  CriticalNests = FALSE
  NUMBER_OF_PRIORITIES = 16
INVARIANTS
  TypeOK
  RunningIsRunnable
  NoTaskLost
  TimeoutsAreExact
  HighestPriorityRuns
  FindsHighest
PROPERTIES
  DelayEnds
