SPECIFICATION TimerSpec
CONSTANTS
  Task = {1, 2}
  Idle = 3
  InitPriority <- MCPriority2
  configMAX_TASK_PRIORITY = 2
  TICK_COUNT_OVERFLOW = 3
  TimeWait = {1}
  CriticalNests = FALSE
  TimerTask = 2
  BRTOS_MAX_TIMER = 4
  TimerWait = {0, 1, 2}
  Repeat = {0, 2}
INVARIANTS
  SoftTimerTypeOK
  HeapOrdered
  RunningTimersLinked
  TimeLeftExact
  EarlyOnlyAfterStop
CONSTRAINT MCBound
CHECK_DEADLOCK FALSE
