SPECIFICATION TimerSpec
CONSTANTS
  Task = {1, 2}
  Idle = 3
  InitPriority <- MCPriority2
  configMAX_TASK_PRIORITY = 2
  TICK_COUNT_OVERFLOW = 4
  TimeWait = {1}
  CriticalNests = FALSE
  TimerTask = 2
  BRTOS_MAX_TIMER = 3
  TimerWait = {0, 1, 3}
  Repeat = {0, 1, 3}
INVARIANTS
  LinkedOnce
CHECK_DEADLOCK FALSE
