SPECIFICATION MboxSpec
CONSTANTS
  Task = {1, 2, 3}
  Idle = 4
  InitPriority <- MCPriority3
  configMAX_TASK_PRIORITY = 3
  TICK_COUNT_OVERFLOW = 3
  TimeWait = {1, 2}
  CriticalNests = FALSE
  MAX_EVENT = 1
  BlockTargets = {1, 3}
  DeleteWithWaiters = FALSE
  Message = {m1}
  NULL = NULL
  Readers = {1, 2}
INVARIANTS
  TopReaderHasMail
  NoMailStranded
