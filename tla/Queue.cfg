SPECIFICATION QueueSpec
CONSTANTS
  Task = {1, 2}
  Idle = 3
  InitPriority <- MCPriority2
  configMAX_TASK_PRIORITY = 2
  TICK_COUNT_OVERFLOW = 2
  TimeWait = {1}
  CriticalNests = FALSE
  MAX_EVENT = 2
  BlockTargets = {}
  DeleteWithWaiters = FALSE
  Data = {d1, d2}
  Sizes = {1}
  DynamicSizes <- MCDynamicSizes
  CPU_BYTES = 2
  QUEUE_HEAP_SIZE = 2
  ALLOC_BYTES = 4
  DynamicSets = {{2}, {1, 2}}
  Readers = {2}
INVARIANTS
  QueueTypeOK
PROPERTIES
  ImplementsFifo
SYMMETRY
  MCSymmetry
