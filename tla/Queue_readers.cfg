SPECIFICATION QueueSpec
CONSTANTS
  Task = {1, 2, 3}
  Idle = 4
  InitPriority <- MCPriority3
  configMAX_TASK_PRIORITY = 3
  TICK_COUNT_OVERFLOW = 3
  TimeWait = {1, 2}
  CriticalNests = FALSE
  MAX_EVENT = 1
  BlockTargets = {}
  DeleteWithWaiters = FALSE
  Data = {d1}
  Sizes = {1}
  DynamicSizes = {}
  CPU_BYTES = 2
  QUEUE_HEAP_SIZE = 2
  ALLOC_BYTES = 0
  DynamicSets = {{}}
  Readers = {2, 3}
INVARIANTS
  EntriesWithinSize
