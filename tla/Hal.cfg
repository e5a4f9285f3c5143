SPECIFICATION FairSpec
CONSTANTS
  Task = {t1, t2}
  Isr = Isr
  Timer = Timer
  Uart = Uart
  None = None
INVARIANTS
  HalTypeOK
  CriticalIsAtomic
  NoInterruptLost
  NoFalseInterruptContext
PROPERTIES
  SwitchIsImmediate
  NoTickSwallowed
  InterruptsServed
