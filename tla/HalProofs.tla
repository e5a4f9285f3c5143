----------------------------- MODULE HalProofs ------------------------------
(***************************************************************************)
(* Proofs about Hal, for every number of task threads: the critical        *)
(* sections of the Win32 port are atomic, a requested switch is taken at   *)
(* once and no interrupt is lost or merged into another one.               *)
(*                                                                         *)
(* The inductive invariant HalInv reads the mutex, its count and iNesting  *)
(* off the program counters of the threads.                                *)
(***************************************************************************)
EXTENDS Hal, TLAPS

\* Where each kind of thread can be.
ThreadLabels ==
  /\ \A t \in Task : pc[t] \in {"user", "critical"}
  /\ pc[Timer] \in {"sleep", "raise", "read", "critical"}
  /\ pc[Uart] \in {"sleep", "lock", "holding"}
  /\ pc[Isr] \in {"wait", "scan", "critical"}

\* The mutex is held by the thread that is in a section, and by no other.
OwnerMatches ==
  /\ \A t \in Task : pc[t] = "critical" <=> owner = t
  /\ pc[Timer] = "critical" <=> owner = Timer
  /\ pc[Uart] = "holding" <=> owner = Uart
  /\ pc[Isr] # "wait" <=> owner = Isr

\* The interrupt thread holds the mutex twice in the section of a handler, and
\* iNesting counts the sections of tasks, of handlers and of the timer thread.
CountsMatch ==
  /\ count = IF owner = None THEN 0
             ELSE IF pc[Isr] = "critical" THEN 2 ELSE 1
  /\ iNesting = IF owner \in Task \cup {Timer} \/ pc[Isr] = "critical"
                THEN 1 ELSE 0

\* A task is never suspended inside a section.
OwnerNotSuspended == owner \in Task => owner = currentTask

\* What the interrupt thread has passed is served, and nothing is pending when
\* the UART thread has got hold of the mutex.
ServedInOrder ==
  /\ pc[Isr] # "wait" => \A i \in PendingInterrupts : bit <= i
  /\ owner = Uart => PendingInterrupts = {}

HalInv ==
  /\ HalTypeOK /\ ThreadLabels /\ OwnerMatches /\ CountsMatch
  /\ OwnerNotSuspended /\ ServedInOrder /\ NoInterruptLost

USE DEF INTERRUPT_SWC, INTERRUPT_TICK, INTERRUPT_UART, MAX_INTERRUPTS

\* BTOSStartFirstTask establishes the invariant.
LEMMA InitHalInv == Init => HalInv
<1> SUFFICES ASSUME Init PROVE HalInv
  OBVIOUS
<1>1. pc \in [Task \cup {Isr, Timer, Uart} -> Label]
  BY HalAssumption DEF Init, Label
<1>3. InterruptEvent \in BOOLEAN /\ SwitchRequired \in BOOLEAN
  BY DEF Init
<1>4. HalTypeOK
  BY <1>1, <1>3, HalAssumption DEF Init, HalTypeOK
<1>2. ThreadLabels /\ OwnerMatches /\ CountsMatch
  BY HalAssumption DEF Init, ThreadLabels, OwnerMatches, CountsMatch
<1> QED
  BY <1>4, <1>2, HalAssumption
  DEF Init, HalInv, OwnerNotSuspended, ServedInOrder, NoInterruptLost

\* When a thread other than the interrupt thread may run and the mutex is free,
\* nothing is pending.
LEMMA NothingPending ==
  ASSUME HalInv, NEW x \in Task \cup {Timer, Uart}, MayRun(x), owner = None
  PROVE  PendingInterrupts = {}
BY HalAssumption DEF HalInv, MayRun, IsrRuns, NoInterruptLost

-----------------------------------------------------------------------------
(* Each step keeps the invariant *)

\* A task enters a section: the mutex was free.
LEMMA TaskEnterKeepsInv ==
  ASSUME HalInv, NEW t \in Task, TaskEnterCritical(t)
  PROVE  HalInv'
BY HalAssumption
DEF HalInv, HalTypeOK, ThreadLabels, OwnerMatches, CountsMatch,
   OwnerNotSuspended, ServedInOrder, NoInterruptLost, Label,
   TaskEnterCritical, MayRun, EnterCritical, Wait, Goto, isrVars

\* A request for a switch waits for the end of the section.
LEMMA ChangeContextKeepsInv ==
  ASSUME HalInv, NEW t \in Task, ChangeContext(t)
  PROVE  HalInv'
BY HalAssumption
DEF HalInv, HalTypeOK, ThreadLabels, OwnerMatches, CountsMatch,
   OwnerNotSuspended, ServedInOrder, NoInterruptLost, Label,
   ChangeContext, MayRun, RaiseInterrupt, isrVars

\* The end of a section announces what is pending.
LEMMA TaskExitKeepsInv ==
  ASSUME HalInv, NEW t \in Task, TaskExitCritical(t)
  PROVE  HalInv'
<1> USE HalAssumption DEF TaskExitCritical, MayRun, ExitCritical, Release, Goto,
   isrVars
<1>1. InterruptEvent' \in BOOLEAN
  OBVIOUS
<1>2. HalTypeOK'
  BY <1>1 DEF HalInv, HalTypeOK, ThreadLabels, OwnerMatches, CountsMatch, Label
<1>3. (ThreadLabels /\ OwnerMatches /\ CountsMatch /\ OwnerNotSuspended)'
  BY DEF HalInv, HalTypeOK, ThreadLabels, OwnerMatches, CountsMatch,
     OwnerNotSuspended, Label
<1>4. (ServedInOrder /\ NoInterruptLost)'
  BY DEF HalInv, HalTypeOK, ThreadLabels, OwnerMatches, CountsMatch,
     ServedInOrder, NoInterruptLost
<1> QED
  BY <1>2, <1>3, <1>4 DEF HalInv

\* The timer thread wakes up.
LEMMA TimerWakesKeepsInv ==
  ASSUME HalInv, TimerWakes
  PROVE  HalInv'
BY HalAssumption
DEF HalInv, HalTypeOK, ThreadLabels, OwnerMatches, CountsMatch,
   OwnerNotSuspended, ServedInOrder, NoInterruptLost, Label,
   TimerWakes, Goto, isrVars

\* The timer thread raises the tick outside any section.
LEMMA TimerRaisesKeepsInv ==
  ASSUME HalInv, TimerRaises
  PROVE  HalInv'
<1> USE HalAssumption DEF TimerRaises, RaiseInterrupt, Goto, isrVars
<1>1. InterruptEvent' \in BOOLEAN
  OBVIOUS
<1>2. HalTypeOK'
  BY <1>1 DEF HalInv, HalTypeOK, ThreadLabels, OwnerMatches, CountsMatch, Label
<1>3. (ThreadLabels /\ OwnerMatches /\ CountsMatch /\ OwnerNotSuspended)'
  BY DEF HalInv, HalTypeOK, ThreadLabels, OwnerMatches, CountsMatch,
     OwnerNotSuspended, Label
<1>4. (ServedInOrder /\ NoInterruptLost)'
  BY DEF HalInv, HalTypeOK, ThreadLabels, OwnerMatches, CountsMatch,
     ServedInOrder, NoInterruptLost
<1> QED
  BY <1>2, <1>3, <1>4 DEF HalInv

\* The section in which the timer thread reads the tick count.
LEMMA TimerReadsTickKeepsInv ==
  ASSUME HalInv, TimerReadsTick
  PROVE  HalInv'
<1>1. CASE pc[Timer] = "read"
  <2>1. /\ EnterCritical(Timer)
        /\ pc' = [pc EXCEPT ![Timer] = "critical"]
        /\ UNCHANGED <<currentTask, bit, SwitchRequired>>
    BY <1>1 DEF TimerReadsTick, Goto, isrVars
  <2>2. HalTypeOK'
    BY <1>1, <2>1, HalAssumption
    DEF EnterCritical, Wait, HalInv, HalTypeOK, ThreadLabels, OwnerMatches,
        CountsMatch, Label
  <2>3. (ThreadLabels /\ OwnerMatches /\ CountsMatch /\ OwnerNotSuspended)'
    BY <1>1, <2>1, HalAssumption
    DEF EnterCritical, Wait, HalInv, HalTypeOK, ThreadLabels, OwnerMatches,
        CountsMatch, OwnerNotSuspended, Label
  <2>4. (ServedInOrder /\ NoInterruptLost)'
    BY <1>1, <2>1, HalAssumption
    DEF EnterCritical, Wait, HalInv, HalTypeOK, ThreadLabels, OwnerMatches,
        ServedInOrder, NoInterruptLost
  <2> QED
    BY <2>2, <2>3, <2>4 DEF HalInv
<1>2. CASE pc[Timer] = "critical"
  <2>1. /\ ExitCritical(Timer)
        /\ pc' = [pc EXCEPT ![Timer] = "sleep"]
        /\ UNCHANGED <<currentTask, bit, SwitchRequired>>
    BY <1>2 DEF TimerReadsTick, Goto, isrVars
  <2>2. InterruptEvent' \in BOOLEAN
    BY <2>1 DEF ExitCritical
  <2>3. HalTypeOK'
    BY <1>2, <2>1, <2>2, HalAssumption
    DEF ExitCritical, Release, HalInv, HalTypeOK, ThreadLabels, OwnerMatches,
        CountsMatch, Label
  <2>4. (ThreadLabels /\ OwnerMatches /\ CountsMatch /\ OwnerNotSuspended)'
    BY <1>2, <2>1, HalAssumption
    DEF ExitCritical, Release, HalInv, HalTypeOK, ThreadLabels, OwnerMatches,
        CountsMatch, OwnerNotSuspended, Label
  <2>5. (ServedInOrder /\ NoInterruptLost)'
    BY <1>2, <2>1, HalAssumption
    DEF ExitCritical, Release, HalInv, HalTypeOK, ThreadLabels, OwnerMatches,
        CountsMatch, ServedInOrder, NoInterruptLost
  <2> QED
    BY <2>3, <2>4, <2>5 DEF HalInv
<1> QED
  BY <1>1, <1>2 DEF TimerReadsTick

\* The UART thread has input.
LEMMA KeyPressedKeepsInv ==
  ASSUME HalInv, KeyPressed
  PROVE  HalInv'
BY HalAssumption
DEF HalInv, HalTypeOK, ThreadLabels, OwnerMatches, CountsMatch,
   OwnerNotSuspended, ServedInOrder, NoInterruptLost, Label,
   KeyPressed, Goto, isrVars

\* The UART thread takes the mutex when nothing is pending.
LEMMA UartLocksKeepsInv ==
  ASSUME HalInv, UartLocks
  PROVE  HalInv'
BY HalAssumption, NothingPending
DEF HalInv, HalTypeOK, ThreadLabels, OwnerMatches, CountsMatch,
   OwnerNotSuspended, ServedInOrder, NoInterruptLost, Label,
   UartLocks, Wait, Goto, isrVars

\* The UART thread raises its interrupt and lets go.
LEMMA UartRaisesKeepsInv ==
  ASSUME HalInv, UartRaises
  PROVE  HalInv'
<1> USE HalAssumption DEF UartRaises, Release, Goto, isrVars
<1>1. InterruptEvent' \in BOOLEAN
  OBVIOUS
<1>2. HalTypeOK'
  BY <1>1 DEF HalInv, HalTypeOK, ThreadLabels, OwnerMatches, CountsMatch, Label
<1>3. (ThreadLabels /\ OwnerMatches /\ CountsMatch /\ OwnerNotSuspended)'
  BY DEF HalInv, HalTypeOK, ThreadLabels, OwnerMatches, CountsMatch,
     OwnerNotSuspended, Label
<1>4. (ServedInOrder /\ NoInterruptLost)'
  BY DEF HalInv, HalTypeOK, ThreadLabels, OwnerMatches, CountsMatch,
     ServedInOrder, NoInterruptLost
<1> QED
  BY <1>2, <1>3, <1>4 DEF HalInv

\* The interrupt thread takes the mutex and the event.
LEMMA IsrStartsKeepsInv ==
  ASSUME HalInv, IsrStarts
  PROVE  HalInv'
<1> USE HalAssumption DEF IsrStarts, Wait, Goto, isrVars
<1>1. InterruptEvent' \in BOOLEAN /\ SwitchRequired' \in BOOLEAN
  OBVIOUS
<1>2. HalTypeOK'
  BY <1>1 DEF HalInv, HalTypeOK, ThreadLabels, OwnerMatches, CountsMatch, Label
<1>3. (ThreadLabels /\ OwnerMatches /\ CountsMatch /\ OwnerNotSuspended)'
  BY DEF HalInv, HalTypeOK, ThreadLabels, OwnerMatches, CountsMatch,
     OwnerNotSuspended, Label
<1>4. (ServedInOrder /\ NoInterruptLost)'
  BY DEF HalInv, HalTypeOK, ThreadLabels, OwnerMatches, CountsMatch,
     ServedInOrder, NoInterruptLost
<1> QED
  BY <1>2, <1>3, <1>4 DEF HalInv

\* The interrupt thread skips a bit that is not pending.
LEMMA IsrSkipsKeepsInv ==
  ASSUME HalInv, IsrSkips
  PROVE  HalInv'
BY HalAssumption
DEF HalInv, HalTypeOK, ThreadLabels, OwnerMatches, CountsMatch,
   OwnerNotSuspended, ServedInOrder, NoInterruptLost, Label,
   IsrSkips, isrVars

\* A handler enters a section of its own.
LEMMA HandlerEntersCriticalKeepsInv ==
  ASSUME HalInv, HandlerEntersCritical
  PROVE  HalInv'
BY HalAssumption
DEF HalInv, HalTypeOK, ThreadLabels, OwnerMatches, CountsMatch,
   OwnerNotSuspended, ServedInOrder, NoInterruptLost, Label,
   HandlerEntersCritical, EnterCritical, Wait, Goto, isrVars

\* A handler leaves its section.
LEMMA HandlerExitsCriticalKeepsInv ==
  ASSUME HalInv, HandlerExitsCritical
  PROVE  HalInv'
BY HalAssumption
DEF HalInv, HalTypeOK, ThreadLabels, OwnerMatches, CountsMatch,
   OwnerNotSuspended, ServedInOrder, NoInterruptLost, Label,
   HandlerExitsCritical, ExitCritical, Release, Goto, isrVars

\* A served bit is cleared.
LEMMA HandlerReturnsKeepsInv ==
  ASSUME HalInv, HandlerReturns
  PROVE  HalInv'
BY HalAssumption
DEF HalInv, HalTypeOK, ThreadLabels, OwnerMatches, CountsMatch,
   OwnerNotSuspended, ServedInOrder, NoInterruptLost, Label,
   HandlerReturns, isrVars

\* The interrupt thread ends with nothing left below MAX_INTERRUPTS.
LEMMA IsrSchedulesKeepsInv ==
  ASSUME HalInv, IsrSchedules
  PROVE  HalInv'
<1> USE HalAssumption DEF IsrSchedules, Release, Goto, isrVars
<1>1. InterruptEvent' \in BOOLEAN
  BY DEF HalInv, HalTypeOK
<1>2. HalTypeOK'
  BY <1>1 DEF HalInv, HalTypeOK, ThreadLabels, OwnerMatches, CountsMatch, Label
<1>3. (ThreadLabels /\ OwnerMatches /\ CountsMatch /\ OwnerNotSuspended)'
  BY DEF HalInv, HalTypeOK, ThreadLabels, OwnerMatches, CountsMatch,
     OwnerNotSuspended, Label
<1>4. PendingInterrupts = {}
  BY DEF HalInv, HalTypeOK, ServedInOrder
<1>5. (ServedInOrder /\ NoInterruptLost)'
  BY <1>4 DEF HalInv, HalTypeOK, ThreadLabels, OwnerMatches, CountsMatch,
     ServedInOrder, NoInterruptLost
<1> QED
  BY <1>2, <1>3, <1>5 DEF HalInv

\* Every step, stuttering included.
LEMMA StepHalInv == HalInv /\ [Next]_halVars => HalInv'
<1> SUFFICES ASSUME HalInv, [Next]_halVars PROVE HalInv'
  OBVIOUS
<1>1. CASE TaskStep
  BY <1>1, TaskEnterKeepsInv, ChangeContextKeepsInv, TaskExitKeepsInv
  DEF TaskStep
<1>2. CASE HelperStep
  BY <1>2, TimerWakesKeepsInv, TimerRaisesKeepsInv, TimerReadsTickKeepsInv,
     KeyPressedKeepsInv, UartLocksKeepsInv, UartRaisesKeepsInv
  DEF HelperStep
<1>3. CASE IsrStep
  BY <1>3, IsrStartsKeepsInv, IsrSkipsKeepsInv, HandlerEntersCriticalKeepsInv,
     HandlerExitsCriticalKeepsInv, HandlerReturnsKeepsInv, IsrSchedulesKeepsInv
  DEF IsrStep
<1>4. CASE UNCHANGED halVars
  BY <1>4
  DEF halVars, HalInv, HalTypeOK, ThreadLabels, OwnerMatches, CountsMatch,
   OwnerNotSuspended, ServedInOrder, NoInterruptLost, Label
<1> QED
  BY <1>1, <1>2, <1>3, <1>4 DEF Next

-----------------------------------------------------------------------------
(* The theorems *)

\* HalInv is an invariant of the Win32 port.
THEOREM HalInvariance == Spec => []HalInv
<1> QED
  BY InitHalInv, StepHalInv, PTL DEF Spec

\* The mutex is held at most twice and iNesting never exceeds 1.
THEOREM HalTypeCorrect == Spec => []HalTypeOK
<1>1. HalInv => HalTypeOK
  BY DEF HalInv
<1> QED
  BY <1>1, HalInvariance, PTL

\* EnterCritical and ExitCritical of the port make a section of a task atomic:
\* no other thread is in a section or in the interrupt loop, and the task in
\* it is the one that is not suspended.
THEOREM SectionsAreAtomic == Spec => []CriticalIsAtomic
<1>1. HalInv => CriticalIsAtomic
  BY HalAssumption DEF HalInv, CriticalIsAtomic, OwnerMatches, OwnerNotSuspended
<1> QED
  BY <1>1, HalInvariance, PTL

\* Whatever GeraInterrupcaoSimulada left pending has been announced when the
\* mutex is free.
THEOREM InterruptsAreAnnounced == Spec => []NoInterruptLost
<1>1. HalInv => NoInterruptLost
  BY DEF HalInv
<1> QED
  BY <1>1, HalInvariance, PTL

\* The test "if (iNesting > 0)" at the start of a service never takes a task
\* for an interrupt handler, although it is made without the mutex.
THEOREM TasksSeeNoNesting == Spec => []NoFalseInterruptContext
<1>1. HalInv => NoFalseInterruptContext
  BY HalAssumption
  DEF HalInv, NoFalseInterruptContext, MayRun, IsrRuns, HelperRuns,
      OwnerMatches, OwnerNotSuspended, CountsMatch, ThreadLabels
<1> QED
  BY <1>1, HalInvariance, PTL

\* A task that requested a switch does not enter another section before the
\* interrupt thread has served the request.
THEOREM SwitchesAreImmediate == Spec => SwitchIsImmediate
<1>1. ASSUME HalInv, NEW t \in Task, TaskEnterCritical(t)
      PROVE  PendingInterrupts = {}
  BY <1>1, NothingPending, HalAssumption
  DEF HalInv, OwnerMatches, TaskEnterCritical, EnterCritical, Wait
<1>2. HalInv => [\A t \in Task : TaskEnterCritical(t)
                                => PendingInterrupts = {}]_halVars
  BY <1>1
<1> QED
  BY <1>2, HalInvariance, PTL DEF SwitchIsImmediate

\* The bit of the tick and the bit of the UART are clear whenever their threads
\* set them: no interrupt is merged into an earlier one.
THEOREM NoInterruptMerged == Spec => NoTickSwallowed
<1> DEFINE Fresh == /\ TimerRaises => INTERRUPT_TICK \notin PendingInterrupts
                    /\ UartRaises => INTERRUPT_UART \notin PendingInterrupts
<1>1. ASSUME HalInv, TimerRaises PROVE PendingInterrupts = {}
  BY <1>1, NothingPending, HalAssumption
  DEF HalInv, OwnerMatches, TimerRaises, RaiseInterrupt
<1>2. ASSUME HalInv, UartRaises PROVE PendingInterrupts = {}
  BY <1>2 DEF HalInv, OwnerMatches, ServedInOrder, UartRaises
<1>3. HalInv => [Fresh]_halVars
  BY <1>1, <1>2
<1> QED
  BY <1>3, HalInvariance, PTL DEF NoTickSwallowed
=============================================================================
