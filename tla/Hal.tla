-------------------------------- MODULE Hal ---------------------------------
(***************************************************************************)
(* The Win32 port (hal/MingW/HAL.c): tasks are threads, interrupts are     *)
(* bits of PendingInterrupts served by a thread of its own, and "interrupts*)
(* disabled" is holding InterruptEventMutex.  The module justifies what    *)
(* Kernel takes for granted: a critical section is not interrupted, a      *)
(* requested context switch happens when the section ends, and no          *)
(* interrupt is lost.                                                      *)
(*                                                                         *)
(* All threads share one core (SetThreadAffinityMask 0x01) at fixed        *)
(* priorities: the interrupt thread above the timer and UART threads, and  *)
(* those above the tasks.  InterruptEvent resets itself when it is waited  *)
(* for, and the mutex may be taken again by its owner.                     *)
(***************************************************************************)
EXTENDS Naturals

CONSTANTS
  Task,                 \* the threads of the tasks
  Isr, Timer, Uart,     \* the interrupt, tick and UART threads
  None

ASSUME HalAssumption ==
  /\ Task # {}
  /\ Isr \notin Task \cup {Timer, Uart, None}
  /\ Timer \notin Task \cup {Uart, None}
  /\ Uart \notin Task \cup {None}
  /\ None \notin Task

INTERRUPT_SWC  == 0
INTERRUPT_TICK == 1
INTERRUPT_UART == 2
MAX_INTERRUPTS == 3

VARIABLES
  owner, count,        \* InterruptEventMutex: who holds it, how many times
  InterruptEvent,
  PendingInterrupts,   \* the set of its bits
  iNesting,
  currentTask,         \* the only task thread that is not suspended
  pc,                  \* where each thread is
  bit,                 \* the loop variable i of the interrupt thread
  SwitchRequired

halVars == <<owner, count, InterruptEvent, PendingInterrupts, iNesting,
             currentTask, pc, bit, SwitchRequired>>

Goto(x, label) == pc' = [pc EXCEPT ![x] = label]

-----------------------------------------------------------------------------
(* Thread priorities: who may execute *)

\* The interrupt thread is in its loop, or WaitForMultipleObjects returns.
IsrRuns == pc[Isr] # "wait" \/ (owner = None /\ InterruptEvent)

\* A thread waiting for the mutex, or holding it and not asleep.
HelperRuns ==
  \/ pc[Timer] = "critical"
  \/ owner = None /\ (pc[Timer] \in {"raise", "read"} \/ pc[Uart] = "lock")

\* Mutant: the tasks have the priority of the timer thread.
MayRun_TaskAsHelper(x) == x = Isr \/ ((x \in {Timer, Uart} \/ x = currentTask) /\ ~IsrRuns)

\* Mutant: the interrupt thread has no priority over the others.
MayRun_IsrNotFirst(x) == x \in {Isr, Timer, Uart} \/ (x = currentTask /\ ~HelperRuns)

MayRun(x) ==
  \/ x = Isr
  \/ x \in {Timer, Uart} /\ ~IsrRuns
  \/ x \in Task /\ x = currentTask /\ ~IsrRuns /\ ~HelperRuns

-----------------------------------------------------------------------------
(* The mutex and the critical sections *)

Wait(x) ==
  /\ owner \in {None, x}
  /\ owner' = x
  /\ count' = count + 1

Release(x) ==
  /\ owner = x
  /\ count' = count - 1
  /\ owner' = IF count = 1 THEN None ELSE x

\* Mutant: only the nesting count is incremented.
EnterCritical_NoMutex(x) ==
  /\ iNesting' = iNesting + 1
  /\ UNCHANGED <<owner, count, InterruptEvent, PendingInterrupts>>

EnterCritical(x) ==
  /\ Wait(x)
  /\ iNesting' = iNesting + 1
  /\ UNCHANGED <<InterruptEvent, PendingInterrupts>>

\* Mutant: pending interrupts are not announced.
ExitCritical_NoEvent(x) ==
  /\ iNesting' = IF iNesting > 0 THEN iNesting - 1 ELSE iNesting
  /\ Release(x)
  /\ UNCHANGED <<InterruptEvent, PendingInterrupts>>

\* Mutant: the nesting count is not decremented.
ExitCritical_KeepsNesting(x) ==
  /\ InterruptEvent' = (InterruptEvent \/ PendingInterrupts # {})
  /\ Release(x)
  /\ UNCHANGED <<iNesting, PendingInterrupts>>

\* Interrupts that came up meanwhile are announced before the mutex is free.
ExitCritical(x) ==
  /\ iNesting' = IF iNesting > 0 THEN iNesting - 1 ELSE iNesting
  /\ InterruptEvent' =
       (InterruptEvent \/ (iNesting = 1 /\ PendingInterrupts # {}))
  /\ Release(x)
  /\ UNCHANGED PendingInterrupts

\* GeraInterrupcaoSimulada: the mutex is taken and released around it.
RaiseInterrupt(x, number) ==
  /\ owner \in {None, x}
  /\ PendingInterrupts' = PendingInterrupts \cup {number}
  /\ InterruptEvent' = (InterruptEvent \/ iNesting = 0)
  /\ UNCHANGED <<owner, count, iNesting>>

-----------------------------------------------------------------------------
(* Tasks: any sequence of critical sections, some of which request a context
   switch.  Line 1 of many services, "if (iNesting > 0) return IRQ_PEND_ERR",
   reads iNesting outside the critical section: see NoFalseInterruptContext. *)

isrVars == <<currentTask, bit, SwitchRequired>>

TaskEnterCritical(t) ==
  /\ MayRun(t)
  /\ pc[t] = "user"
  /\ EnterCritical(t)
  /\ Goto(t, "critical")
  /\ UNCHANGED isrVars

ChangeContext(t) ==
  /\ MayRun(t)
  /\ pc[t] = "critical"
  /\ RaiseInterrupt(t, INTERRUPT_SWC)
  /\ UNCHANGED <<pc, isrVars>>

TaskExitCritical(t) ==
  /\ MayRun(t)
  /\ pc[t] = "critical"
  /\ ExitCritical(t)
  /\ Goto(t, "user")
  /\ UNCHANGED isrVars

-----------------------------------------------------------------------------
(* The timer thread: sleep, raise the tick, read the tick count *)

TimerWakes ==
  /\ pc[Timer] = "sleep"
  /\ Goto(Timer, "raise")
  /\ UNCHANGED <<owner, count, InterruptEvent, PendingInterrupts, iNesting,
                 isrVars>>

TimerRaises ==
  /\ MayRun(Timer)
  /\ pc[Timer] = "raise"
  /\ RaiseInterrupt(Timer, INTERRUPT_TICK)
  /\ Goto(Timer, "read")
  /\ UNCHANGED isrVars

TimerReadsTick ==
  /\ MayRun(Timer)
  /\ \/ pc[Timer] = "read" /\ EnterCritical(Timer) /\ Goto(Timer, "critical")
     \/ pc[Timer] = "critical" /\ ExitCritical(Timer) /\ Goto(Timer, "sleep")
  /\ UNCHANGED isrVars

-----------------------------------------------------------------------------
(* The UART thread: a key arrives; the thread sleeps holding the mutex *)

KeyPressed ==
  /\ pc[Uart] = "sleep"
  /\ Goto(Uart, "lock")
  /\ UNCHANGED <<owner, count, InterruptEvent, PendingInterrupts, iNesting,
                 isrVars>>

UartLocks ==
  /\ MayRun(Uart)
  /\ pc[Uart] = "lock"
  /\ Wait(Uart)
  /\ Goto(Uart, "holding")
  /\ UNCHANGED <<InterruptEvent, PendingInterrupts, iNesting, isrVars>>

UartRaises ==
  /\ MayRun(Uart)
  /\ pc[Uart] = "holding"
  /\ PendingInterrupts' = PendingInterrupts \cup {INTERRUPT_UART}
  /\ InterruptEvent' = (InterruptEvent \/ iNesting = 0)
  /\ Release(Uart)
  /\ Goto(Uart, "sleep")
  /\ UNCHANGED <<iNesting, isrVars>>

-----------------------------------------------------------------------------
(* The interrupt thread, ProcessaInterrupcoesSimuladas *)

IsrStarts ==
  /\ pc[Isr] = "wait"
  /\ owner = None
  /\ InterruptEvent
  /\ Wait(Isr)
  /\ InterruptEvent' = FALSE
  /\ bit' = 0
  /\ SwitchRequired' = FALSE
  /\ Goto(Isr, "scan")
  /\ UNCHANGED <<PendingInterrupts, iNesting, currentTask>>

IsrSkips ==
  /\ pc[Isr] = "scan"
  /\ bit < MAX_INTERRUPTS
  /\ bit \notin PendingInterrupts
  /\ bit' = bit + 1
  /\ UNCHANGED <<owner, count, InterruptEvent, PendingInterrupts, iNesting,
                 currentTask, pc, SwitchRequired>>

\* The tick and UART handlers use critical sections themselves.
HandlerEntersCritical ==
  /\ pc[Isr] = "scan"
  /\ bit \in PendingInterrupts \ {INTERRUPT_SWC}
  /\ EnterCritical(Isr)
  /\ Goto(Isr, "critical")
  /\ UNCHANGED isrVars

HandlerExitsCritical ==
  /\ pc[Isr] = "critical"
  /\ ExitCritical(Isr)
  /\ Goto(Isr, "scan")
  /\ UNCHANGED isrVars

\* The handler returned (TRUE, as all handlers do) and its bit is cleared.
HandlerReturns ==
  /\ pc[Isr] = "scan"
  /\ bit \in PendingInterrupts
  /\ SwitchRequired' = TRUE
  /\ PendingInterrupts' = PendingInterrupts \ {bit}
  /\ bit' = bit + 1
  /\ UNCHANGED <<owner, count, InterruptEvent, iNesting, currentTask, pc>>

\* SuspendThread and ResumeThread; which task OSSchedule selects is Kernel's
\* business.
IsrSchedules ==
  /\ pc[Isr] = "scan"
  /\ bit = MAX_INTERRUPTS
  /\ IF SwitchRequired THEN currentTask' \in Task ELSE UNCHANGED currentTask
  /\ Release(Isr)
  /\ Goto(Isr, "wait")
  /\ UNCHANGED <<InterruptEvent, PendingInterrupts, iNesting, bit,
                 SwitchRequired>>

-----------------------------------------------------------------------------
\* The interrupt thread raises a first tick before its loop.
Init ==
  /\ owner = None
  /\ count = 0
  /\ InterruptEvent = TRUE
  /\ PendingInterrupts = {INTERRUPT_TICK}
  /\ iNesting = 0
  /\ currentTask \in Task
  /\ pc = [x \in Task \cup {Isr, Timer, Uart} |->
             IF x = Isr THEN "wait" ELSE IF x \in Task THEN "user" ELSE "sleep"]
  /\ bit = MAX_INTERRUPTS
  /\ SwitchRequired = FALSE

TaskStep ==
  \E t \in Task : TaskEnterCritical(t) \/ ChangeContext(t) \/ TaskExitCritical(t)
HelperStep ==
  TimerWakes \/ TimerRaises \/ TimerReadsTick \/ KeyPressed \/ UartLocks \/ UartRaises
IsrStep ==
  \/ IsrStarts \/ IsrSkips \/ HandlerEntersCritical \/ HandlerExitsCritical
  \/ HandlerReturns \/ IsrSchedules

Next == TaskStep \/ HelperStep \/ IsrStep

Spec == Init /\ [][Next]_halVars

\* Critical sections end, handlers return, and the interrupt thread and the
\* UART thread's sleep go on.
FairSpec ==
  /\ Spec
  /\ \A t \in Task : WF_halVars(TaskExitCritical(t))
  /\ WF_halVars(TimerReadsTick)
  /\ WF_halVars(UartRaises)
  /\ WF_halVars(IsrStarts) /\ WF_halVars(IsrSkips)
  /\ WF_halVars(HandlerExitsCritical) /\ SF_halVars(HandlerReturns)
  /\ WF_halVars(IsrSchedules)

-----------------------------------------------------------------------------
(* Properties *)

Label == {"user", "critical", "sleep", "raise", "read", "lock", "holding",
          "wait", "scan"}

HalTypeOK ==
  /\ owner \in Task \cup {Isr, Timer, Uart, None}
  /\ count \in 0 .. 2
  /\ count = 0 <=> owner = None
  /\ InterruptEvent \in BOOLEAN
  /\ PendingInterrupts \subseteq 0 .. MAX_INTERRUPTS - 1
  /\ iNesting \in 0 .. 1
  /\ currentTask \in Task
  /\ pc \in [Task \cup {Isr, Timer, Uart} -> Label]
  /\ bit \in 0 .. MAX_INTERRUPTS
  /\ SwitchRequired \in BOOLEAN

\* A critical section is atomic: the task in it is the one that is not
\* suspended, it holds the mutex, and no other thread is in a section of its own
\* or in the interrupt loop.
CriticalIsAtomic ==
  \A t \in Task : pc[t] = "critical" =>
    /\ t = currentTask
    /\ owner = t
    /\ pc[Isr] = "wait"
    /\ pc[Timer] # "critical" /\ pc[Uart] # "holding"

\* No interrupt is lost: when the mutex is free, whatever is pending has been
\* announced to the interrupt thread.
NoInterruptLost ==
  owner = None /\ PendingInterrupts # {} => InterruptEvent

\* A task that requested a switch executes nothing after the end of its
\* critical section before the switch was served.
SwitchIsImmediate ==
  [][ \A t \in Task : TaskEnterCritical(t) => PendingInterrupts = {} ]_halVars

\* The bit of an interrupt is never still set when it is raised again by its
\* source: no tick and no received character is swallowed.
NoTickSwallowed ==
  [][ /\ TimerRaises => INTERRUPT_TICK \notin PendingInterrupts
      /\ UartRaises => INTERRUPT_UART \notin PendingInterrupts ]_halVars

\* A task in user code never sees iNesting > 0, so no service takes its caller
\* for an interrupt handler.
NoFalseInterruptContext ==
  \A t \in Task : MayRun(t) /\ pc[t] = "user" => iNesting = 0

\* Every interrupt that is raised is served.
InterruptsServed ==
  \A i \in 0 .. MAX_INTERRUPTS - 1 :
    i \in PendingInterrupts ~> i \notin PendingInterrupts
=============================================================================
