------------------------------- MODULE Kernel -------------------------------
(***************************************************************************)
(* The BRTOS scheduling core (brtos/brtos/BRTOS.c): the ready, blocked and *)
(* delay lists, the tick handler, the delay and the block services, and    *)
(* the context switch of the port.                                         *)
(*                                                                         *)
(* A critical section (OSEnterCritical ... OSExitCritical) is one step,    *)
(* and so is one pass of the interrupt thread: module Hal shows that the   *)
(* simulator's mutex makes them so.  The bit masks OSReadyList and         *)
(* OSBlockedList are sets of priorities; a bit of OSBlockedList that is    *)
(* SET means "not blocked".  The doubly linked delay list is the set of    *)
(* its tasks: module DelayList shows that the linked one implements it.    *)
(***************************************************************************)
EXTENDS Integers, FiniteSets

CONSTANTS
  Task,                     \* handles of the user tasks
  Idle,                     \* handle of the Idle task
  InitPriority,             \* the priority each thread is installed with
  configMAX_TASK_PRIORITY,  \* highest priority
  TICK_COUNT_OVERFLOW,      \* the tick counter runs from 0 to this value - 1
  TimeWait,                 \* the nonzero time_wait arguments the tasks use
  CriticalNests             \* TRUE: OSEnterCritical also counts in iNesting
                            \* (MingW port); FALSE: iNesting counts only
                            \* interrupts (microcontroller ports)

EMPTY_PRIO == 255
MUTEX_PRIO == 254

EXIT_BY_TIMEOUT == TICK_COUNT_OVERFLOW + 1
NO_TIMEOUT      == TICK_COUNT_OVERFLOW + 2
MAX_TIMER       == TICK_COUNT_OVERFLOW + 3

Thread   == Task \cup {Idle}
PrioRange == 0 .. configMAX_TASK_PRIORITY

ASSUME ThreadAssumption ==
  /\ Thread \subseteq 1 .. MUTEX_PRIO - 1
  /\ Idle \notin Task
  /\ CriticalNests \in BOOLEAN

\* Two tasks are never installed at the same priority (OSInstallTask answers
\* BUSY_PRIORITY) and priority 0 is kept for Idle.
ASSUME PriorityAssumption ==
  /\ configMAX_TASK_PRIORITY \in Nat
  /\ InitPriority \in [Thread -> PrioRange]
  /\ \A t \in Thread : InitPriority[t] = 0 <=> t = Idle
  /\ \A t, u \in Thread : InitPriority[t] = InitPriority[u] => t = u

ASSUME TimeAssumption ==
  /\ TICK_COUNT_OVERFLOW \in Nat \ {0}
  /\ TimeWait \subseteq 1 .. MAX_TIMER

VARIABLES
  PriorityVector,  \* which thread owns each priority
  Priority,        \* ContextTask[t].Priority
  TimeToWait,      \* ContextTask[t].TimeToWait
  OSReadyList,
  OSBlockedList,
  delayList,       \* the tasks linked from Head
  OSTickCounter,
  currentTask,
  changeContext,   \* a context switch was requested and not yet taken
  left             \* history: ticks still to pass before t's deadline

kernelVars == <<PriorityVector, Priority, TimeToWait, OSReadyList,
                OSBlockedList, delayList, OSTickCounter, currentTask,
                changeContext, left>>

\* What no context switch, tick or wake-up touches.
priorityVars == <<PriorityVector, Priority>>

-----------------------------------------------------------------------------
(* The scheduler *)

\* The highest priority of a mask, 0 for the empty one; module
\* ReadyMask checks the code's bit search against this.
SAScheduler(mask) ==
  IF mask = {} THEN 0 ELSE CHOOSE p \in mask : \A q \in mask : q <= p

OSSchedule(vector, ready, blocked) == vector[SAScheduler(ready \cap blocked)]

\* Mutant: a task that can go on is not preempted.
Reschedule_NotPreemptive ==
  /\ currentTask' =
       IF Priority'[currentTask] \in OSReadyList' \cap OSBlockedList'
       THEN currentTask
       ELSE OSSchedule(PriorityVector', OSReadyList', OSBlockedList')
  /\ changeContext' = FALSE

\* End of an interrupt: every pending request is served, then the highest
\* ready priority that is not blocked gets the processor.
Reschedule ==
  /\ currentTask' = OSSchedule(PriorityVector', OSReadyList', OSBlockedList')
  /\ changeContext' = FALSE

\* A user task executes its own code.
Running(t) == currentTask = t /\ ~changeContext

\* Mutant: the request for a switch is forgotten.
ChangeContextIfNotNested_Never == changeContext' = FALSE

\* "if (!iNesting) ChangeContext();" inside a critical section of a task.
ChangeContextIfNotNested == changeContext' = ~CriticalNests

-----------------------------------------------------------------------------
(* Time *)

\* Mutant: the tick counter does not wrap.
IncCounter_NoWrap(c) == c + 1

\* Mutant: the tick counter wraps one tick early.
IncCounter_WrapsEarly(c) == IF c + 2 >= TICK_COUNT_OVERFLOW THEN 0 ELSE c + 1

IncCounter(c) == IF c + 1 = TICK_COUNT_OVERFLOW THEN 0 ELSE c + 1

\* Mutant: > instead of >= at the wrap.
Deadline_OffByOne(w) ==
  LET timeout == OSTickCounter + w
  IN  IF timeout > TICK_COUNT_OVERFLOW
      THEN timeout - TICK_COUNT_OVERFLOW
      ELSE timeout

\* The tick at which a wait of w ticks ends.
Deadline(w) ==
  LET timeout == OSTickCounter + w
  IN  IF timeout >= TICK_COUNT_OVERFLOW
      THEN timeout - TICK_COUNT_OVERFLOW
      ELSE timeout

\* Mutant: the task is not put into the delay list.
Suspend_NotLinked(t, w) ==
  /\ OSReadyList' = OSReadyList \ {Priority[t]}
  /\ TimeToWait' = [TimeToWait EXCEPT ![t] =
                      IF w = 0 THEN NO_TIMEOUT ELSE Deadline(w)]
  /\ left' = [left EXCEPT ![t] = w]
  /\ changeContext' = TRUE
  /\ UNCHANGED <<priorityVars, OSBlockedList, delayList, OSTickCounter,
                 currentTask>>

\* The running task t suspends itself for at most w ticks; w = 0 is for ever
\* (only the event services do that).
Suspend(t, w) ==
  /\ OSReadyList' = OSReadyList \ {Priority[t]}
  /\ TimeToWait' = [TimeToWait EXCEPT ![t] =
                      IF w = 0 THEN NO_TIMEOUT ELSE Deadline(w)]
  /\ delayList' = IF w = 0 THEN delayList ELSE delayList \cup {t}
  /\ left' = [left EXCEPT ![t] = w]
  /\ changeContext' = TRUE
  /\ UNCHANGED <<priorityVars, OSBlockedList, OSTickCounter, currentTask>>

OSDelayTask(t, w) ==
  /\ Running(t)
  /\ Suspend(t, w)

\* The tick interrupt: OSIncCounter, then OS_TICK_HANDLER over the delay list.
TickTimer ==
  LET now     == IncCounter(OSTickCounter)
      expired == {t \in delayList : TimeToWait[t] = now}
  IN  /\ OSTickCounter' = now
      /\ OSReadyList' = OSReadyList \cup {Priority[t] : t \in expired}
      /\ TimeToWait' = [t \in Thread |-> IF t \in expired THEN EXIT_BY_TIMEOUT
                                                          ELSE TimeToWait[t]]
      /\ delayList' = delayList \ expired
      /\ left' = [t \in Thread |-> IF t \in delayList /\ left[t] > 0
                                  THEN left[t] - 1 ELSE left[t]]
      /\ UNCHANGED <<priorityVars, OSBlockedList>>
      /\ Reschedule

\* The software interrupt that ChangeContext() requests.
SwitchContext ==
  /\ changeContext
  /\ UNCHANGED <<priorityVars, TimeToWait, OSReadyList, OSBlockedList,
                 delayList, OSTickCounter, left>>
  /\ Reschedule

-----------------------------------------------------------------------------
(* Blocking and unblocking tasks *)

onlyBlockedList == <<priorityVars, TimeToWait, OSReadyList, delayList,
                     OSTickCounter, currentTask, left>>

OSBlockPriority(p) ==
  /\ OSBlockedList' = OSBlockedList \ {p}
  /\ changeContext' = (PriorityVector[p] = currentTask)
  /\ UNCHANGED onlyBlockedList

OSUnBlockPriority(p) ==
  /\ OSBlockedList' = OSBlockedList \cup {p}
  /\ ChangeContextIfNotNested
  /\ UNCHANGED onlyBlockedList

\* Mutant: a task that blocks itself keeps the processor.
OSBlockTask_NoSwitch(h) ==
  /\ OSBlockedList' = OSBlockedList \ {Priority[h]}
  /\ changeContext' = FALSE
  /\ UNCHANGED onlyBlockedList

\* A handle of 0 stands for the caller, which h = currentTask covers.
OSBlockTask(h) ==
  /\ OSBlockedList' = OSBlockedList \ {Priority[h]}
  /\ changeContext' = (h = currentTask)
  /\ UNCHANGED onlyBlockedList

OSUnBlockTask(h) ==
  /\ OSBlockedList' = OSBlockedList \cup {Priority[h]}
  /\ ChangeContextIfNotNested
  /\ UNCHANGED onlyBlockedList

\* The priorities of TaskNumber handles from TaskStart on, the caller's
\* skipped.
MultiplePriorities(TaskStart, TaskNumber) ==
  {Priority[h] : h \in {i \in Thread \ {currentTask} :
                         TaskStart <= i /\ i < TaskStart + TaskNumber}}

OSBlockMultipleTask(TaskStart, TaskNumber) ==
  /\ OSBlockedList' = OSBlockedList \ MultiplePriorities(TaskStart, TaskNumber)
  /\ UNCHANGED <<onlyBlockedList, changeContext>>

OSUnBlockMultipleTask(TaskStart, TaskNumber) ==
  /\ OSBlockedList' =
       OSBlockedList \cup MultiplePriorities(TaskStart, TaskNumber)
  /\ ChangeContextIfNotNested
  /\ UNCHANGED onlyBlockedList

\* Unblocking (by priority, or by handle and so by its priority) is the only
\* one of these services an interrupt may call.
OSUnBlockPriorityISR(p) ==
  /\ OSBlockedList' = OSBlockedList \cup {p}
  /\ UNCHANGED <<priorityVars, TimeToWait, OSReadyList, delayList,
                 OSTickCounter, left>>
  /\ Reschedule

-----------------------------------------------------------------------------
(* BRTOSInit, the installation of every task, BRTOSStart *)

Init ==
  /\ Priority = InitPriority
  /\ PriorityVector = [p \in PrioRange |->
       IF \E t \in Thread : InitPriority[t] = p
       THEN CHOOSE t \in Thread : InitPriority[t] = p
       ELSE EMPTY_PRIO]
  /\ TimeToWait = [t \in Thread |-> NO_TIMEOUT]
  /\ OSReadyList = {InitPriority[t] : t \in Thread}
  /\ OSBlockedList = PrioRange
  /\ delayList = {}
  /\ OSTickCounter = 0
  /\ currentTask = OSSchedule(PriorityVector, OSReadyList, OSBlockedList)
  /\ changeContext = FALSE
  /\ left = [t \in Thread |-> 0]

BlockService ==
  \/ \E p \in PrioRange : OSBlockPriority(p) \/ OSUnBlockPriority(p)
  \/ \E h \in Thread : OSBlockTask(h) \/ OSUnBlockTask(h)
  \/ \E h \in Thread, n \in 1 .. Cardinality(Thread) :
       OSBlockMultipleTask(h, n) \/ OSUnBlockMultipleTask(h, n)

Next ==
  \/ \E t \in Task, w \in TimeWait : OSDelayTask(t, w)
  \/ \E t \in Task : Running(t) /\ BlockService
  \/ \E p \in PrioRange : OSUnBlockPriorityISR(p)
  \/ TickTimer
  \/ SwitchContext

Spec == Init /\ [][Next]_kernelVars

\* The timer hardware keeps ticking and a pended switch is taken.
FairSpec == Spec /\ WF_kernelVars(TickTimer) /\ WF_kernelVars(SwitchContext)

-----------------------------------------------------------------------------
(* Properties *)

TypeOK ==
  /\ PriorityVector \in [PrioRange -> Thread \cup {EMPTY_PRIO, MUTEX_PRIO}]
  /\ Priority \in [Thread -> PrioRange]
  /\ TimeToWait \in [Thread -> 0 .. MAX_TIMER]
  /\ OSReadyList \subseteq PrioRange
  /\ OSBlockedList \subseteq PrioRange
  /\ delayList \subseteq Task
  /\ OSTickCounter \in 0 .. TICK_COUNT_OVERFLOW - 1
  /\ currentTask \in Thread
  /\ changeContext \in BOOLEAN
  /\ left \in [Thread -> Nat]

\* A user task that executes is ready and not blocked: whoever delays or
\* blocks the running task also takes the processor away from it.
RunningIsRunnable ==
  ~changeContext /\ currentTask # Idle
    => Priority[currentTask] \in OSReadyList \cap OSBlockedList

\* A task is either ready or linked in the delay list, never neither (it would
\* sleep for ever) and never both (it would be linked twice by its next delay).
NoTaskLost ==
  \A t \in Task : Priority[t] \in OSReadyList <=> t \notin delayList

\* The tick handler wakes a task on the very tick its wait ends, across the
\* wrap of the tick counter: no task in the delay list is overdue, and none
\* that left it by timeout had ticks left.
TimeoutsAreExact ==
  \A t \in Task :
    /\ t \in delayList => left[t] > 0
    /\ TimeToWait[t] = EXIT_BY_TIMEOUT => left[t] = 0

\* Priority-preemptive scheduling: the processor is always with the highest
\* priority that is ready and not blocked.
HighestPriorityRuns ==
  ~changeContext =>
    \A t \in Task : Priority[t] \in OSReadyList \cap OSBlockedList
                      => Priority[t] <= Priority[currentTask]

\* Every tick restores priority order, so a task that became runnable waits
\* at most until the next tick.
TickPreempts ==
  [][ OSTickCounter' # OSTickCounter =>
        \A t \in Task : Priority'[t] \in OSReadyList' \cap OSBlockedList'
                          => Priority'[t] <= Priority'[currentTask'] ]_kernelVars

\* "When this time is reached the task back to ready state" (OSDelayTask):
\* every wait ends.
DelayEnds ==
  \A t \in Task : t \in delayList ~> t \notin delayList
=============================================================================
