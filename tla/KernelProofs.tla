---------------------------- MODULE KernelProofs ----------------------------
(***************************************************************************)
(* Proofs about Kernel and Event, for every set of tasks, every assignment *)
(* of distinct priorities, every range of the tick counter, every set of   *)
(* delays and every number of event control blocks.                        *)
(*                                                                         *)
(* The inductive invariant of the kernel is KernelInv.  Its part           *)
(* PrioritiesOwned says that PriorityVector leads from each thread's       *)
(* priority back to it, which is why the thread that OSSchedule returns is *)
(* the one whose ready bit it found.  It does not say that priorities      *)
(* never change, so that the proofs about mutexes can use these lemmas     *)
(* too.                                                                    *)
(*                                                                         *)
(* The last part is about module ReadyMask: the bit search of SAScheduler  *)
(* finds the highest priority of every mask of 8, 16 or 32 bits.           *)
(***************************************************************************)
EXTENDS Event, ReadyMask, FiniteSetTheorems, WellFoundedInduction, TLAPS

-----------------------------------------------------------------------------
(* The scheduler returns the highest priority *)

Less == {pair \in Nat \X Nat : pair[1] < pair[2]}

\* The order of the natural numbers is well founded.
LEMMA LessIsWellFounded == IsWellFoundedOn(Less, Nat)
BY NatLessThanWellFounded DEF OpToRel, Less

\* A set of natural numbers has a least element.
LEMMA LeastExists ==
  ASSUME NEW S \in SUBSET Nat, S # {}
  PROVE  \E d \in S : \A e \in S : d <= e
<1>1. PICK d \in S : \A e \in S : ~(<<e, d>> \in Less)
  BY LessIsWellFounded, WFMin, Zenon
<1>2. ASSUME NEW e \in S PROVE d <= e
  <2>1. ~(<<e, d>> \in Less)
    BY <1>1
  <2> QED
    BY <2>1 DEF Less
<1> QED
  BY <1>2

\* Induction up to n over a set of natural numbers.
LEMMA InductionUpTo ==
  ASSUME NEW n \in Nat, NEW Good, 0 \in Good,
         \A k \in 0 .. n - 1 : k \in Good => k + 1 \in Good
  PROVE  \A k \in 0 .. n : k \in Good
<1> DEFINE Bad == {k \in 0 .. n : k \notin Good}
<1> SUFFICES ASSUME Bad # {} PROVE FALSE
  OBVIOUS
<1>1. Bad \in SUBSET Nat
  OBVIOUS
<1>2. PICK d \in Bad : \A e \in Bad : d <= e
  <2> HIDE DEF Bad
  <2> QED
    BY <1>1, LeastExists, Zenon
<1>3. d \in 1 .. n /\ d \notin Good
  BY <1>2
<1>4. d - 1 \notin Bad /\ d - 1 \in 0 .. n - 1
  BY <1>2, <1>3
<1> QED
  BY <1>3, <1>4

\* A bounded mask has a highest priority.
LEMMA HighestExists ==
  ASSUME NEW n \in Nat, NEW mask, mask \subseteq 0 .. n, mask # {}
  PROVE  \E p \in mask : \A q \in mask : q <= p
<1> DEFINE Distance == {n - p : p \in mask}
<1>1. Distance \in SUBSET Nat
  <2> SUFFICES ASSUME NEW p \in mask PROVE n - p \in Nat
    OBVIOUS
  <2> QED
    OBVIOUS
<1>2. Distance # {}
  <2> PICK p \in mask : TRUE
    OBVIOUS
  <2>1. n - p \in Distance
    OBVIOUS
  <2> QED
    BY <2>1
<1> HIDE DEF Distance
<1>3. PICK d \in Distance : \A e \in Distance : d <= e
  BY <1>1, <1>2, LeastExists, Zenon
<1>4. PICK p \in mask : d = n - p
  BY DEF Distance
<1>5. ASSUME NEW q \in mask PROVE q <= p
  <2>1. n - q \in Distance
    BY DEF Distance
  <2>2. d <= n - q
    BY <1>3, <2>1
  <2> QED
    BY <2>2, <1>4
<1> QED
  BY <1>5

\* SAScheduler finds a priority of the mask that no other one exceeds.
LEMMA SASchedulerIsHighest ==
  ASSUME NEW n \in Nat, NEW mask, mask \subseteq 0 .. n, mask # {}
  PROVE  /\ SAScheduler(mask) \in mask
         /\ \A q \in mask : q <= SAScheduler(mask)
BY HighestExists DEF SAScheduler

\* OSSchedule returns an installed thread of the highest runnable priority;
\* when nothing is runnable that thread is Idle.
LEMMA OSScheduleIsRight ==
  ASSUME NEW vector, NEW ready, NEW blocked,
         NEW prio \in [Thread -> PrioRange], prio[Idle] = 0,
         \A t \in Thread : vector[prio[t]] = t,
         ready \subseteq {prio[t] : t \in Thread},
         NEW s, s = OSSchedule(vector, ready, blocked)
  PROVE  /\ s \in Thread
         /\ s # Idle => prio[s] \in ready \cap blocked
         /\ \A t \in Thread : prio[t] \in ready \cap blocked
                                => prio[t] <= prio[s]
<1> DEFINE mask == ready \cap blocked
<1>1. Idle \in Thread /\ prio[Idle] = 0
  BY DEF Thread
<1>2. CASE mask = {}
  <2>1. s = vector[0]
    BY <1>2 DEF OSSchedule, SAScheduler
  <2>2. s = Idle
    BY <2>1, <1>1
  <2> QED
    BY <2>2, <1>1, <1>2
<1>3. CASE mask # {}
  <2>1. mask \subseteq 0 .. configMAX_TASK_PRIORITY
    BY PriorityAssumption DEF PrioRange
  <2>2. /\ SAScheduler(mask) \in mask
        /\ \A q \in mask : q <= SAScheduler(mask)
    BY <1>3, <2>1, SASchedulerIsHighest, PriorityAssumption
  <2>3. PICK u \in Thread : SAScheduler(mask) = prio[u]
    BY <2>2
  <2>4. s = u
    BY <2>3 DEF OSSchedule
  <2> QED
    BY <2>2, <2>3, <2>4
<1> QED
  BY <1>2, <1>3

-----------------------------------------------------------------------------
(* The inductive invariant *)

\* Each thread's priority is its own in PriorityVector, Idle's is 0, and only
\* owned priorities are ready.
PrioritiesOwned ==
  /\ Priority \in [Thread -> PrioRange]
  /\ Priority[Idle] = 0
  /\ \A t \in Thread : PriorityVector[Priority[t]] = t
  /\ OSReadyList \subseteq {Priority[t] : t \in Thread}

KernelInv ==
  TypeOK /\ PrioritiesOwned /\ RunningIsRunnable /\ NoTaskLost

\* The priority masks and times the constants give rise to.
LEMMA ConstantFacts ==
  /\ Idle \in Thread /\ Task \subseteq Thread /\ Thread \subseteq Nat
  /\ InitPriority \in [Thread -> PrioRange] /\ PrioRange \subseteq Nat
  /\ TICK_COUNT_OVERFLOW \in Nat \ {0}
  /\ TimeWait \subseteq Nat \ {0}
  /\ \A w \in TimeWait : w <= TICK_COUNT_OVERFLOW + 3
BY ThreadAssumption, PriorityAssumption, TimeAssumption
DEF Thread, PrioRange, MAX_TIMER, MUTEX_PRIO

\* The state after installation and BRTOSStart satisfies the invariant.
LEMMA InitKernelInv ==
  ASSUME Init
  PROVE  KernelInv
<1> USE DEF Init
<1>1. \A t \in Thread : PriorityVector[InitPriority[t]] = t
  <2> SUFFICES ASSUME NEW t \in Thread
               PROVE  PriorityVector[InitPriority[t]] = t
    OBVIOUS
  <2>1. PriorityVector[InitPriority[t]]
          = CHOOSE u \in Thread : InitPriority[u] = InitPriority[t]
    BY ConstantFacts
  <2> QED
    BY <2>1, PriorityAssumption
<1>2. PrioritiesOwned
  BY <1>1, ConstantFacts, PriorityAssumption DEF PrioritiesOwned
<1>3. /\ currentTask \in Thread
      /\ currentTask # Idle
           => InitPriority[currentTask] \in OSReadyList \cap OSBlockedList
  <2>1. /\ OSReadyList \subseteq {InitPriority[t] : t \in Thread}
        /\ currentTask = OSSchedule(PriorityVector, OSReadyList, OSBlockedList)
    OBVIOUS
  <2> HIDE DEF Init
  <2> QED
    BY <1>1, <2>1, ConstantFacts, PriorityAssumption, OSScheduleIsRight
<1>4. PriorityVector \in [PrioRange -> Thread \cup {EMPTY_PRIO, MUTEX_PRIO}]
  OBVIOUS
<1>5. TypeOK
  <2>1. TimeToWait \in [Thread -> 0 .. MAX_TIMER]
    BY ConstantFacts DEF NO_TIMEOUT, MAX_TIMER
  <2>2. Priority \in [Thread -> PrioRange] /\ OSReadyList \subseteq PrioRange
    BY ConstantFacts
  <2>3. OSTickCounter \in 0 .. TICK_COUNT_OVERFLOW - 1
    BY ConstantFacts
  <2> QED
    BY <1>3, <1>4, <2>1, <2>2, <2>3 DEF TypeOK
<1>6. RunningIsRunnable
  BY <1>3 DEF RunningIsRunnable
<1>7. NoTaskLost
  BY ConstantFacts DEF NoTaskLost
<1> QED
  BY <1>2, <1>5, <1>6, <1>7 DEF KernelInv

\* Two threads never share a priority.
LEMMA PrioritiesDiffer ==
  ASSUME PrioritiesOwned, NEW t \in Thread, NEW u \in Thread,
         Priority[t] = Priority[u]
  PROVE  t = u
BY DEF PrioritiesOwned

\* A step that changes no priority, and no ready bit but those of threads,
\* keeps PrioritiesOwned.
LEMMA PrioritiesOwnedPreserved ==
  ASSUME KernelInv, UNCHANGED priorityVars,
         OSReadyList' \subseteq {Priority[t] : t \in Thread}
  PROVE  PrioritiesOwned'
BY DEF KernelInv, PrioritiesOwned, priorityVars

\* The end of an interrupt gives the processor to a thread that may run.
LEMMA RescheduleIsRight ==
  ASSUME PrioritiesOwned', Reschedule
  PROVE  /\ currentTask' \in Thread
         /\ changeContext' = FALSE
         /\ RunningIsRunnable'
         /\ \A t \in Thread : Priority'[t] \in OSReadyList' \cap OSBlockedList'
                                => Priority'[t] <= Priority'[currentTask']
<1>1. /\ currentTask' \in Thread
      /\ currentTask' # Idle
           => Priority'[currentTask'] \in OSReadyList' \cap OSBlockedList'
      /\ \A t \in Thread : Priority'[t] \in OSReadyList' \cap OSBlockedList'
                             => Priority'[t] <= Priority'[currentTask']
  BY OSScheduleIsRight DEF Reschedule, PrioritiesOwned
<1> QED
  BY <1>1 DEF RunningIsRunnable, PrioritiesOwned, Reschedule

\* OSDelayTask keeps the invariant: the task leaves the ready list and enters
\* the delay list in the same critical section.
LEMMA DelayKeepsInv ==
  ASSUME KernelInv, NEW t \in Task, NEW w \in TimeWait, OSDelayTask(t, w)
  PROVE  KernelInv'
<1> USE ConstantFacts DEF KernelInv, OSDelayTask, Suspend
<1>1. UNCHANGED priorityVars /\ w # 0
  OBVIOUS
<1>2. PrioritiesOwned'
  BY <1>1, PrioritiesOwnedPreserved DEF PrioritiesOwned
<1>3. Deadline(w) \in 0 .. MAX_TIMER
  BY DEF TypeOK, Deadline, MAX_TIMER
<1>4. TypeOK'
  BY <1>1, <1>3 DEF TypeOK, priorityVars
<1>5. RunningIsRunnable'
  BY DEF RunningIsRunnable
<1>6. NoTaskLost'
  <2> SUFFICES ASSUME NEW u \in Task
               PROVE  Priority'[u] \in OSReadyList' <=> u \notin delayList'
    BY DEF NoTaskLost
  <2>1. Priority' = Priority
    BY <1>1 DEF priorityVars
  <2>2. CASE u = t
    BY <1>1, <2>1, <2>2
  <2>3. CASE u # t
    <3>1. Priority[u] # Priority[t]
      BY <2>3, PrioritiesDiffer
    <3> QED
      BY <1>1, <2>1, <2>3, <3>1 DEF NoTaskLost
  <2> QED
    BY <2>2, <2>3
<1> QED
  BY <1>2, <1>4, <1>5, <1>6

\* What each block or unblock service does to the invariant: the caller keeps
\* the processor only if it is still not blocked.
LEMMA BlockedListStep ==
  ASSUME KernelInv, ~changeContext, UNCHANGED onlyBlockedList,
         OSBlockedList' \subseteq PrioRange, changeContext' \in BOOLEAN,
         \/ changeContext'
         \/ Priority[currentTask] \in OSBlockedList
              => Priority[currentTask] \in OSBlockedList'
  PROVE  KernelInv'
<1> USE ConstantFacts DEF KernelInv, onlyBlockedList, priorityVars
<1>1. PrioritiesOwned'
  BY DEF PrioritiesOwned
<1>2. TypeOK'
  BY DEF TypeOK
<1>3. RunningIsRunnable'
  BY DEF RunningIsRunnable, PrioritiesOwned
<1>4. NoTaskLost'
  BY DEF NoTaskLost
<1> QED
  BY <1>1, <1>2, <1>3, <1>4

\* Every block and unblock service keeps the invariant.
LEMMA BlockServiceKeepsInv ==
  ASSUME KernelInv, ~changeContext, BlockService
  PROVE  KernelInv'
<1> DEFINE mine == Priority[currentTask]
<1>1. /\ currentTask \in Thread /\ OSBlockedList \subseteq PrioRange
      /\ PriorityVector[mine] = currentTask
      /\ mine \in PrioRange
  BY ConstantFacts DEF KernelInv, TypeOK, PrioritiesOwned
<1>2. CriticalNests \in BOOLEAN
  BY ThreadAssumption
<1>3. ASSUME NEW p \in PrioRange, OSBlockPriority(p) PROVE KernelInv'
  <2>1. p = mine => changeContext'
    BY <1>1, <1>3 DEF OSBlockPriority
  <2> QED
    BY <1>1, <1>3, <2>1, BlockedListStep DEF OSBlockPriority
<1>4. ASSUME NEW p \in PrioRange, OSUnBlockPriority(p) PROVE KernelInv'
  BY <1>1, <1>2, <1>4, BlockedListStep
  DEF OSUnBlockPriority, ChangeContextIfNotNested
<1>5. ASSUME NEW h \in Thread, OSBlockTask(h) PROVE KernelInv'
  <2>1. h # currentTask => Priority[h] # mine
    BY <1>1, PrioritiesDiffer DEF KernelInv
  <2> QED
    BY <1>1, <1>5, <2>1, BlockedListStep DEF OSBlockTask
<1>6. ASSUME NEW h \in Thread, OSUnBlockTask(h) PROVE KernelInv'
  <2>1. Priority[h] \in PrioRange
    BY DEF KernelInv, TypeOK
  <2> QED
    BY <1>1, <1>2, <1>6, <2>1, BlockedListStep
    DEF OSUnBlockTask, ChangeContextIfNotNested
<1>7. ASSUME NEW h \in Thread, NEW n \in 1 .. Cardinality(Thread)
      PROVE  /\ MultiplePriorities(h, n) \subseteq PrioRange
             /\ mine \notin MultiplePriorities(h, n)
  <2>1. \A u \in Thread \ {currentTask} : Priority[u] # mine
    BY <1>1, PrioritiesDiffer DEF KernelInv
  <2> QED
    BY <1>1, <2>1 DEF MultiplePriorities, KernelInv, TypeOK
<1>8. ASSUME NEW h \in Thread, NEW n \in 1 .. Cardinality(Thread),
             OSBlockMultipleTask(h, n)
      PROVE  KernelInv'
  <2>1. changeContext' \in BOOLEAN
    BY <1>8 DEF OSBlockMultipleTask, KernelInv, TypeOK
  <2>2. UNCHANGED onlyBlockedList
    BY <1>8 DEF OSBlockMultipleTask
  <2> QED
    BY <1>1, <1>7, <1>8, <2>1, <2>2, BlockedListStep DEF OSBlockMultipleTask
<1>9. ASSUME NEW h \in Thread, NEW n \in 1 .. Cardinality(Thread),
             OSUnBlockMultipleTask(h, n)
      PROVE  KernelInv'
  BY <1>1, <1>2, <1>7, <1>9, BlockedListStep
  DEF OSUnBlockMultipleTask, ChangeContextIfNotNested
<1> QED
  BY <1>3, <1>4, <1>5, <1>6, <1>8, <1>9 DEF BlockService

\* OSUnBlockPriority called by an interrupt handler keeps the invariant.
LEMMA UnBlockISRKeepsInv ==
  ASSUME KernelInv, NEW p \in PrioRange, OSUnBlockPriorityISR(p)
  PROVE  KernelInv'
<1> USE DEF KernelInv, OSUnBlockPriorityISR
<1>1. PrioritiesOwned'
  BY PrioritiesOwnedPreserved DEF PrioritiesOwned
<1>2. /\ currentTask' \in Thread /\ changeContext' = FALSE
      /\ RunningIsRunnable'
  BY <1>1, RescheduleIsRight
<1>3. TypeOK'
  BY <1>2 DEF TypeOK, priorityVars
<1>4. NoTaskLost'
  BY DEF NoTaskLost, priorityVars
<1> QED
  BY <1>1, <1>2, <1>3, <1>4

\* So does the software interrupt of the context switch.
LEMMA SwitchKeepsInv ==
  ASSUME KernelInv, SwitchContext
  PROVE  KernelInv'
<1> USE DEF KernelInv, SwitchContext
<1>1. PrioritiesOwned'
  BY PrioritiesOwnedPreserved DEF PrioritiesOwned
<1>2. /\ currentTask' \in Thread /\ changeContext' = FALSE
      /\ RunningIsRunnable'
  BY <1>1, RescheduleIsRight
<1>3. TypeOK'
  BY <1>2 DEF TypeOK, priorityVars
<1>4. NoTaskLost'
  BY DEF NoTaskLost, priorityVars
<1> QED
  BY <1>1, <1>2, <1>3, <1>4

\* The tick keeps the invariant: a task leaves the delay list exactly when its
\* ready bit is set.
LEMMA TickKeepsInv ==
  ASSUME KernelInv, TickTimer
  PROVE  KernelInv'
<1> DEFINE now     == IncCounter(OSTickCounter)
           expired == {t \in delayList : TimeToWait[t] = now}
<1>1. /\ OSTickCounter' = now
      /\ OSReadyList' = OSReadyList \cup {Priority[t] : t \in expired}
      /\ TimeToWait' = [t \in Thread |-> IF t \in expired THEN EXIT_BY_TIMEOUT
                                                          ELSE TimeToWait[t]]
      /\ delayList' = delayList \ expired
      /\ left' = [t \in Thread |-> IF t \in delayList /\ left[t] > 0
                                  THEN left[t] - 1 ELSE left[t]]
      /\ UNCHANGED priorityVars /\ UNCHANGED OSBlockedList
      /\ Reschedule
  BY DEF TickTimer
<1>2. expired \subseteq Task /\ expired \subseteq delayList
  BY DEF KernelInv, TypeOK
<1>3. now \in 0 .. TICK_COUNT_OVERFLOW - 1
  BY ConstantFacts DEF KernelInv, TypeOK, IncCounter
<1>4. UNCHANGED Priority
  BY <1>1 DEF priorityVars
<1> HIDE DEF expired, now
<1>5. PrioritiesOwned'
  <2>1. OSReadyList' \subseteq {Priority[t] : t \in Thread}
    BY <1>1, <1>2, <1>4, ConstantFacts DEF KernelInv, PrioritiesOwned
  <2> QED
    BY <1>1, <2>1, PrioritiesOwnedPreserved
<1>6. /\ currentTask' \in Thread /\ changeContext' = FALSE
      /\ RunningIsRunnable'
  BY <1>1, <1>5, RescheduleIsRight
<1>7. TypeOK'
  <2>1. TimeToWait' \in [Thread -> 0 .. MAX_TIMER]
    BY <1>1, ConstantFacts
    DEF KernelInv, TypeOK, MAX_TIMER, EXIT_BY_TIMEOUT
  <2>2. left' \in [Thread -> Nat]
    BY <1>1 DEF KernelInv, TypeOK
  <2>3. OSReadyList' \subseteq PrioRange
    BY <1>5 DEF PrioritiesOwned
  <2> QED
    BY <1>1, <1>2, <1>3, <1>6, <2>1, <2>2, <2>3
    DEF KernelInv, TypeOK, priorityVars
<1>8. NoTaskLost'
  <2> SUFFICES ASSUME NEW u \in Task
               PROVE  Priority'[u] \in OSReadyList' <=> u \notin delayList'
    BY DEF NoTaskLost
  <2>1. Priority'[u] = Priority[u]
    BY <1>4
  <2>2. Priority[u] \in {Priority[t] : t \in expired} <=> u \in expired
    BY <1>2, ConstantFacts, PrioritiesDiffer DEF KernelInv
  <2>3. Priority[u] \in OSReadyList <=> u \notin delayList
    BY <2>1 DEF KernelInv, NoTaskLost
  <2> QED
    BY <1>1, <1>2, <2>1, <2>2, <2>3
<1> QED
  BY <1>5, <1>6, <1>7, <1>8 DEF KernelInv

\* Every step keeps the invariant.
LEMMA StepKernelInv ==
  ASSUME KernelInv, [Next]_kernelVars
  PROVE  KernelInv'
<1>1. CASE UNCHANGED kernelVars
  BY <1>1 DEF kernelVars, KernelInv, TypeOK, PrioritiesOwned,
              RunningIsRunnable, NoTaskLost
<1>2. ASSUME NEW t \in Task, NEW w \in TimeWait, OSDelayTask(t, w)
      PROVE  KernelInv'
  BY <1>2, DelayKeepsInv
<1>3. ASSUME NEW t \in Task, Running(t), BlockService
      PROVE  KernelInv'
  BY <1>3, BlockServiceKeepsInv DEF Running
<1>4. ASSUME NEW p \in PrioRange, OSUnBlockPriorityISR(p)
      PROVE  KernelInv'
  BY <1>4, UnBlockISRKeepsInv
<1>5. CASE TickTimer
  BY <1>5, TickKeepsInv
<1>6. CASE SwitchContext
  BY <1>6, SwitchKeepsInv
<1> QED
  BY <1>1, <1>2, <1>3, <1>4, <1>5, <1>6 DEF Next

\* The inductive invariant holds in every reachable state.
THEOREM KernelInvariance == Spec => []KernelInv
BY InitKernelInv, StepKernelInv, PTL DEF Spec

\* The masks, lists and counters of the kernel keep their ranges; the tick
\* counter in particular never reaches TICK_COUNT_OVERFLOW, and OSSchedule
\* never selects an EMPTY_PRIO or MUTEX_PRIO entry of PriorityVector.
THEOREM TypeCorrect == Spec => []TypeOK
<1>1. KernelInv => TypeOK
  BY DEF KernelInv
<1> QED
  BY KernelInvariance, <1>1, PTL

\* OSDelayTask, the tick handler and the block services never leave a task
\* both out of the ready list and out of the delay list, nor in both.
THEOREM NoTaskIsLost == Spec => []NoTaskLost
<1>1. KernelInv => NoTaskLost
  BY DEF KernelInv
<1> QED
  BY KernelInvariance, <1>1, PTL

\* The user task that holds the processor without a pending switch is ready
\* and not blocked.
THEOREM RunningTaskIsRunnable == Spec => []RunningIsRunnable
<1>1. KernelInv => RunningIsRunnable
  BY DEF KernelInv
<1> QED
  BY KernelInvariance, <1>1, PTL

-----------------------------------------------------------------------------
(* Priority order *)

\* A tick, a context switch and an unblock from an interrupt end with the
\* processor at the highest runnable priority, whatever the port.
LEMMA InterruptRestoresOrder ==
  ASSUME KernelInv, KernelInv',
         TickTimer \/ SwitchContext \/ (\E p \in PrioRange : OSUnBlockPriorityISR(p))
  PROVE  \A t \in Task : Priority'[t] \in OSReadyList' \cap OSBlockedList'
                           => Priority'[t] <= Priority'[currentTask']
<1>1. Reschedule
  BY DEF TickTimer, SwitchContext, OSUnBlockPriorityISR
<1> QED
  BY <1>1, RescheduleIsRight, ConstantFacts DEF KernelInv

\* On a port whose critical sections do not count in iNesting, no service
\* returns to its caller while a task of higher priority is runnable.
LEMMA StepPriorityOrder ==
  ASSUME ~CriticalNests, KernelInv, KernelInv', HighestPriorityRuns,
         [Next]_kernelVars
  PROVE  HighestPriorityRuns'
<1>1. CASE UNCHANGED kernelVars
  BY <1>1 DEF kernelVars, HighestPriorityRuns
<1>2. ASSUME NEW t \in Task, NEW w \in TimeWait, OSDelayTask(t, w)
      PROVE  HighestPriorityRuns'
  BY <1>2 DEF OSDelayTask, Suspend, HighestPriorityRuns
<1>3. ASSUME NEW t \in Task, Running(t), BlockService
      PROVE  HighestPriorityRuns'
  <2>1. ~changeContext /\ UNCHANGED onlyBlockedList
    BY <1>3 DEF Running, BlockService, OSBlockPriority, OSUnBlockPriority,
                OSBlockTask, OSUnBlockTask, OSBlockMultipleTask,
                OSUnBlockMultipleTask
  <2>2. changeContext' \/ OSBlockedList' \subseteq OSBlockedList
    BY <1>3 DEF BlockService, OSBlockPriority, OSUnBlockPriority,
                OSBlockTask, OSUnBlockTask, OSBlockMultipleTask,
                OSUnBlockMultipleTask, ChangeContextIfNotNested
  <2> QED
    BY <2>1, <2>2 DEF HighestPriorityRuns, onlyBlockedList, priorityVars
<1>4. CASE TickTimer \/ SwitchContext
             \/ (\E p \in PrioRange : OSUnBlockPriorityISR(p))
  BY <1>4, InterruptRestoresOrder DEF HighestPriorityRuns
<1> QED
  BY <1>1, <1>2, <1>3, <1>4 DEF Next

\* BRTOSStart gives the processor to the highest priority.
LEMMA InitPriorityOrder ==
  ASSUME Init
  PROVE  HighestPriorityRuns
<1>1. KernelInv
  BY InitKernelInv
<1>2. currentTask = OSSchedule(PriorityVector, OSReadyList, OSBlockedList)
  BY DEF Init
<1>3. \A t \in Thread : Priority[t] \in OSReadyList \cap OSBlockedList
                        => Priority[t] <= Priority[currentTask]
  BY <1>1, <1>2, OSScheduleIsRight DEF KernelInv, PrioritiesOwned
<1> QED
  BY <1>1, <1>3, ConstantFacts
  DEF HighestPriorityRuns, KernelInv, PrioritiesOwned

\* Preemption is immediate on such a port: whenever no switch is pending, the
\* running task has the highest priority that is ready and not blocked.
THEOREM PriorityOrder ==
  ASSUME ~CriticalNests
  PROVE  Spec => []HighestPriorityRuns
<1>1. ASSUME Init PROVE HighestPriorityRuns
  BY <1>1, InitPriorityOrder
<1>2. ASSUME KernelInv, KernelInv', HighestPriorityRuns, [Next]_kernelVars
      PROVE  HighestPriorityRuns'
  BY <1>2, StepPriorityOrder
<1> QED
  BY <1>1, <1>2, KernelInvariance, PTL DEF Spec

\* On every port a step that changes the tick counter restores the order: a
\* task made runnable by a service that requests no switch waits for one tick
\* at most.
THEOREM TickRestoresOrder == Spec => TickPreempts
<1>1. ASSUME KernelInv, KernelInv', [Next]_kernelVars,
             OSTickCounter' # OSTickCounter
      PROVE  \A t \in Task : Priority'[t] \in OSReadyList' \cap OSBlockedList'
                               => Priority'[t] <= Priority'[currentTask']
  <2>1. TickTimer
    BY <1>1 DEF kernelVars, Next, OSDelayTask, Suspend, BlockService,
                OSBlockPriority, OSUnBlockPriority, OSBlockTask,
                OSUnBlockTask, OSBlockMultipleTask, OSUnBlockMultipleTask,
                OSUnBlockPriorityISR, SwitchContext, onlyBlockedList
  <2> QED
    BY <1>1, <2>1, InterruptRestoresOrder
<1> QED
  BY <1>1, KernelInvariance, PTL DEF Spec, TickPreempts

-----------------------------------------------------------------------------
(* Exact timeouts *)

\* A delayed task's TimeToWait is the deadline of the ticks it has left.
ExactInv ==
  \A t \in Task :
    /\ t \in delayList => /\ left[t] \in 1 .. TICK_COUNT_OVERFLOW
                          /\ TimeToWait[t] = Deadline(left[t])
    /\ TimeToWait[t] = EXIT_BY_TIMEOUT => left[t] = 0

\* One tick: the deadline of n + 1 ticks is, one tick later, the deadline of
\* n ticks, and it is the new tick only for n = 0.
LEMMA DeadlineAfterTick ==
  ASSUME OSTickCounter \in 0 .. TICK_COUNT_OVERFLOW - 1,
         OSTickCounter' = IncCounter(OSTickCounter),
         NEW n \in 1 .. TICK_COUNT_OVERFLOW
  PROVE  /\ Deadline(n) \in 0 .. TICK_COUNT_OVERFLOW - 1
         /\ Deadline(n) = OSTickCounter' <=> n = 1
         /\ n # 1 => Deadline(n) = Deadline(n - 1)'
BY TimeAssumption DEF Deadline, IncCounter

\* Every step keeps ExactInv when the delays are within range.
LEMMA StepExactInv ==
  ASSUME TimeWait \subseteq 1 .. TICK_COUNT_OVERFLOW,
         KernelInv, ExactInv, [Next]_kernelVars
  PROVE  ExactInv'
<1> USE ConstantFacts
<1>1. CASE UNCHANGED kernelVars
  BY <1>1 DEF kernelVars, ExactInv, Deadline
<1>2. ASSUME NEW t \in Task, NEW w \in TimeWait, OSDelayTask(t, w)
      PROVE  ExactInv'
  <2>1. Deadline(w) \in 0 .. TICK_COUNT_OVERFLOW - 1
    BY DEF KernelInv, TypeOK, Deadline
  <2>2. /\ TimeToWait' = [TimeToWait EXCEPT ![t] = Deadline(w)]
        /\ left' = [left EXCEPT ![t] = w]
        /\ delayList' = delayList \cup {t} /\ OSTickCounter' = OSTickCounter
    BY <1>2 DEF OSDelayTask, Suspend
  <2>3. TimeToWait \in [Thread -> 0 .. MAX_TIMER] /\ left \in [Thread -> Nat]
    BY DEF KernelInv, TypeOK
  <2> QED
    BY <2>1, <2>2, <2>3 DEF ExactInv, Deadline, EXIT_BY_TIMEOUT
<1>3. ASSUME NEW t \in Task, Running(t), BlockService
      PROVE  ExactInv'
  <2>1. UNCHANGED onlyBlockedList
    BY <1>3 DEF BlockService, OSBlockPriority, OSUnBlockPriority,
                OSBlockTask, OSUnBlockTask, OSBlockMultipleTask,
                OSUnBlockMultipleTask
  <2> QED
    BY <2>1 DEF onlyBlockedList, ExactInv, Deadline
<1>4. CASE SwitchContext \/ (\E p \in PrioRange : OSUnBlockPriorityISR(p))
  BY <1>4 DEF SwitchContext, OSUnBlockPriorityISR, ExactInv, Deadline
<1>5. CASE TickTimer
  <2> SUFFICES ASSUME NEW t \in Task
               PROVE  /\ t \in delayList'
                           => /\ left'[t] \in 1 .. TICK_COUNT_OVERFLOW
                              /\ TimeToWait'[t] = Deadline(left[t])'
                      /\ TimeToWait'[t] = EXIT_BY_TIMEOUT => left'[t] = 0
    BY DEF ExactInv
  <2>1. /\ OSTickCounter \in 0 .. TICK_COUNT_OVERFLOW - 1
        /\ OSTickCounter' = IncCounter(OSTickCounter)
        /\ left[t] \in Nat
    BY <1>5 DEF KernelInv, TypeOK, TickTimer
  <2>2. CASE t \notin delayList
    BY <1>5, <2>2 DEF TickTimer, ExactInv
  <2>3. CASE t \in delayList
    <3>1. PICK n \in 1 .. TICK_COUNT_OVERFLOW :
                 left[t] = n /\ TimeToWait[t] = Deadline(n)
      BY <2>3 DEF ExactInv
    <3>2. left'[t] = n - 1
      BY <1>5, <2>3, <3>1 DEF TickTimer
    <3>3. CASE n = 1
      <4>1. TimeToWait[t] = IncCounter(OSTickCounter)
        BY <2>1, <3>1, <3>3, DeadlineAfterTick
      <4>2. t \notin delayList'
        BY <1>5, <4>1 DEF TickTimer
      <4> QED
        BY <3>2, <3>3, <4>2
    <3>4. CASE n # 1
      <4>1. /\ TimeToWait[t] # IncCounter(OSTickCounter)
            /\ TimeToWait[t] \in 0 .. TICK_COUNT_OVERFLOW - 1
            /\ TimeToWait[t] = Deadline(n - 1)'
        BY <2>1, <3>1, <3>4, DeadlineAfterTick
      <4>2. TimeToWait'[t] = TimeToWait[t]
        BY <1>5, <4>1 DEF TickTimer
      <4> QED
        BY <3>1, <3>2, <3>4, <4>1, <4>2 DEF EXIT_BY_TIMEOUT, Deadline
    <3> QED
      BY <3>3, <3>4
  <2> QED
    BY <2>2, <2>3
<1> QED
  BY <1>1, <1>2, <1>3, <1>4, <1>5 DEF Next

\* A task wakes on the very tick its delay ends, across the wrap of the tick
\* counter, as long as no delay is longer than the range of the counter.
THEOREM TimeoutsExact ==
  ASSUME TimeWait \subseteq 1 .. TICK_COUNT_OVERFLOW
  PROVE  Spec => []TimeoutsAreExact
<1>1. ASSUME Init PROVE ExactInv
  BY <1>1, ConstantFacts DEF Init, ExactInv, NO_TIMEOUT, EXIT_BY_TIMEOUT
<1>2. ASSUME KernelInv, ExactInv, [Next]_kernelVars PROVE ExactInv'
  BY <1>2, StepExactInv
<1>3. ExactInv => TimeoutsAreExact
  BY ConstantFacts DEF ExactInv, TimeoutsAreExact
<1> QED
  BY <1>1, <1>2, <1>3, KernelInvariance, PTL DEF Spec

-----------------------------------------------------------------------------
(* The event services: what the operators that semaphores, mutexes,         *)
(* mailboxes and queues share do to the wait lists, the delay list and the  *)
(* ready list.  The proofs about the services combine these lemmas.         *)
(*                                                                          *)
(* The inductive invariant is EventInv.  WaitListExact alone is not         *)
(* inductive: that a task which resumes was selected by a post or timed     *)
(* out depends on when it became ready, which WaitState records.            *)

\* Delays the tick counter can represent.
ShortWaits == TimeWait \subseteq 1 .. TICK_COUNT_OVERFLOW

\* Outside a pend a task is ready or delayed.  A timed wait is over for the
\* tick handler when the task has left the delay list, and a waiting task is
\* ready when a post selected it or its time is over.
WaitState(t) ==
  /\ pend[t] = NoEvent =>
       /\ ~timed[t] /\ ~given[t]
       /\ Priority[t] \in OSReadyList <=> t \notin delayList
  /\ pend[t] # NoEvent =>
       /\ timed[t] => (t \in delayList <=> TimeToWait[t] # EXIT_BY_TIMEOUT)
       /\ ~timed[t] => t \notin delayList
       /\ Priority[t] \in OSReadyList
            <=> given[t] \/ (timed[t] /\ t \notin delayList)

FreeBlocksEmpty ==
  \A e \in ObjectId : ~OSEventAllocated[e] => OSEventWaitList[e] = {}

EventInv ==
  /\ EventTypeOK
  /\ PrioritiesOwned
  /\ RunningIsRunnable
  /\ \A t \in Task : WaitState(t)
  /\ WaitListExact
  /\ FreeBlocksEmpty

\* Objects are positive numbers, NoEvent is none of them.
LEMMA ObjectFacts == ObjectId \subseteq Nat /\ NoEvent \notin ObjectId
BY EventAssumption DEF ObjectId, NoEvent

\* Two tasks never share a priority.
LEMMA PriorityInjective ==
  ASSUME EventInv, NEW t \in Thread, NEW u \in Thread,
         Priority[t] = Priority[u]
  PROVE  t = u
BY PrioritiesDiffer DEF EventInv

\* A wait list is finite: its priorities are bounded.
LEMMA WaitListFinite ==
  ASSUME NEW S, S \subseteq PrioRange
  PROVE  IsFiniteSet(S)
<1>1. IsFiniteSet(PrioRange)
  BY FS_Interval, PriorityAssumption DEF PrioRange
<1> QED
  BY <1>1, FS_Subset

\* A task that executes is ready.
LEMMA RunningTaskState ==
  ASSUME EventInv, NEW t \in Task, Running(t)
  PROVE  Priority[t] \in OSReadyList
BY ThreadAssumption DEF EventInv, Running, RunningIsRunnable

\* A call that finds its object available touches nothing of all this.
LEMMA UnchangedKeepsInv ==
  ASSUME EventInv, UNCHANGED <<kernelVars, eventVars>>
  PROVE  EventInv'
BY DEF EventInv, EventTypeOK, TypeOK, PrioritiesOwned, RunningIsRunnable,
       WaitState, WaitListExact, Waiters, FreeBlocksEmpty, kernelVars,
       eventVars, eventTable, callVars

-----------------------------------------------------------------------------
(* Control blocks *)

\* Before the first call nobody waits.
LEMMA InitEventInv ==
  ASSUME EventInit
  PROVE  EventInv
<1>1. KernelInv
  BY InitKernelInv DEF EventInit
<1>2. EventTypeOK
  BY <1>1 DEF EventInit, EventTypeOK, KernelInv, NoEvent
<1>3. ASSUME NEW t \in Task PROVE WaitState(t)
  BY <1>1, <1>3 DEF EventInit, WaitState, KernelInv, NoTaskLost
<1>4. WaitListExact
  BY FS_EmptySet, ObjectFacts DEF EventInit, WaitListExact, Waiters
<1>5. FreeBlocksEmpty
  BY DEF EventInit, FreeBlocksEmpty
<1> QED
  BY <1>1, <1>2, <1>3, <1>4, <1>5 DEF EventInv, KernelInv

\* A block without waiters gets an empty wait list, and is or is not allocated
\* from then on.
LEMMA NewWaitListKeepsInv ==
  ASSUME EventInv, NEW e \in ObjectId, NEW allocated \in BOOLEAN,
         OSEventWaitList[e] = {}, NewWaitList(e, allocated),
         UNCHANGED kernelVars
  PROVE  EventInv'
<1> USE DEF NewWaitList, kernelVars, callVars
<1>1. EventTypeOK'
  BY DEF EventInv, EventTypeOK, TypeOK
<1>2. PrioritiesOwned' /\ RunningIsRunnable'
  BY DEF EventInv, PrioritiesOwned, RunningIsRunnable
<1>3. ASSUME NEW t \in Task PROVE WaitState(t)'
  BY <1>3 DEF EventInv, WaitState
<1>4. ASSUME NEW d \in ObjectId
      PROVE  /\ OSEventWaitList'[d] = OSEventWaitList[d]
             /\ OSEventWait'[d] = OSEventWait[d]
             /\ Waiters(d)' = Waiters(d)
  BY <1>4, FS_EmptySet DEF EventInv, EventTypeOK, WaitListExact, Waiters
<1>5. WaitListExact'
  BY <1>4 DEF EventInv, WaitListExact
<1>6. FreeBlocksEmpty'
  BY DEF EventInv, EventTypeOK, FreeBlocksEmpty
<1> QED
  BY <1>1, <1>2, <1>3, <1>5, <1>6 DEF EventInv

\* Creation takes a block that nobody waits for.
LEMMA CreateKeepsInv ==
  ASSUME EventInv, NEW e \in ObjectId, CreateEvent(e), UNCHANGED kernelVars
  PROVE  EventInv'
<1>1. OSEventWaitList[e] = {}
  BY DEF EventInv, FreeBlocksEmpty, CreateEvent, FreeBlock
<1> QED
  BY <1>1, NewWaitListKeepsInv DEF CreateEvent

\* Deletion keeps the invariant as long as programs do not delete an object
\* with waiters.
LEMMA DeleteKeepsInv ==
  ASSUME EventInv, NEW e \in ObjectId, ~DeleteWithWaiters, DeleteEvent(e),
         UNCHANGED kernelVars
  PROVE  EventInv'
BY NewWaitListKeepsInv DEF DeleteEvent

-----------------------------------------------------------------------------
(* Waiting *)

\* A pend that has to wait adds the caller to one wait list, suspends it and,
\* with a timeout, links it into the delay list.
LEMMA WaitKeepsInv ==
  ASSUME ShortWaits, EventInv, NEW t \in Task, NEW e \in ObjectId,
         NEW w \in PendWait, InUserCode(t), OSEventAllocated[e],
         WaitEvent(t, e, w)
  PROVE  EventInv'
<1> USE ConstantFacts
<1>1. /\ w # 0 => w \in 1 .. TICK_COUNT_OVERFLOW
      /\ w \in Nat
  BY DEF PendWait, WaitEvent, ShortWaits
<1>2. /\ OSEventWait' = [OSEventWait EXCEPT ![e] = @ + 1]
      /\ OSEventWaitList' =
           [OSEventWaitList EXCEPT ![e] = @ \cup {Priority[t]}]
      /\ pend' = [pend EXCEPT ![t] = e]
      /\ timed' = [timed EXCEPT ![t] = (w # 0)]
      /\ given' = [given EXCEPT ![t] = FALSE]
      /\ UNCHANGED OSEventAllocated
      /\ OSReadyList' = OSReadyList \ {Priority[t]}
      /\ TimeToWait' = [TimeToWait EXCEPT ![t] =
                          IF w = 0 THEN NO_TIMEOUT ELSE Deadline(w)]
      /\ delayList' = IF w = 0 THEN delayList ELSE delayList \cup {t}
      /\ left' = [left EXCEPT ![t] = w]
      /\ changeContext' = TRUE
      /\ UNCHANGED <<priorityVars, OSBlockedList, OSTickCounter, currentTask>>
  BY DEF WaitEvent, Suspend
<1>3. w # 0 => Deadline(w) \in 0 .. TICK_COUNT_OVERFLOW - 1
  BY <1>1 DEF EventInv, EventTypeOK, TypeOK, Deadline
<1>4. pend[t] = NoEvent /\ Running(t)
  BY DEF InUserCode
<1>5. t \notin delayList
  BY <1>4, RunningTaskState DEF EventInv, WaitState
<1>6. EventTypeOK'
  <2>1. TypeOK'
    <3>1. (IF w = 0 THEN NO_TIMEOUT ELSE Deadline(w)) \in 0 .. MAX_TIMER
      BY <1>3 DEF MAX_TIMER, NO_TIMEOUT
    <3>2. TimeToWait' \in [Thread -> 0 .. MAX_TIMER]
      BY <1>2, <3>1 DEF EventInv, EventTypeOK, TypeOK
    <3> QED
      BY <1>1, <1>2, <3>2 DEF EventInv, EventTypeOK, TypeOK, priorityVars
  <2>2. Priority[t] \in PrioRange
    BY DEF EventInv, EventTypeOK, TypeOK
  <2> QED
    BY <1>2, <2>1, <2>2 DEF EventInv, EventTypeOK
<1>7. PrioritiesOwned'
  BY <1>2 DEF EventInv, PrioritiesOwned, priorityVars
<1>8. RunningIsRunnable'
  BY <1>2 DEF RunningIsRunnable
<1>9. UNCHANGED Priority
  BY <1>2 DEF priorityVars
<1>10. ASSUME NEW u \in Task PROVE WaitState(u)'
  <2>1. CASE u = t
    <3>1. /\ pend'[u] = e /\ e # NoEvent /\ timed'[u] = (w # 0) /\ ~given'[u]
          /\ TimeToWait'[u] = IF w = 0 THEN NO_TIMEOUT ELSE Deadline(w)
      BY <1>2, <2>1, ObjectFacts DEF EventInv, EventTypeOK, TypeOK
    <3>2. Priority'[u] \notin OSReadyList'
      BY <1>2, <1>9, <2>1
    <3>3. u \in delayList' <=> w # 0
      BY <1>2, <1>5, <2>1
    <3>4. w # 0 => Deadline(w) # EXIT_BY_TIMEOUT
      BY <1>3 DEF EXIT_BY_TIMEOUT
    <3> QED
      BY <3>1, <3>2, <3>3, <3>4 DEF WaitState
  <2>2. CASE u # t
    <3>1. Priority[u] # Priority[t]
      BY <2>2, PriorityInjective
    <3>2. Priority'[u] \in OSReadyList' <=> Priority[u] \in OSReadyList
      BY <1>2, <1>9, <3>1
    <3>3. /\ pend'[u] = pend[u] /\ timed'[u] = timed[u]
          /\ given'[u] = given[u] /\ TimeToWait'[u] = TimeToWait[u]
          /\ u \in delayList' <=> u \in delayList
      BY <1>2, <2>2 DEF EventInv, EventTypeOK, TypeOK
    <3>4. WaitState(u)
      BY DEF EventInv
    <3> QED
      BY <3>2, <3>3, <3>4 DEF WaitState
  <2> QED
    BY <2>1, <2>2
<1>11. Priority[t] \notin OSEventWaitList[e]
  <2>1. t \notin Waiters(e)
    BY <1>4, ObjectFacts DEF Waiters
  <2> SUFFICES ASSUME NEW u \in Waiters(e), Priority[u] = Priority[t]
               PROVE  FALSE
    BY DEF EventInv, WaitListExact
  <2> QED
    BY <2>1, PriorityInjective DEF Waiters
<1>12. WaitListExact'
  <2> SUFFICES ASSUME NEW d \in ObjectId
               PROVE  /\ OSEventWaitList'[d] = {Priority'[u] : u \in Waiters(d)'}
                      /\ OSEventWait'[d] = Cardinality(OSEventWaitList'[d])
    BY DEF WaitListExact
  <2>1. CASE d = e
    <3>1. Waiters(d)' = Waiters(d) \cup {t}
      BY <1>2, <1>4, <2>1, ObjectFacts
      DEF Waiters, EventInv, EventTypeOK
    <3>2. OSEventWaitList'[d] = OSEventWaitList[d] \cup {Priority[t]}
      BY <1>2, <2>1 DEF EventInv, EventTypeOK
    <3>3. OSEventWaitList'[d] = {Priority'[u] : u \in Waiters(d)'}
      BY <1>9, <3>1, <3>2 DEF EventInv, WaitListExact
    <3>4. Cardinality(OSEventWaitList'[d]) = Cardinality(OSEventWaitList[d]) + 1
      <4>1. IsFiniteSet(OSEventWaitList[d])
        BY WaitListFinite DEF EventInv, EventTypeOK
      <4> QED
        BY <1>11, <2>1, <3>2, <4>1, FS_AddElement
    <3> QED
      BY <1>2, <2>1, <3>3, <3>4 DEF EventInv, EventTypeOK, WaitListExact
  <2>2. CASE d # e
    <3>1. Waiters(d)' = Waiters(d)
      BY <1>2, <1>4, <2>2, ObjectFacts DEF Waiters, EventInv, EventTypeOK
    <3> QED
      BY <1>2, <1>9, <2>2, <3>1 DEF EventInv, EventTypeOK, WaitListExact
  <2> QED
    BY <2>1, <2>2
<1>13. FreeBlocksEmpty'
  BY <1>2 DEF EventInv, EventTypeOK, FreeBlocksEmpty
<1> QED
  BY <1>6, <1>7, <1>8, <1>10, <1>12, <1>13 DEF EventInv

-----------------------------------------------------------------------------
(* The end of a wait *)

\* A resuming task was selected by a post, or is still in the wait list and
\* its time is over: ExitsByTimeout tells the two cases apart.
LEMMA ResumingTaskState ==
  ASSUME EventInv, NEW t \in Task, Resuming(t)
  PROVE  /\ pend[t] \in ObjectId
         /\ Priority[t] \in OSReadyList
         /\ Priority[t] \in OSEventWaitList[pend[t]] <=> ~given[t]
         /\ ExitsByTimeout(t) <=> ~given[t]
<1>1. pend[t] \in ObjectId /\ Running(t)
  BY DEF Resuming, EventInv, EventTypeOK
<1>2. Priority[t] \in OSReadyList
  BY <1>1, RunningTaskState
<1>3. Priority[t] \in OSEventWaitList[pend[t]] <=> t \in Waiters(pend[t])
  <2>1. \A u \in Waiters(pend[t]) : Priority[u] = Priority[t] => u = t
    BY ConstantFacts, PriorityInjective DEF Waiters
  <2> QED
    BY <1>1, <2>1 DEF EventInv, WaitListExact
<1>4. t \in Waiters(pend[t]) <=> ~given[t]
  BY DEF Waiters
<1>5. ExitsByTimeout(t) <=> ~given[t]
  BY <1>2, <1>3, <1>4 DEF EventInv, WaitState, Resuming, ExitsByTimeout
<1> QED
  BY <1>1, <1>2, <1>3, <1>4, <1>5

\* What every end of a wait does to its task: it waits no more, is still ready
\* and is linked nowhere.
LEMMA EndedWaitState ==
  ASSUME EventInv, NEW t \in Task, EndWait(t), UNCHANGED <<priorityVars, OSReadyList>>,
         Priority[t] \in OSReadyList, t \notin delayList',
         \A u \in Task \ {t} : /\ u \in delayList' <=> u \in delayList
                               /\ TimeToWait'[u] = TimeToWait[u]
  PROVE  \A u \in Task : WaitState(u)'
<1> SUFFICES ASSUME NEW u \in Task PROVE WaitState(u)'
  OBVIOUS
<1>1. /\ pend' = [pend EXCEPT ![t] = NoEvent]
      /\ timed' = [timed EXCEPT ![t] = FALSE]
      /\ given' = [given EXCEPT ![t] = FALSE]
      /\ UNCHANGED <<Priority, OSReadyList>>
  BY DEF EndWait, priorityVars
<1>2. CASE u = t
  <2>1. pend'[u] = NoEvent /\ ~timed'[u] /\ ~given'[u]
    BY <1>1, <1>2 DEF EventInv, EventTypeOK
  <2> QED
    BY <1>1, <1>2, <2>1 DEF WaitState
<1>3. CASE u # t
  <2>1. /\ pend'[u] = pend[u] /\ timed'[u] = timed[u] /\ given'[u] = given[u]
    BY <1>1, <1>3 DEF EventInv, EventTypeOK
  <2>2. WaitState(u)
    BY DEF EventInv
  <2> QED
    BY <1>1, <1>3, <2>1, <2>2 DEF WaitState
<1> QED
  BY <1>2, <1>3

\* A pend that returns TIMEOUT takes its task off the wait list.
LEMMA TimeoutKeepsInv ==
  ASSUME EventInv, NEW t \in Task, LeaveByTimeout(t)
  PROVE  EventInv'
<1> USE ConstantFacts
<1> DEFINE e == pend[t]
<1>1. /\ OSEventWaitList' =
           [OSEventWaitList EXCEPT ![e] = @ \ {Priority[t]}]
      /\ OSEventWait' = [OSEventWait EXCEPT ![e] = @ - 1]
      /\ UNCHANGED <<TimeToWait, delayList, priorityVars, OSReadyList>>
      /\ EndWait(t) /\ Resuming(t) /\ ExitsByTimeout(t)
  BY DEF LeaveByTimeout
<1>2. /\ e \in ObjectId /\ Priority[t] \in OSReadyList
      /\ Priority[t] \in OSEventWaitList[e] /\ ~given[t]
  BY <1>1, ResumingTaskState
<1>3. t \notin delayList
  BY <1>1 DEF EventInv, WaitState, Resuming, ExitsByTimeout
<1>4. \A u \in Task : WaitState(u)'
  BY <1>1, <1>2, <1>3, EndedWaitState
<1>5. Cardinality(OSEventWaitList[e] \ {Priority[t]}) = OSEventWait[e] - 1
  <2>1. IsFiniteSet(OSEventWaitList[e])
    BY <1>2, WaitListFinite DEF EventInv, EventTypeOK
  <2>2. Cardinality(OSEventWaitList[e] \ {Priority[t]})
          = Cardinality(OSEventWaitList[e]) - 1
    BY <1>2, <2>1, FS_RemoveElement
  <2>3. OSEventWait[e] = Cardinality(OSEventWaitList[e])
    BY <1>2 DEF EventInv, WaitListExact
  <2> QED
    BY <2>2, <2>3
<1>6. OSEventWait[e] - 1 \in Nat
  <2>1. IsFiniteSet(OSEventWaitList[e] \ {Priority[t]})
    BY <1>2, WaitListFinite DEF EventInv, EventTypeOK
  <2> QED
    BY <1>5, <2>1, FS_CardinalityType
<1> HIDE DEF e
<1>7. UNCHANGED <<Priority, PriorityVector, OSBlockedList, OSTickCounter,
                  currentTask, changeContext, OSEventAllocated>>
  BY <1>1 DEF EndWait, priorityVars
<1>8. EventTypeOK'
  BY <1>1, <1>2, <1>6, <1>7 DEF EventInv, EventTypeOK, TypeOK, EndWait
<1>9. PrioritiesOwned' /\ RunningIsRunnable'
  BY <1>1, <1>7 DEF EventInv, PrioritiesOwned, RunningIsRunnable
<1>10. WaitListExact'
  <2> SUFFICES ASSUME NEW d \in ObjectId
               PROVE  /\ OSEventWaitList'[d] = {Priority'[u] : u \in Waiters(d)'}
                      /\ OSEventWait'[d] = Cardinality(OSEventWaitList'[d])
    BY DEF WaitListExact
  <2>1. /\ OSEventWaitList[d] = {Priority[u] : u \in Waiters(d)}
        /\ OSEventWait[d] = Cardinality(OSEventWaitList[d])
    BY DEF EventInv, WaitListExact
  <2>2. Waiters(d)' = Waiters(d) \ {t}
    BY <1>1, ObjectFacts DEF Waiters, EndWait, EventInv, EventTypeOK
  <2>3. CASE d = e
    <3>1. OSEventWaitList'[d] = OSEventWaitList[d] \ {Priority[t]}
      BY <1>1, <2>3 DEF EventInv, EventTypeOK
    <3>2. \A u \in Waiters(d) : Priority[u] = Priority[t] => u = t
      BY PriorityInjective DEF Waiters
    <3>3. OSEventWaitList'[d] = {Priority'[u] : u \in Waiters(d)'}
      BY <1>7, <2>1, <2>2, <3>1, <3>2
    <3> QED
      BY <1>1, <1>5, <2>3, <3>1, <3>3 DEF EventInv, EventTypeOK
  <2>4. CASE d # e
    <3>1. t \notin Waiters(d)
      BY <2>4 DEF Waiters, e
    <3>2. Waiters(d)' = Waiters(d)
      BY <2>2, <3>1
    <3>3. /\ OSEventWaitList'[d] = OSEventWaitList[d]
          /\ OSEventWait'[d] = OSEventWait[d]
      BY <1>1, <2>4 DEF EventInv, EventTypeOK
    <3> QED
      BY <1>7, <2>1, <3>2, <3>3
  <2> QED
    BY <2>3, <2>4
<1>11. FreeBlocksEmpty'
  BY <1>1, <1>2, <1>7 DEF EventInv, EventTypeOK, FreeBlocksEmpty
<1> QED
  BY <1>4, <1>8, <1>9, <1>10, <1>11 DEF EventInv

\* A pend that returns OK leaves the wait lists alone, since the post has
\* already taken its task off, and unlinks it from the delay list if its time
\* is not over.
LEMMA PostedKeepsInv ==
  ASSUME EventInv, NEW t \in Task, LeaveByPost(t),
         UNCHANGED <<priorityVars, OSReadyList>>
  PROVE  EventInv'
<1> USE ConstantFacts
<1> DEFINE unlink == timed[t] /\ TimeToWait[t] # EXIT_BY_TIMEOUT
<1>1. /\ TimeToWait' = [TimeToWait EXCEPT ![t] =
                          IF unlink THEN NO_TIMEOUT ELSE @]
      /\ delayList' = IF unlink THEN delayList \ {t} ELSE delayList
      /\ UNCHANGED <<OSEventWait, OSEventWaitList>>
      /\ EndWait(t) /\ Resuming(t) /\ ~ExitsByTimeout(t)
  BY DEF LeaveByPost
<1>2. Priority[t] \in OSReadyList /\ given[t]
  BY <1>1, ResumingTaskState
<1>3. t \notin delayList'
  BY <1>1 DEF EventInv, WaitState, Resuming
<1>4. \A u \in Task : WaitState(u)'
  BY <1>1, <1>2, <1>3, EndedWaitState DEF EventInv, EventTypeOK, TypeOK
<1>5. UNCHANGED <<Priority, PriorityVector, OSBlockedList, OSTickCounter,
                  currentTask, changeContext, OSEventAllocated>>
  BY <1>1 DEF EndWait, priorityVars
<1>6. EventTypeOK'
  <2>1. TimeToWait' \in [Thread -> 0 .. MAX_TIMER]
    BY <1>1 DEF EventInv, EventTypeOK, TypeOK, MAX_TIMER, NO_TIMEOUT
  <2> QED
    BY <1>1, <1>5, <2>1 DEF EventInv, EventTypeOK, TypeOK, EndWait
<1>7. PrioritiesOwned' /\ RunningIsRunnable'
  BY <1>5 DEF EventInv, PrioritiesOwned, RunningIsRunnable
<1>8. \A d \in ObjectId : Waiters(d)' = Waiters(d)
  BY <1>1, <1>2, ObjectFacts DEF Waiters, EndWait, EventInv, EventTypeOK
<1>9. WaitListExact' /\ FreeBlocksEmpty'
  BY <1>1, <1>5, <1>8 DEF EventInv, WaitListExact, FreeBlocksEmpty
<1> QED
  BY <1>4, <1>6, <1>7, <1>9 DEF EventInv

-----------------------------------------------------------------------------
(* Waking *)

\* The priority that SAScheduler finds in a wait list is that of a waiter, and
\* PriorityVector leads back to this waiter.
LEMMA SelectedWaiter ==
  ASSUME EventInv, NEW e \in ObjectId, OSEventWait[e] # 0
  PROVE  \E u \in Waiters(e) : /\ HighestWaiter(e) = Priority[u]
                               /\ PriorityVector[HighestWaiter(e)] = u
<1>1. /\ OSEventWaitList[e] \subseteq 0 .. configMAX_TASK_PRIORITY
      /\ configMAX_TASK_PRIORITY \in Nat
  BY PriorityAssumption DEF EventInv, EventTypeOK, PrioRange
<1>2. OSEventWaitList[e] # {}
  BY FS_EmptySet DEF EventInv, WaitListExact
<1>3. HighestWaiter(e) \in OSEventWaitList[e]
  BY <1>1, <1>2, SASchedulerIsHighest DEF HighestWaiter
<1>4. PICK u \in Waiters(e) : HighestWaiter(e) = Priority[u]
  BY <1>3 DEF EventInv, WaitListExact
<1>5. PriorityVector[Priority[u]] = u
  BY ConstantFacts DEF EventInv, PrioritiesOwned, Waiters
<1> QED
  BY <1>4, <1>5

\* A post takes one waiter off the wait list and makes it ready.
LEMMA PostStep ==
  ASSUME EventInv, NEW e \in ObjectId, PostToWaiter(e),
         currentTask' \in Thread, changeContext' \in BOOLEAN
  PROVE  /\ EventTypeOK' /\ PrioritiesOwned' /\ WaitListExact'
         /\ FreeBlocksEmpty'
         /\ \A t \in Task : WaitState(t)'
<1> USE ConstantFacts
<1>1. PICK u \in Waiters(e) : /\ HighestWaiter(e) = Priority[u]
                              /\ PriorityVector[HighestWaiter(e)] = u
  BY SelectedWaiter DEF PostToWaiter, SelectWaiter
<1>2. u \in Task /\ pend[u] = e /\ ~given[u]
  BY DEF Waiters
<1>3. /\ OSEventWait[e] # 0
      /\ OSEventWaitList' =
           [OSEventWaitList EXCEPT ![e] = @ \ {Priority[u]}]
      /\ OSEventWait' = [OSEventWait EXCEPT ![e] = @ - 1]
      /\ given' = [t \in Task |-> given[t] \/ t = u]
      /\ OSReadyList' = OSReadyList \cup {Priority[u]}
      /\ UNCHANGED <<OSEventAllocated, pend, timed, TimeToWait, OSBlockedList,
                     delayList, OSTickCounter, left, Priority, PriorityVector>>
  BY <1>1 DEF PostToWaiter, SelectWaiter, priorityVars
<1>4. Priority[u] \in OSEventWaitList[e]
  BY <1>1 DEF EventInv, WaitListExact
<1>5. PrioritiesOwned'
  BY <1>2, <1>3 DEF EventInv, PrioritiesOwned
<1>6. OSEventWait[e] - 1 \in Nat
  BY <1>3 DEF EventInv, EventTypeOK
<1>7. EventTypeOK'
  <2>1. given' \in [Task -> BOOLEAN]
    BY <1>3 DEF EventInv, EventTypeOK
  <2>2. OSEventWait' \in [ObjectId -> Nat]
    BY <1>3, <1>6 DEF EventInv, EventTypeOK
  <2>3. OSEventWaitList' \in [ObjectId -> SUBSET PrioRange]
    BY <1>3 DEF EventInv, EventTypeOK
  <2>4. TypeOK'
    BY <1>2, <1>3 DEF EventInv, EventTypeOK, TypeOK
  <2> QED
    BY <1>3, <2>1, <2>2, <2>3, <2>4 DEF EventInv, EventTypeOK
<1>8. ASSUME NEW t \in Task PROVE WaitState(t)'
  <2>1. CASE t = u
    BY <1>2, <1>3, <2>1, ObjectFacts DEF EventInv, WaitState
  <2>2. CASE t # u
    <3>1. Priority[t] # Priority[u]
      BY <1>2, <2>2, PriorityInjective
    <3>2. given'[t] = given[t]
      BY <1>3, <2>2 DEF EventInv, EventTypeOK
    <3>3. WaitState(t)
      BY DEF EventInv
    <3> QED
      BY <1>3, <3>1, <3>2, <3>3 DEF WaitState
  <2> QED
    BY <2>1, <2>2
<1>9. WaitListExact'
  <2> SUFFICES ASSUME NEW d \in ObjectId
               PROVE  /\ OSEventWaitList'[d] = {Priority'[t] : t \in Waiters(d)'}
                      /\ OSEventWait'[d] = Cardinality(OSEventWaitList'[d])
    BY DEF WaitListExact
  <2>1. /\ OSEventWaitList[d] = {Priority[t] : t \in Waiters(d)}
        /\ OSEventWait[d] = Cardinality(OSEventWaitList[d])
    BY DEF EventInv, WaitListExact
  <2>2. Waiters(d)' = Waiters(d) \ {u}
    BY <1>3 DEF Waiters, EventInv, EventTypeOK
  <2>3. CASE d = e
    <3>1. OSEventWaitList'[d] = OSEventWaitList[d] \ {Priority[u]}
      BY <1>3, <2>3 DEF EventInv, EventTypeOK
    <3>2. \A t \in Waiters(d) : Priority[t] = Priority[u] => t = u
      BY <1>2, PriorityInjective DEF Waiters
    <3>3. OSEventWaitList'[d] = {Priority'[t] : t \in Waiters(d)'}
      BY <1>3, <2>1, <2>2, <3>1, <3>2
    <3>4. Cardinality(OSEventWaitList'[d]) = Cardinality(OSEventWaitList[d]) - 1
      <4>1. IsFiniteSet(OSEventWaitList[d])
        BY WaitListFinite DEF EventInv, EventTypeOK
      <4>2. Priority[u] \in OSEventWaitList[d]
        BY <1>4, <2>3
      <4>3. Cardinality(OSEventWaitList[d] \ {Priority[u]})
              = Cardinality(OSEventWaitList[d]) - 1
        BY <4>1, <4>2, FS_RemoveElement
      <4> QED
        BY <3>1, <4>3
    <3>5. OSEventWait'[d] = OSEventWait[d] - 1
      BY <1>3, <2>3 DEF EventInv, EventTypeOK
    <3> QED
      BY <2>1, <3>3, <3>4, <3>5
  <2>4. CASE d # e
    <3>1. Waiters(d)' = Waiters(d)
      BY <1>2, <2>2, <2>4 DEF Waiters
    <3>2. /\ OSEventWaitList'[d] = OSEventWaitList[d]
          /\ OSEventWait'[d] = OSEventWait[d]
      BY <1>3, <2>4 DEF EventInv, EventTypeOK
    <3>3. Priority' = Priority
      BY <1>3
    <3> QED
      BY <2>1, <3>1, <3>2, <3>3
  <2> QED
    BY <2>3, <2>4
<1>10. FreeBlocksEmpty'
  BY <1>3 DEF EventInv, EventTypeOK, FreeBlocksEmpty
<1> QED
  BY <1>5, <1>7, <1>8, <1>9, <1>10

\* A post by the running task keeps the invariant, whether or not the port lets
\* it request a switch.
LEMMA TaskPostKeepsInv ==
  ASSUME EventInv, NEW e \in ObjectId, ~changeContext, TaskPost(e)
  PROVE  EventInv'
<1>1. /\ PostToWaiter(e) /\ UNCHANGED <<currentTask, OSBlockedList, Priority>>
      /\ OSReadyList \subseteq OSReadyList'
      /\ changeContext' \in BOOLEAN
  BY DEF TaskPost, PostToWaiter, SelectWaiter, ChangeContextIfNotNested,
         priorityVars
<1>2. currentTask' \in Thread
  BY <1>1 DEF EventInv, EventTypeOK, TypeOK
<1>3. RunningIsRunnable'
  BY <1>1 DEF EventInv, RunningIsRunnable
<1> QED
  BY <1>1, <1>2, <1>3, PostStep DEF EventInv

\* So does a post by an interrupt, which ends with a new choice of the task.
LEMMA ISRPostKeepsInv ==
  ASSUME EventInv, NEW e \in ObjectId, ISRPost(e)
  PROVE  EventInv'
<1>1. PostToWaiter(e) /\ Reschedule
  BY DEF ISRPost
<1>2. PrioritiesOwned'
  <2>1. PICK u \in Waiters(e) : HighestWaiter(e) = Priority[u]
    BY <1>1, SelectedWaiter DEF PostToWaiter, SelectWaiter
  <2>2. /\ UNCHANGED <<PriorityVector, Priority>>
        /\ OSReadyList' = OSReadyList \cup {Priority[u]}
    BY <1>1, <2>1 DEF PostToWaiter, priorityVars
  <2>3. u \in Thread
    BY ConstantFacts DEF Waiters
  <2>4. PrioritiesOwned
    BY DEF EventInv
  <2> QED
    BY <2>2, <2>3, <2>4 DEF PrioritiesOwned
<1>3. currentTask' \in Thread /\ changeContext' = FALSE /\ RunningIsRunnable'
  BY <1>1, <1>2, RescheduleIsRight
<1> QED
  BY <1>1, <1>3, PostStep DEF EventInv

-----------------------------------------------------------------------------
(* The kernel under the services *)

\* OSDelayTask, OSBlockTask and OSUnBlockTask leave every wait as it is.
LEMMA KernelCallKeepsInv ==
  ASSUME EventInv, NEW t \in Task, InUserCode(t), KernelCall(t)
  PROVE  EventInv'
<1> USE ConstantFacts
<1>1. UNCHANGED eventVars /\ Running(t) /\ pend[t] = NoEvent
  BY DEF KernelCall, InUserCode
<1>2. ASSUME NEW w \in TimeWait, OSDelayTask(t, w) PROVE EventInv'
  <2>1. /\ w # 0
        /\ OSReadyList' = OSReadyList \ {Priority[t]}
        /\ TimeToWait' = [TimeToWait EXCEPT ![t] = Deadline(w)]
        /\ delayList' = delayList \cup {t}
        /\ left' = [left EXCEPT ![t] = w]
        /\ changeContext' = TRUE
        /\ UNCHANGED <<priorityVars, OSBlockedList, OSTickCounter, currentTask>>
    BY <1>2 DEF OSDelayTask, Suspend
  <2>2. Deadline(w) \in 0 .. MAX_TIMER
    BY DEF EventInv, EventTypeOK, TypeOK, Deadline, MAX_TIMER
  <2>3. EventTypeOK'
    <3>1. TypeOK'
      BY <2>1, <2>2 DEF EventInv, EventTypeOK, TypeOK, priorityVars
    <3> QED
      BY <1>1, <3>1 DEF EventInv, EventTypeOK, eventVars, eventTable, callVars
  <2>4. PrioritiesOwned' /\ RunningIsRunnable'
    BY <2>1 DEF EventInv, PrioritiesOwned, RunningIsRunnable, priorityVars
  <2>5. ASSUME NEW u \in Task PROVE WaitState(u)'
    <3>1. UNCHANGED <<pend, timed, given, Priority>> /\ WaitState(u)
      BY <1>1, <2>1 DEF eventVars, callVars, priorityVars, EventInv
    <3>2. CASE u = t
      BY <1>1, <2>1, <3>1, <3>2 DEF WaitState
    <3>3. CASE u # t
      <4>1. Priority[u] # Priority[t]
        BY <3>3, PriorityInjective
      <4>2. TimeToWait'[u] = TimeToWait[u]
        BY <2>1, <3>3 DEF EventInv, EventTypeOK, TypeOK
      <4> QED
        BY <2>1, <3>1, <3>3, <4>1, <4>2 DEF WaitState
    <3> QED
      BY <3>2, <3>3
  <2>6. WaitListExact' /\ FreeBlocksEmpty'
    BY <1>1, <2>1 DEF EventInv, WaitListExact, Waiters, FreeBlocksEmpty,
                      eventVars, eventTable, callVars, priorityVars
  <2> QED
    BY <2>3, <2>4, <2>5, <2>6 DEF EventInv
<1>3. ASSUME NEW h \in BlockTargets, OSBlockTask(h) \/ OSUnBlockTask(h)
      PROVE  EventInv'
  <2>1. /\ UNCHANGED onlyBlockedList /\ changeContext' \in BOOLEAN
        /\ OSBlockedList' \subseteq OSBlockedList \cup PrioRange
    BY <1>3, ThreadAssumption, EventAssumption
    DEF OSBlockTask, OSUnBlockTask, ChangeContextIfNotNested, EventInv,
        EventTypeOK, TypeOK
  <2>2. EventTypeOK' /\ PrioritiesOwned'
    BY <1>1, <2>1
    DEF EventInv, EventTypeOK, TypeOK, PrioritiesOwned, onlyBlockedList,
        priorityVars, eventVars, eventTable, callVars
  <2>3. RunningIsRunnable'
    <3>1. CASE OSBlockTask(h)
      <4>1. h # currentTask => Priority[h] # Priority[currentTask]
        BY EventAssumption, PriorityInjective DEF EventInv, EventTypeOK, TypeOK
      <4> QED
        BY <1>1, <3>1, <4>1 DEF OSBlockTask, RunningIsRunnable, EventInv,
                                Running, onlyBlockedList, priorityVars
    <3>2. CASE OSUnBlockTask(h)
      BY <1>1, <3>2 DEF OSUnBlockTask, RunningIsRunnable, EventInv,
                        Running, onlyBlockedList, priorityVars
    <3> QED
      BY <1>3, <3>1, <3>2
  <2>4. ASSUME NEW u \in Task PROVE WaitState(u)'
    BY <1>1, <2>1 DEF EventInv, WaitState, onlyBlockedList, priorityVars,
                      eventVars, callVars
  <2>5. WaitListExact' /\ FreeBlocksEmpty'
    BY <1>1, <2>1 DEF EventInv, WaitListExact, Waiters, FreeBlocksEmpty,
                      eventVars, eventTable, callVars, onlyBlockedList,
                      priorityVars
  <2> QED
    BY <2>2, <2>3, <2>4, <2>5 DEF EventInv
<1> QED
  BY <1>2, <1>3 DEF KernelCall

\* The tick times waits out, and the context switch changes no wait.
LEMMA KernelInterruptKeepsInv ==
  ASSUME EventInv, KernelInterrupt
  PROVE  EventInv'
<1> USE ConstantFacts
<1>1. UNCHANGED eventVars /\ UNCHANGED priorityVars /\ UNCHANGED OSBlockedList
      /\ Reschedule
  BY DEF KernelInterrupt, TickTimer, SwitchContext
<1>2. UNCHANGED <<pend, timed, given, Priority, OSEventAllocated, OSEventWait,
                  OSEventWaitList>>
  BY <1>1 DEF eventVars, eventTable, callVars, priorityVars
<1>3. WaitListExact' /\ FreeBlocksEmpty'
  BY <1>2 DEF EventInv, WaitListExact, Waiters, FreeBlocksEmpty
<1>4. /\ OSReadyList' \subseteq {Priority[t] : t \in Thread}
      /\ OSTickCounter' \in 0 .. TICK_COUNT_OVERFLOW - 1
      /\ TimeToWait' \in [Thread -> 0 .. MAX_TIMER]
      /\ left' \in [Thread -> Nat]
      /\ delayList' \subseteq delayList
      /\ \A t \in Task : WaitState(t)'
  <2>1. CASE SwitchContext
    <3>1. UNCHANGED <<OSReadyList, OSTickCounter, TimeToWait, left, delayList>>
      BY <2>1 DEF SwitchContext
    <3> QED
      BY <1>2, <3>1
      DEF EventInv, EventTypeOK, TypeOK, PrioritiesOwned, WaitState
  <2>2. CASE TickTimer
    <3> DEFINE now     == IncCounter(OSTickCounter)
               expired == {t \in delayList : TimeToWait[t] = now}
    <3>1. /\ OSTickCounter' = now
          /\ OSReadyList' = OSReadyList \cup {Priority[t] : t \in expired}
          /\ TimeToWait' = [t \in Thread |->
                             IF t \in expired THEN EXIT_BY_TIMEOUT
                                              ELSE TimeToWait[t]]
          /\ delayList' = delayList \ expired
          /\ left' = [t \in Thread |-> IF t \in delayList /\ left[t] > 0
                                       THEN left[t] - 1 ELSE left[t]]
      BY <2>2 DEF TickTimer
    <3>2. expired \subseteq delayList /\ expired \subseteq Task
      BY DEF EventInv, EventTypeOK, TypeOK
    <3>3. now \in 0 .. TICK_COUNT_OVERFLOW - 1
      BY DEF EventInv, EventTypeOK, TypeOK, IncCounter
    <3> HIDE DEF now, expired
    <3>4. OSReadyList' \subseteq {Priority[t] : t \in Thread}
      BY <3>1, <3>2 DEF EventInv, PrioritiesOwned
    <3>5. TimeToWait' \in [Thread -> 0 .. MAX_TIMER]
      BY <3>1 DEF EventInv, EventTypeOK, TypeOK, MAX_TIMER, EXIT_BY_TIMEOUT
    <3>6. left' \in [Thread -> Nat]
      BY <3>1 DEF EventInv, EventTypeOK, TypeOK
    <3>7. ASSUME NEW u \in Task PROVE WaitState(u)'
      <4>1. Priority[u] \in {Priority[t] : t \in expired} <=> u \in expired
        BY <3>2, PriorityInjective
      <4>2. WaitState(u)
        BY DEF EventInv
      <4>3. TimeToWait'[u] = IF u \in expired THEN EXIT_BY_TIMEOUT
                                              ELSE TimeToWait[u]
        BY <3>1
      <4>4. /\ Priority'[u] \in OSReadyList'
                 <=> Priority[u] \in OSReadyList \/ u \in expired
            /\ u \in delayList' <=> u \in delayList /\ u \notin expired
        BY <1>2, <3>1, <4>1
      <4> QED
        BY <1>2, <3>2, <4>2, <4>3, <4>4 DEF WaitState
    <3> QED
      BY <3>1, <3>3, <3>4, <3>5, <3>6, <3>7
  <2> QED
    BY <2>1, <2>2 DEF KernelInterrupt
<1>5. PrioritiesOwned'
  BY <1>1, <1>4 DEF EventInv, PrioritiesOwned, priorityVars
<1>6. currentTask' \in Thread /\ changeContext' = FALSE /\ RunningIsRunnable'
  BY <1>1, <1>5, RescheduleIsRight
<1>7. EventTypeOK'
  <2>1. OSReadyList' \subseteq PrioRange
    BY <1>5 DEF PrioritiesOwned
  <2>2. TypeOK'
    BY <1>1, <1>4, <1>6, <2>1
    DEF EventInv, EventTypeOK, TypeOK, priorityVars
  <2> QED
    BY <1>2, <2>2 DEF EventInv, EventTypeOK
<1> QED
  BY <1>3, <1>4, <1>5, <1>6, <1>7 DEF EventInv

-----------------------------------------------------------------------------
(* What the invariant gives *)

\* A task that is not ready is in the delay list or counted as a waiter.
LEMMA NoWakeupLostFromInv == EventInv => NoWakeupLost
<1> SUFFICES ASSUME EventInv, NEW t \in Task, Priority[t] \notin OSReadyList
             PROVE  \/ pend[t] = NoEvent /\ t \in delayList
                    \/ /\ pend[t] # NoEvent
                       /\ Priority[t] \in OSEventWaitList[pend[t]]
                       /\ timed[t] => t \in delayList
  BY DEF NoWakeupLost
<1>1. WaitState(t)
  BY DEF EventInv
<1>2. CASE pend[t] = NoEvent
  BY <1>1, <1>2 DEF WaitState
<1>3. CASE pend[t] # NoEvent
  <2>1. pend[t] \in ObjectId /\ t \in Waiters(pend[t])
    BY <1>1, <1>3 DEF WaitState, Waiters, EventInv, EventTypeOK
  <2>2. Priority[t] \in OSEventWaitList[pend[t]]
    BY <2>1 DEF EventInv, WaitListExact
  <2> QED
    BY <1>1, <1>3, <2>2 DEF WaitState
<1> QED
  BY <1>2, <1>3

\* A task uses the delay list the way its macros expect.
LEMMA DelayListContractFromInv == EventInv => DelayListContract
BY DEF EventInv, WaitState, DelayListContract

\* Every step that ends with Reschedule leaves the highest runnable priority on
\* the processor.
LEMMA OrderAfterReschedule ==
  ASSUME EventInv', Reschedule
  PROVE  \A t \in Task : Priority'[t] \in OSReadyList' \cap OSBlockedList'
                           => Priority'[t] <= Priority'[currentTask']
BY RescheduleIsRight, ConstantFacts DEF EventInv

-----------------------------------------------------------------------------
(* The bit search of SAScheduler *)

\* Each bit of a mask is worth twice the one below it.  The prover evaluates
\* powers of constants only, so their table is compared.
LEMMA BitsDouble ==
  ASSUME NEW k \in 0 .. 31
  PROVE  2 ^ k \in Nat /\ 2 ^ (k + 1) = 2 * 2 ^ k
<1>1.
     /\ 2 ^ 0 = 1 /\ 2 ^ 1 = 2 /\ 2 ^ 2 = 4
     /\ 2 ^ 3 = 8 /\ 2 ^ 4 = 16 /\ 2 ^ 5 = 32
     /\ 2 ^ 6 = 64 /\ 2 ^ 7 = 128 /\ 2 ^ 8 = 256
     /\ 2 ^ 9 = 512 /\ 2 ^ 10 = 1024 /\ 2 ^ 11 = 2048
     /\ 2 ^ 12 = 4096 /\ 2 ^ 13 = 8192 /\ 2 ^ 14 = 16384
     /\ 2 ^ 15 = 32768 /\ 2 ^ 16 = 65536 /\ 2 ^ 17 = 131072
     /\ 2 ^ 18 = 262144 /\ 2 ^ 19 = 524288 /\ 2 ^ 20 = 1048576
     /\ 2 ^ 21 = 2097152 /\ 2 ^ 22 = 4194304 /\ 2 ^ 23 = 8388608
     /\ 2 ^ 24 = 16777216 /\ 2 ^ 25 = 33554432 /\ 2 ^ 26 = 67108864
     /\ 2 ^ 27 = 134217728 /\ 2 ^ 28 = 268435456 /\ 2 ^ 29 = 536870912
     /\ 2 ^ 30 = 1073741824 /\ 2 ^ 31 = 2147483648 /\ 2 ^ 32 = 4294967296
  OBVIOUS
<1> DEFINE bit == [i \in 0 .. 32 |-> 2 ^ i]
<1>2.
     /\ bit[0] = 1 /\ bit[1] = 2 /\ bit[2] = 4
     /\ bit[3] = 8 /\ bit[4] = 16 /\ bit[5] = 32
     /\ bit[6] = 64 /\ bit[7] = 128 /\ bit[8] = 256
     /\ bit[9] = 512 /\ bit[10] = 1024 /\ bit[11] = 2048
     /\ bit[12] = 4096 /\ bit[13] = 8192 /\ bit[14] = 16384
     /\ bit[15] = 32768 /\ bit[16] = 65536 /\ bit[17] = 131072
     /\ bit[18] = 262144 /\ bit[19] = 524288 /\ bit[20] = 1048576
     /\ bit[21] = 2097152 /\ bit[22] = 4194304 /\ bit[23] = 8388608
     /\ bit[24] = 16777216 /\ bit[25] = 33554432 /\ bit[26] = 67108864
     /\ bit[27] = 134217728 /\ bit[28] = 268435456 /\ bit[29] = 536870912
     /\ bit[30] = 1073741824 /\ bit[31] = 2147483648 /\ bit[32] = 4294967296
  BY <1>1
<1>3. bit[k] = 2 ^ k /\ bit[k + 1] = 2 ^ (k + 1)
  OBVIOUS
<1> HIDE DEF bit
<1>4. bit[k] \in Nat /\ bit[k + 1] = 2 * bit[k]
  BY <1>2
<1> QED
  BY <1>3, <1>4

\* Bits are natural numbers.
LEMMA BitsAreNumbers ==
  ASSUME NEW k \in 0 .. 32
  PROVE  2 ^ k \in Nat
<1>1. CASE k = 32
  <2>1. 2 ^ 32 = 4294967296
    OBVIOUS
  <2> QED
    BY <1>1, <2>1
<1>2. CASE k # 32
  <2>1. k \in 0 .. 31
    BY <1>2
  <2> QED
    BY <2>1, BitsDouble
<1> QED
  BY <1>1, <1>2

\* A higher bit is worth more.
LEMMA BitsGrow ==
  ASSUME NEW a \in 0 .. 32, NEW b \in a .. 32
  PROVE  2 ^ a \in Nat /\ 2 ^ a <= 2 ^ b
<1> DEFINE Good == {d \in 0 .. b - a : 2 ^ a <= 2 ^ (a + d)}
<1>1. \A k \in 0 .. 32 : 2 ^ k \in Nat
  BY BitsAreNumbers
<1>2. 0 \in Good
  BY <1>1
<1>3. ASSUME NEW d \in 0 .. b - a - 1, d \in Good
      PROVE  d + 1 \in Good
  <2>1. a + d \in 0 .. 31 /\ a + (d + 1) = (a + d) + 1
    OBVIOUS
  <2> PICK k \in 0 .. 31 : k = a + d
    BY <2>1
  <2>2. 2 ^ (k + 1) = 2 * 2 ^ k /\ 2 ^ k \in Nat
    BY BitsDouble
  <2>3. 2 ^ a <= 2 ^ (a + (d + 1))
    BY <1>1, <1>3, <2>2
  <2> QED
    BY <2>3
<1>4. \A d \in 0 .. b - a : d \in Good
  <2> HIDE DEF Good
  <2> QED
    BY <1>2, <1>3, InductionUpTo
<1>5. b - a \in Good /\ a + (b - a) = b
  BY <1>4
<1> QED
  BY <1>1, <1>5

\* w gives the number that each mask of n bits stands for.
Weighs(w, n) ==
  /\ w \in [SUBSET (0 .. n - 1) -> Nat]
  /\ w[{}] = 0
  /\ \A s \in SUBSET (0 .. n - 1) : \A c \in s : w[s] = 2 ^ c + w[s \ {c}]

\* Adding the bits of a mask in any order gives the same number.
LEMMA WeightsExist ==
  \A n \in 0 .. 32 : \E w : Weighs(w, n)
<1> DEFINE Good == {n \in 0 .. 32 : \E w : Weighs(w, n)}
<1>1. 0 \in Good
  <2>1. Weighs([s \in SUBSET (0 .. -1) |-> 0], 0)
    BY DEF Weighs
  <2> QED
    BY <2>1
<1>2. ASSUME NEW n \in 0 .. 31, n \in Good
      PROVE  n + 1 \in Good
  <2>1. PICK w : Weighs(w, n)
    BY <1>2
  <2> DEFINE more == [s \in SUBSET (0 .. n) |->
                        w[s \ {n}] + (IF n \in s THEN 2 ^ n ELSE 0)]
  <2>2. 2 ^ n \in Nat
    <3>1. n \in 0 .. 32
      OBVIOUS
    <3> QED
      BY <3>1, BitsAreNumbers
  <2>3. \A s \in SUBSET (0 .. n) : s \ {n} \in SUBSET (0 .. n - 1)
    OBVIOUS
  <2>4. more \in [SUBSET (0 .. n) -> Nat]
    <3>1. \A s \in SUBSET (0 .. n) : w[s \ {n}] \in Nat
      BY <2>1, <2>3 DEF Weighs
    <3> QED
      BY <2>2, <3>1
  <2>5. more[{}] = 0
    <3>1. {} \ {n} = {} /\ {} \in SUBSET (0 .. n) /\ n \notin {}
      OBVIOUS
    <3>2. more[{}] = w[{}] + 0
      BY <3>1
    <3> QED
      BY <2>1, <3>2 DEF Weighs
  <2>6. ASSUME NEW s \in SUBSET (0 .. n), NEW c \in s
        PROVE  more[s] = 2 ^ c + more[s \ {c}]
    <3>1. s \ {c} \in SUBSET (0 .. n)
      OBVIOUS
    <3>2. CASE c = n
      <4>1. (s \ {c}) \ {n} = s \ {n} /\ n \notin s \ {c} /\ n \in s
        BY <3>2
      <4>2. w[s \ {n}] \in Nat
        BY <2>1, <2>3 DEF Weighs
      <4>3. more[s] = w[s \ {n}] + 2 ^ n /\ more[s \ {c}] = w[s \ {n}] + 0
        BY <3>1, <4>1
      <4> QED
        BY <2>2, <3>2, <4>2, <4>3
    <3>3. CASE c # n
      <4>1. /\ c \in s \ {n}
            /\ (s \ {c}) \ {n} = (s \ {n}) \ {c}
            /\ n \in s <=> n \in s \ {c}
        BY <3>3
      <4>2. /\ w[s \ {n}] = 2 ^ c + w[(s \ {n}) \ {c}]
            /\ w[(s \ {n}) \ {c}] \in Nat
        <5>1. (s \ {n}) \ {c} \in SUBSET (0 .. n - 1)
          OBVIOUS
        <5> QED
          BY <2>1, <2>3, <4>1, <5>1 DEF Weighs
      <4>3. 2 ^ c \in Nat
        <5>1. c \in 0 .. 32
          OBVIOUS
        <5> QED
          BY <5>1, BitsAreNumbers
      <4> PICK rest, top :
                 rest = w[(s \ {n}) \ {c}] /\ top = IF n \in s THEN 2 ^ n ELSE 0
        OBVIOUS
      <4>4. top \in Nat
        BY <2>2
      <4>5. more[s] = w[s \ {n}] + top /\ more[s \ {c}] = rest + top
        BY <3>1, <4>1
      <4> QED
        BY <4>2, <4>3, <4>4, <4>5
    <3> QED
      BY <3>2, <3>3
  <2>7. Weighs(more, n + 1)
    <3>1. (n + 1) - 1 = n
      OBVIOUS
    <3> HIDE DEF more
    <3> QED
      BY <2>4, <2>5, <2>6, <3>1 DEF Weighs
  <2> QED
    BY <2>7
<1>3. \A n \in 0 .. 31 : n \in Good => n + 1 \in Good
  BY <1>2
<1>4. \A n \in 0 .. 32 : n \in Good
  <2> HIDE DEF Good
  <2> QED
    BY <1>1, <1>3, InductionUpTo
<1> QED
  BY <1>4

\* The fold that defines MaskOf computes that number.
LEMMA MaskOfIsWeight ==
  ASSUME NEW n \in 0 .. 32, NEW w, Weighs(w, n), NEW S \in SUBSET (0 .. n - 1)
  PROVE  MaskOf(S) = w[S]
<1> DEFINE chosen(s) == CHOOSE x \in s : TRUE
           Sums(f) == [s \in SUBSET S |->
                         IF s = {} THEN 0 ELSE 2 ^ chosen(s) + f[s \ {chosen(s)}]]
           f == CHOOSE g : g = Sums(g)
<1>1. MaskOf(S) = f[S]
  BY DEF MaskOf, MapThenSumSet, MapThenFoldSet, PriorityMask
<1>2. \A s \in SUBSET S : s # {} => chosen(s) \in s
  OBVIOUS
<1>3. \E g : g = Sums(g)
  <2> DEFINE g == [s \in SUBSET S |-> w[s]]
  <2>1. ASSUME NEW s \in SUBSET S PROVE g[s] = Sums(g)[s]
    <3>1. CASE s = {}
      BY <3>1 DEF Weighs
    <3>2. CASE s # {}
      <4>1. s \ {chosen(s)} \in SUBSET S /\ s \in SUBSET (0 .. n - 1)
        OBVIOUS
      <4>2. w[s] = 2 ^ chosen(s) + w[s \ {chosen(s)}]
        BY <1>2, <3>2, <4>1 DEF Weighs
      <4> HIDE DEF chosen
      <4> QED
        BY <3>2, <4>1, <4>2
    <3> QED
      BY <3>1, <3>2
  <2>2. g = Sums(g)
    BY <2>1
  <2> QED
    BY <2>2
<1>4. f = Sums(f)
  BY <1>3
<1> HIDE DEF f, chosen
<1>5. \A s \in SUBSET S :
         f[s] = IF s = {} THEN 0 ELSE 2 ^ chosen(s) + f[s \ {chosen(s)}]
  BY <1>4
<1>6. IsFiniteSet(S)
  <2>1. IsFiniteSet(0 .. n - 1)
    BY FS_Interval
  <2> QED
    BY <2>1, FS_Subset
<1>7. \A s \in SUBSET S : IsFiniteSet(s) /\ Cardinality(s) \in Nat
  BY <1>6, FS_Subset, FS_CardinalityType
<1> DEFINE Good == {k \in 0 .. Cardinality(S) :
                      \A s \in SUBSET S : Cardinality(s) = k => f[s] = w[s]}
<1>8. 0 \in Good
  <2>1. \A s \in SUBSET S : Cardinality(s) = 0 => s = {}
    BY <1>7, FS_EmptySet
  <2>2. f[{}] = w[{}]
    BY <1>5 DEF Weighs
  <2>3. 0 \in 0 .. Cardinality(S)
    BY <1>7
  <2> QED
    BY <2>1, <2>2, <2>3
<1>9. ASSUME NEW k \in 0 .. Cardinality(S) - 1, k \in Good
      PROVE  k + 1 \in Good
  <2>1. ASSUME NEW s \in SUBSET S, Cardinality(s) = k + 1
        PROVE  f[s] = w[s]
    <3>1. s # {}
      BY <1>7, <2>1, FS_EmptySet
    <3>2. chosen(s) \in s
      BY <1>2, <3>1
    <3>3. s \ {chosen(s)} \in SUBSET S /\ Cardinality(s \ {chosen(s)}) = k
      <4>1. Cardinality(s \ {chosen(s)}) = Cardinality(s) - 1
        BY <1>7, <3>2, FS_RemoveElement
      <4>2. (k + 1) - 1 = k
        BY <1>7
      <4> QED
        BY <2>1, <4>1, <4>2
    <3>4. f[s \ {chosen(s)}] = w[s \ {chosen(s)}]
      BY <1>9, <3>3
    <3>5. w[s] = 2 ^ chosen(s) + w[s \ {chosen(s)}]
      BY <3>2 DEF Weighs
    <3> QED
      BY <1>5, <3>1, <3>4, <3>5
  <2>2. k + 1 \in 0 .. Cardinality(S)
    BY <1>7
  <2> HIDE DEF f
  <2> QED
    BY <2>1, <2>2
<1>10. \A k \in 0 .. Cardinality(S) : k \in Good
  <2> HIDE DEF Good
  <2> QED
    BY <1>7, <1>8, <1>9, InductionUpTo
<1> QED
  BY <1>1, <1>7, <1>10

\* A mask stands for a number between its highest bit and the next one.
LEMMA WeightBounds ==
  ASSUME NEW n \in 0 .. 32, NEW w, Weighs(w, n), NEW S \in SUBSET (0 .. n - 1)
  PROVE  /\ w[S] \in Nat
         /\ \A c \in S : 2 ^ c <= w[S]
         /\ \A k \in 0 .. n : (\A c \in S : c < k) => w[S] < 2 ^ k
<1>1. \A s \in SUBSET (0 .. n - 1) : w[s] \in Nat
  BY DEF Weighs
<1>2. ASSUME NEW c \in S PROVE 2 ^ c <= w[S]
  <2>1. c \in 0 .. 32 /\ S \ {c} \in SUBSET (0 .. n - 1)
    OBVIOUS
  <2>2. w[S] = 2 ^ c + w[S \ {c}]
    BY DEF Weighs
  <2> PICK bit, rest : bit = 2 ^ c /\ rest = w[S \ {c}]
    OBVIOUS
  <2>3. bit \in Nat /\ rest \in Nat
    BY <1>1, <2>1, BitsAreNumbers
  <2> QED
    BY <2>2, <2>3
<1> DEFINE Good == {k \in 0 .. n : \A s \in SUBSET (0 .. n - 1) :
                      (\A c \in s : c < k) => w[s] < 2 ^ k}
<1>3. 0 \in Good
  <2> PICK one : one = 2 ^ 0
    OBVIOUS
  <2>1. one = 1
    OBVIOUS
  <2>2. ASSUME NEW s \in SUBSET (0 .. n - 1), \A c \in s : c < 0
        PROVE  w[s] < one
    <3>1. s = {}
      BY <2>2
    <3>2. w[{}] = 0
      BY DEF Weighs
    <3> QED
      BY <2>1, <3>1, <3>2
  <2> QED
    BY <2>2
<1>4. ASSUME NEW k \in 0 .. n - 1, k \in Good
      PROVE  k + 1 \in Good
  <2> k \in 0 .. 31
    OBVIOUS
  <2> PICK bit, next : bit = 2 ^ k /\ next = 2 ^ (k + 1)
    OBVIOUS
  <2>1. bit \in Nat /\ next = 2 * bit
    BY BitsDouble
  <2>2. ASSUME NEW s \in SUBSET (0 .. n - 1), \A c \in s : c < k + 1
        PROVE  w[s] < next
    <3>1. /\ s \ {k} \in SUBSET (0 .. n - 1)
          /\ \A c \in s \ {k} : c < k
      BY <2>2
    <3>2. w[s \ {k}] < bit
      BY <1>4, <3>1
    <3>3. w[s \ {k}] \in Nat
      BY <1>1, <3>1
    <3>4. CASE k \in s
      <4>1. w[s] = bit + w[s \ {k}]
        BY <3>4 DEF Weighs
      <4> QED
        BY <2>1, <3>2, <3>3, <4>1
    <3>5. CASE k \notin s
      <4>1. s \ {k} = s
        BY <3>5
      <4> QED
        BY <2>1, <3>2, <3>3, <4>1
    <3> QED
      BY <3>4, <3>5
  <2> QED
    BY <2>2
<1>5. \A k \in 0 .. n : k \in Good
  <2> HIDE DEF Good
  <2> QED
    BY <1>3, <1>4, InductionUpTo
<1> QED
  BY <1>1, <1>2, <1>5

\* p is the highest bit of m.
TopBit(m, p) ==
  m \in Nat /\ p \in 0 .. 31 /\ 2 ^ p <= m /\ m < 2 ^ (p + 1)

\* Each constant of the decision tree, as BRTOS.c spells it, is one less than
\* the bit it stands for.
LEMMA ThresholdsAreBits ==
  ASSUME NEW k \in 1 .. 31
  PROVE  Threshold[k] = 2 ^ k - 1
<1>1.
     /\ 2 ^ 1 - 1 = 1 /\ 2 ^ 2 - 1 = 3
     /\ 2 ^ 3 - 1 = 7 /\ 2 ^ 4 - 1 = 15
     /\ 2 ^ 5 - 1 = 31 /\ 2 ^ 6 - 1 = 63
     /\ 2 ^ 7 - 1 = 127 /\ 2 ^ 8 - 1 = 255
     /\ 2 ^ 9 - 1 = 511 /\ 2 ^ 10 - 1 = 1023
     /\ 2 ^ 11 - 1 = 2047 /\ 2 ^ 12 - 1 = 4095
     /\ 2 ^ 13 - 1 = 8191 /\ 2 ^ 14 - 1 = 16383
     /\ 2 ^ 15 - 1 = 32767 /\ 2 ^ 16 - 1 = 65535
     /\ 2 ^ 17 - 1 = 131071 /\ 2 ^ 18 - 1 = 262143
     /\ 2 ^ 19 - 1 = 524287 /\ 2 ^ 20 - 1 = 1048575
     /\ 2 ^ 21 - 1 = 2097151 /\ 2 ^ 22 - 1 = 4194303
     /\ 2 ^ 23 - 1 = 8388607 /\ 2 ^ 24 - 1 = 16777215
     /\ 2 ^ 25 - 1 = 33554431 /\ 2 ^ 26 - 1 = 67108863
     /\ 2 ^ 27 - 1 = 134217727 /\ 2 ^ 28 - 1 = 268435455
     /\ 2 ^ 29 - 1 = 536870911 /\ 2 ^ 30 - 1 = 1073741823
     /\ 2 ^ 31 - 1 = 2147483647
  OBVIOUS
<1>2.
     /\ Threshold[1] = 1 /\ Threshold[2] = 3
     /\ Threshold[3] = 7 /\ Threshold[4] = 15
     /\ Threshold[5] = 31 /\ Threshold[6] = 63
     /\ Threshold[7] = 127 /\ Threshold[8] = 255
     /\ Threshold[9] = 511 /\ Threshold[10] = 1023
     /\ Threshold[11] = 2047 /\ Threshold[12] = 4095
     /\ Threshold[13] = 8191 /\ Threshold[14] = 16383
     /\ Threshold[15] = 32767 /\ Threshold[16] = 65535
     /\ Threshold[17] = 131071 /\ Threshold[18] = 262143
     /\ Threshold[19] = 524287 /\ Threshold[20] = 1048575
     /\ Threshold[21] = 2097151 /\ Threshold[22] = 4194303
     /\ Threshold[23] = 8388607 /\ Threshold[24] = 16777215
     /\ Threshold[25] = 33554431 /\ Threshold[26] = 67108863
     /\ Threshold[27] = 134217727 /\ Threshold[28] = 268435455
     /\ Threshold[29] = 536870911 /\ Threshold[30] = 1073741823
     /\ Threshold[31] = 2147483647
  BY DEF Threshold
<1> DEFINE bit == [i \in 1 .. 31 |-> 2 ^ i - 1]
<1>3.
     /\ bit[1] = 1 /\ bit[2] = 3
     /\ bit[3] = 7 /\ bit[4] = 15
     /\ bit[5] = 31 /\ bit[6] = 63
     /\ bit[7] = 127 /\ bit[8] = 255
     /\ bit[9] = 511 /\ bit[10] = 1023
     /\ bit[11] = 2047 /\ bit[12] = 4095
     /\ bit[13] = 8191 /\ bit[14] = 16383
     /\ bit[15] = 32767 /\ bit[16] = 65535
     /\ bit[17] = 131071 /\ bit[18] = 262143
     /\ bit[19] = 524287 /\ bit[20] = 1048575
     /\ bit[21] = 2097151 /\ bit[22] = 4194303
     /\ bit[23] = 8388607 /\ bit[24] = 16777215
     /\ bit[25] = 33554431 /\ bit[26] = 67108863
     /\ bit[27] = 134217727 /\ bit[28] = 268435455
     /\ bit[29] = 536870911 /\ bit[30] = 1073741823
     /\ bit[31] = 2147483647
  BY <1>1
<1>4. bit[k] = 2 ^ k - 1
  OBVIOUS
<1> PICK threshold : threshold = Threshold
  OBVIOUS
<1>5.
     /\ threshold[1] = 1 /\ threshold[2] = 3
     /\ threshold[3] = 7 /\ threshold[4] = 15
     /\ threshold[5] = 31 /\ threshold[6] = 63
     /\ threshold[7] = 127 /\ threshold[8] = 255
     /\ threshold[9] = 511 /\ threshold[10] = 1023
     /\ threshold[11] = 2047 /\ threshold[12] = 4095
     /\ threshold[13] = 8191 /\ threshold[14] = 16383
     /\ threshold[15] = 32767 /\ threshold[16] = 65535
     /\ threshold[17] = 131071 /\ threshold[18] = 262143
     /\ threshold[19] = 524287 /\ threshold[20] = 1048575
     /\ threshold[21] = 2097151 /\ threshold[22] = 4194303
     /\ threshold[23] = 8388607 /\ threshold[24] = 16777215
     /\ threshold[25] = 33554431 /\ threshold[26] = 67108863
     /\ threshold[27] = 134217727 /\ threshold[28] = 268435455
     /\ threshold[29] = 536870911 /\ threshold[30] = 1073741823
     /\ threshold[31] = 2147483647
  BY <1>2
<1> HIDE DEF bit
<1>6. threshold[k] = bit[k]
  BY <1>3, <1>5
<1> QED
  BY <1>4, <1>6

\* One comparison keeps the highest bit in the interval and halves it.
LEMMA UpperHalves ==
  ASSUME NEW m, NEW p, TopBit(m, p),
         NEW half \in {1, 2, 4, 8, 16}, NEW lo \in 0 .. 31 - half,
         lo <= p, p < lo + 2 * half
  PROVE  /\ Upper(m, lo, half) \in {lo, lo + half}
         /\ Upper(m, lo, half) <= p /\ p < Upper(m, lo, half) + half
<1> PICK middle \in 0 .. 31 : middle = lo + half
  OBVIOUS
<1> PICK low, high, bit : /\ low = 2 ^ p /\ high = 2 ^ (p + 1)
                          /\ bit = 2 ^ middle
  OBVIOUS
<1>1. /\ m \in Nat /\ p \in 0 .. 31
      /\ low <= m /\ m < high
  BY DEF TopBit
<1>2. p \in 0 .. 32 /\ p + 1 \in 0 .. 32 /\ middle \in 0 .. 32
  BY <1>1
<1>3. low \in Nat /\ high \in Nat /\ bit \in Nat
  BY <1>2, BitsAreNumbers
<1>4. Upper(m, lo, half) = IF m > bit - 1 THEN middle ELSE lo
  <2>1. middle \in 1 .. 31 /\ middle = lo + half
    OBVIOUS
  <2>2. Threshold[middle] = bit - 1
    BY <2>1, ThresholdsAreBits
  <2> QED
    BY <2>1, <2>2 DEF Upper
<1>5. CASE middle <= p
  <2>1. p \in middle .. 32
    BY <1>2, <1>5
  <2>2. bit <= low
    BY <1>2, <2>1, BitsGrow
  <2>3. m > bit - 1
    BY <1>1, <1>3, <2>2
  <2> QED
    BY <1>1, <1>4, <1>5, <2>3
<1>6. CASE p < middle
  <2>1. middle \in p + 1 .. 32
    BY <1>2, <1>6
  <2>2. high <= bit
    BY <1>2, <2>1, BitsGrow
  <2>3. ~(m > bit - 1)
    BY <1>1, <1>3, <2>2
  <2> QED
    BY <1>1, <1>4, <1>6, <2>3
<1> QED
  BY <1>1, <1>5, <1>6

\* The decision tree finds the highest bit of a number.
LEMMA TreeFindsBit ==
  ASSUME NEW m, NEW p \in Priorities, TopBit(m, p)
  PROVE  HighestBit(m) = p
<1>1. p \in 0 .. 31 /\ NUMBER_OF_PRIORITIES \in {8, 16, 32}
  BY MaskAssumption DEF Priorities
<1>2. PICK sixteen :
        sixteen = IF NUMBER_OF_PRIORITIES > 16 THEN Upper(m, 0, 16) ELSE 0
  OBVIOUS
<1>3. PICK eight :
        eight = IF NUMBER_OF_PRIORITIES > 8 THEN Upper(m, sixteen, 8) ELSE sixteen
  OBVIOUS
<1>4. PICK four, two, one :
        four = Upper(m, eight, 4) /\ two = Upper(m, four, 2)
          /\ one = Upper(m, two, 1)
  OBVIOUS
<1>5. HighestBit(m) = one
  BY <1>2, <1>3, <1>4 DEF HighestBit
<1>6. sixteen \in {0, 16} /\ sixteen <= p /\ p < sixteen + 16
  <2>1. CASE NUMBER_OF_PRIORITIES > 16
    <3>1. 0 \in 0 .. 31 - 16 /\ 0 <= p /\ p < 0 + 2 * 16
      BY <1>1
    <3> QED
      BY <1>2, <2>1, <3>1, UpperHalves
  <2>2. CASE ~(NUMBER_OF_PRIORITIES > 16)
    BY <1>1, <1>2, <2>2 DEF Priorities
  <2> QED
    BY <2>1, <2>2
<1>7. eight \in {0, 8, 16, 24} /\ eight <= p /\ p < eight + 8
  <2>1. CASE NUMBER_OF_PRIORITIES > 8
    <3>1. sixteen \in 0 .. 31 - 8 /\ sixteen <= p /\ p < sixteen + 2 * 8
      BY <1>6
    <3>2. /\ eight \in {sixteen, sixteen + 8}
          /\ eight <= p /\ p < eight + 8
      BY <1>3, <2>1, <3>1, UpperHalves
    <3> QED
      BY <1>6, <3>2
  <2>2. CASE ~(NUMBER_OF_PRIORITIES > 8)
    BY <1>1, <1>2, <1>3, <2>2 DEF Priorities
  <2> QED
    BY <2>1, <2>2
<1>8. four \in 0 .. 28 /\ four <= p /\ p < four + 4
  <2>1. eight \in 0 .. 31 - 4 /\ eight <= p /\ p < eight + 2 * 4
    BY <1>7
  <2>2. four \in {eight, eight + 4} /\ four <= p /\ p < four + 4
    BY <1>4, <2>1, UpperHalves
  <2> QED
    BY <1>7, <2>2
<1>9. two \in 0 .. 30 /\ two <= p /\ p < two + 2
  <2>1. four \in 0 .. 31 - 2 /\ four <= p /\ p < four + 2 * 2
    BY <1>8
  <2>2. two \in {four, four + 2} /\ two <= p /\ p < two + 2
    BY <1>4, <2>1, UpperHalves
  <2> QED
    BY <1>8, <2>2
<1>10. one \in 0 .. 31 /\ one <= p /\ p < one + 1
  <2>1. two \in 0 .. 31 - 1 /\ two <= p /\ p < two + 2 * 1
    BY <1>9
  <2>2. one \in {two, two + 1} /\ one <= p /\ p < one + 1
    BY <1>4, <2>1, UpperHalves
  <2> QED
    BY <1>9, <2>2
<1> QED
  BY <1>1, <1>5, <1>10

\* The decision tree answers 0 for the empty mask.
LEMMA TreeOfNothing == HighestBit(0) = 0
<1>1. ~(0 > Threshold[16]) /\ ~(0 > Threshold[8]) /\ ~(0 > Threshold[4])
      /\ ~(0 > Threshold[2]) /\ ~(0 > Threshold[1])
  BY DEF Threshold
<1>2. \A half \in {1, 2, 4, 8, 16} : Upper(0, 0, half) = 0
  <2>1. \A half \in {1, 2, 4, 8, 16} : 0 + half = half
    OBVIOUS
  <2> QED
    BY <1>1, <2>1 DEF Upper
<1> QED
  BY <1>2 DEF HighestBit

\* The bit search finds the highest priority of every mask.
LEMMA SearchIsRight ==
  ASSUME NEW S \in SUBSET Priorities
  PROVE  SearchAgrees(S)
<1> PICK n : n = NUMBER_OF_PRIORITIES
  OBVIOUS
<1>1. S \in SUBSET (0 .. n - 1) /\ n \in 1 .. 32 /\ n \in 0 .. 32
  BY MaskAssumption DEF Priorities
<1>2. PICK w : Weighs(w, n)
  BY <1>1, WeightsExist
<1>3. MaskOf(S) = w[S]
  BY <1>1, <1>2, MaskOfIsWeight
<1>4. CASE S = {}
  <2>1. MaskOf(S) = 0
    BY <1>2, <1>3, <1>4 DEF Weighs
  <2> QED
    BY <1>4, <2>1, TreeOfNothing DEF SearchAgrees, SAScheduler
<1>5. CASE S # {}
  <2>1. n - 1 \in Nat
    BY <1>1
  <2>2. PICK p \in S : p = SAScheduler(S) /\ \A q \in S : q <= p
    BY <1>1, <1>5, <2>1, SASchedulerIsHighest
  <2>3. 2 ^ p <= w[S] /\ w[S] \in Nat
    BY <1>1, <1>2, WeightBounds
  <2>4. w[S] < 2 ^ (p + 1)
    <3>1. p + 1 \in 0 .. n /\ \A c \in S : c < p + 1
      BY <1>1, <2>2
    <3> QED
      BY <1>1, <1>2, <3>1, WeightBounds
  <2>5. p \in Priorities /\ TopBit(w[S], p)
    BY <1>1, <2>3, <2>4 DEF Priorities, TopBit
  <2>6. HighestBit(w[S]) = p
    BY <2>5, TreeFindsBit
  <2> QED
    BY <1>3, <2>2, <2>6 DEF SearchAgrees
<1> QED
  BY <1>4, <1>5

\* The decision tree of SAScheduler, with the code's thresholds for 8, 16 or 32
\* priorities, finds the highest priority of every mask, in particular of the
\* one that OSSchedule hands it.
THEOREM BitSearchIsRight == Spec => []FindsHighest
<1>1. KernelInv => FindsHighest
  <2> SUFFICES ASSUME KernelInv PROVE FindsHighest
    OBVIOUS
  <2>1. OSReadyList \subseteq PrioRange
    BY DEF KernelInv, TypeOK
  <2>2. PrioRange \subseteq Priorities
    <3> PICK highest \in Nat, n \in Nat :
               highest = configMAX_TASK_PRIORITY /\ n = NUMBER_OF_PRIORITIES
      BY MaskAssumption, PriorityAssumption
    <3>1. highest <= n - 1
      BY MaskAssumption
    <3>2. 0 .. highest \subseteq 0 .. n - 1
      BY <3>1
    <3> QED
      BY <3>2 DEF PrioRange, Priorities
  <2>3. OSReadyList \cap OSBlockedList \in SUBSET Priorities
    BY <2>1, <2>2
  <2> QED
    BY <2>3, SearchIsRight DEF FindsHighest, SearchAgreesOnEveryMask
<1> QED
  BY <1>1, KernelInvariance, PTL
=============================================================================
