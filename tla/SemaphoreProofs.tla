-------------------------- MODULE SemaphoreProofs ---------------------------
(***************************************************************************)
(* Proofs about Semaphore: however posts by tasks and interrupts, ticks    *)
(* and the ends of pends interleave, for every number of tasks and         *)
(* semaphores, every counter limit and both kinds of port.                 *)
(*                                                                         *)
(* Two assumptions on programs: no wait is longer than the range of the    *)
(* tick counter (ShortWaits), and no semaphore is deleted while a task     *)
(* waits for it (~DeleteWithWaiters).                                      *)
(***************************************************************************)
EXTENDS Semaphore, KernelProofs

\* The inductive invariant.  NoCountWithWaiters rests on WaitListExact: a post
\* counts only when OSEventWait is 0, and a pend waits only when the count is.
SemInv ==
  /\ EventInv
  /\ OSEventCount \in [ObjectId -> 0 .. SEM_COUNT_MAX]
  /\ Binary \in [ObjectId -> BOOLEAN]
  /\ NoCountWithWaiters

\* No task waits before the first step.
LEMMA InitSemInv ==
  ASSUME SemInit
  PROVE  SemInv
BY InitEventInv, SemAssumption DEF SemInit, SemInv, NoCountWithWaiters

\* A step that leaves the counts alone and makes nobody wait for a semaphore
\* that is available keeps the part of SemInv about counts.
LEMMA CountsUnchanged ==
  ASSUME SemInv, EventInv', UNCHANGED semVars,
         \A e \in ObjectId : OSEventCount[e] > 0 => OSEventWait'[e] = 0
  PROVE  SemInv'
BY DEF SemInv, semVars, NoCountWithWaiters

\* Creating a semaphore of either kind keeps the invariant.
LEMMA CreateSemKeepsInv ==
  ASSUME SemInv, NEW e \in ObjectId, NEW cnt \in 0 .. SEM_COUNT_MAX,
         NEW binary \in BOOLEAN, CreateSem(e, cnt, binary)
  PROVE  SemInv'
<1>1. EventInv'
  BY CreateKeepsInv DEF SemInv, CreateSem
<1>2. OSEventWait' = [OSEventWait EXCEPT ![e] = 0]
  BY DEF CreateSem, CreateEvent, NewWaitList
<1> QED
  BY <1>1, <1>2
  DEF SemInv, CreateSem, NoCountWithWaiters, EventInv, EventTypeOK

\* So does deleting one that nobody waits for.
LEMMA DeleteSemKeepsInv ==
  ASSUME ~DeleteWithWaiters, SemInv, NEW e \in ObjectId, OSSemDelete(e)
  PROVE  SemInv'
<1>1. EventInv'
  BY DeleteKeepsInv DEF SemInv, OSSemDelete
<1>2. OSEventWait' = [OSEventWait EXCEPT ![e] = 0]
  BY DEF OSSemDelete, DeleteEvent, NewWaitList
<1> QED
  BY <1>1, <1>2, SemAssumption
  DEF SemInv, OSSemDelete, NoCountWithWaiters, EventInv, EventTypeOK

\* A pend takes a count, or waits when there is none.
LEMMA PendKeepsInv ==
  ASSUME ShortWaits, SemInv, NEW t \in Task, NEW e \in ObjectId,
         NEW w \in PendWait, OSSemPend(t, e, w)
  PROVE  SemInv'
<1>1. CASE OSEventCount[e] > 0
  <2>1. /\ UNCHANGED <<kernelVars, eventVars, Binary>>
        /\ OSEventCount' = [OSEventCount EXCEPT ![e] = @ - 1]
    BY <1>1 DEF OSSemPend, SemInv
  <2>2. EventInv'
    BY <2>1, UnchangedKeepsInv DEF SemInv
  <2>3. OSEventCount[e] - 1 \in 0 .. SEM_COUNT_MAX
    BY <1>1, SemAssumption DEF SemInv
  <2>4. OSEventWait' = OSEventWait /\ Binary' = Binary
    BY <2>1 DEF eventVars, eventTable
  <2>5. OSEventCount' \in [ObjectId -> 0 .. SEM_COUNT_MAX]
    BY <2>1, <2>3 DEF SemInv
  <2>6. NoCountWithWaiters'
    BY <1>1, <2>1, <2>4 DEF SemInv, NoCountWithWaiters
  <2> QED
    BY <2>2, <2>4, <2>5, <2>6 DEF SemInv
<1>2. CASE ~(OSEventCount[e] > 0)
  <2>1. /\ WaitEvent(t, e, w) /\ UNCHANGED semVars /\ InUserCode(t)
        /\ OSEventAllocated[e] /\ OSEventCount[e] = 0
    BY <1>2 DEF OSSemPend
  <2>2. EventInv'
    BY <2>1, WaitKeepsInv DEF SemInv
  <2>3. OSEventWait' = [OSEventWait EXCEPT ![e] = @ + 1]
    BY <2>1 DEF WaitEvent
  <2>4. \A d \in ObjectId : OSEventCount[d] > 0 => OSEventWait'[d] = 0
    BY <2>1, <2>3 DEF SemInv, NoCountWithWaiters, EventInv, EventTypeOK
  <2> QED
    BY <2>1, <2>2, <2>4, CountsUnchanged
<1> QED
  BY <1>1, <1>2

\* The end of a pend that waited keeps the invariant.
LEMMA PendResumeKeepsInv ==
  ASSUME SemInv, NEW t \in Task, OSSemPendResume(t)
  PROVE  SemInv'
<1>1. CASE PendReturnsTimeout(t)
  <2>1. LeaveByTimeout(t) /\ UNCHANGED semVars /\ Resuming(t)
    BY <1>1 DEF PendReturnsTimeout, LeaveByTimeout
  <2>2. EventInv'
    BY <2>1, TimeoutKeepsInv DEF SemInv
  <2>3. /\ pend[t] \in ObjectId /\ OSEventWait[pend[t]] # 0
        /\ OSEventWait' = [OSEventWait EXCEPT ![pend[t]] = @ - 1]
    <3>1. pend[t] \in ObjectId /\ Priority[t] \in OSEventWaitList[pend[t]]
      BY <2>1, ResumingTaskState DEF SemInv, LeaveByTimeout
    <3>2. IsFiniteSet(OSEventWaitList[pend[t]])
      BY <3>1, WaitListFinite DEF SemInv, EventInv, EventTypeOK
    <3>3. Cardinality(OSEventWaitList[pend[t]]) # 0
      BY <3>1, <3>2, FS_EmptySet
    <3> QED
      BY <2>1, <3>1, <3>3 DEF LeaveByTimeout, SemInv, EventInv, WaitListExact
  <2>4. \A d \in ObjectId : OSEventCount[d] > 0 => OSEventWait'[d] = 0
    BY <2>3 DEF SemInv, NoCountWithWaiters, EventInv, EventTypeOK
  <2> QED
    BY <2>1, <2>2, <2>4, CountsUnchanged
<1>2. CASE PendReturnsOK(t)
  <2>1. /\ LeaveByPost(t) /\ UNCHANGED <<priorityVars, OSReadyList>>
        /\ UNCHANGED semVars /\ UNCHANGED OSEventWait
    BY <1>2 DEF PendReturnsOK, LeaveByPost
  <2>2. EventInv'
    BY <2>1, PostedKeepsInv DEF SemInv
  <2> QED
    BY <2>1, <2>2, CountsUnchanged DEF SemInv, NoCountWithWaiters
<1> QED
  BY <1>1, <1>2 DEF OSSemPendResume

\* A post wakes a waiter or counts, by a task or by an interrupt.
LEMMA PostKeepsInv ==
  ASSUME SemInv, NEW e \in ObjectId,
         \/ ~changeContext /\ OSSemPost(e)
         \/ OSSemPostISR(e)
  PROVE  SemInv'
<1>1. CASE CountPost(e)
  <2>1. /\ OSEventWait[e] = 0 /\ OSEventCount[e] < SEM_COUNT_MAX
        /\ OSEventCount' = [OSEventCount EXCEPT ![e] =
                              IF Binary[e] THEN 1 ELSE @ + 1]
        /\ UNCHANGED <<kernelVars, eventVars, Binary>>
    BY <1>1 DEF CountPost
  <2>2. EventInv'
    BY <2>1, UnchangedKeepsInv DEF SemInv
  <2>3. (IF Binary[e] THEN 1 ELSE OSEventCount[e] + 1) \in 0 .. SEM_COUNT_MAX
    BY <2>1, SemAssumption DEF SemInv
  <2>4. OSEventCount' \in [ObjectId -> 0 .. SEM_COUNT_MAX]
    BY <2>1, <2>3 DEF SemInv
  <2>5. NoCountWithWaiters'
    BY <2>1 DEF SemInv, NoCountWithWaiters, eventVars, eventTable
  <2> QED
    BY <2>1, <2>2, <2>4, <2>5 DEF SemInv
<1>2. CASE ~CountPost(e)
  <2>1. /\ UNCHANGED semVars
        /\ (~changeContext /\ TaskPost(e)) \/ ISRPost(e)
    BY <1>2 DEF OSSemPost, OSSemPostISR
  <2>2. EventInv'
    BY <2>1, TaskPostKeepsInv, ISRPostKeepsInv DEF SemInv
  <2>3. /\ OSEventWait[e] # 0
        /\ OSEventWait' = [OSEventWait EXCEPT ![e] = @ - 1]
    BY <2>1 DEF TaskPost, ISRPost, PostToWaiter, SelectWaiter
  <2>4. \A d \in ObjectId : OSEventCount[d] > 0 => OSEventWait'[d] = 0
    BY <2>3 DEF SemInv, NoCountWithWaiters, EventInv, EventTypeOK
  <2> QED
    BY <2>1, <2>2, <2>4, CountsUnchanged
<1> QED
  BY <1>1, <1>2

\* The other services and the kernel's interrupts keep it.
LEMMA KernelKeepsSemInv ==
  ASSUME SemInv, UNCHANGED semVars,
         \/ \E t \in Task : InUserCode(t) /\ KernelCall(t)
         \/ KernelInterrupt
  PROVE  SemInv'
<1>1. EventInv'
  BY KernelCallKeepsInv, KernelInterruptKeepsInv DEF SemInv
<1>2. UNCHANGED OSEventWait
  BY DEF KernelCall, KernelInterrupt, eventVars, eventTable
<1> QED
  BY <1>1, <1>2, CountsUnchanged DEF SemInv, NoCountWithWaiters

\* SemInv is inductive.
LEMMA StepSemInv ==
  ASSUME ShortWaits, ~DeleteWithWaiters, SemInv, [SemNext]_vars
  PROVE  SemInv'
<1>1. CASE UNCHANGED vars
  <2>1. EventInv' /\ UNCHANGED semVars /\ UNCHANGED OSEventWait
    BY <1>1, UnchangedKeepsInv DEF SemInv, vars, eventVars, eventTable
  <2> QED
    BY <2>1, CountsUnchanged DEF SemInv, NoCountWithWaiters
<1>2. ASSUME NEW t \in Task, TaskStep(t) PROVE SemInv'
  <2>1. InUserCode(t) /\ ~changeContext
    BY <1>2 DEF TaskStep, InUserCode, Running
  <2>2. ASSUME NEW cnt \in 0 .. SEM_COUNT_MAX, OSSemCreate(cnt) PROVE SemInv'
    BY <2>2, CreateSemKeepsInv DEF OSSemCreate
  <2>3. ASSUME NEW bit \in 0 .. 2, OSSemBinaryCreate(bit) PROVE SemInv'
    <3>1. (IF bit > 1 THEN 1 ELSE 0) \in 0 .. SEM_COUNT_MAX
      BY SemAssumption
    <3> QED
      BY <2>3, <3>1, CreateSemKeepsInv DEF OSSemBinaryCreate
  <2>4. ASSUME NEW e \in ObjectId, OSSemDelete(e) \/ OSSemPost(e)
        PROVE  SemInv'
    BY <2>1, <2>4, DeleteSemKeepsInv, PostKeepsInv
  <2>5. ASSUME NEW e \in ObjectId, NEW w \in PendWait, OSSemPend(t, e, w)
        PROVE  SemInv'
    BY <2>5, PendKeepsInv
  <2>6. CASE KernelCall(t) /\ UNCHANGED semVars
    BY <2>1, <2>6, KernelKeepsSemInv
  <2> QED
    BY <1>2, <2>2, <2>3, <2>4, <2>5, <2>6 DEF TaskStep
<1>3. ASSUME NEW t \in Task, OSSemPendResume(t) PROVE SemInv'
  BY <1>3, PendResumeKeepsInv
<1>4. CASE SemInterrupt
  BY <1>4, PostKeepsInv, KernelKeepsSemInv DEF SemInterrupt
<1> QED
  BY <1>1, <1>2, <1>3, <1>4 DEF SemNext

\* The invariant holds in every reachable state.
THEOREM SemInvariance ==
  ASSUME ShortWaits, ~DeleteWithWaiters
  PROVE  SemSpec => []SemInv
<1>1. SemInit => SemInv
  BY InitSemInv
<1>2. SemInv /\ [SemNext]_vars => SemInv'
  BY StepSemInv
<1> QED
  BY <1>1, <1>2, PTL DEF SemSpec

\* Counters, wait lists and the kernel below keep their ranges: OSEventCount
\* never passes its limit, OSEventWait never falls below 0.
THEOREM SemTypeCorrect ==
  ASSUME ShortWaits, ~DeleteWithWaiters
  PROVE  SemSpec => []SemTypeOK
<1>1. SemInv => SemTypeOK
  BY DEF SemInv, EventInv, SemTypeOK
<1> QED
  BY SemInvariance, <1>1, PTL

\* The wait list of a semaphore is exactly the tasks that wait for it, and
\* OSEventWait is their number, through every race of posts and timeouts.
THEOREM WaitListsAreExact ==
  ASSUME ShortWaits, ~DeleteWithWaiters
  PROVE  SemSpec => []WaitListExact
<1>1. SemInv => WaitListExact
  BY DEF SemInv, EventInv
<1> QED
  BY SemInvariance, <1>1, PTL

\* OSSemPost, the timeout of OSSemPend and the tick handler together never
\* leave a task that nobody would wake.
THEOREM NoWakeupIsLost ==
  ASSUME ShortWaits, ~DeleteWithWaiters
  PROVE  SemSpec => []NoWakeupLost
<1>1. SemInv => NoWakeupLost
  BY NoWakeupLostFromInv DEF SemInv
<1> QED
  BY SemInvariance, <1>1, PTL

\* A semaphore is never available while a task waits for it.
THEOREM NoCountIsStranded ==
  ASSUME ShortWaits, ~DeleteWithWaiters
  PROVE  SemSpec => []NoCountWithWaiters
<1>1. SemInv => NoCountWithWaiters
  BY DEF SemInv
<1> QED
  BY SemInvariance, <1>1, PTL

\* OSSemPend and OSDelayTask insert into and remove from the delay list only
\* when its pointer macros may be used.
THEOREM DelayListUsedRight ==
  ASSUME ShortWaits, ~DeleteWithWaiters
  PROVE  SemSpec => []DelayListContract
<1>1. SemInv => DelayListContract
  BY DelayListContractFromInv DEF SemInv
<1> QED
  BY SemInvariance, <1>1, PTL

\* OSSemPend returns OK exactly when a post selected its caller, TIMEOUT exactly
\* when none did, also when both happened before the caller ran.
THEOREM ResultsAreRight ==
  ASSUME ShortWaits, ~DeleteWithWaiters
  PROVE  SemSpec => ResultMatchesPost
<1>1. ASSUME SemInv, NEW t \in Task
      PROVE  /\ PendReturnsOK(t) => given[t]
             /\ PendReturnsTimeout(t) => ~given[t]
  BY <1>1, ResumingTaskState
  DEF SemInv, PendReturnsOK, PendReturnsTimeout, LeaveByPost, LeaveByTimeout
<1>2. SemInv => \A t \in Task : /\ PendReturnsOK(t) => given[t]
                                /\ PendReturnsTimeout(t) => ~given[t]
  BY <1>1
<1> QED
  BY SemInvariance, <1>2, PTL DEF ResultMatchesPost

\* Whatever the semaphores did, each tick gives the processor to the highest
\* runnable priority: a task that a post woke without a switch waits for one
\* tick at most.
THEOREM SemTickRestoresOrder ==
  ASSUME ShortWaits, ~DeleteWithWaiters
  PROVE  SemSpec => TickPreempts
<1>1. ASSUME SemInv, SemInv', [SemNext]_vars, OSTickCounter' # OSTickCounter
      PROVE  \A t \in Task : Priority'[t] \in OSReadyList' \cap OSBlockedList'
                               => Priority'[t] <= Priority'[currentTask']
  <2>1. TickTimer
    <3>1. CASE UNCHANGED vars
      BY <1>1, <3>1 DEF vars, kernelVars
    <3>2. ASSUME NEW t \in Task, TaskStep(t) PROVE UNCHANGED OSTickCounter
      BY <3>2
      DEF TaskStep, OSSemCreate, OSSemBinaryCreate, CreateSem, OSSemDelete,
          OSSemPost, OSSemPend, CountPost, TaskPost, PostToWaiter,
          SelectWaiter, WaitEvent, KernelCall, OSDelayTask, Suspend,
          OSBlockTask, OSUnBlockTask, onlyBlockedList, kernelVars
    <3>3. ASSUME NEW t \in Task, OSSemPendResume(t) PROVE UNCHANGED OSTickCounter
      BY <3>3 DEF OSSemPendResume, PendReturnsTimeout, PendReturnsOK,
                  LeaveByTimeout, LeaveByPost, EndWait
    <3>4. ASSUME NEW e \in ObjectId, OSSemPostISR(e) PROVE UNCHANGED OSTickCounter
      BY <3>4 DEF OSSemPostISR, CountPost, ISRPost, PostToWaiter, SelectWaiter,
                  kernelVars
    <3> QED
      BY <1>1, <3>1, <3>2, <3>3, <3>4
      DEF SemNext, SemInterrupt, KernelInterrupt, SwitchContext
  <2>2. Reschedule
    BY <2>1 DEF TickTimer
  <2> QED
    BY <1>1, <2>2, OrderAfterReschedule DEF SemInv
<1>2. SemInv /\ SemInv' /\ [SemNext]_vars =>
        [OSTickCounter' # OSTickCounter =>
           \A t \in Task : Priority'[t] \in OSReadyList' \cap OSBlockedList'
                             => Priority'[t] <= Priority'[currentTask']]_kernelVars
  BY <1>1
<1> QED
  BY SemInvariance, <1>2, PTL DEF SemSpec, TickPreempts
=============================================================================
