---------------------------- MODULE QueueProofs -----------------------------
(***************************************************************************)
(* Proofs about Queue, static and dynamic, for any number of writers,      *)
(* queues, sizes and elements, when one task reads (SingleReader), no wait *)
(* is longer than the range of the tick counter (ShortWaits) and no queue  *)
(* is deleted in use (~DeleteWithWaiters).  The second half shows that the *)
(* rings, if their sizes fit 16 bits (SizesFit), are bounded FIFO buffers. *)
(***************************************************************************)
EXTENDS Queue, KernelProofs

SingleReader == \A r, s \in Readers : r = s

Assumptions == ShortWaits /\ ~DeleteWithWaiters /\ SingleReader

\* Only the reader waits, and only for a queue that exists.
PendsAreReaders ==
  \A t \in Task : pend[t] # NoEvent => /\ t \in Readers
                                       /\ OSEventAllocated[pend[t]]

\* The selected reader finds an element: its pend goes on without a test.
PostedReaderHasData ==
  \A t \in Task : given[t] => OSQEntries[pend[t]] > 0

\* The inductive invariant: that the counter does not pass below 0 depends on
\* PostedReaderHasData, and that on PendsAreReaders, because nobody else takes
\* the element that a post left for the reader it selected.
QueueInv ==
  /\ EventInv
  /\ dynamic \subseteq ObjectId
  /\ OSQLength \in [ObjectId -> INT16U]
  /\ OSQEntries \in [ObjectId -> INT16U]
  /\ PendsAreReaders
  /\ PostedReaderHasData
  /\ EntriesWithinSize

\* The first state.
LEMMA InitQueueInv ==
  ASSUME QueueInit
  PROVE  QueueInv
<1>1. EventInv
  BY InitEventInv DEF QueueInit
<1> QED
  BY <1>1, QueueAssumption DEF QueueInit, EventInit, QueueInv, PendsAreReaders,
     NoEvent, PostedReaderHasData, EntriesWithinSize, INT16U

\* A selected task is one that waits.
LEMMA GivenTaskPends ==
  ASSUME EventInv, NEW t \in Task, given[t]
  PROVE  pend[t] \in ObjectId
BY DEF EventInv, WaitState, EventTypeOK

\* Nobody was selected while the reader executes its own code.
LEMMA NobodySelected ==
  ASSUME Assumptions, QueueInv, NEW t \in Readers, InUserCode(t)
  PROVE  \A u \in Task : ~given[u] /\ pend[u] = NoEvent
<1>1. \A u \in Task : pend[u] = NoEvent
  BY DEF Assumptions, SingleReader, QueueInv, PendsAreReaders, InUserCode
<1> QED
  BY <1>1, GivenTaskPends, ObjectFacts DEF QueueInv

\* What the rings' operations leave of the invariant to be shown.
LEMMA QueueInvFrom ==
  ASSUME QueueInv, EventInv', UNCHANGED <<dynamic, OSQLength>>,
         OSQEntries' \in [ObjectId -> INT16U],
         PendsAreReaders', PostedReaderHasData', EntriesWithinSize'
  PROVE  QueueInv'
BY DEF QueueInv

\* Steps that leave the queues alone and end or begin no call.
LEMMA SameCallsKeepInv ==
  ASSUME QueueInv, EventInv', UNCHANGED <<pend, given, OSEventAllocated>>,
         UNCHANGED <<dynamic, OSQLength, OSQEntries>>
  PROVE  QueueInv'
BY DEF QueueInv, PendsAreReaders, PostedReaderHasData, EntriesWithinSize

-----------------------------------------------------------------------------
(* Creation and deletion *)

\* A new ring in a free control block, or an empty one in its place.
LEMMA NewRingKeepsInv ==
  ASSUME QueueInv, EventInv', NEW e \in ObjectId, \A t \in Task : pend[t] # e,
         NEW length \in INT16U,
         OSQLength' = [OSQLength EXCEPT ![e] = length],
         OSQEntries' = [OSQEntries EXCEPT ![e] = 0], UNCHANGED dynamic,
         NEW allocated \in BOOLEAN, NewWaitList(e, allocated)
  PROVE  QueueInv'
<1>1. /\ UNCHANGED <<pend, given>>
      /\ OSEventAllocated' = [OSEventAllocated EXCEPT ![e] = allocated]
  BY DEF NewWaitList, callVars
<1>2. PendsAreReaders'
  BY <1>1 DEF QueueInv, PendsAreReaders, EventInv, EventTypeOK
<1>3. PostedReaderHasData'
  BY <1>1, GivenTaskPends DEF QueueInv, PostedReaderHasData
<1>4. EntriesWithinSize'
  BY <1>1 DEF QueueInv, EntriesWithinSize, INT16U
<1> QED
  BY <1>1, <1>2, <1>3, <1>4 DEF QueueInv, INT16U

\* Nobody waits for an object that does not exist.
LEMMA FreeObjectHasNoCalls ==
  ASSUME QueueInv, NEW e \in ObjectId, ~OSEventAllocated[e]
  PROVE  \A t \in Task : pend[t] # e
BY ObjectFacts DEF QueueInv, PendsAreReaders

\* OSQueueCreate.
LEMMA CreateQueueKeepsInv ==
  ASSUME QueueInv, NEW requested \in Sizes, OSQueueCreate(requested)
  PROVE  QueueInv'
<1> DEFINE size == RoundedSize(requested)
<1>1. PICK e \in ObjectId \ dynamic :
        /\ CreateEvent(e)
        /\ NewRing(e, iQueueAddress * CPU_BYTES, size, 1, size)
  BY DEF OSQueueCreate
<1>2. size \in INT16U
  <2>1. requested \in INT16U \ {0} /\ CPU_BYTES \in Nat \ {0}
    BY QueueAssumption
  <2>2. \A n \in Int : n % 65536 \in INT16U
    BY DEF INT16U
  <2>3. requested % CPU_BYTES \in Int
    BY <2>1 DEF INT16U
  <2> QED
    BY <2>1, <2>2, <2>3 DEF RoundedSize, INT16U
<1>3. EventInv'
  BY <1>1, CreateKeepsInv DEF QueueInv, NewRing
<1>4. ~OSEventAllocated[e] /\ NewWaitList(e, TRUE)
  BY <1>1 DEF CreateEvent, FreeBlock
<1>5. /\ OSQLength' = [OSQLength EXCEPT ![e] = size]
      /\ OSQEntries' = [OSQEntries EXCEPT ![e] = 0]
      /\ UNCHANGED dynamic
  BY <1>1 DEF NewRing
<1> HIDE DEF size
<1> QED
  BY <1>2, <1>3, <1>4, <1>5, FreeObjectHasNoCalls, NewRingKeepsInv

\* OSDQueueCreate.
LEMMA CreateDynamicKeepsInv ==
  ASSUME QueueInv, NEW queue_length \in INT16U, NEW type_size,
         OSDQueueCreate(queue_length, type_size)
  PROVE  QueueInv'
<1>1. PICK e \in dynamic :
        /\ ~OSEventAllocated[e]
        /\ NewWaitList(e, TRUE)
        /\ NewDynamicRing(e, SizeInBytes(queue_length, type_size), type_size,
                          queue_length)
  BY DEF OSDQueueCreate
<1>2. e \in ObjectId
  BY DEF QueueInv
<1>3. OSEventWaitList[e] = {}
  BY <1>1, <1>2 DEF QueueInv, EventInv, FreeBlocksEmpty
<1>4. /\ OSQLength' = [OSQLength EXCEPT ![e] = queue_length]
      /\ OSQEntries' = [OSQEntries EXCEPT ![e] = 0]
      /\ UNCHANGED <<dynamic, kernelVars>>
  BY <1>1 DEF NewDynamicRing, NewRing
<1>5. EventInv'
  BY <1>1, <1>2, <1>3, <1>4, NewWaitListKeepsInv DEF QueueInv
<1> QED
  BY <1>1, <1>2, <1>4, <1>5, FreeObjectHasNoCalls, NewRingKeepsInv

\* OSDQueueDelete of a queue that is not in use.
LEMMA DeleteDynamicKeepsInv ==
  ASSUME Assumptions, QueueInv, NEW e \in ObjectId, OSDQueueDelete(e)
  PROVE  QueueInv'
<1>1. /\ NewRing(e, 0, 0, 0, 0)
      /\ NewWaitList(e, FALSE)
      /\ \A t \in Task : pend[t] # e
  BY DEF OSDQueueDelete, DeleteEvent, Assumptions
<1>2. EventInv'
  BY <1>1, DeleteKeepsInv DEF OSDQueueDelete, NewRing, QueueInv, Assumptions
<1>3. 0 \in INT16U /\ FALSE \in BOOLEAN
  BY DEF INT16U
<1>4. /\ OSQLength' = [OSQLength EXCEPT ![e] = 0]
      /\ OSQEntries' = [OSQEntries EXCEPT ![e] = 0]
      /\ UNCHANGED dynamic
  BY <1>1 DEF NewRing
<1> QED
  BY <1>1, <1>2, <1>3, <1>4, NewRingKeepsInv

-----------------------------------------------------------------------------
(* The ring *)

\* A read of a queue with elements takes one of them.
LEMMA ReadFacts ==
  ASSUME QueueInv, NEW t \in Task, NEW e \in ObjectId, OSQEntries[e] > 0,
         Read(t, e)
  PROVE  /\ UNCHANGED <<dynamic, OSQLength>>
         /\ OSQEntries' \in [ObjectId -> INT16U]
         /\ \A d \in ObjectId : OSQEntries'[d] <= OSQEntries[d]
<1>1. UNCHANGED <<dynamic, OSQLength>>
  BY DEF Read
<1>2. OSQEntries' = [OSQEntries EXCEPT ![e] = (OSQEntries[e] - 1) % 65536]
  BY DEF Read
<1>3. OSQEntries \in [ObjectId -> INT16U]
  BY DEF QueueInv, INT16U
<1>4. OSQEntries[e] \in INT16U /\ OSQEntries[e] > 0
  BY <1>3
<1>5. (OSQEntries[e] - 1) % 65536 = OSQEntries[e] - 1
  BY <1>4 DEF INT16U
<1> QED
  BY <1>1, <1>2, <1>3, <1>4, <1>5 DEF INT16U

\* Emptying a queue.
LEMMA CleanFacts ==
  ASSUME QueueInv, NEW e \in ObjectId, Clean(e)
  PROVE  /\ UNCHANGED <<dynamic, OSQLength>>
         /\ OSQEntries' \in [ObjectId -> INT16U]
         /\ \A d \in ObjectId : OSQEntries'[d] <= OSQEntries[d]
<1>1. UNCHANGED <<dynamic, OSQLength>>
  BY DEF Clean
<1>2. OSQEntries' = [OSQEntries EXCEPT ![e] = 0]
  BY DEF Clean
<1>3. OSQEntries \in [ObjectId -> INT16U]
  BY DEF QueueInv, INT16U
<1> QED
  BY <1>1, <1>2, <1>3 DEF INT16U

\* OSQueueClean, OSRQueue and the pend that finds an element: steps of the
\* reader in its own code.
LEMMA ReaderInUserCodeKeepsInv ==
  ASSUME Assumptions, QueueInv, NEW t \in Readers, InUserCode(t),
         NEW e \in ObjectId, UNCHANGED <<kernelVars, eventVars>>,
         Clean(e) \/ (OSQEntries[e] > 0 /\ Read(t, e))
  PROVE  QueueInv'
<1>1. EventInv'
  BY UnchangedKeepsInv DEF QueueInv
<1>2. UNCHANGED <<pend, given, OSEventAllocated>>
  BY DEF eventVars, eventTable, callVars
<1>3. /\ UNCHANGED <<dynamic, OSQLength>>
      /\ OSQEntries' \in [ObjectId -> INT16U]
      /\ \A d \in ObjectId : OSQEntries'[d] <= OSQEntries[d]
  BY ReadFacts, CleanFacts, QueueAssumption
<1>4. PostedReaderHasData'
  BY <1>2, NobodySelected DEF PostedReaderHasData
<1>5. EntriesWithinSize'
  BY <1>3 DEF QueueInv, EntriesWithinSize, INT16U
<1>6. PendsAreReaders'
  BY <1>2 DEF QueueInv, PendsAreReaders
<1> QED
  BY <1>1, <1>3, <1>4, <1>5, <1>6, QueueInvFrom

\* A write adds one element where there is room for it.
LEMMA WriteFacts ==
  ASSUME QueueInv, NEW e \in ObjectId, NEW data, Write(e, data)
  PROVE  /\ UNCHANGED <<dynamic, OSQLength>>
         /\ OSQEntries' \in [ObjectId -> INT16U]
         /\ OSQEntries'[e] > 0
         /\ \A d \in ObjectId : OSQEntries'[d] >= OSQEntries[d]
         /\ EntriesWithinSize'
<1>1. UNCHANGED <<dynamic, OSQLength>> /\ OSQEntries[e] < OSQLength[e]
  BY DEF Write
<1>2. OSQEntries' = [OSQEntries EXCEPT ![e] = OSQEntries[e] + 1]
  BY DEF Write
<1>3. {OSQEntries, OSQLength} \subseteq [ObjectId -> INT16U]
  BY DEF QueueInv, INT16U
<1> QED
  BY <1>1, <1>2, <1>3 DEF QueueInv, EntriesWithinSize, INT16U

-----------------------------------------------------------------------------
(* Pend and post *)

\* A pend by the reader that finds the queue empty.
LEMMA WaitQueueKeepsInv ==
  ASSUME Assumptions, QueueInv, NEW t \in Readers, InUserCode(t),
         NEW e \in ObjectId, NEW w \in PendWait, OSEventAllocated[e],
         WaitEvent(t, e, w), UNCHANGED queueVars
  PROVE  QueueInv'
<1>1. t \in Task
  BY QueueAssumption
<1>2. EventInv'
  BY <1>1, WaitKeepsInv DEF QueueInv, Assumptions
<1>3. /\ pend' = [pend EXCEPT ![t] = e]
      /\ given' = [given EXCEPT ![t] = FALSE]
      /\ UNCHANGED OSEventAllocated
  BY DEF WaitEvent
<1>4. PendsAreReaders'
  BY <1>1, <1>3 DEF QueueInv, PendsAreReaders, EventInv, EventTypeOK
<1>5. PostedReaderHasData'
  BY <1>1, <1>3, NobodySelected
  DEF QueueInv, PostedReaderHasData, EventInv, EventTypeOK
<1> QED
  BY <1>2, <1>4, <1>5 DEF QueueInv, queueVars, EntriesWithinSize

\* The end of a pend that waited.
LEMMA QueueResumeKeepsInv ==
  ASSUME Assumptions, QueueInv, NEW t \in Task, PendResume(t)
  PROVE  QueueInv'
<1>1. /\ EndWait(t) /\ Resuming(t)
      /\ EventInv'
  <2>1. CASE PendReturnsTimeout(t)
    BY <2>1, TimeoutKeepsInv DEF PendReturnsTimeout, LeaveByTimeout, QueueInv
  <2>2. CASE PendReturnsOK(t)
    BY <2>2, PostedKeepsInv DEF PendReturnsOK, LeaveByPost, QueueInv
  <2> QED
    BY <2>1, <2>2 DEF PendResume
<1>2. /\ pend' = [pend EXCEPT ![t] = NoEvent]
      /\ given' = [given EXCEPT ![t] = FALSE]
      /\ UNCHANGED OSEventAllocated
  BY <1>1 DEF EndWait
<1>3. /\ pend[t] \in ObjectId
      /\ \A u \in Task \ {t} : pend[u] = NoEvent /\ ~given[u]
  BY <1>1, GivenTaskPends, ObjectFacts
  DEF Resuming, QueueInv, PendsAreReaders, Assumptions, SingleReader, EventInv,
      EventTypeOK
<1>4. \A u \in Task : pend'[u] = NoEvent /\ ~given'[u]
  BY <1>2, <1>3 DEF QueueInv, EventInv, EventTypeOK
<1>5. /\ UNCHANGED <<dynamic, OSQLength>>
      /\ OSQEntries' \in [ObjectId -> INT16U]
      /\ EntriesWithinSize'
  <2>1. CASE PendReturnsTimeout(t)
    BY <2>1 DEF PendReturnsTimeout, queueVars, QueueInv, EntriesWithinSize
  <2>2. CASE PendReturnsOK(t)
    <3>1. given[t] /\ Read(t, pend[t])
      BY <2>2, ResumingTaskState
      DEF PendReturnsOK, LeaveByPost, QueueInv
    <3>2. OSQEntries[pend[t]] > 0
      BY <3>1 DEF QueueInv, PostedReaderHasData
    <3>3. /\ UNCHANGED <<dynamic, OSQLength>>
          /\ OSQEntries' \in [ObjectId -> INT16U]
          /\ \A d \in ObjectId : OSQEntries'[d] <= OSQEntries[d]
      BY <1>3, <3>1, <3>2, ReadFacts
    <3> QED
      BY <3>3 DEF QueueInv, EntriesWithinSize, INT16U
  <2> QED
    BY <2>1, <2>2 DEF PendResume
<1>6. PendsAreReaders' /\ PostedReaderHasData'
  BY <1>4 DEF PendsAreReaders, PostedReaderHasData
<1> QED
  BY <1>1, <1>5, <1>6, QueueInvFrom

\* A post, by a task or by an interrupt, or the bare write OSWQueue.
LEMMA PostQueueKeepsInv ==
  ASSUME Assumptions, QueueInv, NEW e \in ObjectId, NEW data, Write(e, data),
         \/ ~changeContext /\ TaskPost(e)
         \/ ISRPost(e)
         \/ UNCHANGED <<kernelVars, eventVars>>
  PROVE  QueueInv'
<1>1. EventInv'
  BY TaskPostKeepsInv, ISRPostKeepsInv, UnchangedKeepsInv DEF QueueInv
<1>2. CASE UNCHANGED <<kernelVars, eventVars>>
  <2>1. UNCHANGED <<pend, given, OSEventAllocated>>
    BY <1>2 DEF eventVars, eventTable, callVars
  <2>2. PostedReaderHasData'
    BY <2>1, WriteFacts, GivenTaskPends
    DEF QueueInv, PostedReaderHasData, INT16U
  <2>3. PendsAreReaders'
    BY <2>1 DEF QueueInv, PendsAreReaders
  <2> QED
    BY <1>1, <2>2, <2>3, WriteFacts, QueueInvFrom
<1>3. CASE TaskPost(e) \/ ISRPost(e)
  <2>1. SelectWaiter(e)
    BY <1>3 DEF TaskPost, ISRPost, PostToWaiter
  <2>2. PICK u \in Waiters(e) : PriorityVector[HighestWaiter(e)] = u
    BY <2>1, SelectedWaiter DEF SelectWaiter, QueueInv
  <2>3. /\ given' = [t \in Task |-> given[t] \/ t = u]
        /\ UNCHANGED <<pend, OSEventAllocated>>
    BY <2>1, <2>2 DEF SelectWaiter
  <2>4. u \in Task /\ pend[u] = e
    BY <2>2 DEF Waiters
  <2>5. PendsAreReaders'
    BY <2>3 DEF QueueInv, PendsAreReaders
  <2>6. PostedReaderHasData'
    <3> SUFFICES ASSUME NEW t \in Task, given'[t]
                 PROVE  OSQEntries'[pend'[t]] > 0
      BY DEF PostedReaderHasData
    <3>1. CASE t = u
      BY <2>3, <2>4, <3>1, WriteFacts
    <3>2. CASE t # u
      <4>1. given[t] /\ pend[t] \in ObjectId
        BY <2>3, <3>2, GivenTaskPends DEF QueueInv
      <4>2. OSQEntries[pend[t]] > 0
        BY <4>1 DEF QueueInv, PostedReaderHasData
      <4> QED
        BY <2>3, <4>1, <4>2, WriteFacts DEF QueueInv, INT16U
    <3> QED
      BY <3>1, <3>2
  <2> QED
    BY <1>1, <2>5, <2>6, WriteFacts, QueueInvFrom
<1> QED
  BY <1>2, <1>3

-----------------------------------------------------------------------------
(* Every step *)

\* A step of the reader in its own code.
LEMMA ReaderStepKeepsInv ==
  ASSUME Assumptions, QueueInv, NEW t \in Readers, InUserCode(t),
         NEW e \in ObjectId, ReaderStep(t, e)
  PROVE  QueueInv'
<1>1. CASE e \notin dynamic /\ OSRQueue(t, e)
  BY <1>1, ReaderInUserCodeKeepsInv DEF OSRQueue
<1>2. CASE OSQueueClean(e) \/ OSDQueueClean(e)
  <2>1. Clean(e) /\ UNCHANGED <<kernelVars, eventVars>>
    BY <1>2 DEF OSQueueClean, OSDQueueClean, Clean
  <2> QED
    BY <2>1, ReaderInUserCodeKeepsInv
<1>3. ASSUME NEW w \in PendWait, Pend(t, e, w) PROVE QueueInv'
  <2>1. CASE /\ OSQEntries[e] > 0 /\ Read(t, e)
             /\ UNCHANGED <<kernelVars, eventVars>>
    BY <2>1, ReaderInUserCodeKeepsInv
  <2>2. CASE WaitEvent(t, e, w) /\ UNCHANGED queueVars
    BY <1>3, <2>2, WaitQueueKeepsInv DEF Pend
  <2> QED
    BY <1>3, <2>1, <2>2 DEF Pend
<1> QED
  BY <1>1, <1>2, <1>3 DEF ReaderStep, OSQueuePend, OSDQueuePend

\* A post by a task, or a bare write.
LEMMA TaskWriteKeepsInv ==
  ASSUME Assumptions, QueueInv, ~changeContext, NEW e \in ObjectId, NEW data,
         OSQueuePost(e, data) \/ OSDQueuePost(e, data) \/ OSWQueue(e, data)
  PROVE  QueueInv'
BY PostQueueKeepsInv
DEF OSQueuePost, OSDQueuePost, Post, OSWQueue, NobodyWaits

\* A post by an interrupt.
LEMMA InterruptWriteKeepsInv ==
  ASSUME Assumptions, QueueInv, NEW e \in ObjectId, NEW data,
         OSQueuePostISR(e, data) \/ OSDQueuePostISR(e, data)
  PROVE  QueueInv'
BY PostQueueKeepsInv DEF OSQueuePostISR, OSDQueuePostISR, PostISR, NobodyWaits

\* The other services and the kernel's interrupts.
LEMMA KernelKeepsQueueInv ==
  ASSUME QueueInv, UNCHANGED queueVars,
         \/ \E t \in Task : InUserCode(t) /\ KernelCall(t)
         \/ KernelInterrupt
  PROVE  QueueInv'
<1>1. EventInv'
  BY KernelCallKeepsInv, KernelInterruptKeepsInv DEF QueueInv
<1>2. UNCHANGED <<pend, given, OSEventAllocated>>
  BY DEF KernelCall, KernelInterrupt, eventVars, eventTable, callVars
<1> QED
  BY <1>1, <1>2, SameCallsKeepInv DEF queueVars

\* QueueInv is inductive.
LEMMA StepQueueInv ==
  ASSUME Assumptions, QueueInv, [QueueNext]_vars
  PROVE  QueueInv'
<1>1. CASE UNCHANGED vars
  BY <1>1, UnchangedKeepsInv, SameCallsKeepInv
  DEF QueueInv, vars, queueVars, eventVars, eventTable, callVars
<1>2. ASSUME NEW t \in Task, TaskStep(t) PROVE QueueInv'
  <2>1. InUserCode(t) /\ ~changeContext
    BY <1>2 DEF TaskStep, InUserCode, Running
  <2>2. ASSUME NEW size \in Sizes, OSQueueCreate(size) PROVE QueueInv'
    BY <2>2, CreateQueueKeepsInv
  <2>3. ASSUME NEW size \in DynamicSizes, OSDQueueCreate(size[1], size[2])
        PROVE  QueueInv'
    <3>1. size[1] \in INT16U
      BY QueueAssumption DEF INT16U
    <3> QED
      BY <2>3, <3>1, CreateDynamicKeepsInv
  <2>4. ASSUME NEW e \in ObjectId, OSDQueueDelete(e) PROVE QueueInv'
    BY <2>4, DeleteDynamicKeepsInv
  <2>5. ASSUME NEW e \in ObjectId, NEW data \in Data,
               OSQueuePost(e, data) \/ OSDQueuePost(e, data) \/ OSWQueue(e, data)
        PROVE  QueueInv'
    BY <2>1, <2>5, TaskWriteKeepsInv
  <2>6. ASSUME t \in Readers, NEW e \in ObjectId, ReaderStep(t, e)
        PROVE  QueueInv'
    BY <2>1, <2>6, ReaderStepKeepsInv
  <2>7. CASE KernelCall(t) /\ UNCHANGED queueVars
    BY <2>1, <2>7, KernelKeepsQueueInv
  <2> QED
    BY <1>2, <2>2, <2>3, <2>4, <2>5, <2>6, <2>7 DEF TaskStep
<1>3. ASSUME NEW t \in Task, OSQueuePendResume(t) \/ OSDQueuePendResume(t)
      PROVE  QueueInv'
  BY <1>3, QueueResumeKeepsInv DEF OSQueuePendResume, OSDQueuePendResume
<1>4. CASE QueueInterrupt
  BY <1>4, InterruptWriteKeepsInv, KernelKeepsQueueInv DEF QueueInterrupt
<1> QED
  BY <1>1, <1>2, <1>3, <1>4 DEF QueueNext

\* The invariant holds in every reachable state.
THEOREM QueueInvariance ==
  ASSUME Assumptions
  PROVE  QueueSpec => []QueueInv
<1>1. QueueInit => QueueInv
  BY InitQueueInv
<1>2. QueueInv /\ [QueueNext]_vars => QueueInv'
  BY StepQueueInv
<1> QED
  BY <1>1, <1>2, PTL DEF QueueSpec

\* The 16-bit counter OSQEntries never passes below 0 or above the size.
THEOREM EntriesNeverExceedSize ==
  ASSUME Assumptions
  PROVE  QueueSpec => []EntriesWithinSize
<1>1. QueueInv => EntriesWithinSize
  BY DEF QueueInv
<1> QED
  BY QueueInvariance, <1>1, PTL

\* The pends and posts of both kinds of queue keep the wait lists exact, lose no
\* wake-up and use the delay list the way its macros expect.
THEOREM QueueWaitsAreSafe ==
  ASSUME Assumptions
  PROVE  QueueSpec => [](WaitListExact /\ NoWakeupLost /\ DelayListContract)
<1>1. QueueInv => WaitListExact /\ NoWakeupLost /\ DelayListContract
  BY NoWakeupLostFromInv, DelayListContractFromInv DEF QueueInv, EventInv
<1> QED
  BY QueueInvariance, <1>1, PTL

\* Whatever readers were woken without a switch, each tick gives the processor
\* to the highest runnable priority.
THEOREM QueueTickRestoresOrder ==
  ASSUME Assumptions
  PROVE  QueueSpec => TickPreempts
<1>1. ASSUME QueueInv, QueueInv', [QueueNext]_vars, OSTickCounter' # OSTickCounter
      PROVE  \A t \in Task : Priority'[t] \in OSReadyList' \cap OSBlockedList'
                               => Priority'[t] <= Priority'[currentTask']
  <2>1. TickTimer
    <3>1. CASE UNCHANGED vars
      BY <1>1, <3>1 DEF vars, kernelVars
    <3>2. ASSUME NEW t \in Task, TaskStep(t) PROVE UNCHANGED OSTickCounter
      <4>1. ASSUME NEW size \in Sizes, OSQueueCreate(size)
            PROVE  UNCHANGED OSTickCounter
        BY <4>1 DEF OSQueueCreate, NewRing, kernelVars
      <4>2. ASSUME NEW size \in DynamicSizes,
                   OSDQueueCreate(size[1], size[2])
            PROVE  UNCHANGED OSTickCounter
        BY <4>2 DEF OSDQueueCreate, NewDynamicRing, NewRing, kernelVars
      <4>3. ASSUME NEW e \in ObjectId, OSDQueueDelete(e)
            PROVE  UNCHANGED OSTickCounter
        BY <4>3 DEF OSDQueueDelete, NewRing, kernelVars
      <4>4. ASSUME NEW e \in ObjectId, NEW data \in Data,
                   OSQueuePost(e, data) \/ OSDQueuePost(e, data) \/ OSWQueue(e, data)
            PROVE  UNCHANGED OSTickCounter
        BY <4>4 DEF OSQueuePost, OSDQueuePost, Post, NobodyWaits, OSWQueue,
                    TaskPost, PostToWaiter, SelectWaiter, kernelVars
      <4>5. ASSUME NEW e \in ObjectId, ReaderStep(t, e)
            PROVE  UNCHANGED OSTickCounter
        BY <4>5 DEF ReaderStep, OSRQueue, OSQueueClean, OSDQueueClean, Clean,
                    OSQueuePend, OSDQueuePend, Pend, WaitEvent, Suspend,
                    kernelVars
      <4>6. CASE KernelCall(t)
        BY <4>6 DEF KernelCall, OSDelayTask, Suspend, OSBlockTask,
                    OSUnBlockTask, onlyBlockedList, kernelVars
      <4> QED
        BY <3>2, <4>1, <4>2, <4>3, <4>4, <4>5, <4>6 DEF TaskStep
    <3>3. ASSUME NEW t \in Task, OSQueuePendResume(t) \/ OSDQueuePendResume(t)
          PROVE  UNCHANGED OSTickCounter
      BY <3>3 DEF OSQueuePendResume, OSDQueuePendResume, PendResume,
                  PendReturnsTimeout, PendReturnsOK, LeaveByTimeout,
                  LeaveByPost, EndWait
    <3>4. ASSUME NEW e \in ObjectId, NEW data \in Data,
                 OSQueuePostISR(e, data) \/ OSDQueuePostISR(e, data)
          PROVE  UNCHANGED OSTickCounter
      BY <3>4 DEF OSQueuePostISR, OSDQueuePostISR, PostISR, NobodyWaits,
                  ISRPost, PostToWaiter, SelectWaiter, kernelVars
    <3> QED
      BY <1>1, <3>1, <3>2, <3>3, <3>4
      DEF QueueNext, QueueInterrupt, KernelInterrupt, SwitchContext
  <2>2. Reschedule
    BY <2>1 DEF TickTimer
  <2> QED
    BY <1>1, <2>2, OrderAfterReschedule DEF QueueInv
<1>2. QueueInv /\ QueueInv' /\ [QueueNext]_vars =>
        [OSTickCounter' # OSTickCounter =>
           \A t \in Task : Priority'[t] \in OSReadyList' \cap OSBlockedList'
                             => Priority'[t] <= Priority'[currentTask']]_kernelVars
  BY <1>1
<1> QED
  BY QueueInvariance, <1>2, PTL DEF QueueSpec, TickPreempts

-----------------------------------------------------------------------------
(* Arithmetic of rings *)

\* The place, in a ring of l elements, of the i-th one counted from place o.
Turn(l, o, i) == IF o + i - 1 >= l THEN o + i - 1 - l ELSE o + i - 1

\* Its address, before and after the end of the ring is taken into account.
Straight(start, c, o, i) == start + o * c + (i - 1) * c
Folded(start, l, c, address) ==
  IF address >= start + l * c THEN address - l * c ELSE address

\* Products of natural numbers, which the provers treat one at a time.
LEMMA Products ==
  ASSUME NEW a \in Nat, NEW b \in Nat, NEW c \in Nat
  PROVE  /\ a * c \in Nat
         /\ (a + 1) * c = a * c + c
         /\ (a + b) * c = a * c + b * c
         /\ a <= b => a * c <= b * c
         /\ a < b => a * c + c <= b * c
<1>1. a * c \in Nat /\ (a + 1) * c = a * c + c /\ (a + b) * c = a * c + b * c
  OBVIOUS
<1>2. a <= b => a * c <= b * c
  OBVIOUS
<1>3. ASSUME a < b PROVE a * c + c <= b * c
  <2>1. a + 1 \in Nat /\ a + 1 <= b
    BY <1>3
  <2>2. (a + 1) * c <= b * c
    BY <2>1
  <2> QED
    BY <1>1, <2>2
<1> QED
  BY <1>1, <1>2, <1>3

\* An element's address is that of its place.
LEMMA TurnAddress ==
  ASSUME NEW start \in Nat, NEW l \in Nat \ {0}, NEW c \in Nat \ {0},
         NEW o \in 0 .. l, NEW i \in 1 .. l
  PROVE  /\ Turn(l, o, i) \in 0 .. l - 1
         /\ Folded(start, l, c, Straight(start, c, o, i))
              = start + Turn(l, o, i) * c
<1> DEFINE k == o + i - 1
           address == Straight(start, c, o, i)
<1>1. k \in Nat /\ i - 1 \in Nat /\ k < l + l
  OBVIOUS
<1>2. address = start + k * c
  <2>1. (o + (i - 1)) * c = o * c + (i - 1) * c
    BY <1>1, Products
  <2>2. k = o + (i - 1)
    OBVIOUS
  <2>3. o * c \in Nat /\ (i - 1) * c \in Nat
    BY <1>1, Products
  <2> HIDE DEF k
  <2> QED
    BY <2>1, <2>2, <2>3 DEF Straight
<1>3. /\ Turn(l, o, i) \in 0 .. l - 1
      /\ Turn(l, o, i) = IF k >= l THEN k - l ELSE k
  BY <1>1 DEF Turn
<1> HIDE DEF k, address
<1>4. k * c \in Nat /\ l * c \in Nat
  BY <1>1, Products
<1>5. CASE k >= l
  <2>1. l * c <= k * c /\ k - l \in Nat /\ Turn(l, o, i) = k - l
    BY <1>1, <1>3, <1>5, Products
  <2>2. (l + (k - l)) * c = l * c + (k - l) * c
    BY <2>1, Products
  <2>3. l + (k - l) = k
    BY <1>1
  <2>4. (k - l) * c = k * c - l * c
    BY <1>4, <2>1, <2>2, <2>3, Products
  <2> QED
    BY <1>2, <1>3, <1>4, <2>1, <2>4 DEF Folded, address
<1>6. CASE ~(k >= l)
  <2>1. k * c + c <= l * c /\ Turn(l, o, i) = k
    BY <1>1, <1>3, <1>6, Products
  <2> QED
    BY <1>2, <1>3, <1>4, <2>1 DEF Folded, address
<1> QED
  BY <1>5, <1>6

\* Elements at different places do not overlap, and none passes the end.
LEMMA PlacesApart ==
  ASSUME NEW l \in Nat \ {0}, NEW c \in Nat \ {0},
         NEW k \in 0 .. l - 1, NEW m \in 0 .. l - 1, k # m
  PROVE  k * c + c <= m * c \/ m * c + c <= k * c
BY Products

\* A place lies in the ring, with all its bytes.
LEMMA PlaceInRing ==
  ASSUME NEW l \in Nat \ {0}, NEW c \in Nat \ {0}, NEW k \in 0 .. l - 1
  PROVE  k * c \in Nat /\ k * c + c <= l * c
BY Products

\* The size of a static queue in whole OS_CPU_TYPEs.
LEMMA RoundedSizeFacts ==
  ASSUME NEW size \in Nat \ {0}, size + CPU_BYTES <= 65536
  PROVE  /\ RoundedSize(size) \in INT16U \ {0}
         /\ RoundedSize(size) % CPU_BYTES = 0
<1> DEFINE r == size % CPU_BYTES
<1>1. CPU_BYTES \in Nat \ {0}
  BY QueueAssumption
<1>2. r \in 0 .. CPU_BYTES - 1 /\ r <= size
  BY <1>1
<1>3. size = CPU_BYTES * (size \div CPU_BYTES) + r /\ size \div CPU_BYTES \in Nat
  BY <1>1
<1>4. CASE r = 0
  BY <1>1, <1>4 DEF RoundedSize, INT16U
<1>5. CASE r # 0
  <2> DEFINE x == size + (CPU_BYTES - r)
             q == size \div CPU_BYTES
  <2>1. x \in Nat \ {0} /\ x < 65536
    BY <1>1, <1>2, <1>5
  <2>2. x % 65536 = x
    BY <2>1
  <2>3. RoundedSize(size) = x
    BY <1>5, <2>2 DEF RoundedSize
  <2>4. x = CPU_BYTES * q + CPU_BYTES
    BY <1>1, <1>2, <1>3
  <2> HIDE DEF x, q
  <2>5. q \in Nat
    BY <1>3 DEF q
  <2>6. x = (q + 1) * CPU_BYTES
    BY <1>1, <2>4, <2>5
  <2>7. ((q + 1) * CPU_BYTES) % CPU_BYTES = 0
    BY <1>1, <2>5
  <2>8. x % CPU_BYTES = 0
    BY <2>6, <2>7
  <2> QED
    BY <2>1, <2>3, <2>8 DEF INT16U
<1> QED
  BY <1>4, <1>5

\* What a static queue takes from QUEUE_STACK.
LEMMA HeapFacts ==
  ASSUME NEW a \in Nat, NEW size \in Nat, size % CPU_BYTES = 0,
         a + (size \div CPU_BYTES) <= QUEUE_HEAP_SIZE \div CPU_BYTES
  PROVE  /\ a * CPU_BYTES \in Nat
         /\ a * CPU_BYTES + size <= QUEUE_HEAP_SIZE
         /\ (a + (size \div CPU_BYTES)) * CPU_BYTES = a * CPU_BYTES + size
         /\ a + (size \div CPU_BYTES) \in Nat
         /\ QUEUE_HEAP_SIZE \div CPU_BYTES <= QUEUE_HEAP_SIZE
BY QueueAssumption

-----------------------------------------------------------------------------
(* The rings *)

\* The sizes fit the 16 bits in which queue.c computes them, also rounded up and
\* multiplied: where they do not, a queue of no bytes passes for a large one.
SizesFit ==
  /\ \A size \in Sizes : size + CPU_BYTES <= 65536
  /\ \A s \in DynamicSizes : s[1] * s[2] < 65536
  /\ QUEUE_HEAP_SIZE < 65536

\* One byte in a static queue.
ElementSizes == {1} \cup {s[2] : s \in DynamicSizes}

\* The pointers are at places o and i of the ring, and the elements counted are
\* those between them.
Pointers(e, o, i) ==
  /\ OSQOut[e] = OSQStart[e] + o * OSQTSize[e]
  /\ OSQIn[e] = OSQStart[e] + i * OSQTSize[e]
  /\ o + OSQEntries[e] = i \/ o + OSQEntries[e] = i + OSQLength[e]

\* The ring of e: its pointers at places of it, its bytes below iQueueAddress in
\* QUEUE_STACK or behind QUEUE_STACK.
Ring(e) ==
  /\ OSQLength[e] > 0 /\ OSQTSize[e] \in ElementSizes
  /\ OSQSize[e] = OSQLength[e] * OSQTSize[e]
  /\ OSQEnd(e) <= QUEUE_HEAP_SIZE + ALLOC_BYTES
  /\ \E o, i \in 0 .. OSQLength[e] : Pointers(e, o, i)
  /\ e \notin dynamic => OSQEnd(e) <= iQueueAddress * CPU_BYTES
  /\ e \in dynamic => OSQStart[e] >= QUEUE_HEAP_SIZE

\* An object that is no queue.
NoRing(e) ==
  /\ OSQStart[e] = 0 /\ OSQSize[e] = 0 /\ OSQTSize[e] = 0 /\ OSQLength[e] = 0
  /\ OSQEntries[e] = 0 /\ OSQIn[e] = 0 /\ OSQOut[e] = 0

Apart(d, e) == OSQEnd(d) <= OSQStart[e] \/ OSQEnd(e) <= OSQStart[d]

RingTypes ==
  /\ OSQStart \in [ObjectId -> Nat]
  /\ OSQSize \in [ObjectId -> Nat]
  /\ OSQTSize \in [ObjectId -> INT16U]
  /\ OSQIn \in [ObjectId -> Nat]
  /\ OSQOut \in [ObjectId -> Nat]
  /\ iQueueAddress \in 0 .. QUEUE_HEAP_SIZE \div CPU_BYTES
  /\ \A a \in Address : memory[a] \in Byte
  /\ pdata \in [Task -> Seq(Byte)]

\* The rings lie in memory without overlapping.
RingInv ==
  /\ RingTypes
  /\ \A e \in ObjectId : IF OSEventAllocated[e] THEN Ring(e) ELSE NoRing(e)
  /\ \A d, e \in ObjectId :
       d # e /\ OSEventAllocated[d] /\ OSEventAllocated[e] => Apart(d, e)

\* The constants.
LEMMA QueueConstants ==
  /\ CPU_BYTES \in Nat \ {0}
  /\ QUEUE_HEAP_SIZE \in Nat /\ ALLOC_BYTES \in Nat
  /\ QUEUE_HEAP_SIZE \div CPU_BYTES \in Nat
  /\ (QUEUE_HEAP_SIZE \div CPU_BYTES) * CPU_BYTES = QUEUE_HEAP_SIZE
  /\ ElementSizes \subseteq INT16U \ {0}
BY QueueAssumption DEF ElementSizes, INT16U

\* The variables of an existing ring, for the arithmetic below.
LEMMA RingNumbers ==
  ASSUME QueueInv, RingInv, NEW e \in ObjectId, OSEventAllocated[e]
  PROVE  /\ OSQStart[e] \in Nat
         /\ OSQTSize[e] \in Nat \ {0}
         /\ OSQLength[e] \in Nat \ {0}
         /\ OSQEntries[e] \in 0 .. OSQLength[e]
         /\ OSQEnd(e) = OSQStart[e] + OSQLength[e] * OSQTSize[e]
         /\ OSQSize[e] = OSQLength[e] * OSQTSize[e]
         /\ OSQSize[e] \in Nat
         /\ OSQEnd(e) <= QUEUE_HEAP_SIZE + ALLOC_BYTES
         /\ OSQOut[e] \in Nat /\ OSQIn[e] \in Nat
<1>1. /\ OSQStart[e] \in Nat /\ OSQLength[e] \in INT16U
      /\ OSQEntries[e] \in INT16U /\ OSQEntries[e] <= OSQLength[e]
      /\ OSQOut[e] \in Nat /\ OSQIn[e] \in Nat /\ OSQSize[e] \in Nat
  BY DEF QueueInv, RingInv, RingTypes, EntriesWithinSize
<1>2. Ring(e)
  BY DEF RingInv
<1>3. OSQTSize[e] \in Nat \ {0} /\ OSQLength[e] \in Nat \ {0}
  <2>1. OSQTSize[e] \in INT16U \ {0} /\ OSQLength[e] > 0
    BY <1>2, QueueConstants DEF Ring
  <2> QED
    BY <1>1, <2>1 DEF INT16U
<1> QED
  BY <1>1, <1>2, <1>3 DEF Ring, OSQEnd, INT16U

\* An element in the queue, and the place behind the last one.
LEMMA ElementPlace ==
  ASSUME QueueInv, RingInv, NEW e \in ObjectId, OSEventAllocated[e],
         NEW o \in 0 .. OSQLength[e], NEW n \in 0 .. OSQLength[e],
         Pointers(e, o, n), NEW i \in 1 .. OSQLength[e]
  PROVE  /\ Turn(OSQLength[e], o, i) \in 0 .. OSQLength[e] - 1
         /\ ElementAt(e, i)
              = OSQStart[e] + Turn(OSQLength[e], o, i) * OSQTSize[e]
         /\ ElementAt(e, i) \in Nat
         /\ OSQStart[e] <= ElementAt(e, i)
         /\ ElementAt(e, i) + OSQTSize[e] <= OSQEnd(e)
<1> DEFINE l == OSQLength[e]
           c == OSQTSize[e]
           start == OSQStart[e]
           k == Turn(l, o, i)
<1>1. /\ start \in Nat /\ l \in Nat \ {0} /\ c \in Nat \ {0}
      /\ OSQEnd(e) = start + l * c /\ OSQSize[e] = l * c
  BY RingNumbers
<1>2. OSQOut[e] = start + o * c
  BY DEF Pointers
<1>3. ElementAt(e, i) = Folded(start, l, c, Straight(start, c, o, i))
  BY <1>1, <1>2 DEF ElementAt, Folded, Straight
<1> HIDE DEF l, c, start
<1>4. o \in 0 .. l /\ i \in 1 .. l
  BY DEF l
<1>5. k \in 0 .. l - 1 /\ ElementAt(e, i) = start + k * c
  <2>1. start \in Nat /\ l \in Nat \ {0} /\ c \in Nat \ {0}
    BY <1>1
  <2>2. /\ Turn(l, o, i) \in 0 .. l - 1
        /\ Folded(start, l, c, Straight(start, c, o, i))
             = start + Turn(l, o, i) * c
    BY <2>1, <1>4, TurnAddress DEF Turn, Folded, Straight
  <2> QED
    BY <1>3, <2>2, Zenon
<1> HIDE DEF k
<1>6. k * c \in Nat /\ k * c + c <= l * c
  BY <1>1, <1>5, PlaceInRing
<1>7. l * c \in Nat
  BY <1>1, Products
<1>8. /\ ElementAt(e, i) \in Nat /\ start <= ElementAt(e, i)
      /\ ElementAt(e, i) + c <= OSQEnd(e)
  BY <1>1, <1>5, <1>6, <1>7
<1> QED
  BY <1>5, <1>8 DEF l, c, start, k

\* The contents of a ring that a step leaves alone.
LEMMA SameContents ==
  ASSUME QueueInv, RingInv, NEW e \in ObjectId,
         OSQStart'[e] = OSQStart[e], OSQSize'[e] = OSQSize[e],
         OSQTSize'[e] = OSQTSize[e], OSQEntries'[e] = OSQEntries[e],
         OSQOut'[e] = OSQOut[e],
         OSEventAllocated[e] =>
           \A a \in OSQStart[e] .. OSQEnd(e) - 1 : memory'[a] = memory[a]
  PROVE  Contents(e)' = Contents(e)
<1>1. CASE ~OSEventAllocated[e]
  <2>1. OSQEntries[e] = 0
    BY <1>1 DEF RingInv, NoRing
  <2> QED
    BY <2>1 DEF Contents
<1>2. CASE OSEventAllocated[e]
  <2>1. PICK o \in 0 .. OSQLength[e], n \in 0 .. OSQLength[e] : Pointers(e, o, n)
    BY <1>2 DEF RingInv, Ring
  <2>2. \A i : ElementAt(e, i)' = ElementAt(e, i)
    BY DEF ElementAt, OSQEnd
  <2>3. ASSUME NEW i \in 1 .. OSQEntries[e]
        PROVE  BytesAt(ElementAt(e, i), OSQTSize[e])'
                 = BytesAt(ElementAt(e, i), OSQTSize[e])
    <3>1. i \in 1 .. OSQLength[e]
      BY <1>2, RingNumbers
    <3>2. /\ ElementAt(e, i) \in Nat
          /\ OSQStart[e] <= ElementAt(e, i)
          /\ ElementAt(e, i) + OSQTSize[e] <= OSQEnd(e)
      BY <1>2, <2>1, <3>1, ElementPlace
    <3>3. /\ OSQStart[e] \in Nat /\ OSQTSize[e] \in Nat
          /\ OSQEnd(e) \in Nat
      BY <1>2, RingNumbers, Products
    <3>4. ASSUME NEW k \in 1 .. OSQTSize[e]
          PROVE  ElementAt(e, i) + k - 1 \in OSQStart[e] .. OSQEnd(e) - 1
      BY <3>2, <3>3
    <3>5. \A k \in 1 .. OSQTSize[e] :
            memory'[ElementAt(e, i) + k - 1] = memory[ElementAt(e, i) + k - 1]
      BY <1>2, <3>4
    <3>6. BytesAt(ElementAt(e, i), OSQTSize[e])'
            = [k \in 1 .. OSQTSize[e] |-> memory'[ElementAt(e, i) + k - 1]]
      BY <2>2 DEF BytesAt
    <3> QED
      BY <3>5, <3>6 DEF BytesAt
  <2> QED
    BY <2>3 DEF Contents
<1> QED
  BY <1>1, <1>2

-----------------------------------------------------------------------------
(* Every step creates, deletes, writes, reads, cleans or leaves the rings *)

SameRings == UNCHANGED queueVars /\ UNCHANGED OSEventAllocated

RingStep ==
  \/ SameRings
  \/ \E size \in Sizes : OSQueueCreate(size)
  \/ \E size \in DynamicSizes : OSDQueueCreate(size[1], size[2])
  \/ \E e \in ObjectId : OSDQueueDelete(e)
  \/ /\ UNCHANGED OSEventAllocated
     /\ \E e \in ObjectId :
          \/ OSEventAllocated[e] /\ \E data \in Data : Write(e, data)
          \/ OSQEntries[e] > 0 /\ \E t \in Task : Read(t, e)
          \/ Clean(e)

\* The services keep the table of objects.
LEMMA SameObjects ==
  /\ \A e : SelectWaiter(e) => UNCHANGED OSEventAllocated
  /\ \A e : TaskPost(e) \/ ISRPost(e) \/ NobodyWaits(e) => UNCHANGED OSEventAllocated
  /\ \A t, e, w : WaitEvent(t, e, w) => UNCHANGED OSEventAllocated
  /\ \A t : EndWait(t) => UNCHANGED OSEventAllocated
  /\ UNCHANGED eventVars => UNCHANGED OSEventAllocated
BY DEF SelectWaiter, TaskPost, ISRPost, PostToWaiter, NobodyWaits, WaitEvent,
       EndWait, eventVars, eventTable

\* Every step of the system is one of these.
LEMMA StepCases ==
  ASSUME Assumptions, QueueInv, [QueueNext]_vars
  PROVE  RingStep
<1>1. CASE UNCHANGED vars
  BY <1>1 DEF vars, RingStep, SameRings, eventVars, eventTable
<1>2. ASSUME NEW t \in Task, TaskStep(t) PROVE RingStep
  <2>1. ASSUME NEW e \in ObjectId, NEW data \in Data,
               OSQueuePost(e, data) \/ OSDQueuePost(e, data) \/ OSWQueue(e, data)
        PROVE  RingStep
    <3>1. OSEventAllocated[e] /\ Write(e, data) /\ UNCHANGED OSEventAllocated
      BY <2>1, SameObjects DEF OSQueuePost, OSDQueuePost, Post, OSWQueue
    <3> QED
      BY <3>1 DEF RingStep
  <2>2. ASSUME NEW e \in ObjectId, ReaderStep(t, e) PROVE RingStep
    <3>1. CASE OSRQueue(t, e)
      BY <3>1, SameObjects DEF OSRQueue, RingStep
    <3>2. CASE OSQueueClean(e) \/ OSDQueueClean(e)
      BY <3>2, SameObjects DEF OSQueueClean, OSDQueueClean, Clean, RingStep
    <3>3. ASSUME NEW w \in PendWait, Pend(t, e, w) PROVE RingStep
      BY <3>3, SameObjects DEF Pend, RingStep, SameRings
    <3> QED
      BY <2>2, <3>1, <3>2, <3>3 DEF ReaderStep, OSQueuePend, OSDQueuePend
  <2>3. CASE KernelCall(t) /\ UNCHANGED queueVars
    BY <2>3, SameObjects DEF KernelCall, RingStep, SameRings
  <2> QED
    BY <1>2, <2>1, <2>2, <2>3 DEF TaskStep, RingStep
<1>3. ASSUME NEW t \in Task, OSQueuePendResume(t) \/ OSDQueuePendResume(t)
      PROVE  RingStep
  <2>1. CASE PendReturnsTimeout(t)
    BY <2>1, SameObjects DEF PendReturnsTimeout, LeaveByTimeout, RingStep, SameRings
  <2>2. CASE PendReturnsOK(t)
    <3>1. /\ EndWait(t) /\ Read(t, pend[t])
          /\ given[t]
      BY <2>2, ResumingTaskState DEF PendReturnsOK, LeaveByPost, QueueInv
    <3>2. pend[t] \in ObjectId /\ OSQEntries[pend[t]] > 0
      BY <3>1, GivenTaskPends DEF QueueInv, PostedReaderHasData
    <3> QED
      BY <3>1, <3>2, SameObjects DEF RingStep
  <2> QED
    BY <1>3, <2>1, <2>2 DEF OSQueuePendResume, OSDQueuePendResume, PendResume
<1>4. CASE QueueInterrupt
  <2>1. ASSUME NEW e \in ObjectId, NEW data \in Data, PostISR(e, data)
        PROVE  RingStep
    <3>1. OSEventAllocated[e] /\ Write(e, data) /\ UNCHANGED OSEventAllocated
      BY <2>1, SameObjects DEF PostISR
    <3> QED
      BY <3>1 DEF RingStep
  <2>2. CASE KernelInterrupt /\ UNCHANGED queueVars
    BY <2>2, SameObjects DEF KernelInterrupt, RingStep, SameRings
  <2> QED
    BY <1>4, <2>1, <2>2 DEF QueueInterrupt, OSQueuePostISR, OSDQueuePostISR
<1> QED
  BY <1>1, <1>2, <1>3, <1>4 DEF QueueNext

-----------------------------------------------------------------------------
(* Creation and deletion *)

SameRing(e) ==
  /\ OSQStart'[e] = OSQStart[e] /\ OSQSize'[e] = OSQSize[e]
  /\ OSQTSize'[e] = OSQTSize[e] /\ OSQLength'[e] = OSQLength[e]
  /\ OSQEntries'[e] = OSQEntries[e]
  /\ OSQIn'[e] = OSQIn[e] /\ OSQOut'[e] = OSQOut[e]

\* A ring that a step leaves alone.
LEMMA RingKept ==
  ASSUME RingTypes, RingTypes', NEW e \in ObjectId, SameRing(e),
         UNCHANGED dynamic, iQueueAddress <= iQueueAddress'
  PROVE  /\ Ring(e) => Ring(e)'
         /\ NoRing(e) => NoRing(e)'
<1>1. NoRing(e) => NoRing(e)'
  BY DEF NoRing, SameRing
<1>2. iQueueAddress * CPU_BYTES <= iQueueAddress' * CPU_BYTES
      /\ iQueueAddress * CPU_BYTES \in Nat /\ iQueueAddress' * CPU_BYTES \in Nat
  <2>1. iQueueAddress \in Nat /\ iQueueAddress' \in Nat
    BY QueueConstants DEF RingTypes
  <2> QED
    BY <2>1, QueueConstants, Products
<1>3. OSQEnd(e)' = OSQEnd(e) /\ OSQEnd(e) \in Nat
  BY DEF SameRing, OSQEnd, RingTypes
<1>4. \A o, i : Pointers(e, o, i) => Pointers(e, o, i)'
  BY DEF Pointers, SameRing
<1>5. e \notin dynamic => (OSQEnd(e) <= iQueueAddress * CPU_BYTES
                             => OSQEnd(e)' <= iQueueAddress' * CPU_BYTES)
  BY <1>2, <1>3
<1>6. Ring(e) => Ring(e)'
  BY <1>3, <1>4, <1>5 DEF Ring, SameRing
<1> QED
  BY <1>1, <1>6

\* A step that changes one ring.
LEMMA RingInvFrom ==
  ASSUME RingInv, RingTypes', NEW e \in ObjectId,
         UNCHANGED dynamic, iQueueAddress <= iQueueAddress',
         \A d \in ObjectId \ {e} :
           SameRing(d) /\ OSEventAllocated'[d] = OSEventAllocated[d],
         IF OSEventAllocated'[e] THEN Ring(e)' ELSE NoRing(e)',
         OSEventAllocated'[e] =>
           \A d \in ObjectId \ {e} : OSEventAllocated[d] => Apart(d, e)'
  PROVE  RingInv'
<1>1. ASSUME NEW d \in ObjectId
      PROVE  IF OSEventAllocated'[d] THEN Ring(d)' ELSE NoRing(d)'
  BY RingKept DEF RingInv
<1>2. ASSUME NEW c \in ObjectId, NEW d \in ObjectId, c # d,
             OSEventAllocated'[c], OSEventAllocated'[d]
      PROVE  Apart(c, d)'
  <2>1. CASE c # e /\ d # e
    BY <1>2, <2>1 DEF RingInv, Apart, OSQEnd, SameRing
  <2>2. CASE c = e \/ d = e
    BY <1>2, <2>2 DEF Apart
  <2> QED
    BY <2>1, <2>2
<1> QED
  BY <1>1, <1>2 DEF RingInv

\* The variables after a creation or a deletion.
LEMMA NewRingFacts ==
  ASSUME QueueInv, RingInv, NEW e \in ObjectId, NEW start \in Nat,
         NEW size \in Nat, NEW type \in INT16U, NEW length \in INT16U,
         NewRing(e, start, size, type, length),
         iQueueAddress' \in 0 .. QUEUE_HEAP_SIZE \div CPU_BYTES
  PROVE  /\ RingTypes'
         /\ \A d \in ObjectId \ {e} : SameRing(d)
         /\ OSQStart'[e] = start /\ OSQSize'[e] = size /\ OSQTSize'[e] = type
         /\ OSQLength'[e] = length /\ OSQEntries'[e] = 0
         /\ OSQIn'[e] = start /\ OSQOut'[e] = start
         /\ UNCHANGED <<memory, pdata, dynamic>>
<1>1. RingTypes'
  BY DEF RingInv, RingTypes, NewRing
<1>2. \A d \in ObjectId \ {e} : SameRing(d)
  BY DEF RingInv, RingTypes, QueueInv, NewRing, SameRing
<1>3. /\ OSQStart'[e] = start /\ OSQSize'[e] = size /\ OSQTSize'[e] = type
      /\ OSQLength'[e] = length /\ OSQEntries'[e] = 0
      /\ OSQIn'[e] = start /\ OSQOut'[e] = start
      /\ UNCHANGED <<memory, pdata, dynamic>>
  BY DEF RingInv, RingTypes, QueueInv, NewRing
<1> QED
  BY <1>1, <1>2, <1>3

\* The table of objects then.
LEMMA NewWaitListFacts ==
  ASSUME QueueInv, NEW e \in ObjectId, NEW allocated \in BOOLEAN,
         NewWaitList(e, allocated)
  PROVE  /\ OSEventAllocated'[e] = allocated
         /\ \A d \in ObjectId \ {e} : OSEventAllocated'[d] = OSEventAllocated[d]
BY DEF QueueInv, EventInv, EventTypeOK, NewWaitList

\* What a creation makes of the ring of e.
LEMMA NewRingIsRing ==
  ASSUME QueueInv, RingInv, NEW e \in ObjectId, NEW start \in Nat,
         NEW length \in INT16U \ {0}, NEW type \in ElementSizes,
         NewRing(e, start, length * type, type, length),
         iQueueAddress' \in 0 .. QUEUE_HEAP_SIZE \div CPU_BYTES,
         start + length * type <= QUEUE_HEAP_SIZE + ALLOC_BYTES,
         e \notin dynamic => start + length * type <= iQueueAddress' * CPU_BYTES,
         e \in dynamic => start >= QUEUE_HEAP_SIZE
  PROVE  Ring(e)'
<1>1. length \in Nat \ {0} /\ type \in Nat \ {0} /\ type \in INT16U
  BY QueueConstants DEF INT16U
<1>2. length * type \in Nat
  BY <1>1, Products
<1>3. /\ OSQStart'[e] = start /\ OSQSize'[e] = length * type /\ OSQTSize'[e] = type
      /\ OSQLength'[e] = length /\ OSQEntries'[e] = 0
      /\ OSQIn'[e] = start /\ OSQOut'[e] = start
      /\ UNCHANGED dynamic
  <2>1. length \in INT16U
    OBVIOUS
  <2> HIDE DEF INT16U
  <2> QED
    BY <1>1, <1>2, <2>1, NewRingFacts
<1>4. OSQEnd(e)' = start + length * type
  BY <1>3 DEF OSQEnd
<1>5. Pointers(e, 0, 0)'
  <2>1. 0 * type = 0
    BY <1>1
  <2> QED
    BY <1>1, <1>3, <2>1 DEF Pointers
<1>6. 0 \in 0 .. length
  BY <1>1
<1> QED
  BY <1>1, <1>3, <1>4, <1>5, <1>6 DEF Ring

\* An empty ring.
LEMMA EmptyContents ==
  ASSUME NEW e
  PROVE  /\ OSQEntries[e] = 0 => Contents(e) = <<>>
         /\ OSQEntries'[e] = 0 => Contents(e)' = <<>>
BY DEF Contents

\* What creations and deletions do to the contents: nothing, and nothing is left.
LEMMA NewRingContents ==
  ASSUME QueueInv, RingInv, NEW e \in ObjectId, OSQEntries'[e] = 0,
         \A d \in ObjectId \ {e} : SameRing(d), UNCHANGED memory
  PROVE  [d \in ObjectId |-> Contents(d)]'
           = [[d \in ObjectId |-> Contents(d)] EXCEPT ![e] = <<>>]
<1>1. \A d \in ObjectId \ {e} : Contents(d)' = Contents(d)
  BY SameContents DEF SameRing
<1>2. Contents(e)' = <<>>
  BY EmptyContents
<1> QED
  BY <1>1, <1>2

\* A creation, static or dynamic.
LEMMA CreationIsCreate ==
  ASSUME QueueInv, RingInv, NEW e \in ObjectId, ~OSEventAllocated[e],
         NewWaitList(e, TRUE), NEW start \in Nat,
         NEW length \in INT16U \ {0}, NEW type \in ElementSizes,
         NewRing(e, start, length * type, type, length),
         iQueueAddress' \in 0 .. QUEUE_HEAP_SIZE \div CPU_BYTES,
         iQueueAddress <= iQueueAddress',
         start + length * type <= QUEUE_HEAP_SIZE + ALLOC_BYTES,
         e \notin dynamic => start + length * type <= iQueueAddress' * CPU_BYTES,
         e \in dynamic => start >= QUEUE_HEAP_SIZE,
         \A d \in ObjectId \ {e} : OSEventAllocated[d] =>
           OSQEnd(d) <= start \/ start + length * type <= OSQStart[d]
  PROVE  RingInv' /\ F!Next
<1>1. length \in Nat \ {0} /\ type \in Nat \ {0} /\ type \in INT16U
  BY QueueConstants DEF INT16U
<1>2. length * type \in Nat /\ length <= length * type
  BY <1>1, Products
<1>3. /\ RingTypes'
      /\ \A d \in ObjectId \ {e} : SameRing(d)
      /\ OSQStart'[e] = start /\ OSQSize'[e] = length * type
      /\ OSQEntries'[e] = 0 /\ OSQLength'[e] = length
      /\ UNCHANGED <<memory, pdata, dynamic>>
  <2>1. length \in INT16U
    OBVIOUS
  <2> HIDE DEF INT16U
  <2> QED
    BY <1>1, <1>2, <2>1, NewRingFacts
<1>4. /\ OSEventAllocated'[e]
      /\ \A d \in ObjectId \ {e} : OSEventAllocated'[d] = OSEventAllocated[d]
  BY NewWaitListFacts
<1>5. Ring(e)'
  BY NewRingIsRing
<1>6. \A d \in ObjectId \ {e} : OSEventAllocated[d] => Apart(d, e)'
  BY <1>3 DEF Apart, OSQEnd, SameRing
<1>7. RingInv'
  BY <1>3, <1>4, <1>5, <1>6, RingInvFrom
<1>8. F!Create(e, length)
  <2>1. OSQLength[e] = 0 /\ OSQEntries[e] = 0
    BY DEF RingInv, NoRing
  <2>2. OSQLength' = [OSQLength EXCEPT ![e] = length]
    BY DEF NewRing
  <2>3. [d \in ObjectId |-> Contents(d)]'
           = [[d \in ObjectId |-> Contents(d)] EXCEPT ![e] = <<>>]
    BY <1>3, NewRingContents
  <2>4. Contents(e) = <<>>
    BY <2>1, EmptyContents
  <2>5. [d \in ObjectId |-> Contents(d)]' = [d \in ObjectId |-> Contents(d)]
    BY <2>3, <2>4
  <2> QED
    BY <1>3, <2>1, <2>2, <2>5 DEF F!Create
<1>9. length \in 1 .. QUEUE_HEAP_SIZE + ALLOC_BYTES
  BY <1>1, <1>2, QueueConstants
<1> QED
  BY <1>7, <1>8, <1>9 DEF F!Next

\* OSQueueCreate.
LEMMA CreateQueueIsCreate ==
  ASSUME SizesFit, QueueInv, RingInv, NEW requested \in Sizes,
         OSQueueCreate(requested)
  PROVE  RingInv' /\ F!Next
<1> DEFINE size == RoundedSize(requested)
<1>1. PICK e \in ObjectId \ dynamic :
        /\ CreateEvent(e)
        /\ NewRing(e, iQueueAddress * CPU_BYTES, size, 1, size)
  BY DEF OSQueueCreate
<1>2. size \in INT16U \ {0} /\ size % CPU_BYTES = 0
  BY RoundedSizeFacts, QueueAssumption DEF SizesFit, INT16U
<1>3. /\ iQueueAddress + (size \div CPU_BYTES) <= QUEUE_HEAP_SIZE \div CPU_BYTES
      /\ iQueueAddress' = (iQueueAddress + (size \div CPU_BYTES)) % 65536
  BY DEF OSQueueCreate
<1>4. ~OSEventAllocated[e] /\ NewWaitList(e, TRUE)
  BY <1>1 DEF CreateEvent, FreeBlock
<1> HIDE DEF size
<1>0. PICK start : start = iQueueAddress * CPU_BYTES
  OBVIOUS
<1>5. /\ start \in Nat
      /\ start + size <= QUEUE_HEAP_SIZE
      /\ (iQueueAddress + (size \div CPU_BYTES)) * CPU_BYTES = start + size
      /\ iQueueAddress + (size \div CPU_BYTES) \in Nat
      /\ QUEUE_HEAP_SIZE \div CPU_BYTES <= QUEUE_HEAP_SIZE
      /\ iQueueAddress \in Nat /\ size \in Nat \ {0}
  <2>1. iQueueAddress \in Nat /\ size \in Nat \ {0}
    BY <1>2, QueueConstants DEF RingInv, RingTypes, INT16U
  <2> QED
    BY <1>0, <1>2, <1>3, <2>1, HeapFacts
<1>6. /\ iQueueAddress' = iQueueAddress + (size \div CPU_BYTES)
      /\ iQueueAddress' \in 0 .. QUEUE_HEAP_SIZE \div CPU_BYTES
      /\ iQueueAddress <= iQueueAddress'
      /\ iQueueAddress' * CPU_BYTES = start + size
  <2>1. iQueueAddress + (size \div CPU_BYTES) < 65536
    BY <1>3, <1>5, QueueConstants DEF SizesFit
  <2>2. iQueueAddress' = iQueueAddress + (size \div CPU_BYTES)
    BY <1>3, <1>5, <2>1
  <2>3. size \div CPU_BYTES \in Nat
    BY <1>5, QueueConstants
  <2> QED
    BY <1>3, <1>5, <2>2, <2>3, QueueConstants
<1>7. ASSUME NEW d \in ObjectId \ {e}, OSEventAllocated[d]
      PROVE  OSQEnd(d) <= start \/ start + size <= OSQStart[d]
  <2>1. Ring(d) /\ OSQStart[d] \in Nat
    BY <1>7 DEF RingInv, RingTypes
  <2> QED
    BY <1>0, <1>5, <2>1, QueueConstants DEF Ring
<1>8. 1 \in ElementSizes /\ size * 1 = size
  BY <1>5 DEF ElementSizes
<1>9. start + size <= QUEUE_HEAP_SIZE + ALLOC_BYTES
  BY <1>5, QueueConstants
<1>10. NewRing(e, start, size * 1, 1, size)
  BY <1>0, <1>1, <1>8
<1>11. /\ start + size * 1 <= QUEUE_HEAP_SIZE + ALLOC_BYTES
       /\ e \notin dynamic => start + size * 1 <= iQueueAddress' * CPU_BYTES
       /\ e \in dynamic => start >= QUEUE_HEAP_SIZE
       /\ \A d \in ObjectId \ {e} : OSEventAllocated[d] =>
            OSQEnd(d) <= start \/ start + size * 1 <= OSQStart[d]
  BY <1>5, <1>6, <1>7, <1>8, <1>9
<1>12. e \in ObjectId /\ start \in Nat /\ size \in INT16U \ {0}
  BY <1>2, <1>5
<1> QED
  BY <1>4, <1>6, <1>8, <1>10, <1>11, <1>12, CreationIsCreate

\* Two ranges of addresses without a common element.
LEMMA DisjointRanges ==
  ASSUME NEW a \in Nat, NEW b \in Nat, NEW m \in Nat \ {0}, NEW n \in Nat \ {0},
         (a .. a + m - 1) \cap (b .. b + n - 1) = {}
  PROVE  b + n <= a \/ a + m <= b
<1>1. CASE a <= b
  <2>1. b \in b .. b + n - 1
    OBVIOUS
  <2>2. b \notin a .. a + m - 1
    BY <2>1
  <2> QED
    BY <1>1, <2>2
<1>2. CASE b <= a
  <2>1. a \in a .. a + m - 1
    OBVIOUS
  <2>2. a \notin b .. b + n - 1
    BY <2>1
  <2> QED
    BY <1>2, <2>2
<1> QED
  BY <1>1, <1>2

\* OSDQueueCreate.
LEMMA CreateDynamicIsCreate ==
  ASSUME SizesFit, QueueInv, RingInv, NEW s \in DynamicSizes,
         OSDQueueCreate(s[1], s[2])
  PROVE  RingInv' /\ F!Next
<1> DEFINE n == s[1] * s[2]
<1>1. s[1] \in INT16U \ {0} /\ s[2] \in INT16U \ {0} /\ s[2] \in ElementSizes
  BY QueueAssumption DEF ElementSizes
<1>2. s[1] \in Nat \ {0} /\ s[2] \in Nat \ {0}
  BY <1>1 DEF INT16U
<1>3. n \in Nat \ {0}
  BY <1>2, Products
<1>4. SizeInBytes(s[1], s[2]) = n
  <2>1. n < 65536
    BY DEF SizesFit
  <2> QED
    BY <1>3, <2>1 DEF SizeInBytes
<1> HIDE DEF n
<1>5. PICK e \in dynamic :
        /\ ~OSEventAllocated[e]
        /\ NewWaitList(e, TRUE)
        /\ NewDynamicRing(e, n, s[2], s[1])
  BY <1>4 DEF OSDQueueCreate
<1>6. e \in ObjectId
  BY DEF QueueInv
<1>7. PICK start \in Address : /\ Allocates(start, n)
                               /\ NewRing(e, start, n, s[2], s[1])
  BY <1>5 DEF NewDynamicRing
<1>8. /\ start \in Nat /\ start >= QUEUE_HEAP_SIZE
      /\ start + n <= QUEUE_HEAP_SIZE + ALLOC_BYTES
  <2>1. start \in start .. start + n - 1 /\ start + n - 1 \in start .. start + n - 1
    BY <1>3 DEF Address
  <2>2. /\ start \in Address /\ start \notin 0 .. QUEUE_HEAP_SIZE - 1
        /\ start + n - 1 \in Address
    BY <1>7, <2>1 DEF Allocates
  <2> QED
    BY <1>3, <2>2, QueueConstants DEF Address
<1>9. ASSUME NEW d \in ObjectId \ {e}, OSEventAllocated[d]
      PROVE  OSQEnd(d) <= start \/ start + n <= OSQStart[d]
  <2>1. /\ Ring(d) /\ OSQStart[d] \in Nat /\ OSQEnd(d) = OSQStart[d] + OSQSize[d]
        /\ OSQLength[d] \in Nat \ {0} /\ OSQTSize[d] \in Nat \ {0}
        /\ OSQSize[d] = OSQLength[d] * OSQTSize[d]
    BY <1>9, RingNumbers DEF RingInv, OSQEnd
  <2>2. OSQSize[d] \in Nat \ {0}
    <3>1. PICK l \in Nat \ {0}, c \in Nat \ {0} : OSQSize[d] = l * c
      BY <2>1
    <3>2. l * c \in Nat /\ 1 * c <= l * c
      BY Products
    <3> QED
      BY <3>1, <3>2
  <2>3. CASE d \in dynamic
    <3>1. (start .. start + n - 1) \cap (OSQStart[d] .. OSQStart[d] + OSQSize[d] - 1) = {}
      BY <1>7, <1>9, <2>1, <2>3 DEF Allocates
    <3> QED
      BY <1>3, <1>8, <2>1, <2>2, <3>1, DisjointRanges
  <2>4. CASE d \notin dynamic
    <3>1. OSQEnd(d) <= iQueueAddress * CPU_BYTES
      BY <2>1, <2>4 DEF Ring
    <3>2. iQueueAddress * CPU_BYTES <= (QUEUE_HEAP_SIZE \div CPU_BYTES) * CPU_BYTES
      <4>1. /\ iQueueAddress \in Nat
            /\ iQueueAddress <= QUEUE_HEAP_SIZE \div CPU_BYTES
        BY QueueConstants DEF RingInv, RingTypes
      <4> QED
        BY <4>1, QueueConstants, Products
    <3>3. iQueueAddress * CPU_BYTES \in Nat
      BY QueueConstants, Products DEF RingInv, RingTypes
    <3> QED
      BY <1>8, <2>1, <2>2, <3>1, <3>2, <3>3, QueueConstants
  <2> QED
    BY <2>3, <2>4
<1>10. UNCHANGED iQueueAddress
  BY DEF OSDQueueCreate
<1>11. /\ iQueueAddress' \in 0 .. QUEUE_HEAP_SIZE \div CPU_BYTES
       /\ iQueueAddress <= iQueueAddress'
  BY <1>10, QueueConstants DEF RingInv, RingTypes
<1> QED
  BY <1>1, <1>5, <1>6, <1>7, <1>8, <1>9, <1>11, CreationIsCreate DEF n

\* A deletion.
LEMMA DeleteIsDelete ==
  ASSUME QueueInv, RingInv, NEW e \in ObjectId, OSDQueueDelete(e)
  PROVE  RingInv' /\ F!Next
<1>1. /\ NewRing(e, 0, 0, 0, 0)
      /\ NewWaitList(e, FALSE)
      /\ UNCHANGED iQueueAddress
  BY DEF OSDQueueDelete, DeleteEvent
<1>2. 0 \in INT16U
  BY DEF INT16U
<1>3. /\ iQueueAddress' \in 0 .. QUEUE_HEAP_SIZE \div CPU_BYTES
      /\ iQueueAddress <= iQueueAddress'
  BY <1>1, QueueConstants DEF RingInv, RingTypes
<1>4. /\ RingTypes'
      /\ \A d \in ObjectId \ {e} : SameRing(d)
      /\ OSQStart'[e] = 0 /\ OSQSize'[e] = 0 /\ OSQTSize'[e] = 0
      /\ OSQLength'[e] = 0 /\ OSQEntries'[e] = 0
      /\ OSQIn'[e] = 0 /\ OSQOut'[e] = 0
      /\ UNCHANGED <<memory, pdata, dynamic>>
  <2> HIDE DEF INT16U
  <2> QED
    BY <1>1, <1>2, <1>3, NewRingFacts
<1>5. /\ ~OSEventAllocated'[e]
      /\ \A d \in ObjectId \ {e} : OSEventAllocated'[d] = OSEventAllocated[d]
  BY <1>1, NewWaitListFacts
<1>6. NoRing(e)'
  BY <1>4 DEF NoRing
<1>7. RingInv'
  BY <1>3, <1>4, <1>5, <1>6, RingInvFrom
<1>8. F!Delete(e)
  <2>1. OSQLength' = [OSQLength EXCEPT ![e] = 0]
    BY <1>1 DEF NewRing
  <2>2. [d \in ObjectId |-> Contents(d)]'
           = [[d \in ObjectId |-> Contents(d)] EXCEPT ![e] = <<>>]
    BY <1>4, NewRingContents
  <2> QED
    BY <1>4, <2>1, <2>2 DEF F!Delete
<1> QED
  BY <1>7, <1>8 DEF F!Next

-----------------------------------------------------------------------------
(* Steps that keep the rings, and OSQueueClean *)

\* Steps of the kernel, the waits and the timeouts.
LEMMA SameIsStutter ==
  ASSUME QueueInv, RingInv, SameRings
  PROVE  RingInv' /\ UNCHANGED F!vars
<1>1. /\ UNCHANGED <<memory, iQueueAddress, OSQStart, OSQSize, OSQTSize,
                     OSQLength, OSQEntries, OSQIn, OSQOut, pdata, dynamic>>
      /\ UNCHANGED OSEventAllocated
  BY DEF SameRings, queueVars
<1>2. RingInv'
  BY <1>1 DEF RingInv, RingTypes, Ring, NoRing, Apart, Pointers, OSQEnd
<1>3. \A d \in ObjectId : Contents(d)' = Contents(d)
  BY <1>1 DEF Contents, ElementAt, BytesAt, OSQEnd
<1> QED
  BY <1>1, <1>2, <1>3 DEF F!vars

\* OSQueueClean and OSDQueueClean.
LEMMA CleanIsClean ==
  ASSUME QueueInv, RingInv, NEW e \in ObjectId, Clean(e),
         UNCHANGED OSEventAllocated
  PROVE  RingInv' /\ F!Next
<1>1. /\ OSEventAllocated[e]
      /\ OSQEntries' = [OSQEntries EXCEPT ![e] = 0]
      /\ OSQIn' = [OSQIn EXCEPT ![e] = OSQStart[e]]
      /\ OSQOut' = [OSQOut EXCEPT ![e] = OSQStart[e]]
      /\ UNCHANGED <<memory, iQueueAddress, OSQStart, OSQSize, OSQTSize,
                     OSQLength, pdata, dynamic>>
  BY DEF Clean
<1>2. RingTypes'
  BY <1>1 DEF RingInv, RingTypes
<1>3. /\ \A d \in ObjectId \ {e} : SameRing(d)
      /\ OSQEntries'[e] = 0 /\ OSQIn'[e] = OSQStart[e] /\ OSQOut'[e] = OSQStart[e]
  BY <1>1 DEF RingInv, RingTypes, QueueInv, SameRing
<1>4. Ring(e)'
  <2>1. Ring(e)
    BY <1>1 DEF RingInv
  <2>2. Pointers(e, 0, 0)'
    <3>1. /\ OSQStart[e] \in Nat /\ OSQTSize[e] \in Nat /\ OSQLength[e] \in Nat
      BY <1>1, RingNumbers
    <3>2. 0 * OSQTSize[e] = 0
      BY <3>1
    <3> QED
      BY <1>1, <1>3, <3>1, <3>2 DEF Pointers
  <2>3. 0 \in 0 .. OSQLength[e]
    BY <1>1, RingNumbers
  <2> QED
    BY <1>1, <2>1, <2>2, <2>3 DEF Ring, OSQEnd
<1>5. \A d \in ObjectId \ {e} : OSEventAllocated[d] => Apart(d, e)'
  BY <1>1 DEF RingInv, Apart, OSQEnd
<1>6. iQueueAddress <= iQueueAddress'
  BY <1>1, QueueConstants DEF RingInv, RingTypes
<1>7. RingInv'
  BY <1>1, <1>2, <1>3, <1>4, <1>5, <1>6, RingInvFrom
<1>8. F!Clean(e)
  BY <1>1, <1>3, NewRingContents DEF F!Clean
<1> QED
  BY <1>7, <1>8 DEF F!Next

-----------------------------------------------------------------------------
(* Writes *)

\* The pointer's place n, taken once around.
LEMMA WrappedPlace ==
  ASSUME QueueInv, RingInv, NEW e \in ObjectId, OSEventAllocated[e],
         NEW n \in 0 .. OSQLength[e], NEW pointer,
         pointer = OSQStart[e] + n * OSQTSize[e]
  PROVE  Wrapped(e, pointer)
           = OSQStart[e] + (IF n = OSQLength[e] THEN 0 ELSE n) * OSQTSize[e]
<1>1. PICK start \in Nat, l \in Nat \ {0}, c \in Nat \ {0} :
        /\ start = OSQStart[e] /\ l = OSQLength[e] /\ c = OSQTSize[e]
  BY RingNumbers
<1>2. OSQEnd(e) = start + l * c
  BY <1>1, RingNumbers
<1>3. pointer = start + n * c /\ n \in 0 .. l
  BY <1>1
<1>4. l * c \in Nat /\ n * c \in Nat
  BY <1>3, Products
<1>5. CASE n = l
  <2>1. 0 * c = 0
    OBVIOUS
  <2> QED
    BY <1>1, <1>2, <1>3, <1>4, <1>5, <2>1 DEF Wrapped
<1>6. CASE n # l
  <2>1. n * c + c <= l * c
    BY <1>3, <1>6, Products
  <2> QED
    BY <1>1, <1>2, <1>3, <1>4, <1>6, <2>1 DEF Wrapped
<1> QED
  BY <1>5, <1>6

\* The place of the first element read and of the next one written.
LEMMA EndsOfRing ==
  ASSUME QueueInv, RingInv, NEW e \in ObjectId, OSEventAllocated[e],
         NEW o \in 0 .. OSQLength[e], NEW n \in 0 .. OSQLength[e],
         Pointers(e, o, n)
  PROVE  /\ Wrapped(e, OSQOut[e])
              = OSQStart[e] + Turn(OSQLength[e], o, 1) * OSQTSize[e]
         /\ OSQEntries[e] < OSQLength[e] =>
              Wrapped(e, OSQIn[e])
                = OSQStart[e]
                    + Turn(OSQLength[e], o, OSQEntries[e] + 1) * OSQTSize[e]
<1>1. PICK l \in Nat \ {0}, m \in Nat :
        l = OSQLength[e] /\ m = OSQEntries[e] /\ m <= l
  BY RingNumbers
<1>2. /\ OSQOut[e] = OSQStart[e] + o * OSQTSize[e]
      /\ OSQIn[e] = OSQStart[e] + n * OSQTSize[e]
      /\ o + m = n \/ o + m = n + l
      /\ o \in 0 .. l /\ n \in 0 .. l
  BY <1>1 DEF Pointers
<1>3. Turn(l, o, 1) = IF o = l THEN 0 ELSE o
  BY <1>1, <1>2 DEF Turn
<1>4. m < l => Turn(l, o, m + 1) = IF n = l THEN 0 ELSE n
  BY <1>1, <1>2 DEF Turn
<1>5. Wrapped(e, OSQOut[e])
        = OSQStart[e] + (IF o = OSQLength[e] THEN 0 ELSE o) * OSQTSize[e]
  BY <1>2, WrappedPlace
<1>6. Wrapped(e, OSQIn[e])
        = OSQStart[e] + (IF n = OSQLength[e] THEN 0 ELSE n) * OSQTSize[e]
  BY <1>2, WrappedPlace
<1> QED
  BY <1>1, <1>3, <1>4, <1>5, <1>6

\* The memory after n bytes were stored at in.
LEMMA StoredBytes ==
  ASSUME NEW in \in Nat, NEW n \in Nat \ {0}, NEW data,
         in + n <= QUEUE_HEAP_SIZE + ALLOC_BYTES,
         memory' = Stored(in, Bytes(data, n))
  PROVE  /\ \A a \in Address : a < in \/ in + n <= a => memory'[a] = memory[a]
         /\ \A k \in 1 .. n : memory'[in + k - 1] = <<data, k>>
         /\ BytesAt(in, n)' = Bytes(data, n)
<1>1. Len(Bytes(data, n)) = n
  BY DEF Bytes
<1>2. \A a \in Address :
        memory'[a] = IF a \in in .. in + n - 1
                     THEN Bytes(data, n)[a - in + 1] ELSE memory[a]
  BY <1>1 DEF Stored
<1>3. \A a \in Address : a < in \/ in + n <= a => memory'[a] = memory[a]
  BY <1>2, QueueConstants DEF Address
<1>4. ASSUME NEW k \in 1 .. n
      PROVE  memory'[in + k - 1] = <<data, k>>
  <2>1. in + k - 1 \in Address /\ in + k - 1 \in in .. in + n - 1
    BY QueueConstants DEF Address
  <2>2. (in + k - 1) - in + 1 = k
    OBVIOUS
  <2> QED
    BY <1>2, <2>1, <2>2 DEF Bytes
<1>5. BytesAt(in, n)' = Bytes(data, n)
  BY <1>4 DEF BytesAt, Bytes
<1> QED
  BY <1>3, <1>4, <1>5

\* The element goes behind the last one.
LEMMA WriteRing ==
  ASSUME QueueInv, RingInv, NEW e \in ObjectId, OSEventAllocated[e],
         NEW data, Write(e, data),
         NEW o \in 0 .. OSQLength[e], NEW n \in 0 .. OSQLength[e],
         Pointers(e, o, n)
  PROVE  /\ OSQEntries'[e] = OSQEntries[e] + 1 /\ OSQEntries[e] < OSQLength[e]
         /\ memory' = Stored(ElementAt(e, OSQEntries[e] + 1),
                             Bytes(data, OSQTSize[e]))
         /\ \A d \in ObjectId \ {e} : SameRing(d)
         /\ Ring(e)'
         /\ UNCHANGED <<iQueueAddress, OSQStart, OSQSize, OSQTSize, OSQLength,
                        OSQOut, pdata, dynamic>>
<1>1. /\ OSQEntries[e] < OSQLength[e]
      /\ OSQEntries' = [OSQEntries EXCEPT ![e] = OSQEntries[e] + 1]
      /\ memory' = Stored(Wrapped(e, OSQIn[e]), Bytes(data, OSQTSize[e]))
      /\ OSQIn' = [OSQIn EXCEPT ![e] = Wrapped(e, OSQIn[e]) + OSQTSize[e]]
      /\ UNCHANGED <<iQueueAddress, OSQStart, OSQSize, OSQTSize, OSQLength,
                     OSQOut, pdata, dynamic>>
  BY DEF Write
<1>2. PICK l \in Nat \ {0}, c \in Nat \ {0}, start \in Nat, m \in Nat :
        /\ l = OSQLength[e] /\ c = OSQTSize[e] /\ start = OSQStart[e]
        /\ m = OSQEntries[e] /\ m < l
  BY <1>1, RingNumbers
<1>3. PICK k \in 0 .. l - 1 :
        /\ k = Turn(l, o, m + 1)
        /\ ElementAt(e, m + 1) = start + k * c
  <2>1. m + 1 \in 1 .. OSQLength[e]
    BY <1>2
  <2>2. /\ Turn(OSQLength[e], o, m + 1) \in 0 .. OSQLength[e] - 1
        /\ ElementAt(e, m + 1)
             = OSQStart[e] + Turn(OSQLength[e], o, m + 1) * OSQTSize[e]
    BY <2>1, ElementPlace
  <2> QED
    BY <1>2, <2>2
<1>4. Wrapped(e, OSQIn[e]) = start + k * c
  BY <1>1, <1>2, <1>3, EndsOfRing
<1>5. \A d \in ObjectId \ {e} : SameRing(d)
  BY <1>1 DEF RingInv, RingTypes, QueueInv, SameRing
<1>6. OSQEntries'[e] = m + 1 /\ OSQIn'[e] = start + k * c + c
  BY <1>1, <1>2, <1>4 DEF RingInv, RingTypes, QueueInv
<1>7. Pointers(e, o, k + 1)'
  <2>1. k * c \in Nat /\ (k + 1) * c = k * c + c
    BY <1>2, <1>3, Products
  <2>2. OSQIn'[e] = start + (k + 1) * c
    BY <1>6, <2>1
  <2>3. OSQOut'[e] = start + o * c
    BY <1>1, <1>2 DEF Pointers
  <2>4. o + (m + 1) = k + 1 \/ o + (m + 1) = k + 1 + l
    BY <1>2, <1>3 DEF Turn
  <2> QED
    BY <1>1, <1>2, <1>6, <2>2, <2>3, <2>4 DEF Pointers
<1>8. Ring(e)'
  <2>1. Ring(e)
    BY DEF RingInv
  <2>2. o \in 0 .. l /\ k + 1 \in 0 .. l
    BY <1>2, <1>3
  <2> QED
    BY <1>1, <1>2, <1>7, <2>1, <2>2 DEF Ring, OSQEnd
<1> QED
  BY <1>1, <1>2, <1>3, <1>4, <1>5, <1>6, <1>8

\* Sequences written as functions.
LEMMA AppendedSequence ==
  ASSUME NEW n \in Nat, NEW s, s = [i \in 1 .. n |-> s[i]], NEW x
  PROVE  Append(s, x) = [i \in 1 .. n + 1 |-> IF i <= n THEN s[i] ELSE x]
<1>1. s \in Seq({s[i] : i \in 1 .. n}) /\ Len(s) = n
  OBVIOUS
<1> QED
  BY <1>1

\* Every other element stays what it is.
LEMMA WriteContents ==
  ASSUME QueueInv, RingInv, NEW e \in ObjectId, OSEventAllocated[e],
         NEW data, Write(e, data)
  PROVE  /\ \A d \in ObjectId \ {e} : Contents(d)' = Contents(d)
         /\ Contents(e)' = Append(Contents(e), Bytes(data, OSQTSize[e]))
<1>1. PICK o \in 0 .. OSQLength[e], n \in 0 .. OSQLength[e] : Pointers(e, o, n)
  BY DEF RingInv, Ring
<1>2. /\ OSQEntries'[e] = OSQEntries[e] + 1 /\ OSQEntries[e] < OSQLength[e]
      /\ memory' = Stored(ElementAt(e, OSQEntries[e] + 1),
                          Bytes(data, OSQTSize[e]))
      /\ \A d \in ObjectId \ {e} : SameRing(d)
      /\ UNCHANGED <<OSQStart, OSQSize, OSQTSize, OSQOut>>
  BY <1>1, WriteRing
<1>3. PICK l \in Nat \ {0}, c \in Nat \ {0}, start \in Nat, m \in Nat :
        /\ l = OSQLength[e] /\ c = OSQTSize[e] /\ start = OSQStart[e]
        /\ m = OSQEntries[e] /\ m < l
        /\ OSQEnd(e) = start + l * c
        /\ OSQEnd(e) <= QUEUE_HEAP_SIZE + ALLOC_BYTES
  <2>1. /\ OSQStart[e] \in Nat /\ OSQTSize[e] \in Nat \ {0}
        /\ OSQLength[e] \in Nat \ {0} /\ OSQEntries[e] \in Nat
        /\ OSQEnd(e) = OSQStart[e] + OSQLength[e] * OSQTSize[e]
        /\ OSQEnd(e) <= QUEUE_HEAP_SIZE + ALLOC_BYTES
    BY RingNumbers
  <2> QED
    BY <1>2, <2>1
<1>4. \A i \in 1 .. l : /\ Turn(l, o, i) \in 0 .. l - 1
                        /\ ElementAt(e, i) = start + Turn(l, o, i) * c
                        /\ ElementAt(e, i) \in Nat
                        /\ start <= ElementAt(e, i)
                        /\ ElementAt(e, i) + c <= OSQEnd(e)
  BY <1>1, <1>3, ElementPlace
<1>5. PICK in \in Nat : in = ElementAt(e, m + 1)
  BY <1>3, <1>4
<1>6. /\ start <= in /\ in + c <= start + l * c
      /\ in + c <= QUEUE_HEAP_SIZE + ALLOC_BYTES
  <2>1. l * c \in Nat
    BY Products
  <2>2. m + 1 \in 1 .. l
    BY <1>3
  <2>3. start <= in /\ in + c <= OSQEnd(e)
    BY <1>4, <1>5, <2>2
  <2> QED
    BY <1>3, <2>1, <2>3, QueueConstants
<1>7. /\ \A a \in Address : a < in \/ in + c <= a => memory'[a] = memory[a]
      /\ BytesAt(in, c)' = Bytes(data, c)
  BY <1>2, <1>3, <1>5, <1>6, StoredBytes
<1>8. ASSUME NEW d \in ObjectId \ {e}
      PROVE  Contents(d)' = Contents(d)
  <2>1. ASSUME OSEventAllocated[d], NEW a \in OSQStart[d] .. OSQEnd(d) - 1
        PROVE  memory'[a] = memory[a]
    <3>1. /\ OSQStart[d] \in Nat /\ OSQEnd(d) \in Nat
          /\ OSQEnd(d) <= QUEUE_HEAP_SIZE + ALLOC_BYTES
      <4>1. /\ OSQStart[d] \in Nat /\ OSQSize[d] \in Nat
            /\ OSQEnd(d) <= QUEUE_HEAP_SIZE + ALLOC_BYTES
        BY <2>1, RingNumbers
      <4> QED
        BY <4>1 DEF OSQEnd
    <3>2. Apart(d, e)
      BY <2>1 DEF RingInv
    <3>3. OSQEnd(d) <= start \/ start + l * c <= OSQStart[d]
      BY <1>3, <3>2 DEF Apart
    <3>4. l * c \in Nat
      BY Products
    <3>5. a < in \/ in + c <= a
      BY <1>6, <3>1, <3>3, <3>4
    <3>6. a \in Address
      BY <3>1, QueueConstants DEF Address
    <3> QED
      BY <1>7, <3>5, <3>6
  <2> QED
    BY <1>2, <2>1, SameContents DEF SameRing
<1>9. \A i : ElementAt(e, i)' = ElementAt(e, i)
  BY <1>2 DEF ElementAt, OSQEnd
<1>10. ASSUME NEW i \in 1 .. m
       PROVE  BytesAt(ElementAt(e, i), c)' = BytesAt(ElementAt(e, i), c)
  <2>1. PICK p \in 0 .. l - 1, q \in 0 .. l - 1 :
          /\ p = Turn(l, o, i) /\ q = Turn(l, o, m + 1)
          /\ ElementAt(e, i) = start + p * c /\ in = start + q * c
    <3>1. i \in 1 .. l /\ m + 1 \in 1 .. l
      BY <1>3
    <3> QED
      BY <1>4, <1>5, <3>1
  <2>2. p # q
    BY <1>1, <1>3, <2>1 DEF Turn
  <2>3. p * c + c <= q * c \/ q * c + c <= p * c
    BY <2>2, PlacesApart
  <2>4. p * c \in Nat /\ q * c \in Nat
    BY Products
  <2>5. PICK x \in Nat : x = ElementAt(e, i) /\ (x + c <= in \/ in + c <= x)
    BY <2>1, <2>3, <2>4
  <2>6. x + c <= QUEUE_HEAP_SIZE + ALLOC_BYTES
    BY <1>3, <1>4, <2>5, QueueConstants
  <2>7. ASSUME NEW k \in 1 .. c PROVE memory'[x + k - 1] = memory[x + k - 1]
    <3>1. x + k - 1 \in Address
      BY <2>6, QueueConstants DEF Address
    <3>2. x + k - 1 < in \/ in + c <= x + k - 1
      BY <2>5
    <3> QED
      BY <1>7, <3>1, <3>2
  <2>8. BytesAt(ElementAt(e, i), c)' = [k \in 1 .. c |-> memory'[x + k - 1]]
    BY <1>9, <2>5 DEF BytesAt
  <2> QED
    BY <2>5, <2>7, <2>8 DEF BytesAt
<1>11. Contents(e)' = Append(Contents(e), Bytes(data, c))
  <2>0. PICK x, s : x = Bytes(data, c) /\ s = Contents(e)
    OBVIOUS
  <2>1. /\ Contents(e) = [i \in 1 .. m |-> BytesAt(ElementAt(e, i), c)]
        /\ Contents(e)' = [i \in 1 .. m + 1 |-> BytesAt(ElementAt(e, i), c)']
    BY <1>2, <1>3 DEF Contents
  <2>2. BytesAt(ElementAt(e, m + 1), c)' = x
    BY <1>5, <1>7, <1>9, <2>0 DEF BytesAt
  <2>3. Contents(e)' = [i \in 1 .. m + 1 |->
                          IF i <= m THEN s[i] ELSE x]
    BY <1>10, <2>0, <2>1, <2>2
  <2>4. s = [i \in 1 .. m |-> s[i]]
    BY <2>0, <2>1
  <2>5. Append(s, x) = [i \in 1 .. m + 1 |-> IF i <= m THEN s[i] ELSE x]
    BY <2>4, AppendedSequence
  <2> QED
    BY <2>0, <2>3, <2>5
<1> QED
  BY <1>3, <1>8, <1>11

\* OSQEntries counts the contents.
LEMMA ContentsLength ==
  ASSUME QueueInv, NEW e \in ObjectId
  PROVE  Len(Contents(e)) = OSQEntries[e]
<1>1. OSQEntries[e] \in Nat
  BY DEF QueueInv, INT16U
<1> QED
  BY <1>1 DEF Contents

\* Post, PostISR and OSWQueue.
LEMMA WriteIsPut ==
  ASSUME QueueInv, RingInv, NEW e \in ObjectId, OSEventAllocated[e],
         NEW data \in Data, Write(e, data), UNCHANGED OSEventAllocated
  PROVE  RingInv' /\ F!Next
<1>1. PICK o \in 0 .. OSQLength[e], n \in 0 .. OSQLength[e] : Pointers(e, o, n)
  BY DEF RingInv, Ring
<1>2. /\ OSQEntries[e] < OSQLength[e]
      /\ memory' = Stored(ElementAt(e, OSQEntries[e] + 1),
                          Bytes(data, OSQTSize[e]))
      /\ \A d \in ObjectId \ {e} : SameRing(d)
      /\ Ring(e)'
      /\ UNCHANGED <<iQueueAddress, OSQStart, OSQSize, OSQTSize, OSQLength,
                     OSQOut, pdata, dynamic>>
  BY <1>1, WriteRing
<1>3. PICK c \in Nat \ {0} : c = OSQTSize[e]
  BY RingNumbers
<1>4. PICK in \in Nat : /\ in = ElementAt(e, OSQEntries[e] + 1)
                        /\ in + c <= QUEUE_HEAP_SIZE + ALLOC_BYTES
                        /\ Wrapped(e, OSQIn[e]) = in
  <2>1. /\ OSQEntries[e] + 1 \in 1 .. OSQLength[e]
        /\ OSQEnd(e) <= QUEUE_HEAP_SIZE + ALLOC_BYTES
        /\ OSQEnd(e) \in Nat
    BY <1>2, RingNumbers, Products
  <2>2. /\ ElementAt(e, OSQEntries[e] + 1) \in Nat
        /\ ElementAt(e, OSQEntries[e] + 1) + OSQTSize[e] <= OSQEnd(e)
        /\ ElementAt(e, OSQEntries[e] + 1)
             = OSQStart[e]
                 + Turn(OSQLength[e], o, OSQEntries[e] + 1) * OSQTSize[e]
    BY <1>1, <2>1, ElementPlace
  <2>3. Wrapped(e, OSQIn[e]) = ElementAt(e, OSQEntries[e] + 1)
    BY <1>1, <1>2, <2>2, EndsOfRing
  <2> QED
    BY <1>3, <2>1, <2>2, <2>3, QueueConstants
<1>5. RingTypes'
  <2>1. \A a \in Address : memory'[a] \in Byte
    <3> SUFFICES ASSUME NEW a \in Address PROVE memory'[a] \in Byte
      OBVIOUS
    <3>1. /\ a < in \/ in + c <= a => memory'[a] = memory[a]
          /\ \A k \in 1 .. c : memory'[in + k - 1] = <<data, k>>
      BY <1>2, <1>3, <1>4, StoredBytes
    <3>2. CASE a < in \/ in + c <= a
      BY <3>1, <3>2 DEF RingInv, RingTypes
    <3>3. CASE ~(a < in \/ in + c <= a)
      <4>1. PICK k \in 1 .. c : in + k - 1 = a
        <5>1. a - in + 1 \in 1 .. c /\ in + (a - in + 1) - 1 = a
          BY <3>3, QueueConstants DEF Address
        <5> QED
          BY <5>1
      <4>2. memory'[a] = <<data, k>>
        BY <3>1, <4>1
      <4>3. <<data, k>> \in Data \X Nat
        OBVIOUS
      <4> QED
        BY <4>2, <4>3 DEF Byte
    <3> QED
      BY <3>2, <3>3
  <2>2. OSQIn' = [OSQIn EXCEPT ![e] = in + c]
    BY <1>3, <1>4 DEF Write
  <2> QED
    BY <1>2, <2>1, <2>2 DEF RingInv, RingTypes
<1>6. \A d \in ObjectId \ {e} : OSEventAllocated[d] => Apart(d, e)'
  BY <1>2 DEF RingInv, Apart, OSQEnd
<1>7. iQueueAddress <= iQueueAddress'
  BY <1>2, QueueConstants DEF RingInv, RingTypes
<1>8. RingInv'
  BY <1>2, <1>5, <1>6, <1>7, RingInvFrom
<1>9. F!Put(e, Bytes(data, OSQTSize[e]))
  <2>1. /\ \A d \in ObjectId \ {e} : Contents(d)' = Contents(d)
        /\ Contents(e)' = Append(Contents(e), Bytes(data, OSQTSize[e]))
    BY WriteContents
  <2>2. [d \in ObjectId |-> Contents(d)]'
          = [[d \in ObjectId |-> Contents(d)] EXCEPT
               ![e] = Append(Contents(e), Bytes(data, OSQTSize[e]))]
    BY <2>1
  <2>3. Len(Contents(e)) < OSQLength[e]
    BY <1>2, ContentsLength
  <2> QED
    BY <1>2, <2>2, <2>3 DEF F!Put
<1>10. Bytes(data, OSQTSize[e]) \in Elements
  BY DEF RingInv, Ring, ElementSizes, Elements
<1> QED
  BY <1>8, <1>9, <1>10 DEF F!Next

-----------------------------------------------------------------------------
(* Reads *)

\* The first element is taken and the others stay.
LEMMA ReadRing ==
  ASSUME QueueInv, RingInv, NEW e \in ObjectId, OSEventAllocated[e],
         NEW t \in Task, OSQEntries[e] > 0, Read(t, e),
         NEW o \in 0 .. OSQLength[e], NEW n \in 0 .. OSQLength[e],
         Pointers(e, o, n)
  PROVE  /\ OSQEntries'[e] = OSQEntries[e] - 1
         /\ pdata' = [pdata EXCEPT ![t] = BytesAt(ElementAt(e, 1), OSQTSize[e])]
         /\ \A d \in ObjectId \ {e} : SameRing(d)
         /\ Turn(OSQLength[e], o, 1) + 1 \in 0 .. OSQLength[e]
         /\ Pointers(e, Turn(OSQLength[e], o, 1) + 1, n)'
         /\ OSQOut'[e] = OSQStart[e]
                           + (Turn(OSQLength[e], o, 1) + 1) * OSQTSize[e]
         /\ OSQOut' \in [ObjectId -> Nat]
         /\ UNCHANGED <<memory, iQueueAddress, OSQStart, OSQSize, OSQTSize,
                        OSQLength, OSQIn, dynamic>>
<1>1. /\ pdata' = [pdata EXCEPT ![t] = BytesAt(Wrapped(e, OSQOut[e]), OSQTSize[e])]
      /\ OSQOut' = [OSQOut EXCEPT ![e] = Wrapped(e, OSQOut[e]) + OSQTSize[e]]
      /\ OSQEntries' = [OSQEntries EXCEPT ![e] = (OSQEntries[e] - 1) % 65536]
      /\ UNCHANGED <<memory, iQueueAddress, OSQStart, OSQSize, OSQTSize,
                     OSQLength, OSQIn, dynamic>>
  BY DEF Read
<1>2. PICK l \in Nat \ {0}, c \in Nat \ {0}, start \in Nat, m \in Nat \ {0} :
        /\ l = OSQLength[e] /\ c = OSQTSize[e] /\ start = OSQStart[e]
        /\ m = OSQEntries[e] /\ m <= l /\ m < 65536
  <2>1. OSQEntries[e] < 65536
    BY DEF QueueInv, INT16U
  <2> QED
    BY <2>1, RingNumbers
<1>3. PICK k \in 0 .. l - 1 :
        /\ k = Turn(l, o, 1)
        /\ ElementAt(e, 1) = start + k * c
  <2>1. 1 \in 1 .. OSQLength[e]
    BY <1>2
  <2>2. /\ Turn(OSQLength[e], o, 1) \in 0 .. OSQLength[e] - 1
        /\ ElementAt(e, 1)
             = OSQStart[e] + Turn(OSQLength[e], o, 1) * OSQTSize[e]
    BY <2>1, ElementPlace
  <2> QED
    BY <1>2, <2>2
<1>4. Wrapped(e, OSQOut[e]) = start + k * c
  BY <1>2, <1>3, EndsOfRing
<1>5. \A d \in ObjectId \ {e} : SameRing(d)
  BY <1>1 DEF RingInv, RingTypes, QueueInv, SameRing
<1>6. OSQEntries'[e] = m - 1
  <2>1. (m - 1) % 65536 = m - 1
    BY <1>2
  <2> QED
    BY <1>1, <1>2, <2>1 DEF QueueInv
<1>7. k * c \in Nat /\ (k + 1) * c = k * c + c
  BY <1>2, <1>3, Products
<1>8. OSQOut'[e] = start + (k + 1) * c /\ OSQOut' \in [ObjectId -> Nat]
  <2>1. OSQOut' = [OSQOut EXCEPT ![e] = start + k * c + c]
    BY <1>1, <1>2, <1>4
  <2>2. start + k * c + c = start + (k + 1) * c /\ start + k * c + c \in Nat
    BY <1>7
  <2>3. OSQOut \in [ObjectId -> Nat]
    BY DEF RingInv, RingTypes
  <2> QED
    BY <2>1, <2>2, <2>3, Zenon
<1>9. Pointers(e, k + 1, n)'
  <2>1. OSQIn'[e] = start + n * c
    BY <1>1, <1>2 DEF Pointers
  <2>2. k + 1 + (m - 1) = n \/ k + 1 + (m - 1) = n + l
    <3>1. o + m = n \/ o + m = n + l
      BY <1>2 DEF Pointers
    <3>2. o \in 0 .. l /\ n \in 0 .. l
      BY <1>2
    <3>3. k = IF o = l THEN 0 ELSE o
      BY <1>3, <3>2 DEF Turn
    <3> QED
      BY <3>1, <3>2, <3>3
  <2> QED
    BY <1>1, <1>2, <1>6, <1>8, <2>1, <2>2 DEF Pointers
<1>10. pdata' = [pdata EXCEPT ![t] = BytesAt(ElementAt(e, 1), OSQTSize[e])]
  <2>1. Wrapped(e, OSQOut[e]) = ElementAt(e, 1)
    BY <1>3, <1>4
  <2> QED
    BY <1>1, <2>1
<1>11. Turn(OSQLength[e], o, 1) = k /\ k + 1 \in 0 .. OSQLength[e]
  BY <1>2, <1>3
<1>12. OSQEntries'[e] = OSQEntries[e] - 1
  BY <1>2, <1>6
<1>13. OSQOut'[e] = OSQStart[e]
                      + (Turn(OSQLength[e], o, 1) + 1) * OSQTSize[e]
  BY <1>2, <1>8, <1>11
<1>14. Pointers(e, Turn(OSQLength[e], o, 1) + 1, n)'
  <2>1. OSQLength' = OSQLength
    BY <1>1
  <2>2. Turn(OSQLength'[e], o, 1) + 1 = k + 1
    BY <1>11, <2>1
  <2> QED
    BY <1>9, <2>2 DEF Pointers
<1>15. Turn(OSQLength[e], o, 1) + 1 \in 0 .. OSQLength[e]
  BY <1>11
<1>16. OSQOut' \in [ObjectId -> Nat]
  BY <1>8
<1>17. UNCHANGED <<memory, iQueueAddress, OSQStart, OSQSize, OSQTSize,
                   OSQLength, OSQIn, dynamic>>
  BY <1>1
<1> QED
  BY <1>5, <1>10, <1>12, <1>13, <1>14, <1>15, <1>16, <1>17

\* A sequence without its head, as a function.
LEMMA ShortenedSequence ==
  ASSUME NEW n \in Nat \ {0}, NEW s, s = [i \in 1 .. n |-> s[i]]
  PROVE  /\ s # <<>> /\ Head(s) = s[1]
         /\ Tail(s) = [i \in 1 .. n - 1 |-> s[i + 1]]
<1>1. s \in Seq({s[i] : i \in 1 .. n}) /\ Len(s) = n
  OBVIOUS
<1> QED
  BY <1>1

\* A read takes the head of the contents.
LEMMA ReadContents ==
  ASSUME QueueInv, RingInv, NEW e \in ObjectId, OSEventAllocated[e],
         NEW t \in Task, OSQEntries[e] > 0, Read(t, e)
  PROVE  /\ \A d \in ObjectId \ {e} : Contents(d)' = Contents(d)
         /\ Contents(e) # <<>>
         /\ Contents(e)' = Tail(Contents(e))
         /\ pdata' = [pdata EXCEPT ![t] = Head(Contents(e))]
<1>1. PICK o \in 0 .. OSQLength[e], n \in 0 .. OSQLength[e] : Pointers(e, o, n)
  BY DEF RingInv, Ring
<1>2. /\ OSQEntries'[e] = OSQEntries[e] - 1
      /\ pdata' = [pdata EXCEPT ![t] = BytesAt(ElementAt(e, 1), OSQTSize[e])]
      /\ \A d \in ObjectId \ {e} : SameRing(d)
      /\ Turn(OSQLength[e], o, 1) + 1 \in 0 .. OSQLength[e]
      /\ OSQOut'[e] = OSQStart[e]
                        + (Turn(OSQLength[e], o, 1) + 1) * OSQTSize[e]
      /\ UNCHANGED <<memory, OSQStart, OSQSize, OSQTSize, OSQLength>>
  BY <1>1, ReadRing
<1>3. \A d \in ObjectId \ {e} : Contents(d)' = Contents(d)
  BY <1>2, SameContents DEF SameRing
<1>4. PICK l \in Nat \ {0}, c \in Nat \ {0}, start \in Nat, m \in Nat \ {0} :
        /\ l = OSQLength[e] /\ c = OSQTSize[e] /\ start = OSQStart[e]
        /\ m = OSQEntries[e] /\ m <= l
        /\ OSQEnd(e) = start + l * c /\ OSQSize[e] = l * c
  <2>1. /\ OSQStart[e] \in Nat /\ OSQTSize[e] \in Nat \ {0}
        /\ OSQLength[e] \in Nat \ {0} /\ OSQEntries[e] \in 0 .. OSQLength[e]
        /\ OSQEnd(e) = OSQStart[e] + OSQLength[e] * OSQTSize[e]
        /\ OSQSize[e] = OSQLength[e] * OSQTSize[e]
    BY RingNumbers
  <2>2. OSQEntries[e] \in Nat \ {0}
    BY <2>1
  <2> QED
    BY <2>1, <2>2
<1>5. PICK p \in 0 .. l : /\ p = Turn(l, o, 1) + 1
                          /\ OSQOut'[e] = start + p * c
  BY <1>2, <1>4
<1>6. ASSUME NEW i \in 1 .. m - 1
      PROVE  ElementAt(e, i)' = ElementAt(e, i + 1)
  <2>1. i \in 1 .. l /\ i + 1 \in 1 .. l /\ o \in 0 .. l
    BY <1>4
  <2>2. ElementAt(e, i)' = Folded(start, l, c, Straight(start, c, p, i))
    BY <1>2, <1>4, <1>5 DEF ElementAt, OSQEnd, Folded, Straight
  <2>3. Folded(start, l, c, Straight(start, c, p, i)) = start + Turn(l, p, i) * c
    BY <2>1, TurnAddress
  <2>4. ElementAt(e, i + 1) = start + Turn(l, o, i + 1) * c
    BY <1>1, <1>4, <2>1, ElementPlace
  <2>5. Turn(l, p, i) = Turn(l, o, i + 1)
    BY <1>4, <1>5, <2>1 DEF Turn
  <2> QED
    BY <2>2, <2>3, <2>4, <2>5
<1>7. PICK s : s = Contents(e)
  OBVIOUS
<1>8. /\ s = [i \in 1 .. m |-> s[i]]
      /\ \A i \in 1 .. m : s[i] = BytesAt(ElementAt(e, i), c)
  BY <1>4, <1>7 DEF Contents
<1>9. s # <<>> /\ Head(s) = s[1] /\ Tail(s) = [i \in 1 .. m - 1 |-> s[i + 1]]
  BY <1>8, ShortenedSequence
<1>10. \A i \in 1 .. m - 1 : BytesAt(ElementAt(e, i), c)' = s[i + 1]
  <2>1. \A i \in 1 .. m - 1 : BytesAt(ElementAt(e, i), c)'
                                = BytesAt(ElementAt(e, i + 1), c)
    BY <1>2, <1>6 DEF BytesAt
  <2>2. \A i \in 1 .. m - 1 : i + 1 \in 1 .. m
    OBVIOUS
  <2> QED
    BY <1>8, <2>1, <2>2
<1>11. Contents(e)' = [i \in 1 .. m - 1 |-> BytesAt(ElementAt(e, i), c)']
  BY <1>2, <1>4 DEF Contents
<1>12. Contents(e)' = Tail(s)
  BY <1>9, <1>10, <1>11
<1>13. BytesAt(ElementAt(e, 1), OSQTSize[e]) = s[1]
  <2>1. 1 \in 1 .. m
    OBVIOUS
  <2> QED
    BY <1>4, <1>8, <2>1
<1> QED
  BY <1>2, <1>3, <1>7, <1>9, <1>12, <1>13

\* OSRQueue, a pend that finds an element and one that was posted an element.
LEMMA ReadIsGet ==
  ASSUME QueueInv, RingInv, NEW e \in ObjectId, OSQEntries[e] > 0,
         NEW t \in Task, Read(t, e), UNCHANGED OSEventAllocated
  PROVE  RingInv' /\ F!Next
<1>1. OSEventAllocated[e]
  BY DEF RingInv, NoRing
<1>2. PICK o \in 0 .. OSQLength[e], n \in 0 .. OSQLength[e] : Pointers(e, o, n)
  BY <1>1 DEF RingInv, Ring
<1>3. /\ pdata' = [pdata EXCEPT ![t] = BytesAt(ElementAt(e, 1), OSQTSize[e])]
      /\ \A d \in ObjectId \ {e} : SameRing(d)
      /\ Turn(OSQLength[e], o, 1) + 1 \in 0 .. OSQLength[e]
      /\ Pointers(e, Turn(OSQLength[e], o, 1) + 1, n)'
      /\ OSQOut' \in [ObjectId -> Nat]
      /\ UNCHANGED <<memory, iQueueAddress, OSQStart, OSQSize, OSQTSize,
                     OSQLength, OSQIn, dynamic>>
  BY <1>1, <1>2, ReadRing
<1>4. BytesAt(ElementAt(e, 1), OSQTSize[e]) \in Seq(Byte)
  <2>1. 1 \in 1 .. OSQLength[e] /\ OSQTSize[e] \in Nat
        /\ OSQEnd(e) <= QUEUE_HEAP_SIZE + ALLOC_BYTES
        /\ OSQEnd(e) \in Nat
    BY <1>1, RingNumbers, Products
  <2>2. PICK a \in Nat, c \in Nat :
          /\ a = ElementAt(e, 1) /\ c = OSQTSize[e]
          /\ a + c <= OSQEnd(e)
    BY <1>1, <1>2, <2>1, ElementPlace
  <2>3. \A k \in 1 .. c : memory[a + k - 1] \in Byte
    <3>1. \A k \in 1 .. c : a + k - 1 \in Address
      BY <2>1, <2>2, QueueConstants DEF Address
    <3> QED
      BY <3>1 DEF RingInv, RingTypes
  <2>4. [k \in 1 .. c |-> memory[a + k - 1]] \in [1 .. c -> Byte]
    BY <2>3
  <2> QED
    BY <2>2, <2>4 DEF BytesAt
<1>5. RingTypes'
  <2>1. pdata' \in [Task -> Seq(Byte)]
    BY <1>3, <1>4 DEF RingInv, RingTypes
  <2> QED
    BY <1>3, <2>1 DEF RingInv, RingTypes
<1>6. Ring(e)'
  <2>1. Ring(e)
    BY <1>1 DEF RingInv
  <2> QED
    BY <1>3, <2>1 DEF Ring, OSQEnd
<1>7. \A d \in ObjectId \ {e} : OSEventAllocated[d] => Apart(d, e)'
  BY <1>1, <1>3 DEF RingInv, Apart, OSQEnd
<1>8. iQueueAddress <= iQueueAddress'
  BY <1>3, QueueConstants DEF RingInv, RingTypes
<1>9. RingInv'
  BY <1>1, <1>3, <1>5, <1>6, <1>7, <1>8, RingInvFrom
<1>10. F!Get(t, e)
  <2>1. /\ \A d \in ObjectId \ {e} : Contents(d)' = Contents(d)
        /\ Contents(e) # <<>>
        /\ Contents(e)' = Tail(Contents(e))
        /\ pdata' = [pdata EXCEPT ![t] = Head(Contents(e))]
    BY <1>1, ReadContents
  <2>2. [d \in ObjectId |-> Contents(d)]'
          = [[d \in ObjectId |-> Contents(d)] EXCEPT ![e] = Tail(Contents(e))]
    BY <2>1
  <2> QED
    BY <1>3, <2>1, <2>2 DEF F!Get
<1> QED
  BY <1>9, <1>10 DEF F!Next

-----------------------------------------------------------------------------
(* The theorems *)

\* No ring exists at first.
LEMMA InitRingInv ==
  ASSUME QueueInit
  PROVE  RingInv /\ F!Init
<1>1. /\ OSEventAllocated = [e \in ObjectId |-> FALSE]
      /\ memory = [a \in Address |-> NoByte]
      /\ iQueueAddress = 0
      /\ OSQStart = [e \in ObjectId |-> 0] /\ OSQSize = [e \in ObjectId |-> 0]
      /\ OSQTSize = [e \in ObjectId |-> 0] /\ OSQLength = [e \in ObjectId |-> 0]
      /\ OSQEntries = [e \in ObjectId |-> 0]
      /\ OSQIn = [e \in ObjectId |-> 0] /\ OSQOut = [e \in ObjectId |-> 0]
      /\ pdata = [t \in Task |-> NoByte]
  BY DEF QueueInit, EventInit
<1>2. NoByte \in Byte /\ NoByte \in Seq(Byte)
  BY DEF Byte, NoByte
<1>3. RingTypes
  BY <1>1, <1>2, QueueConstants DEF RingTypes, INT16U
<1>4. RingInv
  BY <1>1, <1>3 DEF RingInv, NoRing
<1>5. [e \in ObjectId |-> Contents(e)] = [e \in ObjectId |-> <<>>]
  BY <1>1, EmptyContents
<1> QED
  BY <1>1, <1>4, <1>5 DEF F!Init

\* RingInv is inductive beside QueueInv, and every step is one of a FIFO buffer.
LEMMA StepRingInv ==
  ASSUME Assumptions, SizesFit, QueueInv, RingInv, [QueueNext]_vars
  PROVE  RingInv' /\ [F!Next]_(F!vars)
<1>1. RingStep
  BY StepCases
<1>2. CASE SameRings
  BY <1>2, SameIsStutter
<1>3. ASSUME NEW size \in Sizes, OSQueueCreate(size)
      PROVE  RingInv' /\ F!Next
  BY <1>3, CreateQueueIsCreate
<1>4. ASSUME NEW size \in DynamicSizes, OSDQueueCreate(size[1], size[2])
      PROVE  RingInv' /\ F!Next
  BY <1>4, CreateDynamicIsCreate
<1>5. ASSUME NEW e \in ObjectId, OSDQueueDelete(e)
      PROVE  RingInv' /\ F!Next
  BY <1>5, DeleteIsDelete
<1>6. ASSUME NEW e \in ObjectId, UNCHANGED OSEventAllocated, OSEventAllocated[e],
             NEW data \in Data, Write(e, data)
      PROVE  RingInv' /\ F!Next
  BY <1>6, WriteIsPut
<1>7. ASSUME NEW e \in ObjectId, UNCHANGED OSEventAllocated, OSQEntries[e] > 0,
             NEW t \in Task, Read(t, e)
      PROVE  RingInv' /\ F!Next
  BY <1>7, ReadIsGet
<1>8. ASSUME NEW e \in ObjectId, UNCHANGED OSEventAllocated, Clean(e)
      PROVE  RingInv' /\ F!Next
  BY <1>8, CleanIsClean
<1> QED
  BY <1>1, <1>2, <1>3, <1>4, <1>5, <1>6, <1>7, <1>8 DEF RingStep

\* The rings never overlap and their pointers stay in them.
THEOREM RingInvariance ==
  ASSUME Assumptions, SizesFit
  PROVE  QueueSpec => []RingInv
<1>1. QueueInit => RingInv
  BY InitRingInv
<1>2. QueueInv /\ RingInv /\ [QueueNext]_vars => RingInv'
  BY StepRingInv
<1> QED
  BY QueueInvariance, <1>1, <1>2, PTL DEF QueueSpec

\* The ring pointers never leave the ring's bytes, those of a static queue or
\* the allocated ones, for queues of any size that fits 16 bits.
THEOREM QueueTypeCorrect ==
  ASSUME Assumptions, SizesFit
  PROVE  QueueSpec => []QueueTypeOK
<1>1. ASSUME QueueInv, RingInv PROVE QueueTypeOK
  <2>1. ASSUME NEW e \in ObjectId
        PROVE  /\ OSQStart[e] .. OSQEnd(e) - 1 \subseteq Address
               /\ {OSQIn[e], OSQOut[e]} \subseteq OSQStart[e] .. OSQEnd(e)
    <3>1. CASE OSEventAllocated[e]
      <4>1. PICK l \in Nat \ {0}, c \in Nat \ {0}, start \in Nat :
              /\ l = OSQLength[e] /\ c = OSQTSize[e] /\ start = OSQStart[e]
              /\ OSQEnd(e) = start + l * c
              /\ OSQEnd(e) <= QUEUE_HEAP_SIZE + ALLOC_BYTES
        BY <1>1, <3>1, RingNumbers
      <4>2. PICK o \in 0 .. l, i \in 0 .. l :
              OSQOut[e] = start + o * c /\ OSQIn[e] = start + i * c
        BY <1>1, <3>1, <4>1 DEF RingInv, Ring, Pointers
      <4>3. /\ o * c \in Nat /\ i * c \in Nat /\ l * c \in Nat
            /\ o * c <= l * c /\ i * c <= l * c
        BY Products
      <4>4. {OSQIn[e], OSQOut[e]} \subseteq OSQStart[e] .. OSQEnd(e)
        BY <4>1, <4>2, <4>3
      <4>5. OSQStart[e] .. OSQEnd(e) - 1 \subseteq Address
        BY <4>1, <4>3, QueueConstants DEF Address
      <4> QED
        BY <4>4, <4>5
    <3>2. CASE ~OSEventAllocated[e]
      <4>1. OSQStart[e] = 0 /\ OSQSize[e] = 0 /\ OSQIn[e] = 0 /\ OSQOut[e] = 0
        BY <1>1, <3>2 DEF RingInv, NoRing
      <4> QED
        BY <4>1 DEF OSQEnd
    <3> QED
      BY <3>1, <3>2
  <2> QED
    BY <1>1, <2>1
    DEF QueueTypeOK, QueueInv, RingInv, RingTypes, EventInv
<1> QED
  BY QueueInvariance, RingInvariance, <1>1, PTL

\* The pends, posts, reads, writes and cleanings of queue.c make of every ring a
\* bounded FIFO buffer: no element is lost, repeated, reordered, torn or taken
\* from the memory of another queue.
THEOREM QueuesAreFifos ==
  ASSUME Assumptions, SizesFit
  PROVE  QueueSpec => ImplementsFifo
<1>1. QueueInit => F!Init
  BY InitRingInv
<1>2. QueueInv /\ RingInv /\ [QueueNext]_vars => [F!Next]_(F!vars)
  BY StepRingInv
<1> QED
  BY QueueInvariance, RingInvariance, <1>1, <1>2, PTL
  DEF QueueSpec, ImplementsFifo, F!Spec
=============================================================================
