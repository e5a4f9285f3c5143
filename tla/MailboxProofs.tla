--------------------------- MODULE MailboxProofs ----------------------------
(***************************************************************************)
(* Proofs about Mailbox, for any number of readers, posting tasks and      *)
(* interrupts, mailboxes and messages, when no wait is longer than the     *)
(* range of the tick counter (ShortWaits) and no mailbox is deleted in use *)
(* (~DeleteWithWaiters).                                                   *)
(***************************************************************************)
EXTENDS Mailbox, KernelProofs

Assumptions == ShortWaits /\ ~DeleteWithWaiters

\* Tasks wait only for mailboxes that exist, and only readers do.
PendsAreReaders ==
  \A t \in Task : pend[t] # NoEvent => /\ t \in Readers
                                       /\ OSEventAllocated[pend[t]]

\* The inductive invariant of any mailboxes.
MboxInv ==
  /\ EventInv
  /\ OSEventState \in [ObjectId -> BOOLEAN]
  /\ PendsAreReaders
  /\ NoMailStranded

\* The first state.
LEMMA InitMboxInv ==
  ASSUME MboxInit
  PROVE  MboxInv
<1>1. EventInv
  BY InitEventInv DEF MboxInit
<1> QED
  BY <1>1 DEF MboxInit, EventInit, MboxInv, PendsAreReaders, NoEvent,
              NoMailStranded

\* A selected task is one that waits.
LEMMA GivenTaskPends ==
  ASSUME EventInv, NEW t \in Task, given[t]
  PROVE  pend[t] \in ObjectId
BY DEF EventInv, WaitState, EventTypeOK

\* An empty wait list means that nobody waits.
LEMMA NoWaiters ==
  ASSUME EventInv, NEW e \in ObjectId, OSEventWait[e] = 0
  PROVE  Waiters(e) = {} /\ OSEventWaitList[e] = {}
<1>1. IsFiniteSet(OSEventWaitList[e])
  BY WaitListFinite DEF EventInv, EventTypeOK
<1>2. OSEventWaitList[e] = {}
  BY <1>1, FS_EmptySet DEF EventInv, WaitListExact
<1> QED
  BY <1>2 DEF EventInv, WaitListExact

\* Creating a mailbox, with or without a first message.
LEMMA CreateMboxKeepsInv ==
  ASSUME MboxInv, NEW message, OSMboxCreate(message)
  PROVE  MboxInv'
<1>1. PICK e \in ObjectId :
        /\ CreateEvent(e) /\ UNCHANGED kernelVars
        /\ OSEventState' = [OSEventState EXCEPT ![e] = (message # NULL)]
  BY DEF OSMboxCreate
<1>2. EventInv'
  BY <1>1, CreateKeepsInv DEF MboxInv
<1>3. /\ OSEventWaitList[e] = {} /\ ~OSEventAllocated[e]
      /\ UNCHANGED <<pend, given>>
      /\ OSEventAllocated' = [OSEventAllocated EXCEPT ![e] = TRUE]
  BY <1>1 DEF MboxInv, EventInv, FreeBlocksEmpty, CreateEvent, FreeBlock,
              NewWaitList, callVars
<1>4. \A t \in Task : pend[t] # e
  BY <1>3, ObjectFacts DEF MboxInv, PendsAreReaders
<1>5. PendsAreReaders'
  BY <1>3, <1>4 DEF MboxInv, PendsAreReaders, EventInv, EventTypeOK
<1>6. NoMailStranded'
  BY <1>1, <1>3, <1>4 DEF MboxInv, NoMailStranded, Waiters
<1> QED
  BY <1>1, <1>2, <1>5, <1>6 DEF MboxInv

\* Deleting one that is not in use.
LEMMA DeleteMboxKeepsInv ==
  ASSUME Assumptions, MboxInv, NEW e \in ObjectId, OSMboxDelete(e)
  PROVE  MboxInv'
<1>1. EventInv'
  BY DeleteKeepsInv DEF MboxInv, OSMboxDelete, Assumptions
<1>2. /\ \A t \in Task : pend[t] # e
      /\ UNCHANGED <<pend, given>>
      /\ OSEventAllocated' = [OSEventAllocated EXCEPT ![e] = FALSE]
      /\ OSEventState' = [OSEventState EXCEPT ![e] = FALSE]
  BY DEF OSMboxDelete, Assumptions, DeleteEvent, NewWaitList, callVars
<1>3. PendsAreReaders'
  BY <1>2 DEF MboxInv, PendsAreReaders, EventInv, EventTypeOK
<1>4. NoMailStranded'
  BY <1>2 DEF MboxInv, NoMailStranded, Waiters
<1> QED
  BY <1>1, <1>2, <1>3, <1>4 DEF MboxInv

\* A call by t leaves the tasks woken for other mailboxes as they are: it
\* empties the slot of e, or no task but t begins or ends a wait.
LEMMA OwnCallKeepsMail ==
  ASSUME MboxInv, NEW t \in Task, NEW e \in ObjectId, NEW d,
         pend' = [pend EXCEPT ![t] = d], given' = [given EXCEPT ![t] = FALSE],
         \A c \in ObjectId \ {e} : /\ OSEventState'[c] = OSEventState[c]
                                   /\ pend[t] # c /\ d # c,
         ~OSEventState'[e]
  PROVE  NoMailStranded'
<1> SUFFICES ASSUME NEW c \in ObjectId, OSEventState'[c]
             PROVE  \/ Waiters(c)' = {}
                    \/ \E u \in Task : pend'[u] = c /\ given'[u]
  BY DEF NoMailStranded
<1>1. c # e /\ OSEventState[c] /\ pend[t] # c /\ d # c
  OBVIOUS
<1>2. \A u \in Task \ {t} : pend'[u] = pend[u] /\ given'[u] = given[u]
  BY DEF MboxInv, EventInv, EventTypeOK
<1>3. pend'[t] # c
  BY <1>1 DEF MboxInv, EventInv, EventTypeOK
<1>4. CASE Waiters(c) = {}
  BY <1>2, <1>3, <1>4 DEF Waiters
<1>5. CASE \E u \in Task : pend[u] = c /\ given[u]
  BY <1>1, <1>2, <1>5
<1> QED
  BY <1>1, <1>4, <1>5 DEF MboxInv, NoMailStranded

\* OSMboxPend takes a message or waits for one.
LEMMA PendMboxKeepsInv ==
  ASSUME Assumptions, MboxInv, NEW t \in Task, t \in Readers,
         NEW e \in ObjectId, NEW w \in PendWait, OSMboxPend(t, e, w)
  PROVE  MboxInv'
<1>1. pend[t] = NoEvent /\ OSEventAllocated[e] /\ InUserCode(t)
  BY DEF OSMboxPend, InUserCode
<1>2. CASE OSEventState[e]
  <2>1. /\ UNCHANGED <<kernelVars, eventVars>>
        /\ OSEventState' = [OSEventState EXCEPT ![e] = FALSE]
    BY <1>2 DEF OSMboxPend, TakeMessage
  <2>2. EventInv'
    BY <2>1, UnchangedKeepsInv DEF MboxInv
  <2>3. UNCHANGED <<pend, given, OSEventAllocated>>
    BY <2>1 DEF eventVars, eventTable, callVars
  <2> QED
    BY <2>1, <2>2, <2>3 DEF MboxInv, PendsAreReaders, NoMailStranded, Waiters
<1>3. CASE ~OSEventState[e]
  <2>1. WaitEvent(t, e, w) /\ UNCHANGED OSEventState
    BY <1>3 DEF OSMboxPend, mboxVars
  <2>2. EventInv'
    BY <1>1, <2>1, WaitKeepsInv DEF MboxInv, Assumptions
  <2>3. /\ pend' = [pend EXCEPT ![t] = e]
        /\ given' = [given EXCEPT ![t] = FALSE]
        /\ UNCHANGED OSEventAllocated
    BY <2>1 DEF WaitEvent
  <2>4. PendsAreReaders'
    BY <1>1, <2>3 DEF MboxInv, PendsAreReaders, EventInv, EventTypeOK
  <2>5. NoMailStranded'
    BY <1>1, <1>3, <2>1, <2>3, OwnCallKeepsMail, ObjectFacts
  <2> QED
    BY <2>1, <2>2, <2>4, <2>5 DEF MboxInv
<1> QED
  BY <1>2, <1>3

\* The end of a pend that waited: by timeout, or with the slot emptied.
LEMMA MboxResumeKeepsInv ==
  ASSUME MboxInv, NEW t \in Task, OSMboxPendResume(t)
  PROVE  MboxInv'
<1>1. /\ EndWait(t) /\ Resuming(t)
      /\ EventInv'
  <2>1. CASE PendReturnsTimeout(t)
    BY <2>1, TimeoutKeepsInv DEF PendReturnsTimeout, LeaveByTimeout, MboxInv
  <2>2. CASE PendReturnsOK(t)
    BY <2>2, PostedKeepsInv DEF PendReturnsOK, LeaveByPost, MboxInv
  <2> QED
    BY <2>1, <2>2 DEF OSMboxPendResume
<1>2. /\ pend' = [pend EXCEPT ![t] = NoEvent]
      /\ given' = [given EXCEPT ![t] = FALSE]
      /\ UNCHANGED OSEventAllocated
  BY <1>1 DEF EndWait
<1>3. pend[t] \in ObjectId
  BY <1>1, ResumingTaskState DEF MboxInv
<1>4. OSEventState' \in [ObjectId -> BOOLEAN]
  BY DEF OSMboxPendResume, PendReturnsTimeout, PendReturnsOK, TakeMessage,
         mboxVars, MboxInv
<1>5. PendsAreReaders'
  BY <1>2 DEF MboxInv, PendsAreReaders, EventInv, EventTypeOK
<1>6. NoMailStranded'
  <2>1. CASE PendReturnsTimeout(t)
    <3>1. ~given[t] /\ UNCHANGED OSEventState
      BY <1>1, <2>1, ResumingTaskState
      DEF PendReturnsTimeout, LeaveByTimeout, MboxInv, mboxVars
    <3>2. \A u \in Task \ {t} : pend'[u] = pend[u] /\ given'[u] = given[u]
      BY <1>2 DEF MboxInv, EventInv, EventTypeOK
    <3>3. pend'[t] = NoEvent
      BY <1>2 DEF MboxInv, EventInv, EventTypeOK
    <3> SUFFICES ASSUME NEW c \in ObjectId, OSEventState'[c]
                 PROVE  \/ Waiters(c)' = {}
                        \/ \E u \in Task : pend'[u] = c /\ given'[u]
      BY DEF NoMailStranded
    <3>4. CASE Waiters(c) = {}
      BY <3>2, <3>3, <3>4, ObjectFacts DEF Waiters
    <3>5. CASE \E u \in Task : pend[u] = c /\ given[u]
      BY <3>1, <3>2, <3>5
    <3> QED
      BY <3>1, <3>4, <3>5 DEF MboxInv, NoMailStranded
  <2>2. CASE PendReturnsOK(t)
    <3>1. OSEventState' = [OSEventState EXCEPT ![pend[t]] = FALSE]
      BY <2>2 DEF PendReturnsOK, TakeMessage
    <3> QED
      BY <1>2, <1>3, <3>1, OwnCallKeepsMail, ObjectFacts DEF MboxInv
  <2> QED
    BY <2>1, <2>2 DEF OSMboxPendResume
<1> QED
  BY <1>1, <1>4, <1>5, <1>6 DEF MboxInv

\* A post, by a task or by an interrupt, leaves its message to the waiter it
\* selects or in the slot.
LEMMA PostMboxKeepsInv ==
  ASSUME MboxInv, NEW e \in ObjectId, NEW message,
         \/ ~changeContext /\ OSMboxPost(e, message)
         \/ OSMboxPostISR(e, message)
  PROVE  MboxInv'
<1>1. OSEventState' = [OSEventState EXCEPT ![e] = TRUE]
  BY DEF OSMboxPost, OSMboxPostISR, PutMessage
<1>2. CASE NobodyWaits(e)
  <2>1. UNCHANGED <<kernelVars, eventVars>> /\ Waiters(e) = {}
    BY <1>2, NoWaiters DEF NobodyWaits, MboxInv
  <2>2. EventInv'
    BY <2>1, UnchangedKeepsInv DEF MboxInv
  <2>3. UNCHANGED <<pend, given, OSEventAllocated>>
    BY <2>1 DEF eventVars, eventTable, callVars
  <2>4. PendsAreReaders'
    BY <2>3 DEF MboxInv, PendsAreReaders
  <2>5. NoMailStranded'
    BY <1>1, <2>1, <2>3 DEF MboxInv, NoMailStranded, Waiters
  <2> QED
    BY <1>1, <2>2, <2>4, <2>5 DEF MboxInv
<1>3. CASE ~NobodyWaits(e)
  <2>1. (~changeContext /\ TaskPost(e)) \/ ISRPost(e)
    BY <1>3 DEF OSMboxPost, OSMboxPostISR
  <2>2. EventInv'
    BY <2>1, TaskPostKeepsInv, ISRPostKeepsInv DEF MboxInv
  <2>3. SelectWaiter(e)
    BY <2>1 DEF TaskPost, ISRPost, PostToWaiter
  <2>4. PICK u \in Waiters(e) : PriorityVector[HighestWaiter(e)] = u
    BY <2>3, SelectedWaiter DEF SelectWaiter, MboxInv
  <2>5. /\ given' = [t \in Task |-> given[t] \/ t = u]
        /\ UNCHANGED <<pend, OSEventAllocated>>
    BY <2>3, <2>4 DEF SelectWaiter
  <2>6. u \in Task /\ pend'[u] = e /\ given'[u]
    BY <2>4, <2>5 DEF Waiters
  <2>7. PendsAreReaders'
    BY <2>5 DEF MboxInv, PendsAreReaders
  <2>8. NoMailStranded'
    <3> SUFFICES ASSUME NEW c \in ObjectId, OSEventState'[c], c # e
                 PROVE  \/ Waiters(c)' = {}
                        \/ \E t \in Task : pend'[t] = c /\ given'[t]
      BY <2>6 DEF NoMailStranded
    <3>1. OSEventState[c]
      BY <1>1 DEF MboxInv
    <3>2. CASE Waiters(c) = {}
      BY <2>5, <3>2 DEF Waiters
    <3>3. CASE \E t \in Task : pend[t] = c /\ given[t]
      BY <2>5, <3>3
    <3> QED
      BY <3>1, <3>2, <3>3 DEF MboxInv, NoMailStranded
  <2> QED
    BY <1>1, <2>2, <2>7, <2>8 DEF MboxInv
<1> QED
  BY <1>2, <1>3

\* The other services and the kernel's interrupts.
LEMMA KernelKeepsMboxInv ==
  ASSUME MboxInv, UNCHANGED mboxVars,
         \/ \E t \in Task : InUserCode(t) /\ KernelCall(t)
         \/ KernelInterrupt
  PROVE  MboxInv'
<1>1. EventInv'
  BY KernelCallKeepsInv, KernelInterruptKeepsInv DEF MboxInv
<1>2. UNCHANGED <<pend, given, OSEventAllocated, OSEventState>>
  BY DEF KernelCall, KernelInterrupt, eventVars, eventTable, callVars, mboxVars
<1> QED
  BY <1>1, <1>2 DEF MboxInv, PendsAreReaders, NoMailStranded, Waiters

\* MboxInv is inductive.
LEMMA StepMboxInv ==
  ASSUME Assumptions, MboxInv, [MboxNext]_vars
  PROVE  MboxInv'
<1>1. CASE UNCHANGED vars
  <2>1. /\ EventInv'
        /\ UNCHANGED <<pend, given, OSEventAllocated, OSEventState>>
    BY <1>1, UnchangedKeepsInv
    DEF MboxInv, vars, eventVars, eventTable, callVars, mboxVars
  <2> QED
    BY <2>1 DEF MboxInv, PendsAreReaders, NoMailStranded, Waiters
<1>2. ASSUME NEW t \in Task, TaskStep(t) PROVE MboxInv'
  <2>1. InUserCode(t) /\ ~changeContext
    BY <1>2 DEF TaskStep, InUserCode, Running
  <2>2. ASSUME NEW message \in Pointer, OSMboxCreate(message) PROVE MboxInv'
    BY <2>2, CreateMboxKeepsInv
  <2>3. ASSUME NEW e \in ObjectId, OSMboxDelete(e) PROVE MboxInv'
    BY <2>3, DeleteMboxKeepsInv
  <2>4. ASSUME NEW e \in ObjectId, NEW message \in Pointer, OSMboxPost(e, message)
        PROVE  MboxInv'
    BY <2>1, <2>4, PostMboxKeepsInv
  <2>5. ASSUME NEW e \in ObjectId, NEW w \in PendWait, t \in Readers,
               OSMboxPend(t, e, w)
        PROVE  MboxInv'
    BY <2>5, PendMboxKeepsInv
  <2>6. CASE KernelCall(t) /\ UNCHANGED mboxVars
    BY <2>1, <2>6, KernelKeepsMboxInv
  <2> QED
    BY <1>2, <2>2, <2>3, <2>4, <2>5, <2>6 DEF TaskStep
<1>3. ASSUME NEW t \in Task, OSMboxPendResume(t) PROVE MboxInv'
  BY <1>3, MboxResumeKeepsInv
<1>4. CASE MboxInterrupt
  BY <1>4, PostMboxKeepsInv, KernelKeepsMboxInv DEF MboxInterrupt
<1> QED
  BY <1>1, <1>2, <1>3, <1>4 DEF MboxNext

\* The invariant holds in every reachable state.
THEOREM MboxInvariance ==
  ASSUME Assumptions
  PROVE  MboxSpec => []MboxInv
<1>1. MboxInit => MboxInv
  BY InitMboxInv
<1>2. MboxInv /\ [MboxNext]_vars => MboxInv'
  BY StepMboxInv
<1> QED
  BY <1>1, <1>2, PTL DEF MboxSpec

-----------------------------------------------------------------------------
(* The highest reader *)

\* The highest reader is no task that others block.
TopReaderFree == \A t \in Readers : TopReader(t) => t \notin BlockTargets

\* Beside MboxInv: the order of priorities, which keeps lower readers from
\* running between a post and the resumption of the highest one.
OrderInv ==
  /\ Priority = InitPriority
  /\ HighestPriorityRuns
  /\ \A t \in Task \ BlockTargets : Priority[t] \in OSBlockedList

\* The first state.
LEMMA InitOrderInv ==
  ASSUME MboxInit
  PROVE  OrderInv /\ TopReaderHasMail
<1>1. Init
  BY DEF MboxInit, EventInit
<1>2. Priority = InitPriority /\ OSBlockedList = PrioRange
  BY <1>1 DEF Init
<1>3. \A t \in Task : Priority[t] \in PrioRange
  BY <1>2, PriorityAssumption DEF Thread
<1> QED
  BY <1>1, <1>2, <1>3, InitPriorityOrder
  DEF OrderInv, TopReaderHasMail, MboxInit, EventInit

\* Every step leaves the order of priorities: a service that wakes a task asks
\* for the switch, and interrupts end with one.
LEMMA StepOrderInv ==
  ASSUME ~CriticalNests, MboxInv, MboxInv', OrderInv, [MboxNext]_vars
  PROVE  OrderInv'
<1>1. ASSUME UNCHANGED kernelVars PROVE OrderInv'
  BY <1>1 DEF OrderInv, HighestPriorityRuns, kernelVars
<1>2. ASSUME changeContext', UNCHANGED priorityVars, OSBlockedList \subseteq OSBlockedList'
      PROVE  OrderInv'
  BY <1>2 DEF OrderInv, HighestPriorityRuns, priorityVars
<1>3. ASSUME Reschedule, UNCHANGED <<priorityVars, OSBlockedList>>
      PROVE  OrderInv'
  <2>1. EventInv'
    BY DEF MboxInv
  <2>2. HighestPriorityRuns'
    BY <1>3, <2>1, OrderAfterReschedule DEF HighestPriorityRuns
  <2> QED
    BY <1>3, <2>2 DEF OrderInv, priorityVars
<1>4. ASSUME NEW t \in Task, TaskStep(t) PROVE OrderInv'
  <2>1. Running(t)
    BY <1>4 DEF TaskStep, InUserCode
  <2>2. ASSUME NEW message \in Pointer, OSMboxCreate(message) PROVE OrderInv'
    BY <1>1, <2>2 DEF OSMboxCreate
  <2>3. ASSUME NEW e \in ObjectId, OSMboxDelete(e) PROVE OrderInv'
    BY <1>1, <2>3 DEF OSMboxDelete
  <2>4. ASSUME NEW e \in ObjectId, NEW message \in Pointer, OSMboxPost(e, message)
        PROVE  OrderInv'
    <3>1. CASE TaskPost(e)
      BY <1>2, <3>1 DEF TaskPost, PostToWaiter, SelectWaiter,
                        ChangeContextIfNotNested
    <3>2. CASE NobodyWaits(e)
      BY <1>1, <3>2 DEF NobodyWaits
    <3> QED
      BY <2>4, <3>1, <3>2 DEF OSMboxPost
  <2>5. ASSUME NEW e \in ObjectId, NEW w \in PendWait, OSMboxPend(t, e, w)
        PROVE  OrderInv'
    <3>1. CASE WaitEvent(t, e, w)
      BY <1>2, <3>1 DEF WaitEvent, Suspend
    <3>2. CASE UNCHANGED kernelVars
      BY <1>1, <3>2
    <3> QED
      BY <2>5, <3>1, <3>2 DEF OSMboxPend
  <2>6. CASE KernelCall(t)
    <3>1. ASSUME NEW w \in TimeWait, OSDelayTask(t, w) PROVE OrderInv'
      BY <1>2, <3>1 DEF OSDelayTask, Suspend
    <3>2. ASSUME NEW h \in BlockTargets, OSBlockTask(h) PROVE OrderInv'
      <4>1. /\ OSBlockedList' = OSBlockedList \ {Priority[h]}
            /\ UNCHANGED <<priorityVars, OSReadyList, currentTask>>
        BY <3>2 DEF OSBlockTask, onlyBlockedList
      <4>2. HighestPriorityRuns'
        BY <2>1, <4>1 DEF OrderInv, HighestPriorityRuns, Running, priorityVars
      <4>3. \A u \in Task \ BlockTargets : Priority[u] # Priority[h]
        BY PriorityInjective, EventAssumption DEF MboxInv, Thread
      <4> QED
        BY <4>1, <4>2, <4>3 DEF OrderInv, priorityVars
    <3>3. ASSUME NEW h \in BlockTargets, OSUnBlockTask(h) PROVE OrderInv'
      BY <1>2, <3>3 DEF OSUnBlockTask, onlyBlockedList, ChangeContextIfNotNested
    <3> QED
      BY <2>6, <3>1, <3>2, <3>3 DEF KernelCall
  <2> QED
    BY <1>4, <2>2, <2>3, <2>4, <2>5, <2>6 DEF TaskStep
<1>5. ASSUME NEW t \in Task, OSMboxPendResume(t) PROVE OrderInv'
  <2>1. UNCHANGED <<priorityVars, OSReadyList, OSBlockedList, currentTask,
                    changeContext>>
    BY <1>5 DEF OSMboxPendResume, PendReturnsTimeout, PendReturnsOK,
                LeaveByTimeout, LeaveByPost, EndWait
  <2> QED
    BY <2>1 DEF OrderInv, HighestPriorityRuns, priorityVars
<1>6. ASSUME NEW e \in ObjectId, NEW message, OSMboxPostISR(e, message)
      PROVE  OrderInv'
  <2>1. CASE ISRPost(e)
    BY <1>3, <2>1 DEF ISRPost, PostToWaiter, SelectWaiter
  <2>2. CASE NobodyWaits(e)
    BY <1>1, <2>2 DEF NobodyWaits
  <2> QED
    BY <1>6, <2>1, <2>2 DEF OSMboxPostISR
<1>7. ASSUME KernelInterrupt PROVE OrderInv'
  BY <1>3, <1>7 DEF KernelInterrupt, TickTimer, SwitchContext
<1> QED
  BY <1>1, <1>4, <1>5, <1>6, <1>7 DEF MboxNext, MboxInterrupt, vars

\* A reader that runs is the highest one, or no message waits for that one.
LEMMA LowerReaderFindsNobody ==
  ASSUME TopReaderFree, MboxInv, OrderInv, NEW t \in Task, Running(t),
         t \in Readers, NEW u \in Task, TopReader(u), given[u]
  PROVE  t = u
<1>1. Priority[u] \in OSReadyList
  BY DEF MboxInv, EventInv, WaitState
<1>2. u \in Readers /\ u \notin BlockTargets
  BY DEF TopReader, TopReaderFree
<1>3. Priority[u] <= Priority[t]
  BY <1>1, <1>2 DEF OrderInv, HighestPriorityRuns, Running
<1>4. Priority[t] <= Priority[u]
  BY DEF TopReader, OrderInv
<1>5. Priority[t] \in Nat /\ Priority[u] \in Nat
  BY PriorityAssumption DEF OrderInv, Thread, PrioRange
<1>6. t \in Thread /\ u \in Thread
  BY ConstantFacts
<1> QED
  BY <1>3, <1>4, <1>5, <1>6, PriorityInjective DEF MboxInv

\* No step takes the message that the highest reader was woken for, but its
\* own.
LEMMA StepTopReader ==
  ASSUME TopReaderFree, Assumptions, MboxInv, OrderInv, TopReaderHasMail,
         [MboxNext]_vars
  PROVE  TopReaderHasMail'
<1>1. ASSUME UNCHANGED <<pend, given>>,
             \A e \in ObjectId : (\E t \in Task : pend[t] = e) /\ OSEventState[e]
                                   => OSEventState'[e]
      PROVE  TopReaderHasMail'
  BY <1>1, GivenTaskPends DEF TopReaderHasMail, MboxInv
<1>2. CASE UNCHANGED vars
  BY <1>1, <1>2 DEF vars, eventVars, callVars, mboxVars
<1>3. ASSUME NEW e \in ObjectId, NEW message,
             OSMboxPost(e, message) \/ OSMboxPostISR(e, message)
      PROVE  TopReaderHasMail'
  <2>1. OSEventState' = [OSEventState EXCEPT ![e] = TRUE]
    BY <1>3 DEF OSMboxPost, OSMboxPostISR, PutMessage
  <2>2. CASE NobodyWaits(e)
    BY <1>1, <2>1, <2>2 DEF NobodyWaits, eventVars, callVars, MboxInv
  <2>3. CASE ~NobodyWaits(e)
    <3>1. SelectWaiter(e)
      BY <1>3, <2>3 DEF OSMboxPost, OSMboxPostISR, TaskPost, ISRPost, PostToWaiter
    <3>2. PICK u \in Waiters(e) : PriorityVector[HighestWaiter(e)] = u
      BY <3>1, SelectedWaiter DEF SelectWaiter, MboxInv
    <3>3. /\ given' = [t \in Task |-> given[t] \/ t = u]
          /\ UNCHANGED pend
          /\ u \in Task /\ pend[u] = e
      BY <3>1, <3>2 DEF SelectWaiter, Waiters
    <3> SUFFICES ASSUME NEW t \in Task, TopReader(t), given'[t]
                 PROVE  OSEventState'[pend'[t]]
      BY DEF TopReaderHasMail
    <3>4. CASE t = u
      BY <2>1, <3>3, <3>4 DEF MboxInv
    <3>5. CASE t # u
      <4>1. given[t] /\ pend[t] \in ObjectId
        BY <3>3, <3>5, GivenTaskPends DEF MboxInv
      <4> QED
        BY <2>1, <3>3, <4>1 DEF MboxInv, TopReaderHasMail
    <3> QED
      BY <3>4, <3>5
  <2> QED
    BY <2>2, <2>3
<1>4. ASSUME NEW t \in Task, TaskStep(t) PROVE TopReaderHasMail'
  <2>1. Running(t) /\ pend[t] = NoEvent
    BY <1>4 DEF TaskStep, InUserCode
  <2>2. ASSUME NEW message \in Pointer, OSMboxCreate(message)
        PROVE  TopReaderHasMail'
    <3>1. PICK e \in ObjectId :
            /\ CreateEvent(e)
            /\ OSEventState' = [OSEventState EXCEPT ![e] = (message # NULL)]
      BY <2>2 DEF OSMboxCreate
    <3>2. ~OSEventAllocated[e] /\ UNCHANGED <<pend, given>>
      BY <3>1 DEF CreateEvent, FreeBlock, NewWaitList, callVars
    <3>3. \A u \in Task : pend[u] # e
      BY <3>2, ObjectFacts DEF MboxInv, PendsAreReaders
    <3> QED
      BY <1>1, <3>1, <3>2, <3>3 DEF MboxInv
  <2>3. ASSUME NEW e \in ObjectId, OSMboxDelete(e) PROVE TopReaderHasMail'
    <3>1. /\ \A u \in Task : pend[u] # e
          /\ UNCHANGED <<pend, given>>
          /\ OSEventState' = [OSEventState EXCEPT ![e] = FALSE]
      BY <2>3 DEF OSMboxDelete, Assumptions, DeleteEvent, NewWaitList, callVars
    <3> QED
      BY <1>1, <3>1 DEF MboxInv
  <2>4. ASSUME NEW e \in ObjectId, NEW w \in PendWait, t \in Readers,
               OSMboxPend(t, e, w)
        PROVE  TopReaderHasMail'
    <3>1. \A u \in Task : TopReader(u) => ~given[u]
      <4>1. ~given[t]
        BY <2>1, GivenTaskPends, ObjectFacts DEF MboxInv
      <4> QED
        BY <2>1, <2>4, <4>1, LowerReaderFindsNobody
    <3>2. CASE UNCHANGED eventVars
      BY <3>1, <3>2 DEF eventVars, callVars, TopReaderHasMail
    <3>3. CASE WaitEvent(t, e, w)
      BY <3>1, <3>3 DEF WaitEvent, TopReaderHasMail, MboxInv, EventInv, EventTypeOK
    <3> QED
      BY <2>4, <3>2, <3>3 DEF OSMboxPend
  <2>5. CASE KernelCall(t) /\ UNCHANGED mboxVars
    BY <1>1, <2>5 DEF KernelCall, eventVars, callVars, mboxVars
  <2> QED
    BY <1>3, <1>4, <2>2, <2>3, <2>4, <2>5 DEF TaskStep
<1>5. ASSUME NEW t \in Task, OSMboxPendResume(t) PROVE TopReaderHasMail'
  <2>1. EndWait(t) /\ Resuming(t)
    BY <1>5 DEF OSMboxPendResume, PendReturnsTimeout, PendReturnsOK,
                LeaveByTimeout, LeaveByPost
  <2>2. Running(t) /\ pend[t] \in ObjectId /\ t \in Readers
    BY <2>1, ResumingTaskState, ObjectFacts
    DEF Resuming, MboxInv, PendsAreReaders
  <2>3. given' = [given EXCEPT ![t] = FALSE]
    BY <2>1 DEF EndWait
  <2> SUFFICES ASSUME NEW u \in Task, TopReader(u), given'[u] PROVE FALSE
    BY DEF TopReaderHasMail
  <2>4. u # t /\ given[u]
    BY <2>3 DEF MboxInv, EventInv, EventTypeOK
  <2> QED
    BY <2>2, <2>4, LowerReaderFindsNobody
<1>6. CASE KernelInterrupt /\ UNCHANGED mboxVars
  BY <1>1, <1>6 DEF KernelInterrupt, eventVars, callVars, mboxVars
<1> QED
  BY <1>2, <1>3, <1>4, <1>5, <1>6 DEF MboxNext, MboxInterrupt

\* With any number of readers, the highest one finds the message it was woken
\* for, whatever timeouts, posts and other readers come first, on a port where a
\* post requests the context switch.
THEOREM HighestReaderFindsMail ==
  ASSUME Assumptions, ~CriticalNests, TopReaderFree
  PROVE  MboxSpec => []TopReaderHasMail
<1>1. MboxInit => OrderInv /\ TopReaderHasMail
  BY InitOrderInv
<1>2. MboxInv /\ MboxInv' /\ OrderInv /\ TopReaderHasMail /\ [MboxNext]_vars
        => OrderInv' /\ TopReaderHasMail'
  BY StepOrderInv, StepTopReader
<1> QED
  BY MboxInvariance, <1>1, <1>2, PTL DEF MboxSpec

\* No message lies in a mailbox while readers wait for one and none was woken.
THEOREM MailIsNeverStranded ==
  ASSUME Assumptions
  PROVE  MboxSpec => []NoMailStranded
<1>1. MboxInv => NoMailStranded
  BY DEF MboxInv
<1> QED
  BY MboxInvariance, <1>1, PTL

\* OSMboxPend and OSMboxPost keep the wait lists exact, lose no wake-up and use
\* the delay list the way its macros expect.
THEOREM MboxWaitsAreSafe ==
  ASSUME Assumptions
  PROVE  MboxSpec => [](WaitListExact /\ NoWakeupLost /\ DelayListContract)
<1>1. MboxInv => WaitListExact /\ NoWakeupLost /\ DelayListContract
  BY NoWakeupLostFromInv, DelayListContractFromInv DEF MboxInv, EventInv
<1> QED
  BY MboxInvariance, <1>1, PTL

\* Whatever readers were woken without a switch, each tick gives the processor
\* to the highest runnable priority.
THEOREM MboxTickRestoresOrder ==
  ASSUME Assumptions
  PROVE  MboxSpec => TickPreempts
<1>1. ASSUME MboxInv, MboxInv', [MboxNext]_vars, OSTickCounter' # OSTickCounter
      PROVE  \A t \in Task : Priority'[t] \in OSReadyList' \cap OSBlockedList'
                               => Priority'[t] <= Priority'[currentTask']
  <2>1. TickTimer
    <3>1. CASE UNCHANGED vars
      BY <1>1, <3>1 DEF vars, kernelVars
    <3>2. ASSUME NEW t \in Task, TaskStep(t) PROVE UNCHANGED OSTickCounter
      BY <3>2
      DEF TaskStep, OSMboxCreate, OSMboxDelete, OSMboxPost, OSMboxPend,
          NobodyWaits, TaskPost, PostToWaiter, SelectWaiter, WaitEvent,
          KernelCall, OSDelayTask, Suspend, OSBlockTask, OSUnBlockTask,
          onlyBlockedList, kernelVars
    <3>3. ASSUME NEW t \in Task, OSMboxPendResume(t) PROVE UNCHANGED OSTickCounter
      BY <3>3 DEF OSMboxPendResume, PendReturnsTimeout, PendReturnsOK,
                  LeaveByTimeout, LeaveByPost, EndWait
    <3>4. ASSUME NEW e \in ObjectId, NEW message \in Pointer,
                 OSMboxPostISR(e, message)
          PROVE  UNCHANGED OSTickCounter
      BY <3>4 DEF OSMboxPostISR, NobodyWaits, ISRPost, PostToWaiter,
                  SelectWaiter, kernelVars
    <3> QED
      BY <1>1, <3>1, <3>2, <3>3, <3>4
      DEF MboxNext, MboxInterrupt, KernelInterrupt, SwitchContext
  <2>2. Reschedule
    BY <2>1 DEF TickTimer
  <2> QED
    BY <1>1, <2>2, OrderAfterReschedule DEF MboxInv
<1>2. MboxInv /\ MboxInv' /\ [MboxNext]_vars =>
        [OSTickCounter' # OSTickCounter =>
           \A t \in Task : Priority'[t] \in OSReadyList' \cap OSBlockedList'
                             => Priority'[t] <= Priority'[currentTask']]_kernelVars
  BY <1>1
<1> QED
  BY MboxInvariance, <1>2, PTL DEF MboxSpec, TickPreempts
=============================================================================
