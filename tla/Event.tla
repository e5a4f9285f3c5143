------------------------------- MODULE Event --------------------------------
(***************************************************************************)
(* What semaphores, mutexes, mailboxes and queues have in common: a table  *)
(* of control blocks, and per block the counter OSEventWait and the mask   *)
(* OSEventWaitList of the tasks suspended on it.  The four source files    *)
(* repeat this code word for word; the operators are translated from       *)
(* semaphore.c and each service module says which lines of its own file    *)
(* they stand for.                                                         *)
(*                                                                         *)
(* A call that has to wait is two steps, up to the context switch and from *)
(* there on; between them other tasks, interrupts and ticks run.           *)
(***************************************************************************)
EXTENDS Kernel

CONSTANTS
  MAX_EVENT,          \* BRTOS_MAX_SEM, _MUTEX, _MBOX or _QUEUE
  DeleteWithWaiters,  \* may a task delete an object others wait for?
  BlockTargets        \* the threads that tasks block and unblock

ASSUME EventAssumption ==
  /\ MAX_EVENT \in Nat \ {0}
  /\ DeleteWithWaiters \in BOOLEAN
  /\ BlockTargets \subseteq Thread

VARIABLES
  OSEventAllocated, OSEventWait, OSEventWaitList,
  pend,     \* the object t is suspended on, or NoEvent
  timed,    \* "time_wait != 0" of that call
  given     \* history: a post selected t since it began to wait

eventTable == <<OSEventAllocated, OSEventWait, OSEventWaitList>>
callVars   == <<pend, timed, given>>
eventVars  == <<eventTable, callVars>>

ObjectId == 1 .. MAX_EVENT
NoEvent  == 0

\* time_wait arguments of a pend: 0 waits for ever, NO_TIMEOUT not at all.
PendWait == TimeWait \cup {0, NO_TIMEOUT}

\* t executes its own code, outside any call of the kernel.
InUserCode(t) == Running(t) /\ pend[t] = NoEvent

-----------------------------------------------------------------------------
(* Control blocks *)

\* The search for the first block that is not allocated.
FreeBlock(e) ==
  /\ ~OSEventAllocated[e]
  /\ \A d \in ObjectId : d < e => OSEventAllocated[d]

NewWaitList(e, allocated) ==
  /\ OSEventAllocated' = [OSEventAllocated EXCEPT ![e] = allocated]
  /\ OSEventWait' = [OSEventWait EXCEPT ![e] = 0]
  /\ OSEventWaitList' = [OSEventWaitList EXCEPT ![e] = {}]
  /\ UNCHANGED callVars

CreateEvent(e) ==
  /\ FreeBlock(e)
  /\ NewWaitList(e, TRUE)

\* The code deletes whatever it is given; programs that never delete an
\* object with waiters are the case DeleteWithWaiters = FALSE.
DeleteEvent(e) ==
  /\ OSEventAllocated[e]
  /\ DeleteWithWaiters \/ OSEventWaitList[e] = {}
  /\ NewWaitList(e, FALSE)

-----------------------------------------------------------------------------
(* Waiting *)

\* Mutant: the timeout of the call is ignored.
WaitEvent_NeverTimesOut(t, e, w) ==
  /\ w # NO_TIMEOUT
  /\ OSEventWait' = [OSEventWait EXCEPT ![e] = @ + 1]
  /\ OSEventWaitList' = [OSEventWaitList EXCEPT ![e] = @ \cup {Priority[t]}]
  /\ pend' = [pend EXCEPT ![t] = e]
  /\ timed' = [timed EXCEPT ![t] = (w # 0)]
  /\ given' = [given EXCEPT ![t] = FALSE]
  /\ UNCHANGED OSEventAllocated
  /\ Suspend(t, 0)

\* The object is not available: enter its wait list and give the processor up.
WaitEvent(t, e, w) ==
  /\ w # NO_TIMEOUT
  /\ OSEventWait' = [OSEventWait EXCEPT ![e] = @ + 1]
  /\ OSEventWaitList' = [OSEventWaitList EXCEPT ![e] = @ \cup {Priority[t]}]
  /\ pend' = [pend EXCEPT ![t] = e]
  /\ timed' = [timed EXCEPT ![t] = (w # 0)]
  /\ given' = [given EXCEPT ![t] = FALSE]
  /\ UNCHANGED OSEventAllocated
  /\ Suspend(t, w)

\* Mutant: the wait list is not looked at, so a timeout hides a post.
ExitsByTimeout_NoListTest(t) == timed[t] /\ TimeToWait[t] = EXIT_BY_TIMEOUT

\* Mutant: the timeout is not noticed.
ExitsByTimeout_Never(t) == FALSE

\* "Test if both timeout and post have occured before arrive here": only a
\* task still in the wait list was not posted.
ExitsByTimeout(t) ==
  /\ timed[t]
  /\ TimeToWait[t] = EXIT_BY_TIMEOUT
  /\ Priority[t] \in OSEventWaitList[pend[t]]

\* t has the processor again inside the call it waits in.
Resuming(t) == Running(t) /\ pend[t] # NoEvent

EndWait(t) ==
  /\ pend' = [pend EXCEPT ![t] = NoEvent]
  /\ timed' = [timed EXCEPT ![t] = FALSE]
  /\ given' = [given EXCEPT ![t] = FALSE]
  /\ left' = [left EXCEPT ![t] = 0]
  /\ UNCHANGED <<OSEventAllocated, OSBlockedList, OSTickCounter, currentTask,
                 changeContext>>

\* Mutant: OSEventWait still counts the task.
LeaveByTimeout_KeepsCount(t) ==
  /\ Resuming(t)
  /\ ExitsByTimeout(t)
  /\ OSEventWaitList' = [OSEventWaitList EXCEPT ![pend[t]] = @ \ {Priority[t]}]
  /\ UNCHANGED <<OSEventWait, TimeToWait, delayList, priorityVars, OSReadyList>>
  /\ EndWait(t)

LeaveByTimeout(t) ==
  /\ Resuming(t)
  /\ ExitsByTimeout(t)
  /\ OSEventWaitList' = [OSEventWaitList EXCEPT ![pend[t]] = @ \ {Priority[t]}]
  /\ OSEventWait' = [OSEventWait EXCEPT ![pend[t]] = @ - 1]
  /\ UNCHANGED <<TimeToWait, delayList, priorityVars, OSReadyList>>
  /\ EndWait(t)

\* Mutant: the task stays in the delay list.
LeaveByPost_StaysLinked(t) ==
  /\ Resuming(t)
  /\ ~ExitsByTimeout(t)
  /\ UNCHANGED <<TimeToWait, delayList, OSEventWait, OSEventWaitList>>
  /\ EndWait(t)

\* The caller adds what it does with the object (a mutex also changes
\* priorities and the ready list).
LeaveByPost(t) ==
  LET unlink == timed[t] /\ TimeToWait[t] # EXIT_BY_TIMEOUT
  IN  /\ Resuming(t)
      /\ ~ExitsByTimeout(t)
      /\ TimeToWait' = [TimeToWait EXCEPT ![t] =
                          IF unlink THEN NO_TIMEOUT ELSE @]
      /\ delayList' = IF unlink THEN delayList \ {t} ELSE delayList
      /\ UNCHANGED <<OSEventWait, OSEventWaitList>>
      /\ EndWait(t)

-----------------------------------------------------------------------------
(* Waking *)

HighestWaiter(e) == SAScheduler(OSEventWaitList[e])

\* A post, or the release of a mutex, selects the waiter with the highest
\* priority.  The caller makes it ready and asks for the context switch.
SelectWaiter(e) ==
  /\ OSEventWait[e] # 0
  /\ OSEventWaitList' = [OSEventWaitList EXCEPT ![e] = @ \ {HighestWaiter(e)}]
  /\ OSEventWait' = [OSEventWait EXCEPT ![e] = @ - 1]
  /\ given' = [t \in Task |->
                 given[t] \/ t = PriorityVector[HighestWaiter(e)]]
  /\ UNCHANGED <<OSEventAllocated, pend, timed, TimeToWait, OSBlockedList,
                 delayList, OSTickCounter, left>>

\* Mutant: the selected task is not made ready.
PostToWaiter_NotReady(e) ==
  /\ SelectWaiter(e)
  /\ UNCHANGED <<OSReadyList, priorityVars>>

PostToWaiter(e) ==
  /\ SelectWaiter(e)
  /\ OSReadyList' = OSReadyList \cup {HighestWaiter(e)}
  /\ UNCHANGED priorityVars

\* A task posts: the switch is requested if the port's iNesting allows it.
TaskPost(e) ==
  /\ PostToWaiter(e)
  /\ ChangeContextIfNotNested
  /\ UNCHANGED currentTask

\* An interrupt posts: its own end switches.
ISRPost(e) == PostToWaiter(e) /\ Reschedule

-----------------------------------------------------------------------------
EventInit ==
  /\ Init
  /\ OSEventAllocated = [e \in ObjectId |-> FALSE]
  /\ OSEventWait = [e \in ObjectId |-> 0]
  /\ OSEventWaitList = [e \in ObjectId |-> {}]
  /\ pend = [t \in Task |-> NoEvent]
  /\ timed = [t \in Task |-> FALSE]
  /\ given = [t \in Task |-> FALSE]

\* The other services of the kernel that a task in its own code may use.
KernelCall(t) ==
  /\ \/ \E w \in TimeWait : OSDelayTask(t, w)
     \/ \E h \in BlockTargets : OSBlockTask(h) \/ OSUnBlockTask(h)
  /\ UNCHANGED eventVars

KernelInterrupt == (TickTimer \/ SwitchContext) /\ UNCHANGED eventVars

-----------------------------------------------------------------------------
(* Properties every service has to keep *)

EventTypeOK ==
  /\ TypeOK
  /\ OSEventAllocated \in [ObjectId -> BOOLEAN]
  /\ OSEventWait \in [ObjectId -> Nat]
  /\ OSEventWaitList \in [ObjectId -> SUBSET PrioRange]
  /\ pend \in [Task -> ObjectId \cup {NoEvent}]
  /\ timed \in [Task -> BOOLEAN]
  /\ given \in [Task -> BOOLEAN]

Waiters(e) == {t \in Task : pend[t] = e /\ ~given[t]}

\* The wait list of an object is exactly the tasks suspended on it that no
\* post has selected yet, and OSEventWait is their number.
WaitListExact ==
  \A e \in ObjectId :
    /\ OSEventWaitList[e] = {Priority[t] : t \in Waiters(e)}
    /\ OSEventWait[e] = Cardinality(OSEventWaitList[e])

\* No wake-up is lost: a task that is not ready is in the delay list, or an
\* object still counts it as a waiter; a timed waiter that is not ready is in
\* both.
NoWakeupLost ==
  \A t \in Task : Priority[t] \notin OSReadyList =>
    \/ pend[t] = NoEvent /\ t \in delayList
    \/ /\ pend[t] # NoEvent
       /\ Priority[t] \in OSEventWaitList[pend[t]]
       /\ timed[t] => t \in delayList

\* A task links itself into the delay list only when it is not in it, and
\* unlinks itself only when it is: what the linked list (module DelayList)
\* needs of its users.
DelayListContract ==
  \A t \in Task :
    /\ pend[t] = NoEvent /\ Priority[t] \in OSReadyList => t \notin delayList
    /\ pend[t] # NoEvent /\ timed[t] /\ TimeToWait[t] # EXIT_BY_TIMEOUT
         => t \in delayList
=============================================================================
