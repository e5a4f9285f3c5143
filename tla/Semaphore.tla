----------------------------- MODULE Semaphore ------------------------------
(***************************************************************************)
(* Counting and binary semaphores (brtos/brtos/semaphore.c).               *)
(***************************************************************************)
EXTENDS Event

CONSTANT SEM_COUNT_MAX    \* largest OSEventCount (255 in the code)

ASSUME SemAssumption == SEM_COUNT_MAX \in Nat \ {0}

VARIABLES OSEventCount, Binary

semVars == <<OSEventCount, Binary>>
vars    == <<kernelVars, eventVars, semVars>>

-----------------------------------------------------------------------------
CreateSem(e, cnt, binary) ==
  /\ CreateEvent(e)
  /\ OSEventCount' = [OSEventCount EXCEPT ![e] = cnt]
  /\ Binary' = [Binary EXCEPT ![e] = binary]
  /\ UNCHANGED kernelVars

OSSemCreate(cnt) == \E e \in ObjectId : CreateSem(e, cnt, FALSE)

OSSemBinaryCreate(bit) ==
  \E e \in ObjectId : CreateSem(e, IF bit > 1 THEN 1 ELSE 0, TRUE)

OSSemDelete(e) ==
  /\ DeleteEvent(e)
  /\ OSEventCount' = [OSEventCount EXCEPT ![e] = 0]
  /\ UNCHANGED <<kernelVars, Binary>>

\* A pend with NO_TIMEOUT on an empty semaphore returns
\* EXIT_BY_NO_ENTRY_AVAILABLE and changes nothing.
OSSemPend(t, e, w) ==
  /\ InUserCode(t)
  /\ OSEventAllocated[e]
  /\ \/ /\ OSEventCount[e] > 0
        /\ OSEventCount' = [OSEventCount EXCEPT ![e] = @ - 1]
        /\ UNCHANGED <<kernelVars, eventVars, Binary>>
     \/ /\ OSEventCount[e] = 0
        /\ WaitEvent(t, e, w)
        /\ UNCHANGED semVars

\* The end of a pend that waited: it returns TIMEOUT or OK.
PendReturnsTimeout(t) == LeaveByTimeout(t) /\ UNCHANGED semVars

PendReturnsOK(t) ==
  /\ LeaveByPost(t)
  /\ UNCHANGED <<priorityVars, OSReadyList, semVars>>

OSSemPendResume(t) == PendReturnsTimeout(t) \/ PendReturnsOK(t)

\* Mutant: the counter may pass its maximum.
CountPost_Overflows(e) ==
  /\ OSEventWait[e] = 0
  /\ OSEventCount[e] <= SEM_COUNT_MAX
  /\ OSEventCount' = [OSEventCount EXCEPT ![e] =
                        IF Binary[e] THEN 1 ELSE @ + 1]
  /\ UNCHANGED <<kernelVars, eventVars, Binary>>

\* Mutant: the count goes up although somebody waits.
CountPost_IgnoresWaiters(e) ==
  /\ OSEventCount[e] < SEM_COUNT_MAX
  /\ OSEventCount' = [OSEventCount EXCEPT ![e] =
                        IF Binary[e] THEN 1 ELSE @ + 1]
  /\ UNCHANGED <<kernelVars, eventVars, Binary>>

\* Nobody waits: the count goes up, to TRUE at most for a binary semaphore.
\* A full counter (ERR_SEM_OVF) changes nothing.
CountPost(e) ==
  /\ OSEventWait[e] = 0
  /\ OSEventCount[e] < SEM_COUNT_MAX
  /\ OSEventCount' = [OSEventCount EXCEPT ![e] =
                        IF Binary[e] THEN 1 ELSE @ + 1]
  /\ UNCHANGED <<kernelVars, eventVars, Binary>>

OSSemPost(e) ==
  /\ OSEventAllocated[e]
  /\ \/ TaskPost(e) /\ UNCHANGED semVars
     \/ CountPost(e)

OSSemPostISR(e) ==
  /\ OSEventAllocated[e]
  /\ \/ ISRPost(e) /\ UNCHANGED semVars
     \/ CountPost(e)

-----------------------------------------------------------------------------
SemInit ==
  /\ EventInit
  /\ OSEventCount = [e \in ObjectId |-> 0]
  /\ Binary = [e \in ObjectId |-> FALSE]

\* What the running task may call.
TaskStep(t) ==
  /\ InUserCode(t)
  /\ \/ \E cnt \in 0 .. SEM_COUNT_MAX : OSSemCreate(cnt)
     \/ \E bit \in 0 .. 2 : OSSemBinaryCreate(bit)
     \/ \E e \in ObjectId : OSSemDelete(e) \/ OSSemPost(e)
     \/ \E e \in ObjectId, w \in PendWait : OSSemPend(t, e, w)
     \/ KernelCall(t) /\ UNCHANGED semVars

SemInterrupt ==
  \/ \E e \in ObjectId : OSSemPostISR(e)
  \/ KernelInterrupt /\ UNCHANGED semVars

SemNext ==
  \/ \E t \in Task : TaskStep(t) \/ OSSemPendResume(t)
  \/ SemInterrupt

SemSpec == SemInit /\ [][SemNext]_vars

\* The timer ticks, and a pended switch is taken.
SemFairSpec ==
  /\ SemSpec
  /\ WF_vars(TickTimer /\ UNCHANGED <<eventVars, semVars>>)
  /\ WF_vars(SwitchContext /\ UNCHANGED <<eventVars, semVars>>)

-----------------------------------------------------------------------------
(* Properties *)

SemTypeOK ==
  /\ EventTypeOK
  /\ OSEventCount \in [ObjectId -> 0 .. SEM_COUNT_MAX]
  /\ Binary \in [ObjectId -> BOOLEAN]

\* A semaphore never holds a count while a task waits for it.
NoCountWithWaiters ==
  \A e \in ObjectId : OSEventCount[e] > 0 => OSEventWait[e] = 0

\* However a timeout races a post, a pend returns OK only to a task that a
\* post selected, and TIMEOUT only to one that none did.
ResultMatchesPost ==
  [][ \A t \in Task : /\ PendReturnsOK(t) => given[t]
                      /\ PendReturnsTimeout(t) => ~given[t] ]_vars

\* "A task exits a pending state with a semaphore post or by timeout": a timed
\* pend becomes ready again.
TimedPendEnds ==
  \A t \in Task : pend[t] # NoEvent /\ timed[t] ~> Priority[t] \in OSReadyList
=============================================================================
