------------------------------- MODULE Mutex --------------------------------
(***************************************************************************)
(* Mutexes with an immediate priority ceiling (brtos/brtos/mutex.c).  The  *)
(* owner of a mutex runs at the mutex's own priority OSMaxPriority; a      *)
(* ceiling of 0 means no ceiling.                                          *)
(***************************************************************************)
EXTENDS Event

CONSTANTS
  Ceilings,              \* HigherPriority arguments of OSMutexCreate
  LifoRelease            \* a task releases its mutexes in reverse order

ASSUME MutexAssumption ==
  /\ Ceilings \subseteq PrioRange
  /\ LifoRelease \in BOOLEAN

VARIABLES
  OSEventState,        \* TRUE: AVAILABLE_RESOURCE, FALSE: BUSY_RESOURCE
  OSEventOwner,        \* handle of the owner, 0 if there is none
  OSMaxPriority,
  OSOriginalPriority,
  held,                \* history: mutexes t acquired and did not release
  under,               \* history: what m's owner held when it acquired m
  slept                \* history: an owner gave the processor up by itself

mutexVars == <<OSEventState, OSEventOwner, OSMaxPriority, OSOriginalPriority,
               held, under>>
vars      == <<kernelVars, eventVars, mutexVars, slept>>

NoOwner == 0

Holds(t, m) == m \in held[t]

Acquired(t, m) ==
  /\ held' = [held EXCEPT ![t] = @ \cup {m}]
  /\ under' = [under EXCEPT ![m] = held[t]]

Released(t, m) ==
  /\ held' = [held EXCEPT ![t] = @ \ {m}]
  /\ under' = [n \in ObjectId |-> IF n = m THEN {} ELSE under[n] \ {m}]

\* The kernel variables that no mutex operation of a running task touches.
mutexKernelFrame == <<TimeToWait, OSBlockedList, delayList, OSTickCounter,
                      currentTask, changeContext, left>>

-----------------------------------------------------------------------------
(* Creation and deletion *)

\* A ceiling must be a priority nobody uses; it is reserved before the search
\* for a control block, and stays reserved when that search fails.
ReservePriority(ceiling) ==
  /\ ceiling > 0 => PriorityVector[ceiling] = EMPTY_PRIO
  /\ PriorityVector' =
       IF ceiling > 0 THEN [PriorityVector EXCEPT ![ceiling] = MUTEX_PRIO]
                      ELSE PriorityVector
  /\ UNCHANGED <<Priority, OSReadyList, mutexKernelFrame>>

OSMutexCreate(ceiling) ==
  /\ ReservePriority(ceiling)
  /\ \/ \E m \in ObjectId :
          /\ CreateEvent(m)
          /\ OSEventState' = [OSEventState EXCEPT ![m] = TRUE]
          /\ OSMaxPriority' = [OSMaxPriority EXCEPT ![m] = ceiling]
          /\ UNCHANGED <<OSEventOwner, OSOriginalPriority, held, under>>
     \/ /\ \A m \in ObjectId : OSEventAllocated[m]
        /\ UNCHANGED <<eventVars, mutexVars>>

\* The reserved priority is not given back.
OSMutexDelete(m) ==
  /\ DeleteEvent(m)
  /\ DeleteWithWaiters \/ OSEventOwner[m] = NoOwner
  /\ OSEventState' = [OSEventState EXCEPT ![m] = FALSE]
  /\ OSEventOwner' = [OSEventOwner EXCEPT ![m] = NoOwner]
  /\ OSMaxPriority' = [OSMaxPriority EXCEPT ![m] = 0]
  /\ OSOriginalPriority' = [OSOriginalPriority EXCEPT ![m] = 0]
  /\ UNCHANGED <<kernelVars, held, under>>

-----------------------------------------------------------------------------
(* Acquire *)

\* Mutant: the ceiling is not entered in PriorityVector.
TakeCeiling_NotInVector(t, m) ==
  LET iPriority == Priority[t]
      ceiling   == OSMaxPriority[m]
  IN  /\ OSOriginalPriority' = [OSOriginalPriority EXCEPT ![m] = iPriority]
      /\ Acquired(t, m)
      /\ UNCHANGED PriorityVector
      /\ IF ceiling > iPriority
         THEN /\ Priority' = [Priority EXCEPT ![t] = ceiling]
              /\ OSReadyList' = (OSReadyList \ {iPriority}) \cup {ceiling}
         ELSE UNCHANGED <<Priority, OSReadyList>>

\* Mutant: the priority is saved after it was raised.
TakeCeiling_SavedTooLate(t, m) ==
  LET iPriority == Priority[t]
      ceiling   == OSMaxPriority[m]
  IN  /\ OSOriginalPriority' = [OSOriginalPriority EXCEPT ![m] =
                                  IF ceiling > iPriority THEN ceiling
                                                         ELSE iPriority]
      /\ Acquired(t, m)
      /\ IF ceiling > iPriority
         THEN /\ Priority' = [Priority EXCEPT ![t] = ceiling]
              /\ PriorityVector' = [PriorityVector EXCEPT ![ceiling] = t]
              /\ OSReadyList' = (OSReadyList \ {iPriority}) \cup {ceiling}
         ELSE UNCHANGED <<priorityVars, OSReadyList>>

\* Mutant: the owner keeps its own priority.
TakeCeiling_NotRaised(t, m) ==
  /\ OSOriginalPriority' = [OSOriginalPriority EXCEPT ![m] = Priority[t]]
  /\ Acquired(t, m)
  /\ UNCHANGED <<priorityVars, OSReadyList>>

\* The new owner t saves its priority and is lifted to the ceiling.
TakeCeiling(t, m) ==
  LET iPriority == Priority[t]
      ceiling   == OSMaxPriority[m]
  IN  /\ OSOriginalPriority' = [OSOriginalPriority EXCEPT ![m] = iPriority]
      /\ Acquired(t, m)
      /\ IF ceiling > iPriority
         THEN /\ Priority' = [Priority EXCEPT ![t] = ceiling]
              /\ PriorityVector' = [PriorityVector EXCEPT ![ceiling] = t]
              /\ OSReadyList' = (OSReadyList \ {iPriority}) \cup {ceiling}
         ELSE UNCHANGED <<priorityVars, OSReadyList>>

\* Acquiring a mutex again returns OK and changes nothing, and so does the
\* error return of NO_TIMEOUT on a busy mutex.
OSMutexAcquire(t, m, w) ==
  /\ InUserCode(t)
  /\ OSEventAllocated[m]
  /\ OSEventOwner[m] # t
  /\ \/ /\ OSEventState[m]
        /\ OSEventState' = [OSEventState EXCEPT ![m] = FALSE]
        /\ OSEventOwner' = [OSEventOwner EXCEPT ![m] = t]
        /\ TakeCeiling(t, m)
        /\ UNCHANGED <<mutexKernelFrame, eventVars, OSMaxPriority>>
     \/ /\ ~OSEventState[m]
        /\ WaitEvent(t, m, w)
        /\ UNCHANGED mutexVars

\* The end of an acquire that waited.
AcquireReturnsTimeout(t) == LeaveByTimeout(t) /\ UNCHANGED mutexVars

AcquireReturnsOK(t) ==
  /\ LeaveByPost(t)
  /\ TakeCeiling(t, pend[t])
  /\ UNCHANGED <<OSEventState, OSEventOwner, OSMaxPriority>>

OSMutexAcquireResume(t) == AcquireReturnsTimeout(t) \/ AcquireReturnsOK(t)

-----------------------------------------------------------------------------
(* Release *)

\* The ready list with t back at its original priority.
RestoredReadyList(t, m) ==
  IF Priority[t] # OSOriginalPriority[m]
  THEN (OSReadyList \ {Priority[t]}) \cup {OSOriginalPriority[m]}
  ELSE OSReadyList

\* Mutant: the owner is recorded by priority instead of handle.
HandOver_OwnerIsPriority(t, m) ==
  /\ SelectWaiter(m)
  /\ OSEventOwner' = [OSEventOwner EXCEPT ![m] = HighestWaiter(m)]
  /\ OSReadyList' = RestoredReadyList(t, m) \cup {HighestWaiter(m)}
  /\ changeContext' = TRUE
  /\ UNCHANGED <<PriorityVector, currentTask, OSEventState>>

\* The highest waiter becomes the owner; the mutex stays busy.
HandOver(t, m) ==
  /\ SelectWaiter(m)
  /\ OSEventOwner' = [OSEventOwner EXCEPT ![m] =
                        PriorityVector[HighestWaiter(m)]]
  /\ OSReadyList' = RestoredReadyList(t, m) \cup {HighestWaiter(m)}
  /\ changeContext' = TRUE
  /\ UNCHANGED <<PriorityVector, currentTask, OSEventState>>

\* Mutant: the mutex stays busy.
FreeMutex_StaysBusy(t, m) ==
  /\ OSEventWait[m] = 0
  /\ OSEventOwner' = [OSEventOwner EXCEPT ![m] = NoOwner]
  /\ PriorityVector' =
       IF OSMaxPriority[m] > 0
       THEN [PriorityVector EXCEPT ![OSMaxPriority[m]] = MUTEX_PRIO]
       ELSE PriorityVector
  /\ OSReadyList' = RestoredReadyList(t, m)
  /\ UNCHANGED <<mutexKernelFrame, eventVars, OSEventState>>

\* Nobody waits: the ceiling goes back to the mutex.  There is no context
\* switch on this path, although t's priority may have dropped.
FreeMutex(t, m) ==
  /\ OSEventWait[m] = 0
  /\ OSEventOwner' = [OSEventOwner EXCEPT ![m] = NoOwner]
  /\ OSEventState' = [OSEventState EXCEPT ![m] = TRUE]
  /\ PriorityVector' =
       IF OSMaxPriority[m] > 0
       THEN [PriorityVector EXCEPT ![OSMaxPriority[m]] = MUTEX_PRIO]
       ELSE PriorityVector
  /\ OSReadyList' = RestoredReadyList(t, m)
  /\ UNCHANGED <<mutexKernelFrame, eventVars>>

\* A caller that is not the owner gets ERR_EVENT_OWNER and changes nothing.
OSMutexRelease(t, m) ==
  /\ InUserCode(t)
  /\ OSEventAllocated[m]
  /\ OSEventOwner[m] = t
  /\ LifoRelease => \A n \in held[t] : m \notin under[n]
  /\ Priority' = [Priority EXCEPT ![t] = OSOriginalPriority[m]]
  /\ Released(t, m)
  /\ \/ HandOver(t, m)
     \/ FreeMutex(t, m)
  /\ UNCHANGED <<OSMaxPriority, OSOriginalPriority>>

-----------------------------------------------------------------------------
MutexInit ==
  /\ EventInit
  /\ OSEventState = [m \in ObjectId |-> FALSE]
  /\ OSEventOwner = [m \in ObjectId |-> NoOwner]
  /\ OSMaxPriority = [m \in ObjectId |-> 0]
  /\ OSOriginalPriority = [m \in ObjectId |-> 0]
  /\ held = [t \in Task |-> {}]
  /\ under = [m \in ObjectId |-> {}]
  /\ slept = FALSE

\* t delays, blocks itself or waits while it owns a mutex.
SleepsHolding(t) ==
  held[t] # {} /\ Priority'[t] \notin OSReadyList' \cap OSBlockedList'

TaskStep(t) ==
  /\ InUserCode(t)
  /\ \/ \E c \in Ceilings : OSMutexCreate(c)
     \/ \E m \in ObjectId : OSMutexDelete(m) \/ OSMutexRelease(t, m)
     \/ \E m \in ObjectId, w \in PendWait : OSMutexAcquire(t, m, w)
     \/ KernelCall(t) /\ UNCHANGED mutexVars
  /\ slept' = (slept \/ SleepsHolding(t))

MutexNext ==
  \/ \E t \in Task : TaskStep(t)
  \/ \E t \in Task : OSMutexAcquireResume(t) /\ UNCHANGED slept
  \/ KernelInterrupt /\ UNCHANGED <<mutexVars, slept>>

MutexSpec == MutexInit /\ [][MutexNext]_vars

-----------------------------------------------------------------------------
(* Properties *)

MutexTypeOK ==
  /\ EventTypeOK
  /\ OSEventState \in [ObjectId -> BOOLEAN]
  /\ OSEventOwner \in [ObjectId -> Task \cup {NoOwner}]
  /\ OSMaxPriority \in [ObjectId -> PrioRange]
  /\ OSOriginalPriority \in [ObjectId -> PrioRange]
  /\ held \in [Task -> SUBSET ObjectId]
  /\ under \in [ObjectId -> SUBSET ObjectId]
  /\ slept \in BOOLEAN

\* Two tasks never both believe they hold a mutex, and the one that does is
\* its owner in the control block, whatever timeouts and hand-overs happened.
MutualExclusion ==
  \A m \in ObjectId, t \in Task :
    Holds(t, m) => /\ OSEventOwner[m] = t
                   /\ \A u \in Task \ {t} : ~Holds(u, m)

\* A mutex is marked available exactly when it has no owner, and then nobody
\* waits for it: a released mutex is never left busy with no one to release it.
NoOrphanedMutex ==
  \A m \in ObjectId : OSEventAllocated[m] =>
    /\ OSEventState[m] <=> OSEventOwner[m] = NoOwner
    /\ OSEventState[m] => OSEventWait[m] = 0
    /\ OSEventOwner[m] # NoOwner =>
         Holds(OSEventOwner[m], m) \/ given[OSEventOwner[m]]

\* Every thread can be found through its current priority, so the scheduler
\* selects an existing task and never the marker of a free ceiling.
PrioritiesResolve ==
  \A t \in Thread : PriorityVector[Priority[t]] = t

\* The holder of a mutex runs at least at its ceiling (priority inversion is
\* bounded), and a task that holds nothing is back at its own priority.
CeilingRespected ==
  \A t \in Task :
    /\ \A m \in ObjectId : Holds(t, m) => Priority[t] >= OSMaxPriority[m]
    /\ held[t] = {} => Priority[t] = InitPriority[t]

\* With ceilings above their users, a task finds no mutex busy as long as no
\* owner has given the processor up by itself: immediate ceilings alone rule
\* out waiting, and so deadlock, although a release does not switch context.
NeverWaits ==
  ~slept => \A t \in Task, m \in ObjectId :
              InUserCode(t) /\ OSEventAllocated[m]
                => OSEventOwner[m] \in {t, NoOwner}

\* The scheduler's choice is always a thread.
ScheduledThreadExists ==
  OSSchedule(PriorityVector, OSReadyList, OSBlockedList) \in Thread
=============================================================================
