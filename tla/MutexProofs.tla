---------------------------- MODULE MutexProofs -----------------------------
(***************************************************************************)
(* Proofs about Mutex, for any number of tasks and mutexes with any        *)
(* ceilings, when nested mutexes are released in reverse order             *)
(* (LifoRelease), no wait is longer than the range of the tick counter     *)
(* (ShortWaits) and no mutex is deleted in use (~DeleteWithWaiters).       *)
(*                                                                         *)
(* Who gets a mutex is decided by priorities: a release finds the new      *)
(* owner through PriorityVector.  So mutual exclusion rests on the         *)
(* bookkeeping of priorities, which Nesting describes, and that rests on   *)
(* mutual exclusion, because a ceiling that two tasks used would make      *)
(* PriorityVector forget one of them.  MutexInv proves both together.      *)
(***************************************************************************)
EXTENDS Mutex, KernelProofs

Assumptions == ShortWaits /\ ~DeleteWithWaiters /\ LifoRelease

-----------------------------------------------------------------------------
(* The inductive invariant *)

MutexTypes ==
  /\ OSEventState \in [ObjectId -> BOOLEAN]
  /\ OSEventOwner \in [ObjectId -> Task \cup {NoOwner}]
  /\ OSMaxPriority \in [ObjectId -> PrioRange]
  /\ OSOriginalPriority \in [ObjectId -> PrioRange]
  /\ held \in [Task -> SUBSET ObjectId]
  /\ under \in [ObjectId -> SUBSET ObjectId]

\* p is t's own priority, or the ceiling of one of the mutexes in S.
From(t, p, S) ==
  p = InitPriority[t] \/ \E n \in S : p = OSMaxPriority[n] /\ p > 0

\* A ceiling is reserved, nobody was installed with it and no other mutex has
\* it.
Reserved ==
  /\ \A t \in Thread : PriorityVector[InitPriority[t]] = t
  /\ \A m \in ObjectId : OSEventAllocated[m] /\ OSMaxPriority[m] > 0 =>
       /\ PriorityVector[OSMaxPriority[m]] # EMPTY_PRIO
       /\ \A t \in Thread : InitPriority[t] # OSMaxPriority[m]
       /\ \A n \in ObjectId \ {m} :
            OSEventAllocated[n] => OSMaxPriority[n] # OSMaxPriority[m]

\* The owner holds the mutex, or a release has given it to him and he has not
\* resumed yet.
Owners ==
  \A m \in ObjectId :
    /\ \A t \in Task :
         /\ OSEventOwner[m] = t <=> Holds(t, m) \/ (pend[t] = m /\ given[t])
         /\ Holds(t, m) => pend[t] # m
    /\ OSEventOwner[m] # NoOwner => OSEventAllocated[m]
    /\ OSEventAllocated[m] =>
         /\ OSEventState[m] <=> OSEventOwner[m] = NoOwner
         /\ OSEventState[m] => OSEventWait[m] = 0

\* What a task holds is ordered by acquisition, and so are the priorities it
\* had on the way.
Nesting(t) ==
  /\ From(t, Priority[t], held[t])
  /\ \A m \in held[t] :
       /\ OSMaxPriority[m] <= Priority[t]
       /\ From(t, OSOriginalPriority[m], under[m])
       /\ PriorityVector[OSOriginalPriority[m]] = t
       /\ under[m] \subseteq held[t] \ {m}
       /\ \A n \in under[m] : OSMaxPriority[n] <= OSOriginalPriority[m]
       /\ \A n \in held[t] \ {m} : n \in under[m] \/ m \in under[n]

\* Only priorities in use are blocked.
BlockedAreOwned ==
  \A p \in PrioRange \ OSBlockedList : \E t \in Thread : Priority[t] = p

MutexInv ==
  /\ EventInv
  /\ MutexTypes
  /\ Reserved
  /\ Owners
  /\ \A t \in Task : Nesting(t)
  /\ BlockedAreOwned

\* The marks of PriorityVector and NoOwner are not tasks.
LEMMA HandleFacts ==
  /\ NoOwner \notin Task
  /\ EMPTY_PRIO \notin Thread /\ MUTEX_PRIO \notin Thread
  /\ EMPTY_PRIO # MUTEX_PRIO
  /\ \A t \in Task : InitPriority[t] > 0
<1>1. \A t \in Task : InitPriority[t] > 0
  BY PriorityAssumption, ThreadAssumption DEF Thread, PrioRange
<1> QED
  BY <1>1, ThreadAssumption DEF Thread, NoOwner, EMPTY_PRIO, MUTEX_PRIO

\* The first state.
LEMMA InitMutexInv ==
  ASSUME MutexInit
  PROVE  MutexInv
<1>1. EventInv
  BY InitEventInv DEF MutexInit
<1>2. MutexTypes
  BY PriorityAssumption DEF MutexInit, MutexTypes, NoOwner, PrioRange
<1>3. Priority = InitPriority /\ OSBlockedList = PrioRange
  BY DEF MutexInit, EventInit, Init
<1>4. \A m \in ObjectId : ~OSEventAllocated[m] /\ OSEventOwner[m] = NoOwner
  BY DEF MutexInit, EventInit
<1>5. \A t \in Task : held[t] = {} /\ ~given[t]
  BY DEF MutexInit, EventInit
<1>6. Reserved
  BY <1>1, <1>3, <1>4 DEF Reserved, EventInv, PrioritiesOwned
<1>7. Owners
  BY <1>4, <1>5, HandleFacts DEF Owners, Holds
<1>8. \A t \in Task : Nesting(t)
  BY <1>3, <1>5 DEF Nesting, From
<1>9. BlockedAreOwned
  BY <1>3 DEF BlockedAreOwned
<1> QED
  BY <1>1, <1>2, <1>6, <1>7, <1>8, <1>9 DEF MutexInv

-----------------------------------------------------------------------------
(* A task that changes its priority *)

\* t moves to priority q, which becomes its own in PriorityVector.
MoveTo(t, q) ==
  /\ q \in PrioRange \cap OSBlockedList
  /\ Priority' = [Priority EXCEPT ![t] = q]
  /\ PriorityVector' \in [PrioRange -> Thread \cup {EMPTY_PRIO, MUTEX_PRIO}]
  /\ \A u \in Thread : PriorityVector'[Priority'[u]] = u

\* and its ready bit moves with it.
ReadyMoves(t, q) == OSReadyList' = (OSReadyList \ {Priority[t]}) \cup {q}

\* The other priorities stay, and differ from the old and the new one.
LEMMA MoveFacts ==
  ASSUME EventInv, NEW t \in Task, NEW q, MoveTo(t, q)
  PROVE  /\ Priority' \in [Thread -> PrioRange]
         /\ Priority'[t] = q
         /\ Priority'[Idle] = 0
         /\ \A u \in Thread \ {t} : /\ Priority'[u] = Priority[u]
                                    /\ Priority[u] # q
                                    /\ Priority[u] # Priority[t]
<1>1. Priority \in [Thread -> PrioRange] /\ t \in Thread /\ Idle \in Thread
      /\ t # Idle
  BY ThreadAssumption, ConstantFacts DEF EventInv, PrioritiesOwned
<1>2. \A u \in Thread \ {t} : Priority'[u] = Priority[u]
  BY <1>1 DEF MoveTo
<1>3. Priority'[t] = q
  BY <1>1 DEF MoveTo
<1>4. \A u \in Thread \ {t} : Priority[u] # q
  BY <1>1, <1>2, <1>3 DEF MoveTo
<1>5. \A u \in Thread \ {t} : Priority[u] # Priority[t]
  BY <1>1, PriorityInjective
<1>6. Priority' \in [Thread -> PrioRange] /\ Priority'[Idle] = 0
  BY <1>1 DEF MoveTo, EventInv, PrioritiesOwned
<1> QED
  BY <1>2, <1>3, <1>4, <1>5, <1>6

\* Moving keeps PrioritiesOwned if t is ready at q only.
LEMMA MoveKeepsOwned ==
  ASSUME EventInv, NEW t \in Task, NEW q, MoveTo(t, q),
         \A p \in OSReadyList' : p = q \/ \E u \in Thread \ {t} : p = Priority[u]
  PROVE  PrioritiesOwned' /\ OSReadyList' \subseteq PrioRange
<1>1. t \in Thread
  BY ConstantFacts
<1>2. OSReadyList' \subseteq {Priority'[u] : u \in Thread}
  <2> SUFFICES ASSUME NEW p \in OSReadyList'
               PROVE  \E u \in Thread : p = Priority'[u]
    OBVIOUS
  <2>1. CASE p = q
    BY <1>1, <2>1, MoveFacts
  <2>2. CASE p # q
    <3>1. PICK u \in Thread \ {t} : p = Priority[u]
      BY <2>2
    <3> QED
      BY <3>1, MoveFacts
  <2> QED
    BY <2>1, <2>2
<1>3. PrioritiesOwned'
  BY <1>2, MoveFacts DEF PrioritiesOwned, MoveTo
<1>4. \A u \in Thread : Priority'[u] \in PrioRange
  BY MoveFacts
<1> QED
  BY <1>2, <1>3, <1>4

\* A task in its own code that moves, as the first acquire and the release
\* without waiters make it.
LEMMA MoveKeepsInv ==
  ASSUME EventInv, NEW t \in Task, InUserCode(t), NEW q, MoveTo(t, q),
         ReadyMoves(t, q), UNCHANGED <<mutexKernelFrame, eventVars>>
  PROVE  EventInv'
<1>1. Running(t) /\ pend[t] = NoEvent /\ t \in Thread
  BY ConstantFacts DEF InUserCode
<1>2. PrioritiesOwned' /\ OSReadyList' \subseteq PrioRange
  <2>1. \A p \in OSReadyList' : p = q \/ \E u \in Thread \ {t} : p = Priority[u]
    BY DEF ReadyMoves, EventInv, PrioritiesOwned
  <2> QED
    BY <2>1, MoveKeepsOwned
<1>3. UNCHANGED <<TimeToWait, OSBlockedList, delayList, OSTickCounter,
                  currentTask, changeContext, left, OSEventAllocated,
                  OSEventWait, OSEventWaitList, pend, timed, given>>
  BY DEF mutexKernelFrame, eventVars, eventTable, callVars
<1>4. EventTypeOK'
  <2>1. TypeOK'
    BY <1>2, <1>3, MoveFacts DEF EventInv, EventTypeOK, TypeOK, MoveTo
  <2> QED
    BY <1>3, <2>1 DEF EventInv, EventTypeOK
<1>5. RunningIsRunnable'
  BY <1>1, <1>3, MoveFacts DEF RunningIsRunnable, Running, MoveTo, ReadyMoves
<1>6. ASSUME NEW u \in Task PROVE WaitState(u)'
  <2>1. WaitState(u) /\ u \in Thread
    BY ConstantFacts DEF EventInv
  <2>2. CASE u = t
    <3>1. Priority[t] \in OSReadyList
      BY <1>1, RunningTaskState
    <3>2. Priority'[t] \in OSReadyList'
      BY MoveFacts DEF ReadyMoves
    <3> QED
      BY <1>1, <1>3, <2>1, <2>2, <3>1, <3>2 DEF WaitState
  <2>3. CASE u # t
    <3>1. Priority'[u] \in OSReadyList' <=> Priority[u] \in OSReadyList
      BY <2>1, <2>3, MoveFacts DEF ReadyMoves
    <3> QED
      BY <1>3, <2>1, <3>1 DEF WaitState
  <2> QED
    BY <2>2, <2>3
<1>7. \A e \in ObjectId : /\ Waiters(e)' = Waiters(e)
                          /\ \A u \in Waiters(e) : Priority'[u] = Priority[u]
  BY <1>1, <1>3, MoveFacts, ObjectFacts, ConstantFacts DEF Waiters
<1>8. WaitListExact' /\ FreeBlocksEmpty'
  BY <1>3, <1>7 DEF EventInv, WaitListExact, FreeBlocksEmpty
<1> QED
  BY <1>2, <1>4, <1>5, <1>6, <1>8 DEF EventInv

\* An acquire that waited and returns OK.
LEMMA MoveAtPostKeepsInv ==
  ASSUME EventInv, NEW t \in Task, LeaveByPost(t), NEW q, MoveTo(t, q),
         ReadyMoves(t, q)
  PROVE  EventInv'
<1> DEFINE unlink == timed[t] /\ TimeToWait[t] # EXIT_BY_TIMEOUT
<1>1. /\ TimeToWait' = [TimeToWait EXCEPT ![t] =
                          IF unlink THEN NO_TIMEOUT ELSE @]
      /\ delayList' = IF unlink THEN delayList \ {t} ELSE delayList
      /\ UNCHANGED <<OSEventWait, OSEventWaitList>>
      /\ EndWait(t) /\ Resuming(t) /\ ~ExitsByTimeout(t)
  BY DEF LeaveByPost
<1>2. given[t] /\ t \in Thread /\ Running(t)
  BY <1>1, ResumingTaskState, ConstantFacts DEF Resuming
<1>3. t \notin delayList'
  BY <1>1 DEF EventInv, WaitState, Resuming
<1>4. /\ pend' = [pend EXCEPT ![t] = NoEvent]
      /\ timed' = [timed EXCEPT ![t] = FALSE]
      /\ given' = [given EXCEPT ![t] = FALSE]
      /\ left' = [left EXCEPT ![t] = 0]
      /\ UNCHANGED <<OSBlockedList, OSTickCounter, currentTask, changeContext,
                     OSEventAllocated>>
  BY <1>1 DEF EndWait
<1>5. PrioritiesOwned' /\ OSReadyList' \subseteq PrioRange
  <2>1. \A p \in OSReadyList' : p = q \/ \E u \in Thread \ {t} : p = Priority[u]
    BY DEF ReadyMoves, EventInv, PrioritiesOwned
  <2> QED
    BY <2>1, MoveKeepsOwned
<1>6. EventTypeOK'
  <2>1. TimeToWait' \in [Thread -> 0 .. MAX_TIMER]
    BY <1>1, ConstantFacts DEF EventInv, EventTypeOK, TypeOK, MAX_TIMER, NO_TIMEOUT
  <2>2. left' \in [Thread -> Nat] /\ delayList' \subseteq Task
    BY <1>1, <1>4 DEF EventInv, EventTypeOK, TypeOK
  <2>3. TypeOK'
    BY <1>4, <1>5, <2>1, <2>2, MoveFacts DEF EventInv, EventTypeOK, TypeOK, MoveTo
  <2> QED
    BY <1>1, <1>4, <2>3 DEF EventInv, EventTypeOK
<1>7. RunningIsRunnable'
  BY <1>2, <1>4, MoveFacts DEF RunningIsRunnable, Running, MoveTo, ReadyMoves
<1>8. ASSUME NEW u \in Task PROVE WaitState(u)'
  <2>1. WaitState(u) /\ u \in Thread
    BY ConstantFacts DEF EventInv
  <2>2. CASE u = t
    <3>1. pend'[u] = NoEvent /\ ~timed'[u] /\ ~given'[u]
      BY <1>4, <2>2 DEF EventInv, EventTypeOK
    <3>2. Priority'[t] \in OSReadyList'
      BY MoveFacts DEF ReadyMoves
    <3> QED
      BY <1>3, <2>2, <3>1, <3>2 DEF WaitState
  <2>3. CASE u # t
    <3>1. Priority'[u] \in OSReadyList' <=> Priority[u] \in OSReadyList
      BY <2>1, <2>3, MoveFacts DEF ReadyMoves
    <3>2. /\ pend'[u] = pend[u] /\ timed'[u] = timed[u] /\ given'[u] = given[u]
          /\ TimeToWait'[u] = TimeToWait[u]
          /\ u \in delayList' <=> u \in delayList
      BY <1>1, <1>4, <2>1, <2>3 DEF EventInv, EventTypeOK, TypeOK
    <3> QED
      BY <2>1, <3>1, <3>2 DEF WaitState
  <2> QED
    BY <2>2, <2>3
<1>9. \A d \in ObjectId : /\ Waiters(d)' = Waiters(d)
                          /\ \A u \in Waiters(d) : Priority'[u] = Priority[u]
  <2>1. \A d \in ObjectId : Waiters(d)' = Waiters(d) /\ t \notin Waiters(d)
    BY <1>2, <1>4, ObjectFacts DEF Waiters, EventInv, EventTypeOK
  <2> QED
    BY <2>1, MoveFacts, ConstantFacts DEF Waiters
<1>10. WaitListExact' /\ FreeBlocksEmpty'
  BY <1>1, <1>4, <1>9 DEF EventInv, WaitListExact, FreeBlocksEmpty
<1> QED
  BY <1>5, <1>6, <1>7, <1>8, <1>10 DEF EventInv

\* A release that selects a waiter while the releasing task moves.
LEMMA MoveAndSelectKeepsInv ==
  ASSUME EventInv, NEW t \in Task, InUserCode(t), NEW q, MoveTo(t, q),
         NEW e \in ObjectId, SelectWaiter(e),
         OSReadyList' = ((OSReadyList \ {Priority[t]}) \cup {q})
                          \cup {HighestWaiter(e)},
         changeContext' = TRUE, UNCHANGED currentTask
  PROVE  EventInv'
<1>1. PICK u \in Waiters(e) : /\ HighestWaiter(e) = Priority[u]
                              /\ PriorityVector[HighestWaiter(e)] = u
  BY SelectedWaiter DEF SelectWaiter
<1>2. /\ u \in Task /\ u \in Thread /\ pend[u] = e /\ ~given[u]
      /\ t \in Thread /\ pend[t] = NoEvent /\ Running(t) /\ u # t
  BY ConstantFacts, ObjectFacts DEF Waiters, InUserCode
<1>3. /\ OSEventWait[e] # 0
      /\ OSEventWaitList' =
           [OSEventWaitList EXCEPT ![e] = @ \ {Priority[u]}]
      /\ OSEventWait' = [OSEventWait EXCEPT ![e] = @ - 1]
      /\ given' = [v \in Task |-> given[v] \/ v = u]
      /\ OSReadyList' = ((OSReadyList \ {Priority[t]}) \cup {q})
                          \cup {Priority[u]}
      /\ UNCHANGED <<OSEventAllocated, pend, timed, TimeToWait, OSBlockedList,
                     delayList, OSTickCounter, left>>
  BY <1>1 DEF SelectWaiter
<1>4. PrioritiesOwned' /\ OSReadyList' \subseteq PrioRange
  <2>1. \A p \in OSReadyList' : p = q \/ \E v \in Thread \ {t} : p = Priority[v]
    BY <1>2, <1>3 DEF EventInv, PrioritiesOwned
  <2> QED
    BY <2>1, MoveKeepsOwned
<1>5. Priority[u] \in OSEventWaitList[e]
  BY <1>1 DEF EventInv, WaitListExact
<1>6. EventTypeOK'
  <2>1. OSEventWait' \in [ObjectId -> Nat]
    BY <1>3 DEF EventInv, EventTypeOK
  <2>2. OSEventWaitList' \in [ObjectId -> SUBSET PrioRange]
    BY <1>3 DEF EventInv, EventTypeOK
  <2>3. given' \in [Task -> BOOLEAN]
    BY <1>3 DEF EventInv, EventTypeOK
  <2>4. TypeOK'
    BY <1>3, <1>4, MoveFacts DEF EventInv, EventTypeOK, TypeOK, MoveTo
  <2> QED
    BY <1>3, <2>1, <2>2, <2>3, <2>4 DEF EventInv, EventTypeOK
<1>7. RunningIsRunnable'
  BY DEF RunningIsRunnable
<1>8. ASSUME NEW v \in Task PROVE WaitState(v)'
  <2>1. WaitState(v) /\ v \in Thread
    BY ConstantFacts DEF EventInv
  <2>2. CASE v = u
    <3>1. Priority'[v] \in OSReadyList' /\ given'[v]
      BY <1>2, <1>3, <2>2, MoveFacts
    <3> QED
      BY <1>2, <1>3, <2>1, <2>2, <3>1, ObjectFacts DEF WaitState
  <2>3. CASE v = t
    <3>1. Priority'[v] \in OSReadyList' /\ Priority[v] \in OSReadyList
      BY <1>2, <1>3, <2>3, MoveFacts, RunningTaskState
    <3>2. given'[v] = given[v]
      BY <1>2, <1>3, <2>3 DEF EventInv, EventTypeOK
    <3> QED
      BY <1>2, <1>3, <2>1, <2>3, <3>1, <3>2 DEF WaitState
  <2>4. CASE v # u /\ v # t
    <3>1. Priority[v] # Priority[u]
      BY <1>2, <2>1, <2>4, PriorityInjective
    <3>2. Priority'[v] \in OSReadyList' <=> Priority[v] \in OSReadyList
      BY <1>3, <2>1, <2>4, <3>1, MoveFacts
    <3>3. given'[v] = given[v]
      BY <1>3, <2>4 DEF EventInv, EventTypeOK
    <3> QED
      BY <1>3, <2>1, <3>2, <3>3 DEF WaitState
  <2> QED
    BY <2>2, <2>3, <2>4
<1>9. WaitListExact'
  <2> SUFFICES ASSUME NEW d \in ObjectId
               PROVE  /\ OSEventWaitList'[d] = {Priority'[v] : v \in Waiters(d)'}
                      /\ OSEventWait'[d] = Cardinality(OSEventWaitList'[d])
    BY DEF WaitListExact
  <2>1. /\ OSEventWaitList[d] = {Priority[v] : v \in Waiters(d)}
        /\ OSEventWait[d] = Cardinality(OSEventWaitList[d])
    BY DEF EventInv, WaitListExact
  <2>2. Waiters(d)' = Waiters(d) \ {u}
    BY <1>3 DEF Waiters, EventInv, EventTypeOK
  <2>3. \A v \in Waiters(d) : Priority'[v] = Priority[v]
    BY <1>2, MoveFacts, ConstantFacts, ObjectFacts DEF Waiters
  <2>4. CASE d = e
    <3>1. OSEventWaitList'[d] = OSEventWaitList[d] \ {Priority[u]}
      BY <1>3, <2>4 DEF EventInv, EventTypeOK
    <3>2. \A v \in Waiters(d) : Priority[v] = Priority[u] => v = u
      BY <1>2, PriorityInjective, ConstantFacts DEF Waiters
    <3>3. OSEventWaitList'[d] = {Priority'[v] : v \in Waiters(d)'}
      BY <2>1, <2>2, <2>3, <3>1, <3>2
    <3>4. Cardinality(OSEventWaitList'[d]) = Cardinality(OSEventWaitList[d]) - 1
      <4>1. IsFiniteSet(OSEventWaitList[d])
        BY WaitListFinite DEF EventInv, EventTypeOK
      <4>2. Priority[u] \in OSEventWaitList[d]
        BY <1>5, <2>4
      <4>3. Cardinality(OSEventWaitList[d] \ {Priority[u]})
              = Cardinality(OSEventWaitList[d]) - 1
        BY <4>1, <4>2, FS_RemoveElement
      <4> QED
        BY <3>1, <4>3
    <3>5. OSEventWait'[d] = OSEventWait[d] - 1
      BY <1>3, <2>4 DEF EventInv, EventTypeOK
    <3> QED
      BY <2>1, <3>3, <3>4, <3>5
  <2>5. CASE d # e
    <3>1. Waiters(d)' = Waiters(d)
      BY <1>2, <2>2, <2>5 DEF Waiters
    <3>2. /\ OSEventWaitList'[d] = OSEventWaitList[d]
          /\ OSEventWait'[d] = OSEventWait[d]
      BY <1>3, <2>5 DEF EventInv, EventTypeOK
    <3> QED
      BY <2>1, <2>3, <3>1, <3>2
  <2> QED
    BY <2>4, <2>5
<1>10. FreeBlocksEmpty'
  BY <1>3 DEF EventInv, EventTypeOK, FreeBlocksEmpty
<1> QED
  BY <1>4, <1>6, <1>7, <1>8, <1>9, <1>10 DEF EventInv

-----------------------------------------------------------------------------
(* Priorities on acquire and release *)

\* Whoever is not in m has no priority that is m's ceiling.
LEMMA CeilingNotUsed ==
  ASSUME MutexInv, NEW t \in Task, NEW S, S \subseteq held[t], NEW p,
         From(t, p, S), NEW m \in ObjectId, OSEventAllocated[m],
         OSMaxPriority[m] > 0, m \notin S
  PROVE  p # OSMaxPriority[m]
<1>1. t \in Thread
  BY ConstantFacts
<1>2. CASE p = InitPriority[t]
  BY <1>1, <1>2 DEF MutexInv, Reserved
<1>3. CASE \E n \in S : p = OSMaxPriority[n] /\ p > 0
  <2>1. PICK n \in S : p = OSMaxPriority[n]
    BY <1>3
  <2>2. n \in ObjectId /\ n # m /\ Holds(t, n)
    BY <2>1 DEF MutexInv, MutexTypes, Holds
  <2>3. OSEventAllocated[n]
    BY <2>2, HandleFacts DEF MutexInv, Owners
  <2> QED
    BY <2>1, <2>2, <2>3 DEF MutexInv, Reserved
<1> QED
  BY <1>2, <1>3 DEF From

\* No thread outside m runs at its ceiling.
LEMMA NobodyAtCeiling ==
  ASSUME MutexInv, NEW m \in ObjectId, OSEventAllocated[m],
         OSMaxPriority[m] > 0,
         NEW u \in Thread, u \in Task => ~Holds(u, m)
  PROVE  Priority[u] # OSMaxPriority[m]
<1>1. CASE u = Idle
  BY <1>1 DEF MutexInv, EventInv, PrioritiesOwned
<1>2. CASE u \in Task
  <2>1. From(u, Priority[u], held[u]) /\ m \notin held[u]
    BY <1>2 DEF MutexInv, Nesting, Holds
  <2> QED
    BY <1>2, <2>1, CeilingNotUsed
<1> QED
  BY <1>1, <1>2 DEF Thread

\* The parts of the invariant that speak of priorities.
PriorityPart ==
  /\ Reserved
  /\ \A t \in Task : Nesting(t)
  /\ BlockedAreOwned

\* Nobody is blocked by the move of a task that is not.
LEMMA MoveKeepsBlocked ==
  ASSUME MutexInv, NEW t \in Task, NEW q, MoveTo(t, q), UNCHANGED OSBlockedList,
         Priority[t] \in OSBlockedList
  PROVE  BlockedAreOwned'
<1> SUFFICES ASSUME NEW p \in PrioRange \ OSBlockedList
             PROVE  \E u \in Thread : Priority'[u] = p
  BY DEF BlockedAreOwned
<1>1. PICK u \in Thread : Priority[u] = p
  BY DEF MutexInv, BlockedAreOwned
<1>2. u # t
  BY <1>1
<1> QED
  BY <1>1, <1>2, MoveFacts DEF MutexInv

\* The priority that t gets with m.
Raised(t, m) ==
  IF OSMaxPriority[m] > Priority[t] THEN OSMaxPriority[m] ELSE Priority[t]

\* A new owner is lifted to a priority that is its own from then on.
LEMMA TakeCeilingMoves ==
  ASSUME MutexInv, NEW t \in Task, NEW m \in ObjectId, OSEventAllocated[m],
         \A u \in Task : ~Holds(u, m),
         Priority[t] \in OSReadyList \cap OSBlockedList, TakeCeiling(t, m)
  PROVE  MoveTo(t, Raised(t, m)) /\ ReadyMoves(t, Raised(t, m))
<1> DEFINE q == Raised(t, m)
<1>1. /\ Priority \in [Thread -> PrioRange] /\ t \in Thread
      /\ \A u \in Thread : PriorityVector[Priority[u]] = u
      /\ PriorityVector \in [PrioRange -> Thread \cup {EMPTY_PRIO, MUTEX_PRIO}]
      /\ OSMaxPriority[m] \in PrioRange /\ PrioRange \subseteq Nat
      /\ Priority[t] \in Nat /\ OSMaxPriority[m] \in Nat
  BY ConstantFacts DEF MutexInv, MutexTypes, EventInv, EventTypeOK, TypeOK,
                       PrioritiesOwned
<1>2. CASE OSMaxPriority[m] > Priority[t]
  <2>1. q = OSMaxPriority[m] /\ q > 0 /\ q \in PrioRange
    BY <1>1, <1>2 DEF Raised
  <2>2. \A u \in Thread : Priority[u] # q
    BY <2>1, NobodyAtCeiling
  <2>3. q \in OSBlockedList
    BY <2>1, <2>2 DEF MutexInv, BlockedAreOwned
  <2>4. /\ Priority' = [Priority EXCEPT ![t] = q]
        /\ PriorityVector' = [PriorityVector EXCEPT ![q] = t]
        /\ OSReadyList' = (OSReadyList \ {Priority[t]}) \cup {q}
    BY <1>2, <2>1 DEF TakeCeiling
  <2> HIDE DEF q
  <2>5. \A u \in Thread : PriorityVector'[Priority'[u]] = u
    BY <1>1, <2>1, <2>2, <2>4
  <2>6. PriorityVector' \in [PrioRange -> Thread \cup {EMPTY_PRIO, MUTEX_PRIO}]
    BY <1>1, <2>1, <2>4
  <2> QED
    BY <2>1, <2>3, <2>4, <2>5, <2>6 DEF MoveTo, ReadyMoves, q
<1>3. CASE ~(OSMaxPriority[m] > Priority[t])
  <2>1. q = Priority[t] /\ UNCHANGED <<Priority, PriorityVector, OSReadyList>>
    BY <1>3 DEF Raised, TakeCeiling, priorityVars
  <2> HIDE DEF q
  <2>2. MoveTo(t, q)
    BY <1>1, <2>1 DEF MoveTo
  <2>3. ReadyMoves(t, q)
    BY <1>1, <2>1 DEF ReadyMoves
  <2> QED
    BY <2>2, <2>3 DEF q
<1> QED
  BY <1>2, <1>3

\* And the order of the mutexes that tasks hold is kept.
LEMMA TakeCeilingKeepsPriorities ==
  ASSUME MutexInv, NEW t \in Task, NEW m \in ObjectId, OSEventAllocated[m],
         \A u \in Task : ~Holds(u, m),
         Priority[t] \in OSReadyList \cap OSBlockedList, TakeCeiling(t, m),
         UNCHANGED <<OSBlockedList, OSEventAllocated, OSMaxPriority>>
  PROVE  PriorityPart'
<1> DEFINE q == Raised(t, m)
<1>1. MoveTo(t, q) /\ ReadyMoves(t, q)
  BY TakeCeilingMoves
<1>2. /\ Priority[t] \in PrioRange /\ t \in Thread
      /\ OSMaxPriority \in [ObjectId -> PrioRange] /\ PrioRange \subseteq Nat
      /\ Priority[t] \in Nat /\ OSMaxPriority[m] \in Nat
      /\ OSOriginalPriority \in [ObjectId -> PrioRange]
      /\ PriorityVector \in [PrioRange -> Thread \cup {EMPTY_PRIO, MUTEX_PRIO}]
      /\ PriorityVector[Priority[t]] = t
      /\ held \in [Task -> SUBSET ObjectId] /\ under \in [ObjectId -> SUBSET ObjectId]
  BY ConstantFacts DEF MutexInv, MutexTypes, EventInv, EventTypeOK, TypeOK,
                       PrioritiesOwned
<1>3. /\ Priority'[t] = q /\ q >= Priority[t] /\ q >= OSMaxPriority[m]
      /\ q = Priority[t] \/ (q = OSMaxPriority[m] /\ q > 0)
      /\ \A u \in Task \ {t} : Priority'[u] = Priority[u]
  <2>1. /\ q >= Priority[t] /\ q >= OSMaxPriority[m]
        /\ q = Priority[t] \/ (q = OSMaxPriority[m] /\ q > 0)
    BY <1>2 DEF Raised
  <2> QED
    BY <1>1, <2>1, MoveFacts, ConstantFacts DEF MutexInv
<1>4. /\ OSOriginalPriority' = [OSOriginalPriority EXCEPT ![m] = Priority[t]]
      /\ held' = [held EXCEPT ![t] = @ \cup {m}]
      /\ under' = [under EXCEPT ![m] = held[t]]
      /\ \A p \in PrioRange : \/ PriorityVector'[p] = PriorityVector[p]
                              \/ /\ PriorityVector'[p] = t
                                 /\ p = OSMaxPriority[m] /\ p > 0
  <2>1. CASE OSMaxPriority[m] > Priority[t]
    BY <1>2, <2>1 DEF TakeCeiling, Acquired
  <2>2. CASE ~(OSMaxPriority[m] > Priority[t])
    BY <1>2, <2>2 DEF TakeCeiling, Acquired, priorityVars
  <2> QED
    BY <2>1, <2>2
<1>5. \A u \in Task : m \notin held[u]
  BY DEF Holds
<1> HIDE DEF q
<1>6. Reserved'
  <2>1. ASSUME NEW u \in Thread PROVE PriorityVector'[InitPriority[u]] = u
    <3>1. InitPriority[u] \in PrioRange
      BY ConstantFacts
    <3>2. /\ PriorityVector[InitPriority[u]] = u
          /\ OSMaxPriority[m] > 0 => InitPriority[u] # OSMaxPriority[m]
      BY DEF MutexInv, Reserved
    <3> QED
      BY <1>4, <3>1, <3>2
  <2>2. ASSUME NEW n \in ObjectId, OSEventAllocated[n], OSMaxPriority[n] > 0
        PROVE  PriorityVector'[OSMaxPriority[n]] # EMPTY_PRIO
    <3>1. OSMaxPriority[n] \in PrioRange
      BY <1>2
    <3>2. PriorityVector[OSMaxPriority[n]] # EMPTY_PRIO
      BY <2>2 DEF MutexInv, Reserved
    <3>3. t # EMPTY_PRIO
      BY HandleFacts, <1>2
    <3> QED
      BY <1>4, <3>1, <3>2, <3>3
  <2> QED
    BY <2>1, <2>2 DEF MutexInv, Reserved
<1>7. ASSUME NEW u \in Task PROVE Nesting(u)'
  <2>1. Nesting(u)
    BY DEF MutexInv
  <2>2. ASSUME NEW n \in held[u]
        PROVE  /\ n \in ObjectId /\ n # m
               /\ OSOriginalPriority'[n] = OSOriginalPriority[n]
               /\ under'[n] = under[n]
               /\ PriorityVector'[OSOriginalPriority[n]] = u
    <3>1. /\ n \in ObjectId /\ n # m /\ OSOriginalPriority[n] \in PrioRange
          /\ under[n] \subseteq held[u] /\ m \notin under[n]
          /\ From(u, OSOriginalPriority[n], under[n])
          /\ PriorityVector[OSOriginalPriority[n]] = u
      BY <1>2, <1>5, <2>1, <2>2 DEF Nesting
    <3>2. OSMaxPriority[m] > 0 => OSOriginalPriority[n] # OSMaxPriority[m]
      BY <3>1, CeilingNotUsed
    <3> QED
      BY <1>2, <1>4, <3>1, <3>2
  <2>3. CASE u = t
    <3>1. held'[t] = held[t] \cup {m} /\ under'[m] = held[t]
          /\ OSOriginalPriority'[m] = Priority[t]
      BY <1>2, <1>4
    <3>2. From(t, Priority[t], held[t])'
      BY <1>3, <2>1, <2>3, <3>1 DEF From, Nesting
    <3>3. ASSUME NEW n \in held[t]
          PROVE  /\ OSMaxPriority[n] <= Priority'[t]
                 /\ From(t, OSOriginalPriority[n], under[n])'
                 /\ under'[n] \subseteq held'[t] \ {n}
                 /\ \A k \in under'[n] :
                      OSMaxPriority[k] <= OSOriginalPriority'[n]
                 /\ \A k \in held'[t] \ {n} : k \in under'[n] \/ n \in under'[k]
      <4>1. OSMaxPriority[n] <= Priority'[t]
        <5>1. OSMaxPriority[n] <= Priority[t] /\ OSMaxPriority[n] \in Nat
          BY <1>2, <2>1, <2>2, <2>3 DEF Nesting
        <5>2. Priority'[t] \in Nat
          BY <1>1, <1>2, <1>3 DEF MoveTo
        <5> QED
          BY <1>2, <1>3, <5>1, <5>2
      <4>2. From(t, OSOriginalPriority[n], under[n])'
        BY <2>1, <2>2, <2>3 DEF Nesting, From
      <4>3. under'[n] \subseteq held'[t] \ {n}
        BY <2>1, <2>2, <2>3, <3>1 DEF Nesting
      <4>4. \A k \in under'[n] : OSMaxPriority[k] <= OSOriginalPriority'[n]
        BY <2>1, <2>2, <2>3 DEF Nesting
      <4>5. \A k \in held'[t] \ {n} : k \in under'[n] \/ n \in under'[k]
        BY <2>1, <2>2, <2>3, <3>1 DEF Nesting
      <4> QED
        BY <4>1, <4>2, <4>3, <4>4, <4>5
    <3>4. /\ OSMaxPriority[m] <= Priority'[t]
          /\ From(t, Priority[t], held[t])
          /\ PriorityVector'[Priority[t]] = t
          /\ held[t] \subseteq held'[t] \ {m}
          /\ \A n \in held[t] : OSMaxPriority[n] <= Priority[t]
      <4>1. PriorityVector'[Priority[t]] = t
        BY <1>2, <1>4
      <4>2. OSMaxPriority[m] <= Priority'[t]
        BY <1>1, <1>2, <1>3 DEF MoveTo
      <4> QED
        BY <1>5, <2>1, <2>3, <3>1, <4>1, <4>2 DEF Nesting
    <3>5. From(t, OSOriginalPriority[m], under[m])'
      BY <3>1, <3>4 DEF From
    <3> QED
      BY <2>2, <2>3, <3>1, <3>2, <3>3, <3>4, <3>5 DEF Nesting
  <2>4. CASE u # t
    <3>1. held'[u] = held[u] /\ Priority'[u] = Priority[u]
      BY <1>2, <1>3, <1>4, <2>4
    <3> QED
      BY <2>1, <2>2, <3>1 DEF Nesting, From
  <2> QED
    BY <2>3, <2>4
<1>8. BlockedAreOwned'
  BY <1>1, MoveKeepsBlocked
<1> QED
  BY <1>6, <1>7, <1>8 DEF PriorityPart

\* What a release does to the priorities: t is back at the one it had before
\* it acquired m, and the ceiling is either given back or m's next owner's.
GivesBack(t, m) ==
  /\ Priority' = [Priority EXCEPT ![t] = OSOriginalPriority[m]]
  /\ Released(t, m)
  /\ \/ UNCHANGED PriorityVector
     \/ /\ OSMaxPriority[m] > 0
        /\ PriorityVector' =
             [PriorityVector EXCEPT ![OSMaxPriority[m]] = MUTEX_PRIO]

\* In reverse order, what was held when m was acquired is what is left.
LEMMA ReleasedFacts ==
  ASSUME MutexInv, NEW t \in Task, NEW m \in held[t],
         \A n \in held[t] : m \notin under[n]
  PROVE  /\ m \in ObjectId /\ OSEventAllocated[m]
         /\ \A u \in Thread \ {t} : u \in Task => ~Holds(u, m)
         /\ under[m] = held[t] \ {m}
         /\ From(t, OSOriginalPriority[m], under[m])
         /\ PriorityVector[OSOriginalPriority[m]] = t
         /\ OSOriginalPriority[m] \in PrioRange
         /\ OSMaxPriority[m] > 0 => OSOriginalPriority[m] # OSMaxPriority[m]
<1>1. m \in ObjectId /\ Holds(t, m) /\ OSOriginalPriority[m] \in PrioRange
  BY DEF MutexInv, MutexTypes, Holds
<1>2. OSEventOwner[m] = t /\ OSEventAllocated[m]
  BY <1>1, HandleFacts DEF MutexInv, Owners
<1>3. \A u \in Thread \ {t} : u \in Task => ~Holds(u, m)
  BY <1>1, <1>2 DEF MutexInv, Owners
<1>4. /\ under[m] = held[t] \ {m}
      /\ From(t, OSOriginalPriority[m], under[m])
      /\ PriorityVector[OSOriginalPriority[m]] = t
  BY <1>1 DEF MutexInv, Nesting
<1>5. OSMaxPriority[m] > 0 => OSOriginalPriority[m] # OSMaxPriority[m]
  BY <1>1, <1>2, <1>4, CeilingNotUsed
<1> QED
  BY <1>1, <1>2, <1>3, <1>4, <1>5

\* The releasing task moves to a priority that is its own and not blocked.
LEMMA ReleaseMoves ==
  ASSUME MutexInv, NEW t \in Task, NEW m \in held[t],
         \A n \in held[t] : m \notin under[n],
         Priority[t] \in OSBlockedList, GivesBack(t, m)
  PROVE  MoveTo(t, OSOriginalPriority[m])
<1> DEFINE q == OSOriginalPriority[m]
<1>1. /\ Priority \in [Thread -> PrioRange] /\ t \in Thread
      /\ \A u \in Thread : PriorityVector[Priority[u]] = u
      /\ PriorityVector \in [PrioRange -> Thread \cup {EMPTY_PRIO, MUTEX_PRIO}]
  BY ConstantFacts DEF MutexInv, EventInv, EventTypeOK, TypeOK, PrioritiesOwned
<1>2. /\ q \in PrioRange /\ PriorityVector[q] = t
      /\ OSMaxPriority[m] > 0 => q # OSMaxPriority[m]
      /\ \A u \in Thread \ {t} :
           OSMaxPriority[m] > 0 => Priority[u] # OSMaxPriority[m]
  <2>1. ASSUME NEW u \in Thread \ {t}, OSMaxPriority[m] > 0
        PROVE  Priority[u] # OSMaxPriority[m]
    BY <2>1, ReleasedFacts, NobodyAtCeiling
  <2> QED
    BY <2>1, ReleasedFacts
<1>3. q \in OSBlockedList
  <2>1. SUFFICES ASSUME q \notin OSBlockedList PROVE FALSE
    OBVIOUS
  <2>2. PICK u \in Thread : Priority[u] = q
    BY <1>2, <2>1 DEF MutexInv, BlockedAreOwned
  <2>3. u = t
    BY <1>1, <1>2, <2>2
  <2> QED
    BY <2>1, <2>2, <2>3
<1>4. Priority' = [Priority EXCEPT ![t] = q]
  BY DEF GivesBack
<1>5. /\ PriorityVector' \in [PrioRange -> Thread \cup {EMPTY_PRIO, MUTEX_PRIO}]
      /\ \A p \in PrioRange : \/ PriorityVector'[p] = PriorityVector[p]
                              \/ p = OSMaxPriority[m] /\ OSMaxPriority[m] > 0
  BY <1>1 DEF GivesBack
<1> HIDE DEF q
<1>6. ASSUME NEW u \in Thread PROVE PriorityVector'[Priority'[u]] = u
  <2>1. CASE u = t
    <3>1. Priority'[u] = q
      BY <1>1, <1>4, <2>1
    <3> QED
      BY <1>2, <1>5, <2>1, <3>1
  <2>2. CASE u # t
    <3>1. Priority'[u] = Priority[u] /\ Priority[u] \in PrioRange
      BY <1>1, <1>4, <2>2
    <3> QED
      BY <1>1, <1>2, <1>5, <2>2, <3>1
  <2> QED
    BY <2>1, <2>2
<1> QED
  BY <1>2, <1>3, <1>4, <1>5, <1>6 DEF MoveTo, q

\* The order of the other mutexes that tasks hold is kept.
LEMMA ReleaseKeepsPriorities ==
  ASSUME MutexInv, NEW t \in Task, NEW m \in held[t],
         \A n \in held[t] : m \notin under[n],
         Priority[t] \in OSBlockedList, GivesBack(t, m),
         UNCHANGED <<OSBlockedList, OSEventAllocated, OSMaxPriority,
                     OSOriginalPriority>>
  PROVE  PriorityPart'
<1> DEFINE q == OSOriginalPriority[m]
<1>1. MoveTo(t, q)
  BY ReleaseMoves
<1>2. /\ t \in Thread /\ m \in ObjectId /\ OSEventAllocated[m]
      /\ OSMaxPriority \in [ObjectId -> PrioRange] /\ PrioRange \subseteq Nat
      /\ OSOriginalPriority \in [ObjectId -> PrioRange]
      /\ PriorityVector \in [PrioRange -> Thread \cup {EMPTY_PRIO, MUTEX_PRIO}]
      /\ held \in [Task -> SUBSET ObjectId] /\ under \in [ObjectId -> SUBSET ObjectId]
  BY ConstantFacts, ReleasedFacts
  DEF MutexInv, MutexTypes, EventInv, EventTypeOK, TypeOK
<1>3. /\ Priority'[t] = q
      /\ \A u \in Task \ {t} : Priority'[u] = Priority[u]
  BY <1>1, MoveFacts, ConstantFacts DEF MutexInv
<1>4. \A p \in PrioRange : \/ PriorityVector'[p] = PriorityVector[p]
                           \/ /\ PriorityVector'[p] = MUTEX_PRIO
                              /\ p = OSMaxPriority[m] /\ p > 0
  BY <1>2 DEF GivesBack
<1>5. /\ held' = [held EXCEPT ![t] = @ \ {m}]
      /\ under' = [n \in ObjectId |-> IF n = m THEN {} ELSE under[n] \ {m}]
  BY DEF GivesBack, Released
<1>6. under[m] = held[t] \ {m} /\ From(t, q, under[m])
  BY ReleasedFacts
<1> HIDE DEF q
<1>7. Reserved'
  <2>1. ASSUME NEW u \in Thread PROVE PriorityVector'[InitPriority[u]] = u
    <3>1. InitPriority[u] \in PrioRange
      BY ConstantFacts
    <3>2. /\ PriorityVector[InitPriority[u]] = u
          /\ OSMaxPriority[m] > 0 => InitPriority[u] # OSMaxPriority[m]
      BY <1>2 DEF MutexInv, Reserved
    <3> QED
      BY <1>4, <3>1, <3>2
  <2>2. ASSUME NEW n \in ObjectId, OSEventAllocated[n], OSMaxPriority[n] > 0
        PROVE  PriorityVector'[OSMaxPriority[n]] # EMPTY_PRIO
    <3>1. OSMaxPriority[n] \in PrioRange
      BY <1>2
    <3>2. PriorityVector[OSMaxPriority[n]] # EMPTY_PRIO
      BY <2>2 DEF MutexInv, Reserved
    <3>3. MUTEX_PRIO # EMPTY_PRIO
      BY HandleFacts
    <3> QED
      BY <1>4, <3>1, <3>2, <3>3
  <2> QED
    BY <2>1, <2>2 DEF MutexInv, Reserved
<1>8. ASSUME NEW u \in Task PROVE Nesting(u)'
  <2>1. Nesting(u)
    BY DEF MutexInv
  <2>2. held'[u] = held[u] \ {m}
    BY <1>2, <1>5, ReleasedFacts, ConstantFacts DEF Holds
  <2>3. ASSUME NEW n \in held'[u]
        PROVE  /\ n \in held[u] /\ n # m
               /\ under'[n] = under[n] /\ m \notin under[n]
               /\ PriorityVector'[OSOriginalPriority[n]] = u
    <3>1. n \in held[u] /\ n # m /\ n \in ObjectId
      BY <1>2, <2>2, <2>3
    <3>2. m \notin under[n]
      <4>1. CASE u = t
        BY <3>1, <4>1
      <4>2. CASE u # t
        <5>1. m \notin held[u]
          BY <4>2, ReleasedFacts, ConstantFacts DEF Holds
        <5> QED
          BY <2>1, <3>1, <5>1 DEF Nesting
      <4> QED
        BY <4>1, <4>2
    <3>3. /\ OSOriginalPriority[n] \in PrioRange /\ under[n] \subseteq held[u]
          /\ From(u, OSOriginalPriority[n], under[n])
          /\ PriorityVector[OSOriginalPriority[n]] = u
      BY <1>2, <2>1, <3>1 DEF Nesting
    <3>4. OSMaxPriority[m] > 0 => OSOriginalPriority[n] # OSMaxPriority[m]
      BY <1>2, <3>2, <3>3, CeilingNotUsed
    <3>5. under'[n] = under[n]
      BY <1>2, <1>5, <3>1, <3>2
    <3> QED
      BY <1>4, <3>1, <3>2, <3>3, <3>4, <3>5
  <2>4. From(u, Priority[u], held[u])'
    <3>1. CASE u = t
      <4>1. held'[t] = under[m]
        BY <1>6, <2>2, <3>1
      <4> QED
        BY <1>3, <1>6, <3>1, <4>1 DEF From
    <3>2. CASE u # t
      <4>1. held'[u] = held[u]
        BY <2>2, <3>2, ReleasedFacts, ConstantFacts DEF Holds
      <4> QED
        BY <1>3, <2>1, <3>2, <4>1 DEF From, Nesting
    <3> QED
      BY <3>1, <3>2
  <2>5. ASSUME NEW n \in held'[u] PROVE OSMaxPriority[n] <= Priority'[u]
    <3>1. CASE u = t
      <4>1. n \in under[m]
        BY <1>6, <2>3, <2>5, <3>1
      <4>2. OSMaxPriority[n] <= OSOriginalPriority[m]
        BY <2>1, <3>1, <4>1 DEF Nesting
      <4> QED
        BY <1>3, <3>1, <4>2 DEF q
    <3>2. CASE u # t
      BY <1>3, <2>1, <2>3, <2>5, <3>2 DEF Nesting
    <3> QED
      BY <3>1, <3>2
  <2>6. ASSUME NEW n \in held'[u]
        PROVE  /\ From(u, OSOriginalPriority[n], under[n])'
               /\ under'[n] \subseteq held'[u] \ {n}
               /\ \A k \in under'[n] :
                    OSMaxPriority[k] <= OSOriginalPriority[n]
               /\ \A k \in held'[u] \ {n} : k \in under'[n] \/ n \in under'[k]
    <3>1. n \in held[u] /\ under'[n] = under[n] /\ m \notin under[n]
      BY <2>3, <2>6
    <3>2. /\ From(u, OSOriginalPriority[n], under[n])
          /\ under[n] \subseteq held[u] \ {n}
          /\ \A k \in under[n] : OSMaxPriority[k] <= OSOriginalPriority[n]
          /\ \A k \in held[u] \ {n} : k \in under[n] \/ n \in under[k]
      BY <2>1, <3>1 DEF Nesting
    <3>3. From(u, OSOriginalPriority[n], under[n])'
      BY <3>1, <3>2 DEF From
    <3>4. \A k \in held'[u] \ {n} : k \in under'[n] \/ n \in under'[k]
      BY <2>3, <3>1, <3>2
    <3> QED
      BY <2>2, <3>1, <3>2, <3>3, <3>4
  <2> QED
    BY <2>3, <2>4, <2>5, <2>6 DEF Nesting
<1>9. BlockedAreOwned'
  BY <1>1, MoveKeepsBlocked
<1> QED
  BY <1>7, <1>8, <1>9 DEF PriorityPart

-----------------------------------------------------------------------------
(* The operations *)

LEMMA MutexInvFrom ==
  ASSUME EventInv', MutexTypes', Owners', PriorityPart'
  PROVE  MutexInv'
BY DEF MutexInv, PriorityPart

\* A task that executes may do so.
LEMMA RunningFacts ==
  ASSUME MutexInv, NEW t \in Task, Running(t)
  PROVE  Priority[t] \in OSReadyList \cap OSBlockedList /\ t \in Thread
BY ConstantFacts, ThreadAssumption
DEF MutexInv, EventInv, Running, RunningIsRunnable

\* Steps that change neither a priority nor the owner of a mutex.
LEMMA SamePriorities ==
  ASSUME MutexInv,
         UNCHANGED <<priorityVars, OSEventAllocated, OSMaxPriority,
                     OSOriginalPriority, held, under>>,
         \A p \in OSBlockedList \ OSBlockedList' :
           \E t \in Thread : Priority[t] = p
  PROVE  PriorityPart'
<1>1. Reserved'
  BY DEF MutexInv, Reserved, priorityVars
<1>2. \A t \in Task : Nesting(t)'
  BY DEF MutexInv, Nesting, From, priorityVars
<1>3. BlockedAreOwned'
  BY DEF MutexInv, BlockedAreOwned, priorityVars
<1> QED
  BY <1>1, <1>2, <1>3 DEF PriorityPart

\* Reserving a ceiling, with or without a block to go with it.
LEMMA ReserveKeepsEventInv ==
  ASSUME EventInv, NEW c \in Ceilings, ReservePriority(c),
         UNCHANGED <<OSEventWait, OSEventWaitList, callVars>>,
         OSEventAllocated' \in [ObjectId -> BOOLEAN],
         \A e \in ObjectId : OSEventAllocated[e] => OSEventAllocated'[e]
  PROVE  EventInv'
<1>1. UNCHANGED <<Priority, OSReadyList, TimeToWait, OSBlockedList, delayList,
                  OSTickCounter, currentTask, changeContext, left,
                  OSEventWait, OSEventWaitList, pend, timed, given>>
  BY DEF ReservePriority, mutexKernelFrame, callVars
<1>2. \A t \in Thread : PriorityVector'[Priority[t]] = t
  BY HandleFacts DEF ReservePriority, EventInv, EventTypeOK, TypeOK,
                     PrioritiesOwned
<1>3. PriorityVector' \in [PrioRange -> Thread \cup {EMPTY_PRIO, MUTEX_PRIO}]
  BY DEF ReservePriority, EventInv, EventTypeOK, TypeOK
<1>4. EventTypeOK'
  BY <1>1, <1>3 DEF EventInv, EventTypeOK, TypeOK
<1>5. PrioritiesOwned' /\ RunningIsRunnable'
  BY <1>1, <1>2 DEF EventInv, PrioritiesOwned, RunningIsRunnable
<1>6. \A t \in Task : WaitState(t)'
  BY <1>1 DEF EventInv, WaitState
<1>7. WaitListExact' /\ FreeBlocksEmpty'
  BY <1>1 DEF EventInv, WaitListExact, Waiters, FreeBlocksEmpty
<1> QED
  BY <1>4, <1>5, <1>6, <1>7 DEF EventInv

\* A block that is not allocated has no waiters and no owner.
LEMMA FreeBlockFacts ==
  ASSUME MutexInv, NEW m \in ObjectId, ~OSEventAllocated[m]
  PROVE  /\ OSEventWaitList[m] = {} /\ OSEventWait[m] = 0
         /\ OSEventOwner[m] = NoOwner
         /\ \A t \in Task : m \notin held[t]
         /\ \A t \in Task : \A n \in held[t] : m \notin under[n]
<1>1. OSEventWaitList[m] = {} /\ OSEventWait[m] = 0
  BY FS_EmptySet DEF MutexInv, EventInv, FreeBlocksEmpty, WaitListExact
<1>2. OSEventOwner[m] = NoOwner
  BY DEF MutexInv, Owners
<1>3. \A t \in Task : m \notin held[t]
  BY <1>2, HandleFacts DEF MutexInv, Owners, Holds
<1>4. \A t \in Task : \A n \in held[t] : m \notin under[n]
  BY <1>3 DEF MutexInv, Nesting
<1> QED
  BY <1>1, <1>2, <1>3, <1>4

\* Reserving a ceiling takes nobody's priority away.
LEMMA ReserveKeepsPriorities ==
  ASSUME MutexInv, NEW c \in Ceilings, ReservePriority(c),
         UNCHANGED <<OSOriginalPriority, held, under>>,
         \/ UNCHANGED <<OSEventAllocated, OSMaxPriority>>
         \/ \E m \in ObjectId :
              /\ ~OSEventAllocated[m]
              /\ OSEventAllocated' = [OSEventAllocated EXCEPT ![m] = TRUE]
              /\ OSMaxPriority' = [OSMaxPriority EXCEPT ![m] = c]
  PROVE  PriorityPart'
<1>1. /\ UNCHANGED <<Priority, OSBlockedList>>
      /\ c \in PrioRange /\ PrioRange \subseteq Nat
      /\ PriorityVector \in [PrioRange -> Thread \cup {EMPTY_PRIO, MUTEX_PRIO}]
      /\ OSEventAllocated \in [ObjectId -> BOOLEAN]
      /\ OSMaxPriority \in [ObjectId -> PrioRange]
      /\ OSOriginalPriority \in [ObjectId -> PrioRange]
      /\ held \in [Task -> SUBSET ObjectId]
  BY MutexAssumption, ConstantFacts
  DEF ReservePriority, mutexKernelFrame, MutexInv, MutexTypes, EventInv,
      EventTypeOK, TypeOK
<1>2. /\ \A p \in PrioRange : PriorityVector[p] # EMPTY_PRIO =>
           /\ PriorityVector'[p] = PriorityVector[p]
           /\ c > 0 => p # c
      /\ c > 0 => PriorityVector'[c] = MUTEX_PRIO
  BY <1>1 DEF ReservePriority
<1>3. \A n \in ObjectId : OSEventAllocated[n] =>
        OSEventAllocated'[n] /\ OSMaxPriority'[n] = OSMaxPriority[n]
  BY <1>1
<1>4. \A n \in ObjectId : OSEventAllocated'[n] /\ ~OSEventAllocated[n] =>
        /\ OSMaxPriority'[n] = c
        /\ \A k \in ObjectId \ {n} : OSEventAllocated'[k] => OSEventAllocated[k]
  BY <1>1
<1>5. Reserved'
  <2>1. ASSUME NEW t \in Thread
        PROVE  /\ PriorityVector'[InitPriority[t]] = t
               /\ c > 0 => InitPriority[t] # c
    <3>1. /\ PriorityVector[InitPriority[t]] = t /\ t # EMPTY_PRIO
          /\ InitPriority[t] \in PrioRange
      BY HandleFacts, ConstantFacts DEF MutexInv, Reserved
    <3> QED
      BY <1>2, <3>1
  <2>2. ASSUME NEW n \in ObjectId, OSEventAllocated[n], OSMaxPriority[n] > 0
        PROVE  /\ PriorityVector'[OSMaxPriority[n]] # EMPTY_PRIO
               /\ c > 0 => OSMaxPriority[n] # c
    <3>1. PriorityVector[OSMaxPriority[n]] # EMPTY_PRIO
      BY <2>2 DEF MutexInv, Reserved
    <3> QED
      BY <1>1, <1>2, <3>1
  <2>3. ASSUME NEW n \in ObjectId, OSEventAllocated'[n], OSMaxPriority'[n] > 0
        PROVE  /\ PriorityVector'[OSMaxPriority'[n]] # EMPTY_PRIO
               /\ \A t \in Thread : InitPriority[t] # OSMaxPriority'[n]
               /\ \A k \in ObjectId \ {n} : OSEventAllocated'[k]
                                     => OSMaxPriority'[k] # OSMaxPriority'[n]
    <3>1. CASE OSEventAllocated[n]
      <4>1. OSMaxPriority'[n] = OSMaxPriority[n] /\ OSMaxPriority[n] > 0
        BY <1>3, <2>3, <3>1
      <4>2. \A k \in ObjectId \ {n} : OSEventAllocated[k]
                                     => OSMaxPriority[k] # OSMaxPriority[n]
        BY <3>1, <4>1 DEF MutexInv, Reserved
      <4>3. \A k \in ObjectId \ {n} : OSEventAllocated'[k] /\ ~OSEventAllocated[k]
                                     => OSMaxPriority'[k] # OSMaxPriority[n]
        BY <1>1, <1>4, <2>2, <3>1, <4>1
      <4> QED
        BY <1>3, <2>2, <3>1, <4>1, <4>2, <4>3 DEF MutexInv, Reserved
    <3>2. CASE ~OSEventAllocated[n]
      <4>1. OSMaxPriority'[n] = c /\ c > 0
        BY <1>4, <2>3, <3>2
      <4>2. \A k \in ObjectId \ {n} : OSEventAllocated'[k]
              => OSEventAllocated[k] /\ OSMaxPriority'[k] = OSMaxPriority[k]
        BY <1>3, <1>4, <2>3, <3>2
      <4>3. \A k \in ObjectId : OSEventAllocated[k] => OSMaxPriority[k] # c
        BY <1>1, <2>2, <4>1
      <4> QED
        BY <1>2, <2>1, <4>1, <4>2, <4>3, HandleFacts
    <3> QED
      BY <3>1, <3>2
  <2> QED
    BY <2>1, <2>3 DEF Reserved
<1>6. ASSUME NEW t \in Task PROVE Nesting(t)'
  <2>1. Nesting(t)
    BY DEF MutexInv
  <2>2. \A n \in held[t] :
          /\ OSMaxPriority'[n] = OSMaxPriority[n]
          /\ \A k \in under[n] : OSMaxPriority'[k] = OSMaxPriority[k]
    <3>1. \A n \in held[t] : n \in ObjectId /\ OSEventAllocated[n]
      BY <1>1, FreeBlockFacts
    <3> QED
      BY <1>3, <2>1, <3>1 DEF Nesting
  <2>3. \A n \in held[t] : PriorityVector'[OSOriginalPriority[n]] = t
    <3>1. \A n \in held[t] : /\ PriorityVector[OSOriginalPriority[n]] = t
                             /\ OSOriginalPriority[n] \in PrioRange
      BY <1>1, <2>1 DEF Nesting
    <3>2. t # EMPTY_PRIO
      BY HandleFacts, ConstantFacts
    <3> QED
      BY <1>2, <3>1, <3>2
  <2>4. From(t, Priority[t], held[t])'
    BY <1>1, <2>1, <2>2 DEF Nesting, From
  <2>5. \A n \in held[t] : From(t, OSOriginalPriority[n], under[n])'
    BY <2>1, <2>2 DEF Nesting, From
  <2> QED
    BY <1>1, <2>1, <2>2, <2>3, <2>4, <2>5 DEF Nesting
<1>7. BlockedAreOwned'
  BY <1>1 DEF MutexInv, BlockedAreOwned
<1> QED
  BY <1>5, <1>6, <1>7 DEF PriorityPart

\* Creation: the new mutex is available and belongs to nobody.
LEMMA CreateMutexKeepsInv ==
  ASSUME MutexInv, NEW c \in Ceilings, OSMutexCreate(c)
  PROVE  MutexInv'
<1>1. ReservePriority(c) /\ c \in PrioRange
  BY MutexAssumption DEF OSMutexCreate
<1>2. CASE \E m \in ObjectId :
             /\ CreateEvent(m)
             /\ OSEventState' = [OSEventState EXCEPT ![m] = TRUE]
             /\ OSMaxPriority' = [OSMaxPriority EXCEPT ![m] = c]
             /\ UNCHANGED <<OSEventOwner, OSOriginalPriority, held, under>>
  <2>1. PICK m \in ObjectId :
          /\ CreateEvent(m)
          /\ OSEventState' = [OSEventState EXCEPT ![m] = TRUE]
          /\ OSMaxPriority' = [OSMaxPriority EXCEPT ![m] = c]
          /\ UNCHANGED <<OSEventOwner, OSOriginalPriority, held, under>>
    BY <1>2
  <2>2. /\ ~OSEventAllocated[m]
        /\ OSEventAllocated' = [OSEventAllocated EXCEPT ![m] = TRUE]
        /\ OSEventWait' = [OSEventWait EXCEPT ![m] = 0]
        /\ OSEventWaitList' = [OSEventWaitList EXCEPT ![m] = {}]
        /\ UNCHANGED <<callVars, pend, given>>
    BY <2>1 DEF CreateEvent, FreeBlock, NewWaitList, callVars
  <2>3. OSEventAllocated \in [ObjectId -> BOOLEAN]
        /\ OSEventWait \in [ObjectId -> Nat]
        /\ OSEventWaitList \in [ObjectId -> SUBSET PrioRange]
    BY DEF MutexInv, EventInv, EventTypeOK
  <2>4. UNCHANGED <<OSEventWait, OSEventWaitList>>
    BY <2>2, <2>3, FreeBlockFacts
  <2>5. EventInv'
    BY <1>1, <2>2, <2>3, <2>4, ReserveKeepsEventInv DEF MutexInv
  <2>6. MutexTypes'
    BY <1>1, <2>1 DEF MutexInv, MutexTypes
  <2>7. PriorityPart'
    BY <1>1, <2>1, <2>2, ReserveKeepsPriorities
  <2>8. Owners'
    BY <2>1, <2>2, <2>3, <2>4, FreeBlockFacts
    DEF MutexInv, MutexTypes, Owners, Holds
  <2> QED
    BY <2>5, <2>6, <2>7, <2>8, MutexInvFrom
<1>3. CASE UNCHANGED <<eventVars, mutexVars>>
  <2>1. EventInv'
    BY <1>1, <1>3, ReserveKeepsEventInv
    DEF MutexInv, EventInv, EventTypeOK, eventVars, eventTable
  <2>2. MutexTypes' /\ Owners'
    BY <1>3 DEF MutexInv, MutexTypes, Owners, Holds, eventVars, eventTable,
                callVars, mutexVars
  <2>3. PriorityPart'
    BY <1>1, <1>3, ReserveKeepsPriorities DEF eventVars, eventTable, mutexVars
  <2> QED
    BY <2>1, <2>2, <2>3, MutexInvFrom
<1> QED
  BY <1>2, <1>3 DEF OSMutexCreate

\* Deletion of a mutex that is not in use.
LEMMA DeleteMutexKeepsInv ==
  ASSUME MutexInv, ~DeleteWithWaiters, NEW m \in ObjectId, OSMutexDelete(m)
  PROVE  MutexInv'
<1>1. /\ DeleteEvent(m) /\ OSEventOwner[m] = NoOwner
      /\ OSEventState' = [OSEventState EXCEPT ![m] = FALSE]
      /\ OSEventOwner' = [OSEventOwner EXCEPT ![m] = NoOwner]
      /\ OSMaxPriority' = [OSMaxPriority EXCEPT ![m] = 0]
      /\ OSOriginalPriority' = [OSOriginalPriority EXCEPT ![m] = 0]
      /\ UNCHANGED <<kernelVars, held, under>>
  BY DEF OSMutexDelete
<1>2. /\ OSEventAllocated' = [OSEventAllocated EXCEPT ![m] = FALSE]
      /\ OSEventWait' = [OSEventWait EXCEPT ![m] = 0]
      /\ UNCHANGED <<pend, given, Priority, PriorityVector, OSBlockedList>>
  BY <1>1 DEF DeleteEvent, NewWaitList, callVars, kernelVars
<1>3. /\ OSEventAllocated \in [ObjectId -> BOOLEAN]
      /\ OSEventWait \in [ObjectId -> Nat] /\ 0 \in PrioRange
  BY PriorityAssumption DEF MutexInv, EventInv, EventTypeOK, PrioRange
<1>4. EventInv'
  BY <1>1, DeleteKeepsInv DEF MutexInv
<1>5. MutexTypes'
  BY <1>1, <1>3 DEF MutexInv, MutexTypes
<1>6. OSEventOwner' = OSEventOwner
  BY <1>1 DEF MutexInv, MutexTypes
<1>7. Owners'
  BY <1>1, <1>2, <1>3, <1>6 DEF MutexInv, MutexTypes, Owners, Holds
<1>8. \A t \in Task : /\ m \notin held[t]
                      /\ \A n \in held[t] : m \notin under[n]
  <2>1. \A t \in Task : m \notin held[t]
    BY <1>1, HandleFacts DEF MutexInv, Owners, Holds
  <2> QED
    BY <2>1 DEF MutexInv, Nesting
<1>9. Reserved'
  <2>1. \A n \in ObjectId : OSEventAllocated'[n] =>
          OSEventAllocated[n] /\ OSMaxPriority'[n] = OSMaxPriority[n]
    BY <1>1, <1>2, <1>3 DEF MutexInv, MutexTypes
  <2> QED
    BY <1>2, <2>1 DEF MutexInv, Reserved
<1>10. ASSUME NEW t \in Task PROVE Nesting(t)'
  <2>1. Nesting(t) /\ held[t] \subseteq ObjectId
    BY DEF MutexInv, MutexTypes
  <2>2. \A n \in held[t] :
          /\ OSMaxPriority'[n] = OSMaxPriority[n]
          /\ OSOriginalPriority'[n] = OSOriginalPriority[n]
          /\ \A k \in under[n] : OSMaxPriority'[k] = OSMaxPriority[k]
    BY <1>1, <1>8, <2>1 DEF MutexInv, MutexTypes, Nesting
  <2>3. From(t, Priority[t], held[t])'
    BY <1>1, <1>2, <2>1, <2>2 DEF Nesting, From
  <2>4. \A n \in held[t] : From(t, OSOriginalPriority[n], under[n])'
    BY <1>1, <1>2, <2>1, <2>2 DEF Nesting, From
  <2> QED
    BY <1>1, <1>2, <2>1, <2>2, <2>3, <2>4 DEF Nesting
<1>11. BlockedAreOwned'
  BY <1>2 DEF MutexInv, BlockedAreOwned
<1>12. PriorityPart'
  BY <1>9, <1>10, <1>11 DEF PriorityPart
<1> QED
  BY <1>4, <1>5, <1>7, <1>12, MutexInvFrom

\* Acquiring an available mutex.
LEMMA AcquireFreeKeepsInv ==
  ASSUME MutexInv, NEW t \in Task, InUserCode(t), NEW m \in ObjectId,
         OSEventAllocated[m], OSEventState[m],
         OSEventState' = [OSEventState EXCEPT ![m] = FALSE],
         OSEventOwner' = [OSEventOwner EXCEPT ![m] = t],
         TakeCeiling(t, m),
         UNCHANGED <<mutexKernelFrame, eventVars, OSMaxPriority>>
  PROVE  MutexInv'
<1>1. /\ Running(t) /\ pend[t] = NoEvent /\ OSEventOwner[m] = NoOwner
      /\ UNCHANGED <<OSBlockedList, OSEventAllocated, OSEventWait, pend, given>>
  BY DEF InUserCode, MutexInv, Owners, mutexKernelFrame, eventVars, eventTable,
         callVars
<1>2. \A u \in Task : ~Holds(u, m) /\ ~(pend[u] = m /\ given[u])
  BY <1>1, HandleFacts DEF MutexInv, Owners
<1>3. Priority[t] \in OSReadyList \cap OSBlockedList
  BY <1>1, RunningFacts
<1>4. MoveTo(t, Raised(t, m)) /\ ReadyMoves(t, Raised(t, m))
  BY <1>2, <1>3, TakeCeilingMoves
<1>5. EventInv'
  BY <1>4, MoveKeepsInv DEF MutexInv
<1>6. PriorityPart'
  BY <1>1, <1>2, <1>3, TakeCeilingKeepsPriorities
<1>7. MutexTypes'
  <2>1. Priority[t] \in PrioRange
    BY ConstantFacts DEF MutexInv, EventInv, PrioritiesOwned
  <2> QED
    BY <2>1 DEF MutexInv, MutexTypes, TakeCeiling, Acquired
<1>8. held' = [held EXCEPT ![t] = @ \cup {m}]
  BY DEF TakeCeiling, Acquired
<1>9. \A u \in Task, n \in ObjectId :
        Holds(u, n)' <=> Holds(u, n) \/ (u = t /\ n = m)
  BY <1>8 DEF Holds, MutexInv, MutexTypes
<1>10. Owners'
  <2> SUFFICES ASSUME NEW n \in ObjectId
               PROVE  /\ \A u \in Task :
                           /\ OSEventOwner'[n] = u <=>
                                Holds(u, n)' \/ (pend[u] = n /\ given[u])
                           /\ Holds(u, n)' => pend[u] # n
                      /\ OSEventOwner'[n] # NoOwner => OSEventAllocated[n]
                      /\ OSEventAllocated[n] =>
                           /\ OSEventState'[n] <=> OSEventOwner'[n] = NoOwner
                           /\ OSEventState'[n] => OSEventWait[n] = 0
    BY <1>1 DEF Owners
  <2>1. CASE n = m
    BY <1>1, <1>2, <1>9, <2>1, HandleFacts, ObjectFacts DEF MutexInv, MutexTypes
  <2>2. CASE n # m
    BY <1>9, <2>2 DEF MutexInv, MutexTypes, Owners
  <2> QED
    BY <2>1, <2>2
<1> QED
  BY <1>5, <1>6, <1>7, <1>10, MutexInvFrom

\* Waiting for a busy one.
LEMMA AcquireWaitsKeepsInv ==
  ASSUME ShortWaits, MutexInv, NEW t \in Task, InUserCode(t),
         NEW m \in ObjectId, NEW w \in PendWait, OSEventAllocated[m],
         OSEventOwner[m] # t, ~OSEventState[m], WaitEvent(t, m, w),
         UNCHANGED mutexVars
  PROVE  MutexInv'
<1>1. /\ UNCHANGED <<priorityVars, OSBlockedList, OSEventAllocated, OSEventState,
                     OSEventOwner, OSMaxPriority, OSOriginalPriority, held, under>>
      /\ OSEventWait' = [OSEventWait EXCEPT ![m] = @ + 1]
      /\ pend' = [pend EXCEPT ![t] = m]
      /\ given' = [given EXCEPT ![t] = FALSE]
      /\ pend[t] = NoEvent
  BY DEF WaitEvent, Suspend, mutexVars, InUserCode
<1>2. EventInv'
  BY WaitKeepsInv DEF MutexInv
<1>3. MutexTypes'
  BY <1>1 DEF MutexInv, MutexTypes
<1>4. PriorityPart'
  BY <1>1, SamePriorities
<1>5. Owners'
  <2>1. \A n \in ObjectId : n # m => OSEventWait'[n] = OSEventWait[n]
    BY <1>1 DEF MutexInv, EventInv, EventTypeOK
  <2>2. \A u \in Task : u # t => pend'[u] = pend[u] /\ given'[u] = given[u]
    BY <1>1 DEF MutexInv, EventInv, EventTypeOK
  <2>3. pend'[t] = m /\ ~given'[t]
    BY <1>1 DEF MutexInv, EventInv, EventTypeOK
  <2>4. ~Holds(t, m)
    BY DEF MutexInv, Owners
  <2> QED
    BY <1>1, <2>1, <2>2, <2>3, <2>4, ObjectFacts DEF MutexInv, Owners, Holds
<1> QED
  BY <1>2, <1>3, <1>4, <1>5, MutexInvFrom

\* A wait that ends by timeout.
LEMMA AcquireTimeoutKeepsInv ==
  ASSUME MutexInv, NEW t \in Task, AcquireReturnsTimeout(t)
  PROVE  MutexInv'
<1>1. LeaveByTimeout(t) /\ Resuming(t) /\ ExitsByTimeout(t) /\ UNCHANGED mutexVars
  BY DEF AcquireReturnsTimeout, LeaveByTimeout
<1>2. /\ pend[t] \in ObjectId /\ ~given[t]
      /\ Priority[t] \in OSEventWaitList[pend[t]]
  BY <1>1, ResumingTaskState DEF MutexInv
<1>3. /\ UNCHANGED <<priorityVars, OSBlockedList, OSEventAllocated, OSEventState,
                     OSEventOwner, OSMaxPriority, OSOriginalPriority, held, under>>
      /\ OSEventWait' = [OSEventWait EXCEPT ![pend[t]] = @ - 1]
      /\ pend' = [pend EXCEPT ![t] = NoEvent]
      /\ given' = [given EXCEPT ![t] = FALSE]
  BY <1>1 DEF LeaveByTimeout, EndWait, mutexVars
<1>4. EventInv'
  BY <1>1, TimeoutKeepsInv DEF MutexInv
<1>5. MutexTypes'
  BY <1>3 DEF MutexInv, MutexTypes
<1>6. PriorityPart'
  BY <1>3, SamePriorities
<1>7. OSEventWait[pend[t]] # 0
  <2>1. OSEventWaitList[pend[t]] \in SUBSET PrioRange
        /\ OSEventWait[pend[t]] = Cardinality(OSEventWaitList[pend[t]])
    BY <1>2 DEF MutexInv, EventInv, EventTypeOK, WaitListExact
  <2> QED
    BY <1>2, <2>1, WaitListFinite, FS_EmptySet
<1>8. Owners'
  <2>1. \A n \in ObjectId : n # pend[t] => OSEventWait'[n] = OSEventWait[n]
    BY <1>2, <1>3 DEF MutexInv, EventInv, EventTypeOK
  <2>2. \A u \in Task : u # t => pend'[u] = pend[u] /\ given'[u] = given[u]
    BY <1>3 DEF MutexInv, EventInv, EventTypeOK
  <2>3. pend'[t] = NoEvent /\ ~given'[t]
    BY <1>3 DEF MutexInv, EventInv, EventTypeOK
  <2>4. ASSUME NEW n \in ObjectId, NEW u \in Task
        PROVE  /\ pend'[u] = n /\ given'[u] <=> pend[u] = n /\ given[u]
               /\ Holds(u, n) => pend'[u] # n
    BY <1>2, <2>2, <2>3, ObjectFacts DEF MutexInv, Owners
  <2>5. \A n \in ObjectId :
          OSEventAllocated[n] /\ OSEventState[n] => OSEventWait'[n] = 0
    BY <1>7, <2>1 DEF MutexInv, Owners
  <2> QED
    BY <1>3, <2>4, <2>5 DEF MutexInv, Owners, Holds
<1> QED
  BY <1>4, <1>5, <1>6, <1>8, MutexInvFrom

\* A wait that ends because a release selected the task.
LEMMA AcquireOKKeepsInv ==
  ASSUME MutexInv, NEW t \in Task, AcquireReturnsOK(t)
  PROVE  MutexInv'
<1> DEFINE m == pend[t]
<1>1. /\ LeaveByPost(t) /\ Resuming(t) /\ ~ExitsByTimeout(t) /\ Running(t)
      /\ TakeCeiling(t, m)
      /\ UNCHANGED <<OSEventState, OSEventOwner, OSMaxPriority>>
      /\ EndWait(t) /\ UNCHANGED OSEventWait
  BY DEF AcquireReturnsOK, LeaveByPost, Resuming
<1>2. m \in ObjectId /\ given[t]
  BY <1>1, ResumingTaskState DEF MutexInv
<1>3. /\ pend' = [pend EXCEPT ![t] = NoEvent]
      /\ given' = [given EXCEPT ![t] = FALSE]
      /\ UNCHANGED <<OSEventAllocated, OSBlockedList>>
      /\ held' = [held EXCEPT ![t] = @ \cup {m}]
  BY <1>1 DEF EndWait, TakeCeiling, Acquired
<1>4. /\ OSEventOwner[m] = t /\ OSEventAllocated[m]
      /\ \A u \in Task : ~Holds(u, m)
      /\ \A u \in Task \ {t} : ~(pend[u] = m /\ given[u])
  BY <1>2, HandleFacts DEF MutexInv, Owners
<1>5. Priority[t] \in OSReadyList \cap OSBlockedList
  BY <1>1, RunningFacts
<1>6. MoveTo(t, Raised(t, m)) /\ ReadyMoves(t, Raised(t, m))
  BY <1>1, <1>2, <1>4, <1>5, TakeCeilingMoves
<1>7. EventInv'
  BY <1>1, <1>6, MoveAtPostKeepsInv DEF MutexInv
<1>8. PriorityPart'
  BY <1>1, <1>2, <1>3, <1>4, <1>5, TakeCeilingKeepsPriorities
<1>9. MutexTypes'
  <2>1. Priority[t] \in PrioRange
    BY ConstantFacts DEF MutexInv, EventInv, PrioritiesOwned
  <2> QED
    BY <1>1, <1>2, <2>1 DEF MutexInv, MutexTypes, TakeCeiling, Acquired
<1> HIDE DEF m
<1>10. Owners'
  <2>1. \A u \in Task, n \in ObjectId :
          Holds(u, n)' <=> Holds(u, n) \/ (u = t /\ n = m)
    BY <1>3 DEF Holds, MutexInv, MutexTypes
  <2>2. \A u \in Task : u # t => pend'[u] = pend[u] /\ given'[u] = given[u]
    BY <1>3 DEF MutexInv, EventInv, EventTypeOK
  <2>3. pend'[t] = NoEvent /\ ~given'[t] /\ pend[t] = m
    BY <1>3 DEF MutexInv, EventInv, EventTypeOK, m
  <2>4. ASSUME NEW n \in ObjectId, NEW u \in Task
        PROVE  /\ OSEventOwner[n] = u
                    <=> Holds(u, n)' \/ (pend'[u] = n /\ given'[u])
               /\ Holds(u, n)' => pend'[u] # n
    <3>1. /\ OSEventOwner[n] = u <=> Holds(u, n) \/ (pend[u] = n /\ given[u])
          /\ Holds(u, n) => pend[u] # n
      BY DEF MutexInv, Owners
    <3>2. CASE u = t
      BY <1>2, <1>4, <2>1, <2>3, <3>1, <3>2, ObjectFacts
    <3>3. CASE u # t
      BY <2>1, <2>2, <3>1, <3>3
    <3> QED
      BY <3>2, <3>3
  <2> QED
    BY <1>1, <1>3, <2>4 DEF MutexInv, Owners
<1> QED
  BY <1>7, <1>8, <1>9, <1>10, MutexInvFrom

\* A release, in reverse order of the acquisitions.
LEMMA ReleaseKeepsInv ==
  ASSUME LifoRelease, MutexInv, NEW t \in Task, NEW m \in ObjectId,
         OSMutexRelease(t, m)
  PROVE  MutexInv'
<1> DEFINE q == OSOriginalPriority[m]
<1>1. /\ InUserCode(t) /\ Running(t) /\ pend[t] = NoEvent
      /\ OSEventAllocated[m] /\ OSEventOwner[m] = t
      /\ \A n \in held[t] : m \notin under[n]
      /\ Priority' = [Priority EXCEPT ![t] = q]
      /\ Released(t, m)
      /\ HandOver(t, m) \/ FreeMutex(t, m)
      /\ UNCHANGED <<OSMaxPriority, OSOriginalPriority>>
  BY DEF OSMutexRelease, InUserCode
<1>2. /\ m \in held[t]
      /\ \A u \in Task \ {t} : ~Holds(u, m) /\ ~(pend[u] = m /\ given[u])
  BY <1>1, ObjectFacts DEF MutexInv, Owners, Holds
<1>3. Priority[t] \in OSReadyList \cap OSBlockedList /\ t \in Thread
  BY <1>1, RunningFacts
<1>4. GivesBack(t, m)
  BY <1>1 DEF GivesBack, HandOver, FreeMutex
<1>5. MoveTo(t, q)
  BY <1>1, <1>2, <1>3, <1>4, ReleaseMoves
<1>6. UNCHANGED <<OSBlockedList, OSEventAllocated>>
  BY <1>1 DEF HandOver, SelectWaiter, FreeMutex, mutexKernelFrame, eventVars,
              eventTable
<1>7. PriorityPart'
  BY <1>1, <1>2, <1>3, <1>4, <1>6, ReleaseKeepsPriorities
<1>8. RestoredReadyList(t, m) = (OSReadyList \ {Priority[t]}) \cup {q}
  BY <1>3 DEF RestoredReadyList
<1>9. /\ \A u \in Task, n \in ObjectId :
           Holds(u, n)' <=> Holds(u, n) /\ ~(u = t /\ n = m)
      /\ held' \in [Task -> SUBSET ObjectId]
      /\ under' \in [ObjectId -> SUBSET ObjectId]
  BY <1>1 DEF Released, Holds, MutexInv, MutexTypes
<1> HIDE DEF q
<1>10. CASE HandOver(t, m)
  <2>1. /\ SelectWaiter(m)
        /\ OSEventOwner' =
             [OSEventOwner EXCEPT ![m] = PriorityVector[HighestWaiter(m)]]
        /\ OSReadyList' = ((OSReadyList \ {Priority[t]}) \cup {q})
                            \cup {HighestWaiter(m)}
        /\ changeContext' = TRUE
        /\ UNCHANGED <<currentTask, OSEventState>>
    BY <1>8, <1>10 DEF HandOver
  <2>2. EventInv'
    BY <1>1, <1>5, <2>1, MoveAndSelectKeepsInv DEF MutexInv
  <2>3. PICK u \in Waiters(m) : PriorityVector[HighestWaiter(m)] = u
    BY <2>1, SelectedWaiter DEF SelectWaiter, MutexInv
  <2>4. u \in Task /\ pend[u] = m /\ ~given[u] /\ u # t
    BY <1>1, ObjectFacts DEF Waiters
  <2>5. /\ OSEventOwner' = [OSEventOwner EXCEPT ![m] = u]
        /\ given' = [v \in Task |-> given[v] \/ v = u]
        /\ OSEventWait' = [OSEventWait EXCEPT ![m] = @ - 1]
        /\ UNCHANGED pend
    BY <2>1, <2>3 DEF SelectWaiter
  <2>6. MutexTypes'
    BY <1>1, <1>9, <2>1, <2>4, <2>5 DEF MutexInv, MutexTypes
  <2>7. ASSUME NEW n \in ObjectId, NEW v \in Task
        PROVE  /\ OSEventOwner'[n] = v
                    <=> Holds(v, n)' \/ (pend'[v] = n /\ given'[v])
               /\ Holds(v, n)' => pend'[v] # n
    <3>1. /\ OSEventOwner[n] = v <=> Holds(v, n) \/ (pend[v] = n /\ given[v])
          /\ Holds(v, n) => pend[v] # n
      BY DEF MutexInv, Owners
    <3>2. OSEventOwner'[n] = IF n = m THEN u ELSE OSEventOwner[n]
      BY <2>5 DEF MutexInv, MutexTypes
    <3>3. CASE n = m
      BY <1>1, <1>2, <1>9, <2>4, <2>5, <3>1, <3>2, <3>3, ObjectFacts
    <3>4. CASE n # m
      BY <1>9, <2>4, <2>5, <3>1, <3>2, <3>4
    <3> QED
      BY <3>3, <3>4
  <2>8. Owners'
    <3>1. ASSUME NEW n \in ObjectId
          PROVE  /\ OSEventOwner'[n] # NoOwner => OSEventAllocated[n]
                 /\ OSEventAllocated[n] =>
                      /\ OSEventState[n] <=> OSEventOwner'[n] = NoOwner
                      /\ OSEventState[n] => OSEventWait'[n] = 0
      <4>1. /\ OSEventOwner[n] # NoOwner => OSEventAllocated[n]
            /\ OSEventAllocated[n] =>
                 /\ OSEventState[n] <=> OSEventOwner[n] = NoOwner
                 /\ OSEventState[n] => OSEventWait[n] = 0
        BY DEF MutexInv, Owners
      <4>2. CASE n = m
        BY <1>1, <2>4, <2>5, <4>1, <4>2, HandleFacts DEF MutexInv, MutexTypes
      <4>3. CASE n # m
        BY <2>5, <4>1, <4>3 DEF MutexInv, MutexTypes, EventInv, EventTypeOK
      <4> QED
        BY <4>2, <4>3
    <3> QED
      BY <1>6, <2>1, <2>7, <3>1 DEF Owners
  <2> QED
    BY <1>7, <2>2, <2>6, <2>8, MutexInvFrom
<1>11. CASE FreeMutex(t, m)
  <2>1. /\ OSEventWait[m] = 0
        /\ OSEventOwner' = [OSEventOwner EXCEPT ![m] = NoOwner]
        /\ OSEventState' = [OSEventState EXCEPT ![m] = TRUE]
        /\ ReadyMoves(t, q)
        /\ UNCHANGED <<mutexKernelFrame, eventVars, pend, given, OSEventWait>>
    BY <1>8, <1>11 DEF FreeMutex, ReadyMoves, eventVars, eventTable, callVars
  <2>2. EventInv'
    BY <1>1, <1>5, <2>1, MoveKeepsInv DEF MutexInv
  <2>3. MutexTypes'
    BY <1>1, <1>9, <2>1 DEF MutexInv, MutexTypes
  <2>4. ASSUME NEW n \in ObjectId
        PROVE  /\ OSEventOwner'[n] = IF n = m THEN NoOwner ELSE OSEventOwner[n]
               /\ OSEventState'[n] = IF n = m THEN TRUE ELSE OSEventState[n]
    BY <2>1 DEF MutexInv, MutexTypes
  <2>5. ASSUME NEW n \in ObjectId, NEW v \in Task
        PROVE  /\ OSEventOwner'[n] = v
                    <=> Holds(v, n)' \/ (pend'[v] = n /\ given'[v])
               /\ Holds(v, n)' => pend'[v] # n
    <3>1. /\ OSEventOwner[n] = v <=> Holds(v, n) \/ (pend[v] = n /\ given[v])
          /\ Holds(v, n) => pend[v] # n
      BY DEF MutexInv, Owners
    <3>2. CASE n = m
      <4>1. OSEventOwner'[n] # v
        BY <2>4, <3>2, HandleFacts
      <4>2. ~Holds(v, n)'
        BY <1>2, <1>9, <3>2
      <4>3. ~(pend'[v] = n /\ given'[v])
        BY <1>1, <1>2, <2>1, <3>2, ObjectFacts
      <4> QED
        BY <4>1, <4>2, <4>3
    <3>3. CASE n # m
      BY <1>9, <2>1, <2>4, <3>1, <3>3
    <3> QED
      BY <3>2, <3>3
  <2>6. Owners'
    <3>1. ASSUME NEW n \in ObjectId
          PROVE  /\ OSEventOwner'[n] # NoOwner => OSEventAllocated[n]
                 /\ OSEventAllocated[n] =>
                      /\ OSEventState'[n] <=> OSEventOwner'[n] = NoOwner
                      /\ OSEventState'[n] => OSEventWait[n] = 0
      <4>1. /\ OSEventOwner[n] # NoOwner => OSEventAllocated[n]
            /\ OSEventAllocated[n] =>
                 /\ OSEventState[n] <=> OSEventOwner[n] = NoOwner
                 /\ OSEventState[n] => OSEventWait[n] = 0
        BY DEF MutexInv, Owners
      <4>2. CASE n = m
        BY <2>1, <2>4, <4>2
      <4>3. CASE n # m
        BY <2>4, <4>1, <4>3
      <4> QED
        BY <4>2, <4>3
    <3> QED
      BY <1>6, <2>1, <2>5, <3>1 DEF Owners
  <2> QED
    BY <1>7, <2>2, <2>3, <2>6, MutexInvFrom
<1> QED
  BY <1>1, <1>10, <1>11

-----------------------------------------------------------------------------
(* The specification *)

\* The other services of the kernel and the interrupts know no mutex.
LEMMA KernelKeepsMutexInv ==
  ASSUME MutexInv, UNCHANGED mutexVars,
         \/ \E t \in Task : InUserCode(t) /\ KernelCall(t)
         \/ KernelInterrupt
  PROVE  MutexInv'
<1>1. /\ UNCHANGED <<eventVars, priorityVars, OSEventAllocated, OSEventWait,
                     pend, given, OSEventState, OSEventOwner, OSMaxPriority,
                     OSOriginalPriority, held, under>>
      /\ \A p \in OSBlockedList \ OSBlockedList' :
           \E t \in Thread : Priority[t] = p
  BY EventAssumption
  DEF KernelCall, KernelInterrupt, OSDelayTask, Suspend, OSBlockTask,
      OSUnBlockTask, onlyBlockedList, TickTimer, SwitchContext, eventVars,
      eventTable, callVars, mutexVars
<1>2. EventInv'
  BY KernelCallKeepsInv, KernelInterruptKeepsInv DEF MutexInv
<1>3. MutexTypes' /\ Owners'
  BY <1>1 DEF MutexInv, MutexTypes, Owners, Holds
<1>4. PriorityPart'
  BY <1>1, SamePriorities
<1> QED
  BY <1>2, <1>3, <1>4, MutexInvFrom

\* Every step keeps the invariant.
LEMMA StepMutexInv == Assumptions /\ MutexInv /\ [MutexNext]_vars => MutexInv'
<1> SUFFICES ASSUME ShortWaits, ~DeleteWithWaiters, LifoRelease, MutexInv,
                    [MutexNext]_vars
             PROVE  MutexInv'
  BY DEF Assumptions
<1>1. ASSUME NEW t \in Task, TaskStep(t) PROVE MutexInv'
  <2>1. InUserCode(t)
    BY <1>1 DEF TaskStep
  <2>2. ASSUME NEW c \in Ceilings, OSMutexCreate(c) PROVE MutexInv'
    BY <2>2, CreateMutexKeepsInv
  <2>3. ASSUME NEW m \in ObjectId, OSMutexDelete(m) PROVE MutexInv'
    BY <2>3, DeleteMutexKeepsInv
  <2>4. ASSUME NEW m \in ObjectId, OSMutexRelease(t, m) PROVE MutexInv'
    BY <2>4, ReleaseKeepsInv
  <2>5. ASSUME NEW m \in ObjectId, NEW w \in PendWait, OSMutexAcquire(t, m, w)
        PROVE  MutexInv'
    BY <2>1, <2>5, AcquireFreeKeepsInv, AcquireWaitsKeepsInv DEF OSMutexAcquire
  <2>6. ASSUME KernelCall(t), UNCHANGED mutexVars PROVE MutexInv'
    BY <2>1, <2>6, KernelKeepsMutexInv
  <2> QED
    BY <1>1, <2>2, <2>3, <2>4, <2>5, <2>6 DEF TaskStep
<1>2. ASSUME NEW t \in Task, OSMutexAcquireResume(t) PROVE MutexInv'
  BY <1>2, AcquireTimeoutKeepsInv, AcquireOKKeepsInv DEF OSMutexAcquireResume
<1>3. ASSUME KernelInterrupt, UNCHANGED mutexVars PROVE MutexInv'
  BY <1>3, KernelKeepsMutexInv
<1>4. ASSUME UNCHANGED vars PROVE MutexInv'
  <2>1. UNCHANGED <<kernelVars, eventVars, mutexVars, priorityVars,
                    OSBlockedList, OSEventAllocated, OSEventWait, pend, given,
                    OSEventState, OSEventOwner, OSMaxPriority,
                    OSOriginalPriority, held, under>>
    BY <1>4 DEF vars, kernelVars, priorityVars, eventVars, eventTable,
                callVars, mutexVars
  <2>2. EventInv'
    BY <2>1, UnchangedKeepsInv DEF MutexInv
  <2>3. MutexTypes' /\ Owners'
    BY <2>1 DEF MutexInv, MutexTypes, Owners, Holds
  <2>4. PriorityPart'
    BY <2>1, SamePriorities
  <2> QED
    BY <2>2, <2>3, <2>4, MutexInvFrom
<1> QED
  BY <1>1, <1>2, <1>3, <1>4 DEF MutexNext

\* Owners, waiters and priorities stay consistent.
THEOREM MutexInvariance ==
  ASSUME Assumptions
  PROVE  MutexSpec => []MutexInv
<1>1. MutexInit => MutexInv
  BY InitMutexInv
<1>2. MutexInv /\ [MutexNext]_vars => MutexInv'
  BY StepMutexInv
<1> QED
  BY <1>1, <1>2, PTL DEF MutexSpec

\* Every variable keeps its type.
THEOREM MutexTypeCorrect ==
  ASSUME Assumptions
  PROVE  MutexSpec => []MutexTypeOK
<1>1. MutexInit => slept \in BOOLEAN
  BY DEF MutexInit
<1>2. slept \in BOOLEAN /\ [MutexNext]_vars => (slept \in BOOLEAN)'
  BY DEF MutexNext, TaskStep, vars
<1>3. MutexInv /\ slept \in BOOLEAN => MutexTypeOK
  BY DEF MutexInv, EventInv, MutexTypes, MutexTypeOK
<1> QED
  BY <1>1, <1>2, <1>3, MutexInvariance, PTL DEF MutexSpec

\* Two tasks never both hold a mutex, and its control block names the one that
\* does: OSMutexAcquire and OSMutexRelease agree on who the owner is, however
\* their waits end.
THEOREM MutexesExclude ==
  ASSUME Assumptions
  PROVE  MutexSpec => []MutualExclusion
<1>1. MutexInv => MutualExclusion
  BY DEF MutexInv, Owners, MutualExclusion
<1> QED
  BY <1>1, MutexInvariance, PTL

\* A busy mutex has an owner that holds it or is about to, and an available one
\* has no waiters: OSMutexRelease never leaves a mutex behind.
THEOREM NoMutexIsOrphaned ==
  ASSUME Assumptions
  PROVE  MutexSpec => []NoOrphanedMutex
<1>1. MutexInv => NoOrphanedMutex
  BY DEF MutexInv, MutexTypes, Owners, NoOrphanedMutex, NoOwner
<1> QED
  BY <1>1, MutexInvariance, PTL

\* PriorityVector leads from every thread's priority back to the thread,
\* whatever ceilings were taken and given back.
THEOREM PrioritiesAlwaysResolve ==
  ASSUME Assumptions
  PROVE  MutexSpec => []PrioritiesResolve
<1>1. MutexInv => PrioritiesResolve
  BY DEF MutexInv, EventInv, PrioritiesOwned, PrioritiesResolve
<1> QED
  BY <1>1, MutexInvariance, PTL

\* A holder runs at least at the ceiling, and a task that holds nothing is back
\* at the priority it was installed with.
THEOREM CeilingsAreRespected ==
  ASSUME Assumptions
  PROVE  MutexSpec => []CeilingRespected
<1>1. ASSUME MutexInv, NEW t \in Task
      PROVE  /\ \A m \in ObjectId : Holds(t, m)
                                      => Priority[t] >= OSMaxPriority[m]
             /\ held[t] = {} => Priority[t] = InitPriority[t]
  <2>1. /\ From(t, Priority[t], held[t])
        /\ \A m \in held[t] : OSMaxPriority[m] <= Priority[t]
    BY <1>1 DEF MutexInv, Nesting
  <2> QED
    BY <2>1 DEF From, Holds
<1>2. MutexInv => CeilingRespected
  BY <1>1 DEF CeilingRespected
<1> QED
  BY <1>2, MutexInvariance, PTL

\* OSSchedule always returns an installed thread, never the mark of a ceiling
\* that nobody uses.
THEOREM SchedulerFindsThreads ==
  ASSUME Assumptions
  PROVE  MutexSpec => []ScheduledThreadExists
<1>1. MutexInv => ScheduledThreadExists
  BY OSScheduleIsRight
  DEF MutexInv, EventInv, PrioritiesOwned, ScheduledThreadExists
<1> QED
  BY <1>1, MutexInvariance, PTL

\* OSMutexAcquire and OSMutexRelease keep the wait lists exact, lose no wake-up
\* and use the delay list the way its macros expect, although a waiter's
\* priority can be a ceiling by then.
THEOREM MutexWaitsAreSafe ==
  ASSUME Assumptions
  PROVE  MutexSpec => [](WaitListExact /\ NoWakeupLost /\ DelayListContract)
<1>1. MutexInv => WaitListExact /\ NoWakeupLost /\ DelayListContract
  BY NoWakeupLostFromInv, DelayListContractFromInv DEF MutexInv, EventInv
<1> QED
  BY MutexInvariance, <1>1, PTL

\* A release without waiters lowers the caller's priority and requests no
\* switch; a task that it leaves waiting below its priority waits for one tick
\* at most.
THEOREM MutexTickRestoresOrder ==
  ASSUME Assumptions
  PROVE  MutexSpec => TickPreempts
<1>1. ASSUME MutexInv, MutexInv', [MutexNext]_vars, OSTickCounter' # OSTickCounter
      PROVE  \A t \in Task : Priority'[t] \in OSReadyList' \cap OSBlockedList'
                               => Priority'[t] <= Priority'[currentTask']
  <2>1. TickTimer
    <3>1. CASE UNCHANGED vars
      BY <1>1, <3>1 DEF vars, kernelVars
    <3>2. ASSUME NEW t \in Task, TaskStep(t) PROVE UNCHANGED OSTickCounter
      <4>1. CASE ~KernelCall(t)
        BY <3>2, <4>1
        DEF TaskStep, OSMutexCreate, OSMutexDelete, OSMutexRelease,
            OSMutexAcquire, ReservePriority, HandOver, FreeMutex,
            mutexKernelFrame, SelectWaiter, WaitEvent, Suspend, kernelVars
      <4>2. CASE KernelCall(t)
        BY <4>2 DEF KernelCall, OSDelayTask, Suspend, OSBlockTask,
                    OSUnBlockTask, onlyBlockedList
      <4> QED
        BY <4>1, <4>2
    <3>3. ASSUME NEW t \in Task, OSMutexAcquireResume(t)
          PROVE  UNCHANGED OSTickCounter
      BY <3>3 DEF OSMutexAcquireResume, AcquireReturnsTimeout,
                  AcquireReturnsOK, LeaveByTimeout, LeaveByPost, EndWait
    <3> QED
      BY <1>1, <3>1, <3>2, <3>3
      DEF MutexNext, KernelInterrupt, SwitchContext
  <2>2. Reschedule
    BY <2>1 DEF TickTimer
  <2> QED
    BY <1>1, <2>2, OrderAfterReschedule DEF MutexInv
<1>2. MutexInv /\ MutexInv' /\ [MutexNext]_vars =>
        [OSTickCounter' # OSTickCounter =>
           \A t \in Task : Priority'[t] \in OSReadyList' \cap OSBlockedList'
                             => Priority'[t] <= Priority'[currentTask']]_kernelVars
  BY <1>1
<1> QED
  BY MutexInvariance, <1>2, PTL DEF MutexSpec, TickPreempts

-----------------------------------------------------------------------------
(* Ceilings exclude waiting *)

HighCeilings == \A c \in Ceilings, t \in Task : c > InitPriority[t]

\* As long as no owner slept, nobody waits, and only the task that has the
\* processor, and could go on with it, owns mutexes.
Undisturbed ==
  /\ \A m \in ObjectId : OSEventAllocated[m] => OSMaxPriority[m] \in Ceilings
  /\ ~slept => \A t \in Task :
       /\ pend[t] = NoEvent
       /\ held[t] # {} =>
            currentTask = t /\ Priority[t] \in OSReadyList \cap OSBlockedList

\* A holder is above all tasks that hold nothing.
LEMMA HolderIsAbove ==
  ASSUME HighCeilings, MutexInv, Undisturbed,
         NEW t \in Task, held[t] # {},
         NEW u \in Thread \ {t}, u \in Task => held[u] = {}
  PROVE  Priority[u] < Priority[t]
<1>1. /\ Priority \in [Thread -> PrioRange] /\ Priority[Idle] = 0
      /\ PrioRange \subseteq Nat /\ t \in Thread
      /\ InitPriority \in [Thread -> PrioRange] /\ InitPriority[t] > 0
  BY ConstantFacts, PriorityAssumption, HandleFacts
  DEF MutexInv, EventInv, PrioritiesOwned
<1>2. PICK m \in held[t] : TRUE
  OBVIOUS
<1>3. m \in ObjectId /\ OSEventAllocated[m] /\ OSMaxPriority[m] <= Priority[t]
      /\ OSMaxPriority[m] \in PrioRange
  BY <1>2, HandleFacts DEF MutexInv, MutexTypes, Owners, Holds, Nesting
<1>4. OSMaxPriority[m] \in Ceilings
  BY <1>3 DEF Undisturbed
<1>5. CASE u = Idle
  <2>1. OSMaxPriority[m] > InitPriority[t]
    BY <1>4 DEF HighCeilings
  <2>2. OSMaxPriority[m] \in Nat /\ InitPriority[t] \in Nat /\ Priority[t] \in Nat
    BY <1>1, <1>3
  <2> QED
    BY <1>1, <1>3, <1>5, <2>1, <2>2
<1>6. CASE u \in Task
  <2>1. Priority[u] = InitPriority[u]
    BY <1>6 DEF MutexInv, Nesting, From
  <2>2. OSMaxPriority[m] > InitPriority[u]
    BY <1>4, <1>6 DEF HighCeilings
  <2>3. /\ OSMaxPriority[m] \in Nat /\ InitPriority[u] \in Nat
        /\ Priority[t] \in Nat
    BY <1>1, <1>3
  <2> QED
    BY <1>3, <2>1, <2>2, <2>3
<1> QED
  BY <1>5, <1>6 DEF Thread

\* Without a sleeping owner a task in its own code finds no mutex taken.
LEMMA OwnerIsCaller ==
  ASSUME MutexInv, Undisturbed, ~slept, NEW t \in Task, InUserCode(t),
         NEW m \in ObjectId, OSEventOwner[m] # NoOwner
  PROVE  OSEventOwner[m] = t
<1>1. OSEventOwner[m] \in Task
  BY DEF MutexInv, MutexTypes
<1>2. PICK u \in Task : OSEventOwner[m] = u
  BY <1>1
<1>3. Holds(u, m)
  <2>1. pend[u] = NoEvent
    BY DEF Undisturbed
  <2> QED
    BY <1>2, <2>1, ObjectFacts DEF MutexInv, Owners
<1>4. currentTask = u
  BY <1>3 DEF Undisturbed, Holds
<1> QED
  BY <1>2, <1>4 DEF InUserCode, Running

\* What a task does keeps Undisturbed: a holder that can no longer run counts
\* as one that slept, and nobody else acts.
LEMMA TaskStepUndisturbed ==
  ASSUME Assumptions, MutexInv, Undisturbed, NEW t \in Task, TaskStep(t)
  PROVE  Undisturbed'
<1>1. InUserCode(t) /\ currentTask = t
      /\ Priority[t] \in OSReadyList \cap OSBlockedList
  BY RunningFacts DEF TaskStep, InUserCode, Running
<1> DEFINE Allocated ==
             \A m \in ObjectId : OSEventAllocated[m] => OSMaxPriority[m] \in Ceilings
           Others(u) == u # t => pend'[u] = pend[u] /\ held'[u] = held[u]
\* What every operation does to the ceilings and to the calls.
<1>2. /\ Allocated'
      /\ UNCHANGED currentTask
      /\ \A u \in Task : Others(u)
      /\ ~slept => pend'[t] = NoEvent
      /\ held[t] = {} /\ held'[t] # {}
           => Priority'[t] \in OSReadyList' \cap OSBlockedList'
  <2>1. Allocated
    BY DEF Undisturbed
  <2>2. ASSUME NEW c \in Ceilings, OSMutexCreate(c)
        PROVE  /\ Allocated' /\ UNCHANGED <<currentTask, pend, held>>
    <3>1. UNCHANGED <<currentTask, pend, held>>
      BY <2>2 DEF OSMutexCreate, ReservePriority, mutexKernelFrame, CreateEvent,
                  NewWaitList, callVars, eventVars, mutexVars
    <3>2. ASSUME NEW m \in ObjectId, CreateEvent(m),
                 OSMaxPriority' = [OSMaxPriority EXCEPT ![m] = c]
          PROVE  Allocated'
      BY <2>1, <3>2 DEF CreateEvent, NewWaitList, MutexInv, MutexTypes,
                        EventInv, EventTypeOK
    <3>3. ASSUME UNCHANGED <<eventVars, mutexVars>> PROVE Allocated'
      BY <2>1, <3>3 DEF eventVars, eventTable, mutexVars
    <3> QED
      BY <2>2, <3>1, <3>2, <3>3 DEF OSMutexCreate
  <2>3. ASSUME NEW m \in ObjectId, OSMutexDelete(m)
        PROVE  /\ Allocated' /\ UNCHANGED <<currentTask, pend, held>>
    BY <2>1, <2>3 DEF OSMutexDelete, DeleteEvent, NewWaitList, callVars, MutexInv,
                      MutexTypes, EventInv, EventTypeOK, kernelVars
  <2>4. ASSUME NEW m \in ObjectId, OSMutexRelease(t, m)
        PROVE  /\ Allocated' /\ UNCHANGED <<currentTask, pend>>
               /\ held' = [held EXCEPT ![t] = @ \ {m}]
    BY <2>1, <2>4 DEF OSMutexRelease, Released, HandOver, FreeMutex, SelectWaiter,
                      mutexKernelFrame, eventVars, eventTable, callVars
  <2>5. ASSUME NEW m \in ObjectId, NEW w \in PendWait, OSMutexAcquire(t, m, w),
               OSEventState[m]
        PROVE  /\ Allocated' /\ UNCHANGED <<currentTask, pend>>
               /\ held' = [held EXCEPT ![t] = @ \cup {m}]
               /\ Priority'[t] \in OSReadyList' \cap OSBlockedList'
    <3>1. /\ TakeCeiling(t, m) /\ OSEventAllocated[m]
          /\ UNCHANGED <<mutexKernelFrame, eventVars, OSMaxPriority>>
      BY <2>5 DEF OSMutexAcquire
    <3>2. UNCHANGED <<currentTask, pend, OSBlockedList, OSEventAllocated>>
      BY <3>1 DEF mutexKernelFrame, eventVars, eventTable, callVars
    <3>3. held' = [held EXCEPT ![t] = @ \cup {m}]
      BY <3>1 DEF TakeCeiling, Acquired
    <3>4. OSEventOwner[m] = NoOwner
      BY <2>5, <3>1 DEF MutexInv, Owners
    <3>5. \A u \in Task : ~Holds(u, m)
      BY <3>4, HandleFacts DEF MutexInv, Owners
    <3>6. MoveTo(t, Raised(t, m)) /\ ReadyMoves(t, Raised(t, m))
      BY <1>1, <3>1, <3>5, TakeCeilingMoves
    <3>7. Priority'[t] = Raised(t, m)
      BY <3>6, MoveFacts DEF MutexInv
    <3>8. Raised(t, m) \in OSReadyList' \cap OSBlockedList
      BY <3>6 DEF MoveTo, ReadyMoves
    <3> QED
      BY <2>1, <3>1, <3>2, <3>3, <3>7, <3>8
  <2>6. ASSUME NEW m \in ObjectId, NEW w \in PendWait, OSMutexAcquire(t, m, w),
               ~OSEventState[m]
        PROVE  /\ Allocated' /\ UNCHANGED <<currentTask, held>>
               /\ slept
               /\ \A u \in Task \ {t} : pend'[u] = pend[u]
    <3>1. /\ WaitEvent(t, m, w) /\ UNCHANGED mutexVars
          /\ OSEventAllocated[m] /\ OSEventOwner[m] # t
      BY <2>6 DEF OSMutexAcquire
    <3>2. OSEventOwner[m] # NoOwner
      BY <2>6, <3>1 DEF MutexInv, Owners
    <3>3. slept
      BY <1>1, <3>1, <3>2, OwnerIsCaller
    <3>4. pend \in [Task -> ObjectId \cup {NoEvent}]
      BY DEF MutexInv, EventInv, EventTypeOK
    <3> QED
      BY <2>1, <3>1, <3>3, <3>4 DEF WaitEvent, Suspend, mutexVars
  <2>7. ASSUME KernelCall(t), UNCHANGED mutexVars
        PROVE  /\ Allocated' /\ UNCHANGED <<currentTask, pend, held>>
    BY <2>1, <2>7 DEF KernelCall, OSDelayTask, Suspend, OSBlockTask, OSUnBlockTask,
                      onlyBlockedList, eventVars, eventTable, callVars, mutexVars
  <2>8. pend[t] = NoEvent /\ held \in [Task -> SUBSET ObjectId]
    BY <1>1 DEF InUserCode, MutexInv, MutexTypes
  <2> HIDE DEF Allocated
  <2> QED
    BY <2>2, <2>3, <2>4, <2>5, <2>6, <2>7, <2>8 DEF TaskStep
<1>3. slept' = (slept \/ SleepsHolding(t))
  BY DEF TaskStep
<1>4. ASSUME ~slept', NEW u \in Task
      PROVE  /\ pend'[u] = NoEvent
             /\ held'[u] # {} => /\ currentTask' = u
                                 /\ Priority'[u] \in OSReadyList' \cap OSBlockedList'
  <2>1. ~slept /\ ~SleepsHolding(t)
    BY <1>3, <1>4
  <2>2. CASE u = t
    BY <1>1, <1>2, <2>1, <2>2 DEF SleepsHolding
  <2>3. CASE u # t
    <3>1. pend[u] = NoEvent /\ held[u] = {}
      BY <1>1, <2>1, <2>3 DEF Undisturbed
    <3> QED
      BY <1>2, <2>3, <3>1
  <2> QED
    BY <2>2, <2>3
<1> QED
  BY <1>2, <1>4 DEF Undisturbed

\* Interrupts end with a rescheduling, which finds the holder again.
LEMMA InterruptUndisturbed ==
  ASSUME HighCeilings, MutexInv, MutexInv', Undisturbed, KernelInterrupt,
         UNCHANGED <<mutexVars, slept>>
  PROVE  Undisturbed'
<1>1. /\ UNCHANGED <<OSEventAllocated, OSMaxPriority, pend, held, slept,
                     Priority, OSBlockedList>>
      /\ OSReadyList \subseteq OSReadyList' /\ Reschedule
  BY DEF KernelInterrupt, TickTimer, SwitchContext, eventVars, eventTable,
         callVars, mutexVars, priorityVars
<1>2. ASSUME ~slept, NEW t \in Task, held[t] # {}
      PROVE  currentTask' = t /\ Priority'[t] \in OSReadyList' \cap OSBlockedList'
  <2>1. /\ Priority'[t] \in OSReadyList' \cap OSBlockedList'
        /\ \A u \in Task \ {t} : held[u] = {}
    BY <1>1, <1>2 DEF Undisturbed
  <2>2. PrioritiesOwned' /\ t \in Thread
    BY ConstantFacts DEF MutexInv, EventInv
  <2>3. /\ currentTask' \in Thread
        /\ Priority'[t] <= Priority'[currentTask']
    BY <1>1, <2>1, <2>2, RescheduleIsRight
  <2>4. Priority[t] <= Priority[currentTask']
    BY <1>1, <2>3
  <2>5. ASSUME currentTask' # t PROVE FALSE
    <3>1. PICK u \in Thread \ {t} : u = currentTask'
      BY <2>3, <2>5
    <3>2. Priority[u] < Priority[t]
      BY <1>2, <2>1, <3>1, HolderIsAbove
    <3>3. Priority[u] \in Nat /\ Priority[t] \in Nat
      BY <2>2, <3>1, ConstantFacts DEF MutexInv, EventInv, PrioritiesOwned
    <3> QED
      BY <2>4, <3>1, <3>2, <3>3
  <2> QED
    BY <2>1, <2>5
<1> QED
  BY <1>1, <1>2 DEF Undisturbed

\* With every ceiling above the priorities of the tasks, a task finds no mutex
\* busy unless an owner gave the processor up by itself: immediate ceilings
\* exclude waiting, and so deadlock, although OSMutexRelease does not switch
\* context when it lowers the priority of its caller.
THEOREM CeilingsExcludeWaiting ==
  ASSUME Assumptions, HighCeilings
  PROVE  MutexSpec => []NeverWaits
<1>1. MutexInit => Undisturbed
  BY DEF MutexInit, EventInit, Undisturbed
<1>2. ASSUME MutexInv, MutexInv', Undisturbed, [MutexNext]_vars
      PROVE  Undisturbed'
  <2>1. ASSUME NEW t \in Task, TaskStep(t) PROVE Undisturbed'
    BY <1>2, <2>1, TaskStepUndisturbed
  <2>2. ASSUME NEW t \in Task, OSMutexAcquireResume(t), UNCHANGED slept
        PROVE  Undisturbed'
    <3>1. pend[t] # NoEvent
      BY <2>2 DEF OSMutexAcquireResume, AcquireReturnsTimeout, AcquireReturnsOK,
                  LeaveByTimeout, LeaveByPost, Resuming
    <3>2. slept'
      BY <1>2, <2>2, <3>1 DEF Undisturbed
    <3>3. UNCHANGED <<OSMaxPriority, OSEventAllocated>>
      BY <2>2 DEF OSMutexAcquireResume, AcquireReturnsTimeout, AcquireReturnsOK,
                  LeaveByTimeout, LeaveByPost, EndWait, mutexVars
    <3> QED
      BY <1>2, <3>2, <3>3 DEF Undisturbed
  <2>3. ASSUME KernelInterrupt, UNCHANGED <<mutexVars, slept>>
        PROVE  Undisturbed'
    BY <1>2, <2>3, InterruptUndisturbed
  <2>4. ASSUME UNCHANGED vars PROVE Undisturbed'
    BY <1>2, <2>4 DEF vars, kernelVars, eventVars, eventTable, callVars,
                      mutexVars, Undisturbed
  <2> QED
    BY <1>2, <2>1, <2>2, <2>3, <2>4 DEF MutexNext
<1>3. MutexInv /\ Undisturbed => NeverWaits
  <2> SUFFICES ASSUME MutexInv, Undisturbed, ~slept, NEW t \in Task,
                      NEW m \in ObjectId, InUserCode(t)
               PROVE  OSEventOwner[m] \in {t, NoOwner}
    BY DEF NeverWaits
  <2> QED
    BY OwnerIsCaller
<1> QED
  BY <1>1, <1>2, <1>3, MutexInvariance, PTL DEF MutexSpec
=============================================================================
