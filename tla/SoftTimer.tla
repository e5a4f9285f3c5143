----------------------------- MODULE SoftTimer ------------------------------
(***************************************************************************)
(* Soft timers (brtos/brtos/stimer.c).  Two binary heaps hold the running  *)
(* timers: "current" those that expire before the tick counter wraps,      *)
(* "future" those that expire after it.  A timer task sleeps until the     *)
(* first timeout of the current heap, calls the expired callbacks, and     *)
(* exchanges the heaps.                                                    *)
(*                                                                         *)
(* The timer task is a process with a program counter: ticks, and tasks of *)
(* higher priority, come in wherever its code is outside a critical        *)
(* section and reads what they change.  A heap is the sequence timers[1]   *)
(* .. timers[count] of an array that programs can overrun and with entries *)
(* that programs can confuse: where the code goes on with a null pointer   *)
(* or behind the array, the model records a fault and ends.                *)
(***************************************************************************)
EXTENDS Kernel, Sequences, SequencesExt

CONSTANTS
  TimerTask,          \* the task OSTimerInit installs
  BRTOS_MAX_TIMER,
  TimerWait,          \* time_wait arguments of OSTimerSet and OSTimerStart
  Repeat              \* what callbacks return, 0 included

ASSUME SoftTimerAssumption ==
  /\ TimerTask \in Task
  /\ BRTOS_MAX_TIMER \in Nat \ {0}
  /\ TimerWait \subseteq 0 .. MAX_TIMER
  /\ Repeat \subseteq 0 .. MAX_TIMER

TimerId == 1 .. BRTOS_MAX_TIMER
NoTimer == 0

TIMER_MAX_COUNTER == TICK_COUNT_OVERFLOW - 1

VARIABLES
  state, timeout,      \* of each control block in BRTOS_TIMER_VECTOR.mem
  func_cb,             \* "func_cb != NULL" of each control block
  current, future,     \* the heaps
  pc,                  \* where the timer task is
  p,                   \* its variable p, NoTimer for NULL
  next_time_to_wake,
  crossed,             \* "timeout > TIMER_MAX_COUNTER", timeout its variable
  fault,               \* the code read through NULL, wrote behind a heap, or
                       \* left a critical section it had not entered
  due,                 \* history: ticks until the timer should fire, -1: none
  restarted,           \* history: a timer was started while it was linked
  misled,              \* history: a stop left the timer task a wake-up time
                       \* that is not the first timeout of the current heap
  unreduced            \* history: the timers whose timeout lies beyond the
                       \* wrap and was not reduced by TICK_COUNT_OVERFLOW

heapVars  == <<state, timeout, func_cb, current, future>>
localVars == <<pc, p, next_time_to_wake, crossed>>
history   == <<due, restarted, misled, unreduced>>
vars      == <<kernelVars, heapVars, localVars, history, fault>>

Client == Task \ {TimerTask}

-----------------------------------------------------------------------------
(* Binary heaps of timers, ordered by key *)

Exchanged(timers, i, j) ==
  [timers EXCEPT ![i] = timers[j], ![j] = timers[i]]

\* The element at i rises while its parent has a greater key.
Subir(timers, key, i) ==
  LET at[n \in 0 .. Len(timers)] ==
        IF n = 0 THEN [heap |-> timers, pos |-> i]
        ELSE LET s      == at[n - 1]
                 parent == s.pos \div 2
             IN  IF s.pos > 1 /\ key[s.heap[parent]] > key[s.heap[s.pos]]
                 THEN [heap |-> Exchanged(s.heap, parent, s.pos),
                       pos  |-> parent]
                 ELSE s
  IN  at[Len(timers)].heap

\* Mutant: the right son is never looked at.
Descer_LeftOnly(timers, key) ==
  LET at[n \in 0 .. Len(timers)] ==
        IF n = 0 THEN [heap |-> timers, pos |-> 1]
        ELSE LET s   == at[n - 1]
                 son == 2 * s.pos
             IN  IF son <= Len(timers) /\ key[s.heap[son]] < key[s.heap[s.pos]]
                 THEN [heap |-> Exchanged(s.heap, son, s.pos), pos |-> son]
                 ELSE s
  IN  at[Len(timers)].heap

\* The element at the root sinks below the smaller of its sons.
Descer(timers, key) ==
  LET at[n \in 0 .. Len(timers)] ==
        IF n = 0 THEN [heap |-> timers, pos |-> 1]
        ELSE LET s     == at[n - 1]
                 left_ == 2 * s.pos
                 right == left_ + 1
                 son   == IF /\ right <= Len(timers)
                             /\ key[s.heap[right]] < key[s.heap[left_]]
                          THEN right ELSE left_
             IN  IF son <= Len(timers) /\ key[s.heap[son]] < key[s.heap[s.pos]]
                 THEN [heap |-> Exchanged(s.heap, son, s.pos), pos |-> son]
                 ELSE s
  IN  at[Len(timers)].heap

Inserted(timers, key, i) == Subir(Append(timers, i), key, Len(timers) + 1)

\* The array has BRTOS_MAX_TIMER elements, the first of which is not used.
HasRoom(timers) == Len(timers) < BRTOS_MAX_TIMER - 1

\* The last element takes the place of the root.
WithoutRoot(timers, key) ==
  Descer(Front([timers EXCEPT ![1] = Last(timers)]), key)

Root(timers) == IF timers = <<>> THEN NoTimer ELSE timers[1]

-----------------------------------------------------------------------------
(* The services, called by tasks *)

timerTaskFrame == <<priorityVars, OSReadyList, OSBlockedList, delayList,
                    OSTickCounter, currentTask, changeContext, left, localVars,
                    fault>>

\* What happens next is not defined.
Fault ==
  /\ fault' = TRUE
  /\ UNCHANGED <<kernelVars, heapVars, localVars, history>>

Linked(i) == i \in ToSet(current) \cup ToSet(future)

BeyondWrap(w) == OSTickCounter + w >= TICK_COUNT_OVERFLOW

\* Timer i shall fire in w ticks; the timer task, once it has started, may
\* have to wake earlier.
Arm(i, w) ==
  LET t == OSTickCounter + w
  IN  /\ HasRoom(IF BeyondWrap(w) THEN future ELSE current)
      /\ IF BeyondWrap(w)
         THEN /\ timeout' = [timeout EXCEPT ![i] = t - TICK_COUNT_OVERFLOW]
              /\ future' = Inserted(future, timeout', i)
              /\ UNCHANGED <<current, TimeToWait>>
         ELSE /\ timeout' = [timeout EXCEPT ![i] = t]
              /\ current' = Inserted(current, timeout', i)
              /\ TimeToWait' = IF pc # "start" /\ timeout'[Root(current')] = t
                               THEN [TimeToWait EXCEPT ![TimerTask] = t]
                               ELSE TimeToWait
              /\ UNCHANGED future
      /\ state' = [state EXCEPT ![i] = "RUNNING"]
      /\ due' = [due EXCEPT ![i] = w]
      /\ unreduced' = unreduced \ {i}
      /\ UNCHANGED <<misled, timerTaskFrame>>

ArmOverruns(w) ==
  /\ ~HasRoom(IF BeyondWrap(w) THEN future ELSE current)
  /\ Fault

\* The search for a control block gives up at the first one that was deleted.
FreeTimer(i) ==
  /\ state[i] = "NOT_USED"
  /\ \A j \in TimerId : j < i => state[j] \notin {"NOT_USED", "NOT_ALLOCATED"}

\* A new timer, running unless time_wait is 0.
OSTimerSet(i, w) ==
  /\ FreeTimer(i)
  /\ \/ /\ w > 0
        /\ Arm(i, w)
        /\ func_cb' = [func_cb EXCEPT ![i] = TRUE]
        /\ UNCHANGED restarted
     \/ w > 0 /\ ArmOverruns(w)
     \/ /\ w = 0
        /\ state' = [state EXCEPT ![i] = "STOPPED"]
        /\ func_cb' = [func_cb EXCEPT ![i] = TRUE]
        /\ UNCHANGED <<timeout, current, future, history, TimeToWait,
                       timerTaskFrame>>

\* Any timer is armed, a running one and a deleted one as well: the first is
\* linked a second time, the second has no callback.
OSTimerStart(i, time_wait) ==
  LET w == IF time_wait > TIMER_MAX_COUNTER THEN TIMER_MAX_COUNTER
                                            ELSE time_wait
  IN  /\ time_wait # 0
      /\ \/ /\ Arm(i, w)
            /\ restarted' = (restarted \/ Linked(i))
            /\ UNCHANGED func_cb
         \/ ArmOverruns(w)

\* Mutant: one tick is missing beyond the wrap.
OSTimerGet_OffByOne(i) ==
  IF timeout[i] >= OSTickCounter
  THEN timeout[i] - OSTickCounter
  ELSE TIMER_MAX_COUNTER - OSTickCounter + timeout[i]

\* The remaining time of a running timer.
OSTimerGet(i) ==
  IF timeout[i] >= OSTickCounter
  THEN timeout[i] - OSTickCounter
  ELSE TIMER_MAX_COUNTER - OSTickCounter + timeout[i] + 1

\* The search finds the first entry of i.  With timeout 0 it is to rise to the
\* root, and the root is removed: another timer with timeout 0 is in its way.
Stopped(timers, key, i) ==
  LET pos == CHOOSE n \in DOMAIN timers :
               timers[n] = i /\ \A m \in 1 .. n - 1 : timers[m] # i
  IN  WithoutRoot(Subir(timers, key, pos), key)

\* The timer is searched in the heap its timeout points to; the code goes on
\* when it is not there.  The wake-up time of the timer task stays.
OSTimerStop(i, del) ==
  LET inCurrent == timeout[i] >= OSTickCounter
  IN  \/ /\ i \notin ToSet(IF inCurrent THEN current ELSE future)
         /\ Fault
      \/ /\ i \in ToSet(IF inCurrent THEN current ELSE future)
         /\ timeout' = [timeout EXCEPT ![i] = 0]
         /\ IF inCurrent
            THEN current' = Stopped(current, timeout', i) /\ UNCHANGED future
            ELSE future' = Stopped(future, timeout', i) /\ UNCHANGED current
         /\ state' = [state EXCEPT ![i] = IF del THEN "NOT_ALLOCATED"
                                                 ELSE "STOPPED"]
         /\ func_cb' = [func_cb EXCEPT ![i] = func_cb[i] /\ ~del]
         /\ due' = [due EXCEPT ![i] = -1]
         /\ misled' = \/ misled
                      \/ /\ current' # <<>>
                         /\ timeout'[Root(current')] # TimeToWait[TimerTask]
         /\ unreduced' = unreduced \ {i}
         /\ UNCHANGED <<restarted, TimeToWait, timerTaskFrame>>

-----------------------------------------------------------------------------
(* The timer task *)

\* The heaps change places.
SwitchLists ==
  /\ current' = future
  /\ future' = current

WakeTime(i) == IF i = NoTimer THEN TIMER_MAX_COUNTER ELSE timeout'[i]

\* Before its loop.
TimerTaskStarts ==
  /\ pc = "start"
  /\ UNCHANGED <<kernelVars, heapVars, p, crossed, history, fault>>
  /\ next_time_to_wake' = WakeTime(Root(current))
  /\ pc' = "store"

\* BRTOS_TimerTaskSleep writes TimeToWait before its critical section ...
\* (p and next_time_to_wake are not read again before they are assigned.)
TimerTaskStoresWakeTime ==
  /\ pc = "store"
  /\ TimeToWait' = [TimeToWait EXCEPT ![TimerTask] = next_time_to_wake]
  /\ pc' = "link"
  /\ p' = NoTimer
  /\ next_time_to_wake' = 0
  /\ UNCHANGED <<priorityVars, OSReadyList, OSBlockedList, delayList,
                 OSTickCounter, currentTask, changeContext, left, heapVars,
                 crossed, history, fault>>

\* ... and in it links the task and gives the processor up.
TimerTaskSleeps ==
  /\ pc = "link"
  /\ delayList' = delayList \cup {TimerTask}
  /\ OSReadyList' = OSReadyList \ {Priority[TimerTask]}
  /\ changeContext' = TRUE
  /\ pc' = "wake"
  /\ UNCHANGED <<priorityVars, TimeToWait, OSBlockedList, OSTickCounter,
                 currentTask, left, heapVars, p, next_time_to_wake, crossed,
                 history, fault>>

\* Mutant: >= instead of >.
TimerTaskWakes_OffByOne ==
  LET first == Root(current)
  IN  /\ pc = "wake"
      /\ p' = first
      /\ pc' = IF first # NoTimer /\ timeout[first] >= OSTickCounter
               THEN "drain" ELSE "serve"
      /\ UNCHANGED <<kernelVars, heapVars, next_time_to_wake, crossed, history,
                     fault>>

\* A first timeout that is still to come is taken for one of the next period.
TimerTaskWakes ==
  LET first == Root(current)
  IN  /\ pc = "wake"
      /\ p' = first
      /\ pc' = IF first # NoTimer /\ timeout[first] > OSTickCounter
               THEN "drain" ELSE "serve"
      /\ UNCHANGED <<kernelVars, heapVars, next_time_to_wake, crossed, history,
                     fault>>

\* The critical section of a callback is entered only if there is one, and
\* left in any case.
CallbackFound(back) ==
  \/ /\ func_cb[p]
     /\ pc' = back
     /\ UNCHANGED <<kernelVars, heapVars, p, next_time_to_wake, crossed, history,
                    fault>>
  \/ ~func_cb[p] /\ Fault

\* The callback returned 0: the timer is gone.
Finish(i) ==
  /\ timeout' = [timeout EXCEPT ![i] = 0]
  /\ state' = [state EXCEPT ![i] = "NOT_ALLOCATED"]
  /\ func_cb' = [func_cb EXCEPT ![i] = FALSE]
  /\ current' = WithoutRoot(current, timeout')
  /\ due' = [due EXCEPT ![i] = -1]
  /\ unreduced' = unreduced \ {i}
  /\ UNCHANGED <<future, crossed>>

\* The code inserts into a full future heap, or removes from an empty current
\* one.
CallbackFaults(toFuture) ==
  /\ \/ current = <<>>
     \/ toFuture /\ ~HasRoom(future)
  /\ Fault

CallbackReturns(toFuture) ==
  /\ current # <<>>
  /\ toFuture => HasRoom(future)
  /\ UNCHANGED <<kernelVars, next_time_to_wake, restarted, misled, fault>>

DrainFindsCallback ==
  /\ pc = "drain"
  /\ p # NoTimer
  /\ CallbackFound("drainCallback")

\* Every timer of the current heap fires; one that repeats goes to the future
\* heap with a timeout that is not reduced, only cut to 16 bits.
DrainCallback(r) ==
  /\ pc = "drainCallback"
  /\ \/ CallbackFaults(r > 0)
     \/ /\ CallbackReturns(r > 0)
        /\ pc' = "drain"
        /\ \/ r = 0 /\ Finish(p)
           \/ /\ r > 0
              /\ timeout' = [timeout EXCEPT ![p] =
                               (OSTickCounter + r) % (MAX_TIMER + 1)]
              /\ future' = Inserted(future, timeout', p)
              /\ current' = WithoutRoot(current, timeout')
              /\ crossed' = (OSTickCounter + r > TIMER_MAX_COUNTER)
              /\ due' = [due EXCEPT ![p] = r]
              /\ unreduced' = IF BeyondWrap(r) THEN unreduced \cup {p}
                                               ELSE unreduced \ {p}
              /\ UNCHANGED <<state, func_cb>>
        /\ p' = Root(current')

DrainEnds ==
  /\ pc = "drain"
  /\ p = NoTimer
  /\ SwitchLists
  /\ p' = Root(current')
  /\ pc' = "serve"
  /\ UNCHANGED <<kernelVars, state, timeout, func_cb, next_time_to_wake,
                 crossed, history, fault>>

Expired(i) == i # NoTimer /\ timeout[i] <= OSTickCounter

TimerTaskFindsExpired ==
  /\ pc = "serve"
  /\ Expired(p)
  /\ CallbackFound("callback")

\* Mutant: a timer of the next period also stays in the current heap.
RepeatLater_StaysLinked(i, t) ==
  /\ timeout' = [timeout EXCEPT ![i] = t - TICK_COUNT_OVERFLOW]
  /\ future' = Inserted(future, timeout', i)
  /\ current' = Descer(current, timeout')

\* The next timeout lies beyond the wrap of the tick counter.
RepeatLater(i, t) ==
  /\ timeout' = [timeout EXCEPT ![i] = t - TICK_COUNT_OVERFLOW]
  /\ future' = Inserted(future, timeout', i)
  /\ current' = WithoutRoot(current, timeout')

RepeatSooner(i, t) ==
  /\ timeout' = [timeout EXCEPT ![i] = t]
  /\ current' = Descer(current, timeout')
  /\ UNCHANGED future

Callback(r) ==
  LET t == OSTickCounter + r
  IN  /\ pc = "callback"
      /\ \/ CallbackFaults(r > 0 /\ BeyondWrap(r))
         \/ /\ CallbackReturns(r > 0 /\ BeyondWrap(r))
            /\ pc' = "serve"
            /\ \/ r = 0 /\ Finish(p)
               \/ /\ r > 0
                  /\ IF BeyondWrap(r) THEN RepeatLater(p, t)
                                      ELSE RepeatSooner(p, t)
                  /\ crossed' = (t > TIMER_MAX_COUNTER)
                  /\ due' = [due EXCEPT ![p] = r]
                  /\ unreduced' = unreduced \ {p}
                  /\ UNCHANGED <<state, func_cb>>
            /\ p' = Root(current')

\* Nothing more has expired.  The heaps are exchanged when the current one is
\* empty and the last repeated timer went beyond the wrap.
TimerTaskServedAll ==
  /\ pc = "serve"
  /\ ~Expired(p)
  /\ IF crossed /\ p = NoTimer
     THEN SwitchLists /\ p' = Root(current')
     ELSE UNCHANGED <<current, future, p>>
  /\ UNCHANGED <<kernelVars, state, timeout, func_cb, crossed, history, fault>>
  /\ next_time_to_wake' = WakeTime(p')
  /\ pc' = "store"

BRTOSTimerTask ==
  /\ Running(TimerTask) /\ ~fault
  /\ \/ TimerTaskStarts \/ TimerTaskStoresWakeTime \/ TimerTaskSleeps
     \/ TimerTaskWakes \/ DrainFindsCallback \/ DrainEnds
     \/ TimerTaskFindsExpired \/ TimerTaskServedAll
     \/ \E r \in Repeat : DrainCallback(r) \/ Callback(r)

-----------------------------------------------------------------------------
\* BRTOS_TimerTaskInit and the installation of the task.
TimerInit ==
  /\ Init
  /\ state = [i \in TimerId |-> "NOT_USED"]
  /\ timeout = [i \in TimerId |-> 0]
  /\ func_cb = [i \in TimerId |-> FALSE]
  /\ current = <<>> /\ future = <<>>
  /\ pc = "start"
  /\ p = NoTimer
  /\ next_time_to_wake = 0
  /\ crossed = FALSE
  /\ fault = FALSE
  /\ due = [i \in TimerId |-> -1]
  /\ restarted = FALSE /\ misled = FALSE /\ unreduced = {}

\* A task has a pointer only to timers that OSTimerSet gave it.  What else a
\* task does neither reads nor writes the timers, and with it or without it a
\* call comes at any tick.
ClientStep(t) ==
  /\ Running(t) /\ ~fault
  /\ \/ \E i \in TimerId, w \in TimerWait : OSTimerSet(i, w)
     \/ \E i \in TimerId :
          /\ state[i] # "NOT_USED"
          /\ \/ \E w \in TimerWait : OSTimerStart(i, w)
             \/ \E del \in BOOLEAN : OSTimerStop(i, del)

Tick ==
  /\ TickTimer /\ ~fault
  /\ due' = [i \in TimerId |-> IF due[i] >= 0 THEN due[i] - 1 ELSE -1]
  /\ UNCHANGED <<heapVars, localVars, restarted, misled, unreduced, fault>>

Switch ==
  /\ SwitchContext /\ ~fault
  /\ UNCHANGED <<heapVars, localVars, history, fault>>

TimerNext ==
  \/ \E t \in Client : ClientStep(t)
  \/ BRTOSTimerTask
  \/ Tick
  \/ Switch

TimerSpec == TimerInit /\ [][TimerNext]_vars

-----------------------------------------------------------------------------
(* Properties *)

SoftTimerTypeOK ==
  /\ TypeOK
  /\ state \in [TimerId -> {"NOT_ALLOCATED", "NOT_USED", "STOPPED", "RUNNING"}]
  /\ timeout \in [TimerId -> 0 .. MAX_TIMER]
  /\ {current, future} \subseteq Seq(TimerId)
  /\ func_cb \in [TimerId -> BOOLEAN]
  /\ pc \in {"start", "store", "link", "wake", "drain", "drainCallback",
             "serve", "callback"}
  /\ p \in TimerId \cup {NoTimer}
  /\ next_time_to_wake \in 0 .. MAX_TIMER
  /\ {crossed, fault, restarted, misled} \subseteq BOOLEAN
  /\ due \in [TimerId -> Nat \cup {-1}]
  /\ unreduced \subseteq TimerId

IsHeap(timers) ==
  \A n \in 2 .. Len(timers) : timeout[timers[n \div 2]] <= timeout[timers[n]]

\* Both heaps stay ordered through every insertion, removal from the middle,
\* change of the root's key and exchange, so that the first element is the
\* first to expire.  Only the start of a timer that is still linked, which
\* changes a key in the middle of a heap, can break the order.
HeapOrdered == ~restarted => IsHeap(current) /\ IsHeap(future)

Both == current \o future

\* "public function to start or restart a soft timer": a timer is linked at
\* most once, in one of the two heaps, whatever is called.
LinkedOnce == \A m, n \in DOMAIN Both : Both[m] = Both[n] => m = n

\* Unless a linked timer is started, no timer is linked twice, and no stop,
\* expiry or exchange makes a running timer lose its link, except a timer with
\* timeout 0, which OSTimerStop may remove in place of the one it is given.
RunningTimersLinked ==
  ~restarted =>
    /\ LinkedOnce
    /\ \A i \in TimerId : state[i] = "RUNNING" => Linked(i) \/ timeout[i] = 0

\* OSTimerGet tells the true remaining time of every running timer that is not
\* late: across the wrap, after restarts and lost wake-ups, and while the timer
\* task works, in whichever heap the timer is.
TimeLeftExact ==
  \A i \in TimerId \ unreduced :
    state[i] = "RUNNING" /\ due[i] >= 0 => OSTimerGet(i) = due[i]

Fires == p # NoTimer /\ pc \in {"drain", "drainCallback", "callback"}

\* "TEST_ASSERT(diff_time >= 64000)": a callback is never called before the
\* time_wait of its timer has passed.
NeverEarly == ~restarted /\ Fires => due[p] <= 0

\* However late the timer task gets the processor, and however many wraps of
\* the tick counter it sleeps through, it calls a callback before its time only
\* after a stop moved the first timeout, after the restart of a linked timer,
\* or for a timer whose own timeout was not reduced at the wrap.
EarlyOnlyAfterStop ==
  ~restarted /\ ~misled /\ Fires /\ p \notin unreduced => due[p] <= 0
=============================================================================
