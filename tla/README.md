# TLA+ models of BRTOS and its Win32 simulator

BRTOS is a small preemptive real-time kernel (`src/brtos/brtos`). This
repository runs it inside a Windows process (`src/platforms/eclipse_mingw_win32`):
each task is a Windows thread, each interrupt a bit that an interrupt thread
serves, and "interrupts disabled" is holding a Windows mutex. The modules here
model the kernel, its four synchronisation services, the soft timers and that
port; TLC checks them on small instances, and TLAPS proves theorems about the
kernel, its delay list, the four services, the soft timers and the port for all
instances.

## Inventory

| Component | State | Operations | Module |
|---|---|---|---|
| Scheduler, delays, ticks, task blocking (`BRTOS.c`, `BRTOS.h`) | `PriorityVector`, `ContextTask[].Priority/.TimeToWait`, `OSReadyList`, `OSBlockedList`, `OSTickCounter`, `currentTask` | `OSSchedule`, `OSDelayTask`, `OSIncCounter`, `OS_TICK_HANDLER`, six block/unblock services, context switch | `Kernel` |
| Priority masks (`BRTOS.c`) | one bit per priority | insert, remove, `SAScheduler` | `ReadyMask` |
| Delay list (`BRTOS.h`) | `Head`, `Tail`, `Next`, `Previous` | include, remove, walk of the tick handler | `DelayList`, abstract `DelaySet` |
| Wait lists (repeated in four files) | `OSEventAllocated`, `OSEventWait`, `OSEventWaitList` | allocate, wait, leave, select a waiter | `Event` |
| Semaphores (`semaphore.c`) | `OSEventCount`, `Binary` | create, binary create, delete, pend, post | `Semaphore` |
| Mutexes (`mutex.c`) | `OSEventState`, `OSEventOwner`, `OSMaxPriority`, `OSOriginalPriority` | create, delete, acquire, release | `Mutex` |
| Mailboxes (`mbox.c`) | `OSEventState`, `OSEventPointer` | create, delete, pend, post | `Mailbox` |
| Static queues (`queue.c`) | `QUEUE_STACK`, `iQueueAddress`, ring pointers, `OSQEntries` | create, read, write, clean, pend, post | `Queue`, abstract `Fifo` |
| Dynamic queues (`queue.c`) | the same fields and `OSQTSize`, `OSQLength`, in allocated memory | create, delete, clean, pend, post | `Queue`, abstract `Fifo` |
| Soft timers (`stimer.c`) | `BRTOS_TIMER_VECTOR`: control blocks and two heaps; the timer task's variables | set, start, get, stop, the timer task and its callbacks | `SoftTimer` |
| Win32 port (`hal/MingW/HAL.c`) | mutex, event, `PendingInterrupts`, `iNesting`, suspended threads | enter/exit critical, raise, interrupt loop, timer and UART threads | `Hal` |
| Run-time task installation, device layer, drivers, calendar, text output, allocator, vendored libraries | see *Not modelled* | | |

How they interact. A task calls a service; the service runs in a critical
section, changes the ready list and may request a context switch. Interrupts
(the tick, the UART, the software interrupt of `ChangeContext`) run between
critical sections, may call the `...Post` services and end by rescheduling. A
call that must wait spans a context switch: it enters a wait list and, when it
has a timeout, the delay list; later a post *or* the tick handler makes its task
ready again, and only when the task really runs does it find out which of the
two it was, and take itself out of the list the other one left it in. Most of
what is hard in this code lies in that window.

What is hard, and which properties are about it (`hazards` in `PROJECT.json`
gives the lines):

* a timeout and a post of the same waiter, in either order, before it runs
  (`ResultMatchesPost`, `WaitListExact`, `MutualExclusion`, `NoOrphanedMutex`);
* a wake-up that nobody will ever send again (`NoWakeupLost`, `NoTaskLost`,
  `TimedPendEnds`, `DelayEnds`);
* a task linked twice into the delay list, or unlinked when it is not there, and
  the walk of the tick handler over nodes it has just unlinked
  (`DelayListContract`, `DoublyLinked`, `WalkMissesNobody`, `ImplementsSet`);
* the wrap of the tick counter (`TimeoutsAreExact`);
* changing priorities: the ready bit, the priority and the entry in
  `PriorityVector` have to move together through nested ceilings
  (`PrioritiesResolve`, `CeilingRespected`, `NeverWaits`);
* data taken by somebody else between the post and the resumption of the reader
  (`TopReaderHasMail`, `NoMailStranded`, `EntriesWithinSize`);
* rings that share one array, wrap lazily, are freed and allocated again
  (`ImplementsFifo`);
* two heaps of timers that the timer task empties and exchanges while ticks and
  other tasks start, restart and stop timers (`RunningTimersLinked`,
  `HeapOrdered`, `LinkedOnce`), and a wake-up time that says whether the tick
  counter wrapped (`TimeLeftExact`, `EarlyOnlyAfterStop`, `NeverEarly`);
* the simulated interrupts: sections that must not be interrupted, requests
  that must not be lost or delayed, a nesting counter read outside the lock
  (`CriticalIsAtomic`, `NoInterruptLost`, `SwitchIsImmediate`,
  `NoFalseInterruptContext`, `NoTickSwallowed`, `InterruptsServed`).

## Modules and the code

**Kernel.** The masks are sets of priorities (a member of `OSBlockedList` is
*not* blocked, as in the code) and the delay list is the set of its tasks. One
critical section is one step, and so is one pass of an interrupt: `TickTimer` is
`OSIncCounter`, the tick handler and the rescheduling at the end of the
interrupt. `changeContext` is a pending request for a switch; while it is set
the task does not run and `SwitchContext` or any other interrupt takes it. The
constant `CriticalNests` distinguishes the ports: the services request a switch
with `if (!iNesting) ChangeContext();` *inside* their critical section, and the
Win32 port's `EnterCritical` increments `iNesting`, the microcontroller ports'
do not. `left` is a history variable: the ticks that still have to pass before
a task's deadline, counted without any wrap. Tasks call services in any order,
with any arguments from the constant sets; Idle calls none.

**ReadyMask** has the masks as numbers and `SAScheduler` as the code's decision
tree: `Threshold` lists its 31 constants as they stand in the code, `Upper` is one
comparison, which halves the interval, and `HighestBit` the three to five levels
of them. `MCKernel` extends it, so the run
of the kernel also evaluates `FindsHighest`: the bit search agrees with the
maximum of the set for every mask.

**DelayList** has the pointer operations of the two macros, in the four cases
of the code, and the walk of `OS_TICK_HANDLER` one node per step. A removed
node keeps its links, and the walk follows them. It implements `DelaySet`, the
set that `Kernel` uses, provided tasks link only when unlinked and unlink only
when linked; `DelayListContract` checks that the services obey this.

**Event** extends `Kernel` with what the four services share. A call that waits
is two actions, `WaitEvent` up to the switch and `LeaveByPost` or
`LeaveByTimeout` from there; `pend` and `timed` are the program counter and the
argument of that call, and `given` records that a post selected the task.

**Semaphore, Mutex, Mailbox, Queue** extend `Event` with the state of their
objects. Error returns that change nothing are not steps: the guards of the
actions are the negated conditions of the early returns.

`Mutex` has three history variables: `held`, the mutexes each task has acquired
and not released; `under`, for each mutex those its owner held when it took it;
`slept`, whether an owner ever gave the processor up by itself, which `NeverWaits`
excludes.

`Queue` covers the static and the dynamic queues, whose code repeats itself
with `OSQTSize` bytes per element; a static queue has elements of one byte. It
keeps addresses as byte offsets, first those of `QUEUE_STACK` and behind them
those of the allocator, and 16-bit widths for sizes and counters. The allocator
is external: it returns any range that no other queue uses. `dynamic` says which
objects are dynamic queues; it is chosen in the initial state. `Fifo` is the
abstract specification, bounded FIFO buffers that can be created, emptied and
deleted; the refinement mapping reads the elements from `OSQOut` on, each after
going back by `OSQSize` when it would lie behind `OSQEnd`.

**SoftTimer** extends `Kernel` with the two heaps and a timer task that has a
program counter, because it works outside critical sections: it computes its
wake-up time and stores it later, it keeps `p` and the list over the callback,
and ticks (and tasks of higher priority) come between. Reads that nothing can
change in between are merged. `OSTimerStart` and `OSTimerStop` take any timer
`OSTimerSet` gave out, stopped, running or deleted, as the code does: a running
one is linked a second time, and a stop may remove another timer that has
timeout 0. Where the code goes on with a null pointer or behind an array (a stop
whose search fails, an insertion into a full heap, a removal from an empty one,
and the drain of a timer without callback, which leaves a critical section it has
not entered) `fault` becomes true and the behaviour ends; such a step changes
nothing else, so no invariant excuses what led to it. Four history variables:
`due`, the time each timer has left, counted without a wrap; `restarted`, a
linked timer was started; `misled`, a stop left the timer task a wake-up time
that is not the first timeout; `unreduced`, the timers whose timeout lies beyond
the wrap and was not reduced (`stimer.c:207`). In the runs the timer task has the
highest priority, as in the application.

**Hal** has one program counter per Windows thread. Windows itself (mutex,
auto-reset event, thread priorities on one core) is modelled from how the port
sets it up: the interrupt thread preempts the helper threads, and these preempt
the task threads. It discharges the assumption behind all other modules:
critical sections of tasks and passes of the interrupt thread exclude each
other, and a switch requested inside a section happens before the task does
anything else.

The `MC...` modules only give functions as values to constants.

## Runs

| Run | Instance | Shows |
|---|---|---|
| `kernel` | 3 tasks, priorities 1, 3, 4 of 0..4, counter 0..3, delays 1, 3, 4; all masks of 16 bits | no task is lost, timeouts are exact across the wrap and end, the highest runnable priority runs, the bit search is the maximum |
| `semaphore` | 3 tasks, one semaphore, Win32 nesting | posts from tasks and interrupts race timeouts; results, wait list and counter stay consistent, every timed pend ends, each tick restores priority order |
| `mutex` | 3 tasks, 2 mutexes with ceilings 4 and 5, timeouts, owners that delay or are blocked | mutual exclusion through hand-overs and timeouts, no orphaned mutex, consistent priorities; until an owner sleeps nobody waits, and so nobody deadlocks |
| `mutex_order` | `LifoRelease = FALSE`, violation | see *Findings* |
| `mailbox` | 3 tasks, two of them readers, the lower of which may be blocked | the highest reader that a post selected finds the message unread, and none is left beside a sleeping reader |
| `queue` | 2 tasks, a static queue of 2 bytes and a dynamic one of 2 elements of 2 bytes, or two dynamic ones in memory for one; one reader | the rings are bounded FIFOs, separate from each other, also when memory is used again |
| `queue_readers` | two readers, violation | see *Findings* |
| `delay_list` | 4 tasks | the linked list implements the set, the walk misses nobody |
| `hal` | 2 task threads and the three port threads | atomic sections, no interrupt lost or merged, immediate switches |
| `soft_timer` | the timer task and one client, heaps for 3 timers, counter 0..2, times 0, 1, 2, repetitions 0, 2 (see below) | until a linked timer is started heaps stay heaps and no running timer is lost or linked twice; `OSTimerGet` is exact; only a stop, such a start or an unreduced timeout makes a callback early |
| `soft_timer_early` | 2 timers, counter 0..3, times and repetitions 0, 1, 3, violation | see *Findings* |
| `soft_timer_restart` | the same, violation | see *Findings* |

Bounds and why they suffice. Three tasks give a running one, one that posts or
preempts and one more waiter, so the choice of the highest waiter is a real one;
two are enough for `queue`, whose subject is the memory, and for `soft_timer`,
whose subject is one client against the timer task. The tick counter wraps after
two to four ticks (`TICK_COUNT_OVERFLOW`), so deadlines fall before, on and
after the wrap, and the largest delay of `kernel` equals a whole period.
`MAX_EVENT` is 1 or 2; a full table of control blocks is reached in every
service run. `SEM_COUNT_MAX` (255 in the code) is 2, so that the limit is
reached. `QUEUE_HEAP_SIZE` and `ALLOC_BYTES` are small enough for the array and
the allocator's memory to be exhausted, and the queues are filled and wrap.
`delay_list` has four tasks because removal distinguishes first, last, only and
inner nodes, and two adjacent inner nodes may expire together. Three timers are
the fewest with which a heap has a root and two sons. The masks are exhaustive.

`soft_timer` needs a state constraint, because restarts link a timer without
end: `MCBound` explores every program of three timers as long as no stop misled
the timer task and no linked or deleted timer was started; after that, of two
timers, with at most three links between them or with one of them linked again
and again. The overflow of a heap is reached in both parts. The theorems about
`SoftTimer` have none of these bounds.

Other constants name usage assumptions the code leaves to its callers:

* `DeleteWithWaiters = FALSE`: no object is deleted while tasks wait for it (or
  own it). The code does not test this; with `TRUE` the waiters may sleep for
  ever, and a dynamic queue's memory is freed under its reader.
* `LifoRelease = TRUE`: nested mutexes are released in reverse order. `FALSE` is
  the subject of `mutex_order`.
* `Readers`: the tasks that pend on mailboxes or read queues. Two in `mailbox`; one
  in `queue`, because the rings lose count with more, which is the subject of
  `queue_readers`.
* `BlockTargets`: the tasks that `OSBlockTask` and `OSUnBlockTask` are applied
  to in the service runs (`kernel` uses all block services on all threads).
* `TimeWait`: delays of at most `TICK_COUNT_OVERFLOW` ticks; a longer one is
  never reached by the counter.

Fairness. `FairSpec` of `Kernel` and `SemFairSpec` assume weak fairness of the
tick (the timer thread sleeps, raises, and repeats) and of the pending context
switch (the interrupt thread has the highest thread priority). Nothing is
assumed of the tasks: they may stop calling services. In `Hal` critical
sections end, handlers return, and the interrupt thread takes its steps; a
handler that keeps using critical sections of its own finally returns, which is
the one strong fairness assumption. The timer and UART threads are not assumed
to raise anything again.

Every property has at least one mutant of the model, an operator next to the
one it replaces and marked *Mutant*, that makes TLC report the property
violated; `PROJECT.json` lists them.

## Findings

1. `mutex_order`: two nested mutexes released in acquisition order leave the
   task ready at a ceiling whose `PriorityVector` entry is `MUTEX_PRIO`, and
   `OSSchedule` returns 254 (`mutex.c:488`). `README.txt:37` advertises several
   mutexes in one task.
2. `queue_readers`: with two readers, a posted reader whose byte was taken
   decrements `OSQEntries` from 0 to 65535 (`queue.c:508`).
3. `soft_timer_early`: `OSTimerStop` leaves the timer task a wake-up time that
   belongs to the removed timer. The task then wakes before the next timeout,
   takes that for the sign that the counter wrapped, and calls every callback at
   once (`stimer.c:194`). `tests/test_stimer.c:73` asserts that a callback does
   not come early.
4. `soft_timer_restart`: `stimer.c:482` documents `OSTimerStart` as "start or
   restart", but it links a running timer a second time, in the same heap or in
   the other one (`stimer.c:519`), and changes its key in the middle of a heap.

Behaviours of the code that the models contain and no document denies:

* On the Win32 port a service called by a task requests no context switch,
  because `iNesting` is 1 inside the critical section (`HAL.c:533`). A task that a
  post, an unblock or a release makes ready waits for the next interrupt;
  `TickPreempts`, checked and proved for every port, bounds the wait by a tick,
  and `HighestPriorityRuns` holds only where `CriticalNests` is `FALSE`.
* With two readers of a mailbox the lower one may take a message that the higher
  one already has, since a posted reader does not look at `OSEventState`
  (`mbox.c:351`); `TopReaderHasMail` says what remains.
* A stopped timer that shares timeout 0 with another one stays linked, and the
  other one is removed (`stimer.c:567`); the stop of a timer that is late, or in
  the heap its timeout does not point to, finds nothing and reads a null pointer
  (`stimer.c:578`).
* A tick between the timer task's last test and its sleep, or an exchange of the
  heaps before the wrap, lets a timer be called a whole period late, but never
  early. A timer whose timeout was not reduced (`stimer.c:207`) is called by the
  next drain, whenever that comes.

## Proofs

Eight modules hold the theorems; each is for every value of the constants that
satisfies the named assumptions. Where a theorem needs more than the model's own
assumptions, it says so: `ShortWaits` (no wait is longer than the range of the
tick counter), `~DeleteWithWaiters`, `SingleReader` (queues), `TopReaderFree` (the
highest reader is not blocked by `OSBlockTask`), `LifoRelease`, `HighCeilings`
(every ceiling is above every task's own priority), `SizesFit` (queue sizes fit
the 16 bits they are computed in), `TimerTaskOnTop` (no task that uses timers is
above the timer task), `ShortTimes` (no timer is armed for a whole period of the
tick counter). The constants of the passing runs satisfy them all, so they do
not contradict each other. `mutex_order` and `queue_readers` show that
`LifoRelease` and `SingleReader` cannot be left out.

**`KernelProofs`**, for every set of tasks, every assignment of distinct
priorities, every range of the tick counter and every set of delays:

* `KernelInvariance`, `TypeCorrect`, `NoTaskIsLost`, `RunningTaskIsRunnable`:
  `[]KernelInv` and three of its parts;
* `PriorityOrder`: `[]HighestPriorityRuns` on ports where critical sections do
  not count in `iNesting`;
* `TickRestoresOrder`: `TickPreempts`, on every port;
* `TimeoutsExact`: `[]TimeoutsAreExact` for delays of at most
  `TICK_COUNT_OVERFLOW` ticks;
* `BitSearchIsRight`: `[]FindsHighest`, for masks of 8, 16 and 32 bits (TLC
  evaluates those of 16).

These rest on the named assumptions of `Kernel` only: handles below
`MUTEX_PRIO`, distinct priorities with 0 for Idle, a nonzero counter range; and
`BitSearchIsRight` on that of `ReadyMask`, a mask wide enough for the priorities
(`BRTOS.h:202`).

The argument. The type of `currentTask` alone is not inductive, since
`OSSchedule` reads `PriorityVector` at the highest ready priority and would
return `EMPTY_PRIO` if a ready bit belonged to nobody. The strengthening is
`PrioritiesOwned`: `PriorityVector` leads from every thread's current priority
back to it, and only owned priorities are ready. It holds also while mutexes
change priorities, so the lemmas serve the services too. With it,
`OSScheduleIsRight` shows that the scheduler returns a runnable thread of the
highest priority, or Idle; that lemma rests on the existence of a maximum in a
bounded mask, obtained from the well-foundedness of the natural numbers. Each
action then preserves `KernelInv` by a lemma of its own. For the timeouts the
inductive invariant is `ExactInv`: a linked task's `TimeToWait` is the deadline
computed from its *remaining* ticks. A tick lowers those and moves the counter,
and `DeadlineAfterTick` shows that the modular sum does not change; a task is
therefore found expired exactly when one tick was left.

For the bit search: `MaskOf` is a fold that adds the bits in an order of its
own. `WeightsExist` constructs the numbers of all masks bit by bit,
`MaskOfIsWeight` shows by induction on the size of the mask that the fold
computes them, and `WeightBounds` that each lies between its highest bit and the
next one. Every comparison then keeps that bit in its interval (`UpperHalves`).

**`DelayListProofs`**, for every finite set of tasks: `DelayListIsDoublyLinked`,
`WalkVisitsEverybody` and `DelayListIsASet`, the refinement of `DelaySet`. The
invariant `ListInv` says that *there is* a sequence of different tasks which the
links spell out forwards and backwards, and that the walk has left nothing
expired behind its cursor. It says nothing of the links of tasks outside the
list, so it also proves that the stale links the code leaves there are harmless.

`KernelProofs` also has the lemmas the services share, about the invariant
`EventInv` of `Event`. `WaitListExact` (the wait list holds exactly the waiters
no post has selected) is not inductive: whether a resuming task was selected or
timed out depends on when it became ready. `WaitState` records that: a waiting
task is ready exactly when a post selected it or the tick handler took it out of
the delay list. Every service has theorems of its own that waiting is safe
(exact wait lists, no lost wake-up, the contract of the delay list) and that
each tick restores priority order: `MboxWaitsAreSafe`, `MboxTickRestoresOrder`,
`QueueWaitsAreSafe`, `QueueTickRestoresOrder`, `MutexWaitsAreSafe`,
`MutexTickRestoresOrder` and those of `SemaphoreProofs`. For mutexes both are in
doubt: the wait lists hold priorities, so they stay exact only because no task
changes its priority while it waits, and a release requests no switch
(`mutex.c:528`), so it keeps a ready task waiting until the next tick.

**`SemaphoreProofs`** (`ShortWaits`, `~DeleteWithWaiters`; both kinds of port)
proves every safety property of the semaphore run: exact wait lists, no lost
wake-up, no count with waiters, the contract of the delay list, the right result
of every pend, and priority order after every tick.

**`MailboxProofs`** proves for any number of readers that no mail is stranded
(`MailIsNeverStranded`) and, where posts switch context and with `TopReaderFree`,
`HighestReaderFindsMail`. The argument: a post selects the highest waiter, so the
highest reader, once selected, is ready and above every other reader; with the
priority order of `KernelProofs` no other reader executes before it, and whoever
else executes can only put a newer message into the slot.

**`QueueProofs`** adds `SingleReader`. Its invariant ties `OSQEntries` to the reader
that a post selected: nobody else may take what was left for it, so the counter
never passes below 0 (`EntriesNeverExceedSize`).

The second half of `QueueProofs` is the refinement `QueuesAreFifos`: with
`SizesFit` the rings implement `Fifo` for any number of queues, sizes and
elements. `RingInv` says that both pointers are at places of the ring, a place
being a multiple of the element size and the end a place of its own, that the
elements counted are those between them, that static rings lie below
`iQueueAddress` and allocated ones behind the array, and that no two overlap.
`TurnAddress` computes the address of the i-th element; two elements at
different places do not share bytes (`PlacesApart`), so a write changes no
element but the one it adds (`WriteContents`), and a read moves every other one
up (`ReadContents`). `QueueTypeCorrect` follows.

**`MutexProofs`** (`ShortWaits`, `~DeleteWithWaiters`, `LifoRelease`) proves the
safety properties of the mutex run for any number of tasks and mutexes with any
ceilings. Mutual exclusion and the bookkeeping of priorities are proved
*together*: a release finds the new owner through `PriorityVector`, and
`PriorityVector` is right only because no two tasks use one ceiling at a time.
`Nesting`, in `MutexInv`, describes the priority a holder runs at and the one
each of its mutexes will restore, by the order in which it took them.
`CeilingsExcludeWaiting` adds `HighCeilings` and proves `NeverWaits`: while no
owner slept, only the task that has the processor owns mutexes (`Undisturbed`),
because an owner is above every task that owns nothing.

**`HalProofs`** proves, for any number of task threads, every safety property of the
Win32 port: `HalTypeCorrect`, `SectionsAreAtomic`, `InterruptsAreAnnounced`,
`TasksSeeNoNesting`, `SwitchesAreImmediate` and `NoInterruptMerged`. They rest
on `HalAssumption` (the threads are different) and on the thread priorities in
`MayRun`. The inductive invariant `HalInv` says where each thread may be
(`ThreadLabels`), that the mutex is held by exactly the thread that is in a
section (`OwnerMatches`), that its count and `iNesting` follow from the program
counters (`CountsMatch`), that its owner is never a suspended task
(`OwnerNotSuspended`), and that the interrupt thread has served everything below
its loop variable (`ServedInOrder`). The last part is what makes
`NoInterruptLost` inductive: when the interrupt thread leaves its loop nothing
is pending, so it may release the mutex without setting the event.
`NothingPending` then gives the two action properties: a task or helper thread
that may run and finds the mutex free sees no pending interrupt.

**`SoftTimerProofs`** (`TimerTaskOnTop`) proves, for any number of timers, any
other tasks, any times and any calls of the four services, `HeapsStayOrdered`,
`TimersLinkedOnce` and `SoftTimerTypeCorrect`, and with `ShortTimes`
`TimeLeftIsExact` and `TimersNeverEarly`. The argument has five steps.

1. The sifts `Subir` and `Descer` are recursive functions, about which the
   provers know nothing, not even that they exist. `SubirTurns` and
   `DescerTurns` construct them as at most `Len(timers)` iterations of one turn
   (`IteratesExist`).
2. A turn keeps the timers and moves the only place where the order may be
   violated by one level (`RisingOrder`, `SinkingOrder`); `SubirOrders` and
   `DescerOrders` follow by induction on the turns. Insertion, removal of the
   root and a new key at the root are right by these. A stop makes a timer rise
   with key 0; whichever timer is then at the root has key 0, and that one is
   removed (`StoppedHeap`).
3. `TimerInv` adds to the heaps what the timer task's program counter means for
   them: it has the processor unless it sleeps, so that clients run only while it
   sleeps (`TimerTaskOnTop`; `tests/test_stimer.c:156` installs it at priority
   30), and `p` is still the root of the current heap when the callback returns,
   although ticks came between. Types need no such thing: they are kept whatever
   is linked twice.
4. `LeftInv`: `OSTimerGet` inverts the computation of a timeout (`LeftUntilTickIn`),
   and a tick takes one from both sides, also at the wrap (`TickLeft`). This needs
   no order of the heaps, so it holds after restarts, too.
5. `EarlyInv`: unless a stop misled it, the sleeping task wakes at the first
   timeout, and then every timer of the current heap has its timeout in this
   period of the counter. Only a wrap before the task gets the processor can
   bring the first timeout above the counter, and then `LeftInv` makes every
   timer of the heap late: the drain calls nobody early. The future heap has only
   timers of the new period by then.

A timer of `TICK_COUNT_OVERFLOW` ticks or more would be due after a whole period,
and its timeout does not tell which period is meant, hence `ShortTimes`.
`TimerWait` and `Repeat` are values of `ostick_t`, so that they are at most
`MAX_TIMER` (`SoftTimerAssumption`).

Only model-checked: the liveness properties `DelayEnds`, `TimedPendEnds` and
`InterruptsServed`, because the prover has no rules for fairness. Every other
property that a passing run checks is also a theorem.

## Not modelled

* Vendored code: LwIP, FatFS with its code pages, GLCD and the allocator
  `umm_malloc`. It is most of the repository's lines and not this project's own
  logic; the kernel does not call it, except for the allocator, of which `Queue`
  states what it uses.
* `OSInstallTask` from running tasks and `OSUninstallTask`: compiled only with
  `BRTOS_DYNAMIC_TASKS_ENABLED`, which is 0 in this configuration. Installation
  before `BRTOSStart` is the initial state of `Kernel`.
* The 16- and 32-bit copies of the queue services, compiled out; they repeat the
  8-bit ones with another element type.
* Soft timers before `BRTOSStart`, callbacks that call the timer services, and a
  timer task below the priority of clients that sleep. In the last case a client
  may wake during a callback and stop the very timer; when the callback then
  returns 0, another running timer is removed in its place and
  `RunningTimersLinked` is false. The clients of the model do not sleep.
* The device registry (`device.c`) and the drivers: a table that only grows and
  console or file I/O behind it. `OSDevOpen` finds and takes a free block
  outside a critical section, so programs open devices from one task.
* `OSDelayTaskHMSM` (a conversion followed by `OSDelayTask`), the tickless
  `OSIncCounter(inc)`, CPU load, trace, watchdog and calendar time: disabled in
  this configuration or without influence on the kernel state. `OSUpdateDate`
  gives every month 30 days, as its comment admits.
* Text output (`OSInfo.c`, the terminal) and demonstration tasks: I/O; tasks in
  the models call the services in any order instead.
* The other ports' assembly. `Kernel` covers them by `CriticalNests = FALSE`.

## What could follow

1. A composition of `Hal` with a small kernel, showing that the thread-level
   system implements `Kernel`'s atomic steps; now `HalProofs` shows the atomicity
   and the immediate switches that `Kernel` assumes, each on its own.
2. Installation and removal of tasks at run time, should the option be enabled:
   a removed task may still be linked in the delay list and own mutexes
   (`BRTOS.c:1448`).
3. The device registry with several tasks that open devices.
4. The timer task below its clients, once the code says what a client may do
   while a callback runs.
