-------------------------------- MODULE Queue -------------------------------
(***************************************************************************)
(* Queues (brtos/brtos/queue.c).  A static queue is a ring of bytes carved *)
(* out of the array QUEUE_STACK; a dynamic one is a ring of elements of    *)
(* several bytes in memory from the allocator.  Both are written by tasks  *)
(* and interrupts.  Addresses are counted in bytes from the start of       *)
(* QUEUE_STACK; the allocator's memory follows it.                         *)
(*                                                                         *)
(* The code of the dynamic queues repeats that of the static ones with     *)
(* OSQTSize bytes per element and the limit OSQLength; here a static queue *)
(* has elements of one byte and as many of them as it has bytes.           *)
(***************************************************************************)
EXTENDS Event, Sequences

CONSTANTS
  Data,               \* the elements written
  Sizes,              \* size arguments of OSQueueCreate
  DynamicSizes,       \* <<queue_length, type_size>> of OSDQueueCreate
  CPU_BYTES,          \* sizeof(OS_CPU_TYPE)
  QUEUE_HEAP_SIZE,    \* bytes in QUEUE_STACK
  ALLOC_BYTES,        \* bytes the allocator has for rings
  DynamicSets,        \* which objects may be the dynamic queues
  Readers             \* the tasks that read and clean queues

INT16U == {n \in Nat : n < 65536}

ASSUME QueueAssumption ==
  /\ CPU_BYTES \in Nat \ {0}
  /\ Sizes \subseteq INT16U \ {0}
  /\ DynamicSizes \subseteq (INT16U \ {0}) \X (INT16U \ {0})
  /\ {QUEUE_HEAP_SIZE, ALLOC_BYTES} \subseteq Nat
  /\ QUEUE_HEAP_SIZE % CPU_BYTES = 0
  /\ DynamicSets \subseteq SUBSET ObjectId
  /\ Readers \subseteq Task

VARIABLES
  memory,             \* QUEUE_STACK, then the allocator's memory
  iQueueAddress,
  OSQStart, OSQSize, OSQTSize, OSQLength, OSQEntries, OSQIn, OSQOut,
  pdata,              \* the element each task read last
  dynamic             \* the objects that are dynamic queues; never changes

queueVars == <<memory, iQueueAddress, OSQStart, OSQSize, OSQTSize, OSQLength,
               OSQEntries, OSQIn, OSQOut, pdata, dynamic>>
vars      == <<kernelVars, eventVars, queueVars>>

OSQEnd(e) == OSQStart[e] + OSQSize[e]

Address == 0 .. QUEUE_HEAP_SIZE + ALLOC_BYTES - 1

\* The n bytes of an element; memory nobody wrote holds NoByte.
Bytes(data, n) == [k \in 1 .. n |-> <<data, k>>]
NoByte == <<>>

BytesAt(a, n) == [k \in 1 .. n |-> memory[a + k - 1]]

-----------------------------------------------------------------------------
(* Creation and deletion *)

\* The ring of e gets size bytes from start on.
NewRing(e, start, size, type, length) ==
  /\ OSQStart' = [OSQStart EXCEPT ![e] = start]
  /\ OSQSize' = [OSQSize EXCEPT ![e] = size]
  /\ OSQTSize' = [OSQTSize EXCEPT ![e] = type]
  /\ OSQLength' = [OSQLength EXCEPT ![e] = length]
  /\ OSQEntries' = [OSQEntries EXCEPT ![e] = 0]
  /\ OSQIn' = [OSQIn EXCEPT ![e] = start]
  /\ OSQOut' = [OSQOut EXCEPT ![e] = start]
  /\ UNCHANGED <<kernelVars, memory, pdata, dynamic>>

\* The size is rounded up to whole OS_CPU_TYPEs, in 16 bits.
RoundedSize(size) ==
  IF size % CPU_BYTES = 0 THEN size
  ELSE (size + (CPU_BYTES - (size % CPU_BYTES))) % 65536

OSQueueCreate(requested) ==
  LET size == RoundedSize(requested)
  IN  /\ iQueueAddress + (size \div CPU_BYTES) <= QUEUE_HEAP_SIZE \div CPU_BYTES
      /\ \E e \in ObjectId \ dynamic :
           /\ CreateEvent(e)
           /\ NewRing(e, iQueueAddress * CPU_BYTES, size, 1, size)
      /\ iQueueAddress' = (iQueueAddress + (size \div CPU_BYTES)) % 65536

\* BRTOS_ALLOC finds n bytes from start on that no other ring uses.
Allocates(start, n) ==
  /\ start .. start + n - 1 \subseteq Address \ (0 .. QUEUE_HEAP_SIZE - 1)
  /\ \A d \in dynamic :
       OSEventAllocated[d] =>
         (start .. start + n - 1) \cap (OSQStart[d] .. OSQEnd(d) - 1) = {}

\* The product is computed in 16 bits.
SizeInBytes(queue_length, type_size) == (queue_length * type_size) % 65536

NewDynamicRing(e, size_in_bytes, type_size, queue_length) ==
  \E start \in Address :
    /\ Allocates(start, size_in_bytes)
    /\ NewRing(e, start, size_in_bytes, type_size, queue_length)

\* One of the three allocations may fail; what was allocated before it is given
\* back and nothing changes.  OSDQueueCreate leaves OSEventAllocated unset:
\* here it says that the caller's pointer to the queue is not NULL.
OSDQueueCreate(queue_length, type_size) ==
  /\ \E e \in dynamic :
       /\ ~OSEventAllocated[e]
       /\ NewWaitList(e, TRUE)
       /\ NewDynamicRing(e, SizeInBytes(queue_length, type_size), type_size,
                         queue_length)
  /\ UNCHANGED iQueueAddress

\* The control blocks go back to the allocator with the ring.  Programs do not
\* delete a queue that a pend still refers to.
OSDQueueDelete(e) ==
  /\ e \in dynamic
  /\ DeleteEvent(e)
  /\ DeleteWithWaiters \/ \A t \in Task : pend[t] # e
  /\ NewRing(e, 0, 0, 0, 0)
  /\ UNCHANGED iQueueAddress

-----------------------------------------------------------------------------
(* The ring *)

\* Mutant: the pointers never wrap.
Wrapped_Never(e, pointer) == pointer

Wrapped(e, pointer) == IF pointer = OSQEnd(e) THEN OSQStart[e] ELSE pointer

\* The element at OSQOut goes to t; the 16-bit entry counter is decremented
\* without a test.
Read(t, e) ==
  LET out == Wrapped(e, OSQOut[e])
  IN  /\ pdata' = [pdata EXCEPT ![t] = BytesAt(out, OSQTSize[e])]
      /\ OSQOut' = [OSQOut EXCEPT ![e] = out + OSQTSize[e]]
      /\ OSQEntries' = [OSQEntries EXCEPT ![e] = (@ - 1) % 65536]
      /\ UNCHANGED <<memory, iQueueAddress, OSQStart, OSQSize, OSQTSize,
                     OSQLength, OSQIn, dynamic>>

\* The element is copied to the bytes from in on.
Stored(in, element) ==
  [a \in Address |-> IF a \in in .. in + Len(element) - 1
                     THEN element[a - in + 1] ELSE memory[a]]

\* A full queue (BUFFER_UNDERRUN) changes nothing.
Write(e, data) ==
  LET in == Wrapped(e, OSQIn[e])
  IN  /\ OSQEntries[e] < OSQLength[e]
      /\ OSQEntries' = [OSQEntries EXCEPT ![e] = @ + 1]
      /\ memory' = Stored(in, Bytes(data, OSQTSize[e]))
      /\ OSQIn' = [OSQIn EXCEPT ![e] = in + OSQTSize[e]]
      /\ UNCHANGED <<iQueueAddress, OSQStart, OSQSize, OSQTSize, OSQLength,
                     OSQOut, pdata, dynamic>>

OSRQueue(t, e) ==
  /\ OSEventAllocated[e]
  /\ OSQEntries[e] > 0
  /\ Read(t, e)
  /\ UNCHANGED <<kernelVars, eventVars>>

\* Wakes nobody, unlike OSQueuePost.
OSWQueue(e, data) ==
  /\ OSEventAllocated[e]
  /\ Write(e, data)
  /\ UNCHANGED <<kernelVars, eventVars>>

\* Mutant: the output pointer is not reset.
Clean_KeepsOut(e) ==
  /\ OSEventAllocated[e]
  /\ OSQEntries' = [OSQEntries EXCEPT ![e] = 0]
  /\ OSQIn' = [OSQIn EXCEPT ![e] = OSQStart[e]]
  /\ UNCHANGED <<kernelVars, eventVars, memory, iQueueAddress, OSQStart,
                 OSQSize, OSQTSize, OSQLength, OSQOut, pdata, dynamic>>

Clean(e) ==
  /\ OSEventAllocated[e]
  /\ OSQEntries' = [OSQEntries EXCEPT ![e] = 0]
  /\ OSQIn' = [OSQIn EXCEPT ![e] = OSQStart[e]]
  /\ OSQOut' = [OSQOut EXCEPT ![e] = OSQStart[e]]
  /\ UNCHANGED <<kernelVars, eventVars, memory, iQueueAddress, OSQStart,
                 OSQSize, OSQTSize, OSQLength, pdata, dynamic>>

OSQueueClean(e)  == e \notin dynamic /\ Clean(e)
OSDQueueClean(e) == e \in dynamic /\ Clean(e)

-----------------------------------------------------------------------------
(* Pend and post *)

Pend(t, e, w) ==
  /\ InUserCode(t)
  /\ OSEventAllocated[e]
  /\ \/ OSQEntries[e] > 0 /\ Read(t, e) /\ UNCHANGED <<kernelVars, eventVars>>
     \/ OSQEntries[e] = 0 /\ WaitEvent(t, e, w) /\ UNCHANGED queueVars

OSQueuePend(t, e, w)  == e \notin dynamic /\ Pend(t, e, w)
OSDQueuePend(t, e, w) == e \in dynamic /\ Pend(t, e, w)

\* The end of a pend that waited.  A reader that was posted reads without
\* looking at OSQEntries.
PendReturnsTimeout(t) == LeaveByTimeout(t) /\ UNCHANGED queueVars

PendReturnsOK(t) ==
  /\ LeaveByPost(t)
  /\ Read(t, pend[t])
  /\ UNCHANGED <<priorityVars, OSReadyList>>

PendResume(t) == PendReturnsTimeout(t) \/ PendReturnsOK(t)

OSQueuePendResume(t)  == pend[t] \notin dynamic /\ PendResume(t)
OSDQueuePendResume(t) == pend[t] \in dynamic /\ PendResume(t)

NobodyWaits(e) == OSEventWait[e] = 0 /\ UNCHANGED <<kernelVars, eventVars>>

Post(e, data) ==
  /\ OSEventAllocated[e]
  /\ Write(e, data)
  /\ TaskPost(e) \/ NobodyWaits(e)

PostISR(e, data) ==
  /\ OSEventAllocated[e]
  /\ Write(e, data)
  /\ ISRPost(e) \/ NobodyWaits(e)

OSQueuePost(e, data)     == e \notin dynamic /\ Post(e, data)
OSQueuePostISR(e, data)  == e \notin dynamic /\ PostISR(e, data)
OSDQueuePost(e, data)    == e \in dynamic /\ Post(e, data)
OSDQueuePostISR(e, data) == e \in dynamic /\ PostISR(e, data)

-----------------------------------------------------------------------------
QueueInit ==
  /\ EventInit
  /\ memory = [a \in Address |-> NoByte]
  /\ iQueueAddress = 0
  /\ OSQStart = [e \in ObjectId |-> 0]
  /\ OSQSize = [e \in ObjectId |-> 0]
  /\ OSQTSize = [e \in ObjectId |-> 0]
  /\ OSQLength = [e \in ObjectId |-> 0]
  /\ OSQEntries = [e \in ObjectId |-> 0]
  /\ OSQIn = [e \in ObjectId |-> 0]
  /\ OSQOut = [e \in ObjectId |-> 0]
  /\ pdata = [t \in Task |-> NoByte]
  /\ dynamic \in DynamicSets

ReaderStep(t, e) ==
  \/ e \notin dynamic /\ OSRQueue(t, e)
  \/ OSQueueClean(e)
  \/ OSDQueueClean(e)
  \/ \E w \in PendWait : OSQueuePend(t, e, w) \/ OSDQueuePend(t, e, w)

TaskStep(t) ==
  /\ InUserCode(t)
  /\ \/ \E size \in Sizes : OSQueueCreate(size)
     \/ \E size \in DynamicSizes : OSDQueueCreate(size[1], size[2])
     \/ \E e \in ObjectId : OSDQueueDelete(e)
     \/ \E e \in ObjectId, data \in Data :
          \/ OSQueuePost(e, data)
          \/ OSDQueuePost(e, data)
          \/ e \notin dynamic /\ OSWQueue(e, data)
     \/ t \in Readers /\ \E e \in ObjectId : ReaderStep(t, e)
     \/ KernelCall(t) /\ UNCHANGED queueVars

QueueInterrupt ==
  \/ \E e \in ObjectId, data \in Data :
       OSQueuePostISR(e, data) \/ OSDQueuePostISR(e, data)
  \/ KernelInterrupt /\ UNCHANGED queueVars

QueueNext ==
  \/ \E t \in Task : \/ TaskStep(t)
                     \/ OSQueuePendResume(t) \/ OSDQueuePendResume(t)
  \/ QueueInterrupt

QueueSpec == QueueInit /\ [][QueueNext]_vars

-----------------------------------------------------------------------------
(* Properties *)

Byte == {NoByte} \cup (Data \X Nat)

QueueTypeOK ==
  /\ EventTypeOK
  /\ \A a \in Address : memory[a] \in Byte
  /\ iQueueAddress \in 0 .. QUEUE_HEAP_SIZE \div CPU_BYTES
  /\ {OSQTSize, OSQLength, OSQEntries} \subseteq [ObjectId -> INT16U]
  /\ \A e \in ObjectId :
       /\ OSQStart[e] .. OSQEnd(e) - 1 \subseteq Address
       /\ {OSQIn[e], OSQOut[e]} \subseteq OSQStart[e] .. OSQEnd(e)
  /\ \A t \in Task : pdata[t] \in Seq(Byte)
  /\ dynamic \subseteq ObjectId

\* "Size of data inside the queue": OSQEntries never exceeds what the ring can
\* hold; a reader that decrements it below 0 would leave 65535.
EntriesWithinSize ==
  \A e \in ObjectId : OSQEntries[e] <= OSQLength[e]

\* Where the i-th element to be read begins, less than one turn after OSQOut.
ElementAt(e, i) ==
  LET address == OSQOut[e] + (i - 1) * OSQTSize[e]
  IN  IF address >= OSQEnd(e) THEN address - OSQSize[e] ELSE address

\* The elements between OSQOut and OSQIn, in the order they will be read.
Contents(e) ==
  [i \in 1 .. OSQEntries[e] |-> BytesAt(ElementAt(e, i), OSQTSize[e])]

Elements == {Bytes(d, n) : d \in Data, n \in {1} \cup {s[2] : s \in DynamicSizes}}

F == INSTANCE Fifo WITH
  Queues <- ObjectId, Reader <- Task, Data <- Elements, NoData <- NoByte,
  Capacities <- 1 .. QUEUE_HEAP_SIZE + ALLOC_BYTES,
  items <- [e \in ObjectId |-> Contents(e)],
  capacity <- OSQLength,
  received <- pdata

\* The rings behave as bounded FIFO buffers: no element is lost, repeated,
\* reordered, torn or read from another queue's memory, also after a dynamic
\* queue was deleted and another one got its memory.
ImplementsFifo == F!Spec
=============================================================================
