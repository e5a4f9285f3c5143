-------------------------------- MODULE Fifo --------------------------------
(***************************************************************************)
(* What the queues promise: every queue is a bounded FIFO buffer, nothing  *)
(* a reader receives is lost, repeated, reordered or from another queue.   *)
(***************************************************************************)
EXTENDS Naturals, Sequences

CONSTANTS
  Queues,
  Reader,
  Data,
  NoData,      \* nothing received yet
  Capacities

VARIABLES
  items,       \* the data in each queue
  capacity,    \* how many each queue can hold, 0 before its creation
  received     \* what each reader received last

vars == <<items, capacity, received>>

Init ==
  /\ items = [q \in Queues |-> <<>>]
  /\ capacity = [q \in Queues |-> 0]
  /\ received = [r \in Reader |-> NoData]

Create(q, n) ==
  /\ capacity[q] = 0
  /\ capacity' = [capacity EXCEPT ![q] = n]
  /\ UNCHANGED <<items, received>>

Put(q, d) ==
  /\ Len(items[q]) < capacity[q]
  /\ items' = [items EXCEPT ![q] = Append(@, d)]
  /\ UNCHANGED <<capacity, received>>

Get(r, q) ==
  /\ items[q] # <<>>
  /\ items' = [items EXCEPT ![q] = Tail(@)]
  /\ received' = [received EXCEPT ![r] = Head(items[q])]
  /\ UNCHANGED capacity

Clean(q) ==
  /\ items' = [items EXCEPT ![q] = <<>>]
  /\ UNCHANGED <<capacity, received>>

Delete(q) ==
  /\ items' = [items EXCEPT ![q] = <<>>]
  /\ capacity' = [capacity EXCEPT ![q] = 0]
  /\ UNCHANGED received

Next ==
  \E q \in Queues :
    \/ \E n \in Capacities : Create(q, n)
    \/ Delete(q)
    \/ \E d \in Data : Put(q, d)
    \/ \E r \in Reader : Get(r, q)
    \/ Clean(q)

Spec == Init /\ [][Next]_vars
=============================================================================
