--------------------------- MODULE SoftTimerProofs ---------------------------
(***************************************************************************)
(* Proofs about SoftTimer, for every number of control blocks, every range *)
(* of the tick counter, every set of tasks and every set of times.         *)
(*                                                                         *)
(* 1. The sifts.  Subir and Descer are recursive functions; their          *)
(*    existence, and what holds after every turn, is shown by induction on *)
(*    the number of turns.  The result is a heap of the same timers.       *)
(* 2. The heaps.  HeapOf(h, key, A) says that h is a heap, ordered by key, *)
(*    of the timers in A; insertion, removal and a new key of the root     *)
(*    lead from heaps to heaps.                                            *)
(* 3. The inductive invariant TimerInv: until a timer is started that is   *)
(*    still linked, both heaps are in order and share the running timers,  *)
(*    and p is the root while the timer task works.                        *)
(* 4. LeftInv: OSTimerGet inverts the computation of a timeout, so every   *)
(*    timeout that was reduced at the wrap is the tick of its timer.       *)
(* 5. EarlyInv: the timer task, unless a stop misled it, wakes at the first*)
(*    timeout or later; so the current heap has only timers of this period *)
(*    of the tick counter, or only timers that are late.                   *)
(*                                                                         *)
(* The lemmas about the kernel come from KernelProofs; the constants and   *)
(* variables of Event, which that module also declares, play no part here. *)
(***************************************************************************)
EXTENDS SoftTimer, KernelProofs

-----------------------------------------------------------------------------
(* Numbers, sequences and recursion *)

\* A function on 1 .. len is a sequence.
LEMMA FunctionIsSequence ==
  ASSUME NEW len \in Nat, NEW h \in [1 .. len -> TimerId]
  PROVE  h \in Seq(TimerId) /\ Len(h) = len
OBVIOUS

\* The parent of position n, and the sons of position m.
LEMMA ParentAndSons ==
  /\ \A n \in Nat : n > 1 => n \div 2 \in 1 .. n - 1
  /\ \A m \in Nat, n \in Nat : n \div 2 = m <=> n \in {2 * m, 2 * m + 1}
OBVIOUS

\* Keys are compared along chains.
LEMMA Transitive ==
  \A a, b, c \in Nat : a <= b /\ b <= c => a <= c
OBVIOUS

\* g lists the first n iterates of F from s0 on.
Iterates(g, S, s0, F, n) ==
  /\ g \in [0 .. n -> S]
  /\ g[0] = s0
  /\ \A k \in 1 .. n : g[k] = F[g[k - 1]]

\* A function on a set can be iterated any number of times: the recursive
\* functions of the sifts exist.
LEMMA IteratesExist ==
  ASSUME NEW S, NEW s0 \in S, NEW F \in [S -> S], NEW n \in Nat
  PROVE  \E g : Iterates(g, S, s0, F, n)
<1> DEFINE Good == {m \in Nat : \E g : Iterates(g, S, s0, F, m)}
<1>1. 0 \in Good
  <2> DEFINE g == [k \in 0 .. 0 |-> s0]
  <2>1. Iterates(g, S, s0, F, 0)
    BY DEF Iterates
  <2> QED
    BY <2>1
<1>2. ASSUME NEW m \in 0 .. n - 1, m \in Good
      PROVE  m + 1 \in Good
  <2>1. PICK g : Iterates(g, S, s0, F, m)
    BY <1>2
  <2> DEFINE h == [k \in 0 .. m + 1 |-> IF k <= m THEN g[k] ELSE F[g[m]]]
  <2>2. h \in [0 .. m + 1 -> S]
    BY <2>1 DEF Iterates
  <2>3. h[0] = s0
    BY <2>1 DEF Iterates
  <2>4. ASSUME NEW k \in 1 .. m + 1 PROVE h[k] = F[h[k - 1]]
    <3>1. CASE k <= m
      BY <2>1, <3>1 DEF Iterates
    <3>2. CASE k = m + 1
      BY <2>1, <3>2 DEF Iterates
    <3> QED
      BY <3>1, <3>2
  <2> HIDE DEF h
  <2>5. m + 1 \in Nat /\ Iterates(h, S, s0, F, m + 1)
    BY <2>2, <2>3, <2>4 DEF Iterates
  <2> QED
    BY <2>5
<1>3. \A m \in 0 .. n : m \in Good
  <2> HIDE DEF Good
  <2> QED
    BY <1>1, <1>2, InductionUpTo
<1> QED
  BY <1>3

-----------------------------------------------------------------------------
(* The sifts *)

\* What one turn of the loops in Subir and Descer does to the heap and to the
\* position of the element that moves.
Rise(s, key) ==
  LET parent == s.pos \div 2
  IN  IF s.pos > 1 /\ key[s.heap[parent]] > key[s.heap[s.pos]]
      THEN [heap |-> Exchanged(s.heap, parent, s.pos), pos |-> parent]
      ELSE s

Sink(s, key, len) ==
  LET left_ == 2 * s.pos
      right == left_ + 1
      son   == IF right <= len /\ key[s.heap[right]] < key[s.heap[left_]]
               THEN right ELSE left_
  IN  IF son <= len /\ key[s.heap[son]] < key[s.heap[s.pos]]
      THEN [heap |-> Exchanged(s.heap, son, s.pos), pos |-> son]
      ELSE s

\* A heap in the making, and the position of the element that rises or sinks.
Rising(len)  == [heap : [1 .. len -> TimerId], pos : 1 .. len]
Sinking(len) == [heap : [1 .. len -> TimerId], pos : Nat \ {0}]

\* A turn of Subir keeps the elements timers and the position in range.
LEMMA RiseType ==
  ASSUME NEW len \in Nat, NEW key \in [TimerId -> Nat], NEW s \in Rising(len)
  PROVE  Rise(s, key) \in Rising(len)
<1>1. /\ s.heap \in [1 .. len -> TimerId] /\ s.pos \in 1 .. len
      /\ s = [heap |-> s.heap, pos |-> s.pos]
  BY DEF Rising
<1>2. CASE s.pos > 1
  <2>1. s.pos \div 2 \in 1 .. len
    BY <1>1, <1>2
  <2>2. Exchanged(s.heap, s.pos \div 2, s.pos) \in [1 .. len -> TimerId]
    BY <1>1, <2>1 DEF Exchanged
  <2> QED
    BY <2>1, <2>2 DEF Rise, Rising
<1>3. CASE ~(s.pos > 1)
  BY <1>3 DEF Rise
<1> QED
  BY <1>2, <1>3

\* So does a turn of Descer.
LEMMA SinkType ==
  ASSUME NEW len \in Nat, NEW key \in [TimerId -> Nat], NEW s \in Sinking(len)
  PROVE  Sink(s, key, len) \in Sinking(len)
<1>1. /\ s.heap \in [1 .. len -> TimerId] /\ s.pos \in Nat \ {0}
      /\ s = [heap |-> s.heap, pos |-> s.pos]
  BY DEF Sinking
<1>2. ASSUME NEW son \in {2 * s.pos, 2 * s.pos + 1}, son <= len
      PROVE  /\ son \in 1 .. len
             /\ s.pos \in 1 .. len
             /\ Exchanged(s.heap, son, s.pos) \in [1 .. len -> TimerId]
  <2>1. son \in 1 .. len /\ s.pos \in 1 .. len
    BY <1>1, <1>2
  <2> QED
    BY <1>1, <2>1 DEF Exchanged
<1>3. ASSUME NEW son \in {2 * s.pos, 2 * s.pos + 1}, son <= len
      PROVE  [heap |-> Exchanged(s.heap, son, s.pos), pos |-> son]
               \in Sinking(len)
  <2>1. son \in 1 .. len
    BY <1>2, <1>3
  <2>2. Exchanged(s.heap, son, s.pos) \in [1 .. len -> TimerId]
    BY <1>2, <1>3
  <2>3. son \in Nat \ {0}
    BY <2>1
  <2> QED
    BY <2>2, <2>3 DEF Sinking
<1> QED
  BY <1>3 DEF Sink

\* g lists the turns of Subir.
SubirBy(g, timers, key, i, len) ==
  /\ g \in [0 .. len -> Rising(len)]
  /\ g[0] = [heap |-> timers, pos |-> i]
  /\ \A k \in 1 .. len : g[k] = Rise(g[k - 1], key)
  /\ Subir(timers, key, i) = g[len].heap

\* Subir is the result of repeated turns.
LEMMA SubirTurns ==
  ASSUME NEW timers \in Seq(TimerId), NEW key \in [TimerId -> Nat],
         NEW i \in 1 .. Len(timers)
  PROVE  \E g : SubirBy(g, timers, key, i, Len(timers))
<1> DEFINE len == Len(timers)
           first == [heap |-> timers, pos |-> i]
           turn == [s \in Rising(len) |-> Rise(s, key)]
           Turned(f) == [n \in 0 .. len |->
                           IF n = 0 THEN first ELSE Rise(f[n - 1], key)]
<1>1. len \in Nat /\ first \in Rising(len)
  BY DEF Rising
<1>2. turn \in [Rising(len) -> Rising(len)]
  BY <1>1, RiseType
<1>3. \E g : g = Turned(g)
  <2>1. PICK g \in [0 .. len -> Rising(len)] :
               g[0] = first /\ \A k \in 1 .. len : g[k] = turn[g[k - 1]]
    <3>1. \E g : Iterates(g, Rising(len), first, turn, len)
      <4> HIDE DEF turn, first, len
      <4> QED
        BY <1>1, <1>2, IteratesExist
    <3> QED
      BY <3>1 DEF Iterates
  <2>2. ASSUME NEW k \in 0 .. len PROVE g[k] = Turned(g)[k]
    <3>1. CASE k = 0
      BY <2>1, <3>1
    <3>2. CASE k # 0
      <4>1. k \in 1 .. len /\ k - 1 \in 0 .. len
        BY <1>1, <3>2
      <4>2. g[k - 1] \in Rising(len)
        BY <2>1, <4>1
      <4>3. g[k] = Rise(g[k - 1], key)
        BY <2>1, <4>1, <4>2
      <4> QED
        BY <3>2, <4>3
    <3> QED
      BY <3>1, <3>2
  <2>3. g = Turned(g)
    BY <2>1, <2>2
  <2> QED
    BY <2>3
<1> DEFINE g == CHOOSE f : f = Turned(f)
<1>4. g = Turned(g)
  BY <1>3
<1>5. Subir(timers, key, i) = g[len].heap
  BY DEF Subir, Rise
<1> HIDE DEF g
<1>6. g[0] = first /\ \A k \in 1 .. len : g[k] = Rise(g[k - 1], key)
  <2>1. \A k \in 0 .. len :
           g[k] = IF k = 0 THEN first ELSE Rise(g[k - 1], key)
    <3> HIDE DEF first, len
    <3> QED
      BY <1>4
  <2>2. 0 \in 0 .. len /\ \A k \in 1 .. len : k \in 0 .. len /\ k # 0
    BY <1>1
  <2> HIDE DEF first, len
  <2> QED
    BY <2>1, <2>2
<1>7. \A k \in 0 .. len : k \in {n \in 0 .. len : g[n] \in Rising(len)}
  <2>1. ASSUME NEW k \in 0 .. len - 1, g[k] \in Rising(len)
        PROVE  g[k + 1] \in Rising(len)
    BY <1>1, <1>6, <2>1, RiseType
  <2> DEFINE Good == {n \in 0 .. len : g[n] \in Rising(len)}
  <2>2. 0 \in Good
    BY <1>1, <1>6
  <2>3. \A k \in 0 .. len - 1 : k \in Good => k + 1 \in Good
    BY <1>1, <2>1
  <2> HIDE DEF Good, len
  <2>4. \A k \in 0 .. len : k \in Good
    BY <1>1, <2>2, <2>3, InductionUpTo
  <2> QED
    BY <2>4 DEF Good
<1>8. g \in [0 .. len -> Rising(len)]
  BY <1>4, <1>7
<1>9. SubirBy(g, timers, key, i, len)
  BY <1>5, <1>6, <1>8 DEF SubirBy
<1> QED
  BY <1>9

\* g lists the turns of Descer.
DescerBy(g, timers, key, len) ==
  /\ g \in [0 .. len -> Sinking(len)]
  /\ g[0] = [heap |-> timers, pos |-> 1]
  /\ \A k \in 1 .. len : g[k] = Sink(g[k - 1], key, len)
  /\ Descer(timers, key) = g[len].heap

\* Descer is the result of repeated turns.
LEMMA DescerTurns ==
  ASSUME NEW timers \in Seq(TimerId), NEW key \in [TimerId -> Nat]
  PROVE  \E g : DescerBy(g, timers, key, Len(timers))
<1> DEFINE len == Len(timers)
           first == [heap |-> timers, pos |-> 1]
           turn == [s \in Sinking(len) |-> Sink(s, key, len)]
           Turned(f) == [n \in 0 .. len |->
                           IF n = 0 THEN first ELSE Sink(f[n - 1], key, len)]
<1>1. len \in Nat /\ first \in Sinking(len)
  BY DEF Sinking
<1>2. turn \in [Sinking(len) -> Sinking(len)]
  BY <1>1, SinkType
<1>3. \E g : g = Turned(g)
  <2>1. PICK g \in [0 .. len -> Sinking(len)] :
               g[0] = first /\ \A k \in 1 .. len : g[k] = turn[g[k - 1]]
    <3>1. \E g : Iterates(g, Sinking(len), first, turn, len)
      <4> HIDE DEF turn, first, len
      <4> QED
        BY <1>1, <1>2, IteratesExist
    <3> QED
      BY <3>1 DEF Iterates
  <2>2. ASSUME NEW k \in 0 .. len PROVE g[k] = Turned(g)[k]
    <3>1. CASE k = 0
      BY <2>1, <3>1
    <3>2. CASE k # 0
      <4>1. k \in 1 .. len /\ k - 1 \in 0 .. len
        BY <1>1, <3>2
      <4>2. g[k - 1] \in Sinking(len)
        BY <2>1, <4>1
      <4>3. g[k] = Sink(g[k - 1], key, len)
        BY <2>1, <4>1, <4>2
      <4> QED
        BY <3>2, <4>3
    <3> QED
      BY <3>1, <3>2
  <2>3. g = Turned(g)
    BY <2>1, <2>2
  <2> QED
    BY <2>3
<1> DEFINE g == CHOOSE f : f = Turned(f)
<1>4. g = Turned(g)
  BY <1>3
<1>5. Descer(timers, key) = g[len].heap
  BY DEF Descer, Sink
<1> HIDE DEF g
<1>6. g[0] = first /\ \A k \in 1 .. len : g[k] = Sink(g[k - 1], key, len)
  <2>1. \A k \in 0 .. len :
           g[k] = IF k = 0 THEN first ELSE Sink(g[k - 1], key, len)
    <3> HIDE DEF first, len
    <3> QED
      BY <1>4
  <2>2. 0 \in 0 .. len /\ \A k \in 1 .. len : k \in 0 .. len /\ k # 0
    BY <1>1
  <2> HIDE DEF first, len
  <2> QED
    BY <2>1, <2>2
<1>7. \A k \in 0 .. len : k \in {n \in 0 .. len : g[n] \in Sinking(len)}
  <2>1. ASSUME NEW k \in 0 .. len - 1, g[k] \in Sinking(len)
        PROVE  g[k + 1] \in Sinking(len)
    BY <1>1, <1>6, <2>1, SinkType
  <2> DEFINE Good == {n \in 0 .. len : g[n] \in Sinking(len)}
  <2>2. 0 \in Good
    BY <1>1, <1>6
  <2>3. \A k \in 0 .. len - 1 : k \in Good => k + 1 \in Good
    BY <1>1, <2>1
  <2> HIDE DEF Good, len
  <2>4. \A k \in 0 .. len : k \in Good
    BY <1>1, <2>2, <2>3, InductionUpTo
  <2> QED
    BY <2>4 DEF Good
<1>8. g \in [0 .. len -> Sinking(len)]
  BY <1>4, <1>7
<1>9. DescerBy(g, timers, key, len)
  BY <1>5, <1>6, <1>8 DEF DescerBy
<1> QED
  BY <1>9

-----------------------------------------------------------------------------
(* Order and elements *)

\* No timer of the heap has an earlier key than its parent.
HeapBy(h, key) ==
  \A n \in 2 .. Len(h) : key[h[n \div 2]] <= key[h[n]]

\* No timer is in the heap twice.
Distinct(h) == \A m, n \in 1 .. Len(h) : h[m] = h[n] => m = n

\* The order while the element at pos rises: only pos may be below its parent,
\* and its sons are not below its parent.
RisingOrder(h, key, pos) ==
  /\ \A n \in 2 .. Len(h) : n # pos => key[h[n \div 2]] <= key[h[n]]
  /\ \A n \in 2 .. Len(h) : n \div 2 = pos /\ pos > 1
                              => key[h[pos \div 2]] <= key[h[n]]

\* The order while the element at pos sinks: only its sons may be below it.
SinkingOrder(h, key, pos) ==
  /\ \A n \in 2 .. Len(h) : n \div 2 # pos => key[h[n \div 2]] <= key[h[n]]
  /\ \A n \in 2 .. Len(h) : n \div 2 = pos /\ pos > 1
                              => key[h[pos \div 2]] <= key[h[n]]

\* A rearrangement of the timers in h.
SameTimers(h, timers) ==
  Len(h) = Len(timers) /\ ToSet(h) = ToSet(timers) /\ Distinct(h)

\* An exchange rearranges.
LEMMA ExchangeRearranges ==
  ASSUME NEW len \in Nat, NEW h \in [1 .. len -> TimerId], Distinct(h),
         NEW i \in 1 .. len, NEW j \in 1 .. len
  PROVE  /\ Exchanged(h, i, j) \in [1 .. len -> TimerId]
         /\ SameTimers(Exchanged(h, i, j), h)
         /\ Len(h) = len
<1> DEFINE e == Exchanged(h, i, j)
<1>1. /\ e \in [1 .. len -> TimerId]
      /\ \A k \in 1 .. len : e[k] = IF k = j THEN h[i] ELSE
                                    IF k = i THEN h[j] ELSE h[k]
  BY DEF Exchanged
<1> HIDE DEF e
<1>2. /\ h \in Seq(TimerId) /\ e \in Seq(TimerId) /\ Len(h) = len /\ Len(e) = len
      /\ DOMAIN h = 1 .. len /\ DOMAIN e = 1 .. len
  BY <1>1
<1>3. Distinct(e)
  BY <1>1, <1>2 DEF Distinct
<1>4. ASSUME NEW x PROVE x \in ToSet(e) <=> x \in ToSet(h)
  <2>1. ASSUME NEW k \in 1 .. len PROVE e[k] \in ToSet(h) /\ h[k] \in ToSet(e)
    BY <1>1, <1>2 DEF ToSet
  <2> QED
    BY <1>2, <2>1 DEF ToSet
<1> QED
  BY <1>1, <1>2, <1>3, <1>4 DEF SameTimers, e

\* A turn of Subir that does nothing leaves an ordered heap.
LEMMA RiseStops ==
  ASSUME NEW len \in Nat, NEW key \in [TimerId -> Nat], NEW s \in Rising(len),
         RisingOrder(s.heap, key, s.pos),
         ~(s.pos > 1 /\ key[s.heap[s.pos \div 2]] > key[s.heap[s.pos]])
  PROVE  HeapBy(s.heap, key)
<1>1. s.heap \in [1 .. len -> TimerId] /\ s.pos \in 1 .. len
  BY DEF Rising
<1>2. Len(s.heap) = len
  BY <1>1
<1>3. ASSUME NEW n \in 2 .. len
      PROVE  key[s.heap[n \div 2]] <= key[s.heap[n]]
  <2>1. n \div 2 \in 1 .. len /\ n \in 1 .. len
    OBVIOUS
  <2>2. key[s.heap[n \div 2]] \in Nat /\ key[s.heap[n]] \in Nat
    BY <1>1, <2>1
  <2>3. CASE n = s.pos
    BY <2>2, <2>3
  <2>4. CASE n # s.pos
    BY <1>2, <2>4 DEF RisingOrder
  <2> QED
    BY <2>3, <2>4
<1> QED
  BY <1>2, <1>3 DEF HeapBy

\* A turn of Subir that exchanges keeps the order around the new position.
LEMMA RiseKeepsOrder ==
  ASSUME NEW len \in Nat, NEW key \in [TimerId -> Nat], NEW s \in Rising(len),
         RisingOrder(s.heap, key, s.pos),
         s.pos > 1, key[s.heap[s.pos \div 2]] > key[s.heap[s.pos]]
  PROVE  RisingOrder(Rise(s, key).heap, key, Rise(s, key).pos)
<1> PICK h, pos, parent : h = s.heap /\ pos = s.pos /\ parent = pos \div 2
  OBVIOUS
<1> DEFINE e == Exchanged(h, parent, pos)
<1>1. /\ h \in [1 .. len -> TimerId] /\ pos \in 1 .. len /\ pos > 1
      /\ parent \in 1 .. len /\ parent < pos /\ parent # pos
      /\ RisingOrder(h, key, pos) /\ key[h[parent]] > key[h[pos]]
  BY DEF Rising
<1>2. Rise(s, key).heap = e /\ Rise(s, key).pos = parent
  BY DEF Rise
<1>3. /\ e \in [1 .. len -> TimerId]
      /\ e[pos] = h[parent] /\ e[parent] = h[pos]
      /\ \A k \in 1 .. len : k # pos /\ k # parent => e[k] = h[k]
  BY <1>1 DEF Exchanged
<1> HIDE DEF e
<1>4. Len(h) = len /\ Len(e) = len
  BY <1>1, <1>3
<1>5. \A k \in 1 .. len : key[h[k]] \in Nat /\ key[e[k]] \in Nat
  BY <1>1, <1>3
<1>6. ASSUME NEW n \in 2 .. len, n # parent
      PROVE  key[e[n \div 2]] <= key[e[n]]
  <2>1. n \in 1 .. len /\ n \div 2 \in 1 .. len /\ n \div 2 < n
    OBVIOUS
  <2>2. CASE n = pos
    <3>1. e[n] = h[parent] /\ e[n \div 2] = h[pos]
      BY <1>3, <2>2
    <3> QED
      BY <1>1, <1>5, <3>1
  <2>3. CASE n # pos /\ n \div 2 = pos
    <3>1. key[h[parent]] <= key[h[n]]
      BY <1>1, <1>4, <2>3 DEF RisingOrder
    <3> QED
      BY <1>1, <1>3, <1>6, <2>1, <2>3, <3>1
  <2>4. CASE n # pos /\ n \div 2 = parent
    <3>1. key[h[parent]] <= key[h[n]]
      BY <1>4, <1>1, <2>4 DEF RisingOrder
    <3>2. e[n] = h[n] /\ e[n \div 2] = h[pos]
      BY <1>1, <1>3, <1>6, <2>1, <2>4
    <3>3. /\ key[h[pos]] \in Nat /\ key[h[parent]] \in Nat /\ key[h[n]] \in Nat
          /\ key[h[pos]] < key[h[parent]]
      BY <1>1, <1>5, <2>1
    <3>4. key[h[pos]] <= key[h[n]]
      BY <3>1, <3>3
    <3> QED
      BY <3>2, <3>4
  <2>5. CASE n # pos /\ n \div 2 # pos /\ n \div 2 # parent
    <3>1. key[h[n \div 2]] <= key[h[n]]
      BY <1>1, <1>4, <2>5 DEF RisingOrder
    <3> QED
      BY <1>3, <1>6, <2>1, <2>5, <3>1
  <2> QED
    BY <2>2, <2>3, <2>4, <2>5
<1>7. ASSUME NEW n \in 2 .. len, n \div 2 = parent, parent > 1
      PROVE  key[e[parent \div 2]] <= key[e[n]]
  <2>1. /\ n \in 1 .. len /\ parent \div 2 \in 1 .. len /\ parent \div 2 < parent
        /\ n # parent /\ parent \in 2 .. len
        /\ parent \div 2 # parent /\ parent \div 2 # pos
    <3>1. parent \in Nat /\ pos \in Nat /\ parent > 1 /\ parent < pos
          /\ parent <= len
      BY <1>1, <1>7
    <3>2. parent \div 2 \in 1 .. parent - 1
      BY <3>1, ParentAndSons
    <3>3. n \in Nat /\ n > 1 /\ n \div 2 \in 1 .. n - 1
      BY ParentAndSons
    <3> QED
      BY <1>7, <3>1, <3>2, <3>3
  <2>2. key[h[parent \div 2]] <= key[h[parent]]
    BY <1>1, <1>4, <2>1 DEF RisingOrder
  <2>3. e[parent \div 2] = h[parent \div 2]
    BY <1>3, <2>1
  <2>4. CASE n = pos
    BY <1>3, <2>2, <2>3, <2>4
  <2>5. CASE n # pos
    <3>1. key[h[parent]] <= key[h[n]]
      BY <1>1, <1>4, <1>7, <2>5 DEF RisingOrder
    <3>2. e[n] = h[n]
      BY <1>3, <2>1, <2>5
    <3>3. /\ key[h[parent \div 2]] \in Nat /\ key[h[parent]] \in Nat
          /\ key[h[n]] \in Nat
      BY <1>1, <1>5, <2>1
    <3> QED
      BY <2>2, <2>3, <3>1, <3>2, <3>3
  <2> QED
    BY <2>4, <2>5
<1> QED
  BY <1>2, <1>4, <1>6, <1>7 DEF RisingOrder

\* A turn of Descer that does nothing leaves an ordered heap.
LEMMA SinkStops ==
  ASSUME NEW len \in Nat, NEW key \in [TimerId -> Nat], NEW s \in Sinking(len),
         SinkingOrder(s.heap, key, s.pos),
         \A n \in 2 .. len :
           n \div 2 = s.pos => key[s.heap[s.pos]] <= key[s.heap[n]]
  PROVE  HeapBy(s.heap, key)
<1>1. Len(s.heap) = len
  BY DEF Sinking
<1>2. ASSUME NEW n \in 2 .. len
      PROVE  key[s.heap[n \div 2]] <= key[s.heap[n]]
  <2>1. CASE n \div 2 = s.pos
    BY <2>1
  <2>2. CASE n \div 2 # s.pos
    BY <1>1, <2>2 DEF SinkingOrder
  <2> QED
    BY <2>1, <2>2
<1> QED
  BY <1>1, <1>2 DEF HeapBy

\* An exchange with a smaller son that is not above the other one keeps the
\* order around the new position.
LEMMA SinkKeepsOrder ==
  ASSUME NEW len \in Nat, NEW key \in [TimerId -> Nat], NEW s \in Sinking(len),
         SinkingOrder(s.heap, key, s.pos),
         NEW son \in 2 .. len, son \div 2 = s.pos,
         key[s.heap[son]] < key[s.heap[s.pos]],
         \A n \in 2 .. len :
           n \div 2 = s.pos => key[s.heap[son]] <= key[s.heap[n]]
  PROVE  SinkingOrder(Exchanged(s.heap, son, s.pos), key, son)
<1> PICK h, pos : h = s.heap /\ pos = s.pos
  OBVIOUS
<1> DEFINE e == Exchanged(h, son, pos)
<1>1. /\ h \in [1 .. len -> TimerId] /\ pos \in 1 .. len /\ son \in 1 .. len
      /\ son > 1 /\ pos < son /\ pos # son /\ son \div 2 = pos
      /\ SinkingOrder(h, key, pos) /\ key[h[son]] < key[h[pos]]
  BY DEF Sinking
<1>2. \A n \in 2 .. len : n \div 2 = pos => key[h[son]] <= key[h[n]]
  OBVIOUS
<1>3. /\ e \in [1 .. len -> TimerId]
      /\ e[pos] = h[son] /\ e[son] = h[pos]
      /\ \A k \in 1 .. len : k # pos /\ k # son => e[k] = h[k]
  BY <1>1 DEF Exchanged
<1> HIDE DEF e
<1>4. Len(h) = len /\ Len(e) = len
  BY <1>1, <1>3
<1>5. \A k \in 1 .. len : key[h[k]] \in Nat /\ key[e[k]] \in Nat
  BY <1>1, <1>3
<1>6. ASSUME NEW n \in 2 .. len, n \div 2 # son
      PROVE  key[e[n \div 2]] <= key[e[n]]
  <2>1. n \in 1 .. len /\ n \div 2 \in 1 .. len /\ n \div 2 < n /\ n \div 2 # n
    OBVIOUS
  <2>2. CASE n = son
    <3>1. e[n] = h[pos] /\ e[n \div 2] = h[son]
      BY <1>1, <1>3, <2>2
    <3>2. key[h[son]] <= key[h[pos]]
      BY <1>1, <1>5
    <3> QED
      BY <3>1, <3>2
  <2>3. CASE n # son /\ n \div 2 = pos
    <3>1. e[n] = h[n] /\ e[n \div 2] = h[son]
      BY <1>3, <2>1, <2>3
    <3>2. key[h[son]] <= key[h[n]]
      BY <1>2, <2>3
    <3> QED
      BY <3>1, <3>2
  <2>4. CASE n = pos
    <3>1. pos > 1 /\ pos \div 2 # pos
      BY <2>1, <2>4
    <3>2. key[h[pos \div 2]] <= key[h[son]]
      BY <1>1, <1>4, <3>1 DEF SinkingOrder
    <3>3. e[n] = h[son] /\ e[n \div 2] = h[pos \div 2]
      BY <1>3, <1>6, <2>1, <2>4
    <3> QED
      BY <3>2, <3>3
  <2>5. CASE n # son /\ n # pos /\ n \div 2 # pos
    <3>1. key[h[n \div 2]] <= key[h[n]]
      BY <1>1, <1>4, <2>5 DEF SinkingOrder
    <3> QED
      BY <1>3, <1>6, <2>1, <2>5, <3>1
  <2> QED
    BY <2>2, <2>3, <2>4, <2>5
<1>7. ASSUME NEW n \in 2 .. len, n \div 2 = son, son > 1
      PROVE  key[e[son \div 2]] <= key[e[n]]
  <2>1. n \in 1 .. len /\ n # son /\ n # pos /\ n \div 2 # pos
    BY <1>1, <1>7
  <2>2. key[h[son]] <= key[h[n]]
    BY <1>1, <1>4, <1>7, <2>1 DEF SinkingOrder
  <2>3. e[son \div 2] = h[son] /\ e[n] = h[n]
    BY <1>1, <1>3, <2>1
  <2> QED
    BY <2>2, <2>3
<1>8. SinkingOrder(e, key, son)
  BY <1>4, <1>6, <1>7 DEF SinkingOrder
<1> QED
  BY <1>8 DEF e

\* Subir arranges the same timers in heap order, when only the element at i may
\* be below its parent.
LEMMA SubirOrders ==
  ASSUME NEW timers \in Seq(TimerId), NEW key \in [TimerId -> Nat],
         NEW i \in 1 .. Len(timers), Distinct(timers),
         RisingOrder(timers, key, i)
  PROVE  /\ Subir(timers, key, i) \in Seq(TimerId)
         /\ SameTimers(Subir(timers, key, i), timers)
         /\ HeapBy(Subir(timers, key, i), key)
<1> PICK len \in Nat : len = Len(timers)
  OBVIOUS
<1>1. PICK g \in [0 .. len -> Rising(len)] :
             /\ g[0] = [heap |-> timers, pos |-> i]
             /\ \A k \in 1 .. len : g[k] = Rise(g[k - 1], key)
             /\ Subir(timers, key, i) = g[len].heap
  <2>1. PICK h : SubirBy(h, timers, key, i, len)
    BY SubirTurns
  <2> QED
    BY <2>1, Zenon DEF SubirBy
<1> DEFINE Good == {k \in 0 .. len :
             /\ SameTimers(g[k].heap, timers)
             /\ RisingOrder(g[k].heap, key, g[k].pos)
             /\ HeapBy(g[k].heap, key) \/ g[k].pos + k <= i}
<1>2. 0 \in Good
  BY <1>1 DEF SameTimers
<1>3. ASSUME NEW k \in 0 .. len - 1, k \in Good
      PROVE  k + 1 \in Good
  <2>1. k \in 0 .. len /\ k + 1 \in 1 .. len /\ k + 1 \in 0 .. len
    OBVIOUS
  <2> PICK s : s = g[k]
    OBVIOUS
  <2>2. /\ s \in Rising(len) /\ s.heap \in [1 .. len -> TimerId]
        /\ s.pos \in 1 .. len
    BY <2>1 DEF Rising
  <2>3. /\ SameTimers(s.heap, timers)
        /\ RisingOrder(s.heap, key, s.pos)
        /\ HeapBy(s.heap, key) \/ s.pos + k <= i
    BY <1>3
  <2>4. g[k + 1] = Rise(s, key)
    BY <1>1, <2>1
  <2>5. CASE ~(s.pos > 1 /\ key[s.heap[s.pos \div 2]] > key[s.heap[s.pos]])
    <3>1. Rise(s, key) = s
      BY <2>5 DEF Rise
    <3>2. HeapBy(s.heap, key)
      BY <2>2, <2>3, <2>5, RiseStops
    <3> QED
      BY <2>1, <2>3, <2>4, <3>1, <3>2
  <2>6. CASE s.pos > 1 /\ key[s.heap[s.pos \div 2]] > key[s.heap[s.pos]]
    <3>1. /\ Rise(s, key).heap = Exchanged(s.heap, s.pos \div 2, s.pos)
          /\ Rise(s, key).pos = s.pos \div 2
      BY <2>6 DEF Rise
    <3>2. RisingOrder(Rise(s, key).heap, key, Rise(s, key).pos)
      BY <2>2, <2>3, <2>6, RiseKeepsOrder
    <3>3. s.pos \div 2 \in 1 .. len /\ s.pos \div 2 < s.pos
      <4> PICK pos \in 1 .. len : pos = s.pos
        BY <2>2
      <4>1. pos \in Nat /\ pos > 1
        BY <2>6
      <4>2. pos \div 2 \in 1 .. pos - 1
        BY <4>1, ParentAndSons
      <4>3. pos \div 2 \in 1 .. len /\ pos \div 2 < pos
        BY <4>2, SMTT(30)
      <4> QED
        BY <4>3
    <3>4. SameTimers(Exchanged(s.heap, s.pos \div 2, s.pos), s.heap)
      <4>1. Distinct(s.heap)
        BY <2>3 DEF SameTimers
      <4> QED
        BY <2>2, <3>3, <4>1, ExchangeRearranges
    <3>5. SameTimers(Rise(s, key).heap, timers)
      BY <2>3, <3>1, <3>4 DEF SameTimers
    <3>6. ~HeapBy(s.heap, key)
      <4>1. Len(s.heap) = len /\ s.pos \in 2 .. len
        BY <2>2, <2>6
      <4>2. key[s.heap[s.pos \div 2]] \in Nat /\ key[s.heap[s.pos]] \in Nat
        BY <2>2, <3>3
      <4>3. ~(key[s.heap[s.pos \div 2]] <= key[s.heap[s.pos]])
        BY <2>6, <4>2
      <4> QED
        BY <4>1, <4>3 DEF HeapBy
    <3>7. Rise(s, key).pos + (k + 1) <= i
      <4> PICK pos, half : pos = s.pos /\ half = s.pos \div 2
        OBVIOUS
      <4>1. /\ pos \in Nat /\ half \in Nat /\ half < pos /\ pos + k <= i
            /\ k \in Nat /\ i \in Nat
        BY <2>2, <2>3, <3>3, <3>6, SMTT(30)
      <4>2. half + (k + 1) <= i
        BY <4>1, SMTT(30)
      <4> QED
        BY <3>1, <4>2
    <3> QED
      BY <2>1, <2>4, <3>2, <3>5, <3>7
  <2> QED
    BY <2>5, <2>6
<1>4. \A k \in 0 .. len : k \in Good
  <2>1. \A k \in 0 .. len - 1 : k \in Good => k + 1 \in Good
    BY <1>3
  <2> HIDE DEF Good
  <2> QED
    BY <1>2, <2>1, InductionUpTo
<1>5. len \in Good /\ g[len] \in Rising(len)
  BY <1>4
<1>6. g[len].heap \in Seq(TimerId) /\ g[len].pos \in 1 .. len
  <2>1. g[len].heap \in [1 .. len -> TimerId] /\ g[len].pos \in 1 .. len
    BY <1>5 DEF Rising
  <2> PICK h \in [1 .. len -> TimerId] : h = g[len].heap
    BY <2>1
  <2>2. h \in Seq(TimerId)
    BY FunctionIsSequence, Zenon
  <2> QED
    BY <2>1, <2>2
<1>7. /\ SameTimers(g[len].heap, timers)
      /\ HeapBy(g[len].heap, key) \/ g[len].pos + len <= i
  BY <1>5
<1>8. ~(g[len].pos + len <= i)
  BY <1>6
<1> QED
  BY <1>1, <1>6, <1>7, <1>8

\* The son Descer looks at is the smaller one.
LesserSon(h, key, pos, len) ==
  IF 2 * pos + 1 <= len /\ key[h[2 * pos + 1]] < key[h[2 * pos]]
  THEN 2 * pos + 1 ELSE 2 * pos

LEMMA LesserSonIsLeast ==
  ASSUME NEW len \in Nat, NEW key \in [TimerId -> Nat],
         NEW h \in [1 .. len -> TimerId], NEW pos \in Nat \ {0},
         NEW n \in 2 .. len, n \div 2 = pos
  PROVE  /\ LesserSon(h, key, pos, len) <= len
         /\ key[h[LesserSon(h, key, pos, len)]] <= key[h[n]]
<1> PICK a, b : a = 2 * pos /\ b = 2 * pos + 1
  OBVIOUS
<1>1. n = a \/ n = b
  <2>1. n \in Nat
    OBVIOUS
  <2> QED
    BY <2>1, ParentAndSons
<1>2. a \in 1 .. len /\ a < b /\ b \in Nat
  BY <1>1
<1>3. \A m \in 1 .. len : key[h[m]] \in Nat
  OBVIOUS
<1>4. LesserSon(h, key, pos, len) = IF b <= len /\ key[h[b]] < key[h[a]]
                                   THEN b ELSE a
  BY DEF LesserSon
<1>5. CASE b <= len /\ key[h[b]] < key[h[a]]
  <2>1. LesserSon(h, key, pos, len) = b /\ b \in 1 .. len
    BY <1>2, <1>4, <1>5
  <2>2. key[h[b]] \in Nat /\ key[h[a]] \in Nat
    BY <1>2, <1>3, <2>1
  <2>3. key[h[b]] <= key[h[a]] /\ key[h[b]] <= key[h[b]]
    BY <1>5, <2>2
  <2> QED
    BY <1>1, <1>5, <2>1, <2>3
<1>6. CASE ~(b <= len /\ key[h[b]] < key[h[a]])
  <2>1. LesserSon(h, key, pos, len) = a
    BY <1>4, <1>6
  <2>2. CASE n = a
    BY <1>2, <1>3, <2>1, <2>2
  <2>3. CASE n = b
    <3>1. b \in 1 .. len /\ b <= len
      BY <1>2, <2>3
    <3>2. key[h[b]] \in Nat /\ key[h[a]] \in Nat
      BY <1>2, <1>3, <3>1
    <3>3. key[h[a]] <= key[h[b]]
      BY <1>6, <3>1, <3>2
    <3> QED
      BY <1>2, <2>1, <2>3, <3>3
  <2> QED
    BY <1>1, <2>2, <2>3
<1> QED
  BY <1>5, <1>6

\* It is a son.
LEMMA LesserSonIsSon ==
  ASSUME NEW h, NEW key, NEW pos \in Nat \ {0}, NEW len
  PROVE  /\ LesserSon(h, key, pos, len) \in Nat
         /\ LesserSon(h, key, pos, len) \div 2 = pos
         /\ LesserSon(h, key, pos, len) > pos
         /\ LesserSon(h, key, pos, len) >= 2
<1>1. LesserSon(h, key, pos, len) \in {2 * pos, 2 * pos + 1}
  BY DEF LesserSon
<1> QED
  BY <1>1

\* Descer arranges the same timers in heap order, when only the sons of the
\* root may be below it.
LEMMA DescerOrders ==
  ASSUME NEW timers \in Seq(TimerId), NEW key \in [TimerId -> Nat],
         Distinct(timers), SinkingOrder(timers, key, 1)
  PROVE  /\ Descer(timers, key) \in Seq(TimerId)
         /\ SameTimers(Descer(timers, key), timers)
         /\ HeapBy(Descer(timers, key), key)
<1> PICK len \in Nat : len = Len(timers)
  OBVIOUS
<1>1. PICK g \in [0 .. len -> Sinking(len)] :
             /\ g[0] = [heap |-> timers, pos |-> 1]
             /\ \A k \in 1 .. len : g[k] = Sink(g[k - 1], key, len)
             /\ Descer(timers, key) = g[len].heap
  <2>1. PICK h : DescerBy(h, timers, key, len)
    BY DescerTurns
  <2> QED
    BY <2>1, Zenon DEF DescerBy
<1> DEFINE Good == {k \in 0 .. len :
             /\ SameTimers(g[k].heap, timers)
             /\ SinkingOrder(g[k].heap, key, g[k].pos)
             /\ HeapBy(g[k].heap, key) \/ g[k].pos > k}
<1>2. 0 \in Good
  BY <1>1 DEF SameTimers
<1>3. ASSUME NEW k \in 0 .. len - 1, k \in Good
      PROVE  k + 1 \in Good
  <2>1. k \in 0 .. len /\ k + 1 \in 1 .. len /\ k + 1 \in 0 .. len
    OBVIOUS
  <2> PICK s : s = g[k]
    OBVIOUS
  <2>2. /\ s \in Sinking(len) /\ s.heap \in [1 .. len -> TimerId]
        /\ s.pos \in Nat \ {0} /\ Len(s.heap) = len
    <3>1. s.heap \in [1 .. len -> TimerId] /\ s.pos \in Nat \ {0}
          /\ s \in Sinking(len)
      BY <2>1 DEF Sinking
    <3>2. Len(s.heap) = len
      BY <3>1, FunctionIsSequence, Zenon
    <3> QED
      BY <3>1, <3>2
  <2>3. /\ SameTimers(s.heap, timers)
        /\ SinkingOrder(s.heap, key, s.pos)
        /\ HeapBy(s.heap, key) \/ s.pos > k
    BY <1>3
  <2>4. g[k + 1] = Sink(s, key, len)
    BY <1>1, <2>1
  <2> DEFINE son == LesserSon(s.heap, key, s.pos, len)
  <2>5. /\ son \in Nat /\ son \div 2 = s.pos /\ son > s.pos /\ son >= 2
        /\ son <= len => s.pos \in 1 .. len /\ son \in 2 .. len
    <3>1. son \in Nat /\ son \div 2 = s.pos /\ son > s.pos /\ son >= 2
      BY <2>2, LesserSonIsSon
    <3> HIDE DEF son
    <3> QED
      BY <2>2, <3>1
  <2>6. ASSUME NEW n \in 2 .. len, n \div 2 = s.pos
        PROVE  son <= len /\ key[s.heap[son]] <= key[s.heap[n]]
    BY <2>2, <2>6, LesserSonIsLeast
  <2>8. Sink(s, key, len) =
          IF son <= len /\ key[s.heap[son]] < key[s.heap[s.pos]]
          THEN [heap |-> Exchanged(s.heap, son, s.pos), pos |-> son]
          ELSE s
    BY DEF Sink, LesserSon
  <2> HIDE DEF son
  <2>9. CASE ~(son <= len /\ key[s.heap[son]] < key[s.heap[s.pos]])
    <3>1. Sink(s, key, len) = s
      BY <2>8, <2>9
    <3>2. ASSUME NEW n \in 2 .. len, n \div 2 = s.pos
          PROVE  key[s.heap[s.pos]] <= key[s.heap[n]]
      <4>1. son <= len /\ s.pos \in 1 .. len /\ son \in 1 .. len /\ n \in 1 .. len
        BY <2>5, <2>6, <3>2
      <4>2. /\ key[s.heap[s.pos]] \in Nat /\ key[s.heap[son]] \in Nat
            /\ key[s.heap[n]] \in Nat
        BY <2>2, <4>1
      <4>3. key[s.heap[son]] <= key[s.heap[n]]
        BY <2>6, <3>2, <4>1
      <4>4. ~(key[s.heap[son]] < key[s.heap[s.pos]])
        BY <2>9, <4>1
      <4>5. key[s.heap[s.pos]] <= key[s.heap[son]]
        BY <4>2, <4>4
      <4> QED
        BY <4>2, <4>3, <4>5, Transitive, Zenon
    <3>3. HeapBy(s.heap, key)
      BY <2>2, <2>3, <3>2, SinkStops
    <3> QED
      BY <2>1, <2>3, <2>4, <3>1, <3>3
  <2>10. CASE son <= len /\ key[s.heap[son]] < key[s.heap[s.pos]]
    <3>1. /\ Sink(s, key, len).heap = Exchanged(s.heap, son, s.pos)
          /\ Sink(s, key, len).pos = son
      BY <2>8, <2>10
    <3>2. son \in 2 .. len /\ s.pos \in 1 .. len /\ son \in 1 .. len
      BY <2>5, <2>10
    <3>3. SinkingOrder(Exchanged(s.heap, son, s.pos), key, son)
      BY <2>2, <2>3, <2>5, <2>6, <2>10, <3>2, SinkKeepsOrder
    <3>4. SameTimers(Exchanged(s.heap, son, s.pos), s.heap)
      <4>1. Distinct(s.heap)
        BY <2>3 DEF SameTimers
      <4> QED
        BY <2>2, <3>2, <4>1, ExchangeRearranges
    <3>5. SameTimers(Exchanged(s.heap, son, s.pos), timers)
      BY <2>3, <3>4 DEF SameTimers
    <3>6. ~HeapBy(s.heap, key)
      <4>1. key[s.heap[s.pos]] \in Nat /\ key[s.heap[son]] \in Nat
        BY <2>2, <3>2
      <4>2. ~(key[s.heap[s.pos]] <= key[s.heap[son]])
        BY <2>10, <4>1
      <4> QED
        BY <2>2, <2>5, <3>2, <4>2 DEF HeapBy
    <3>7. son > k + 1
      BY <2>2, <2>3, <2>5, <3>6
    <3> QED
      BY <2>1, <2>4, <3>1, <3>3, <3>5, <3>7
  <2> QED
    BY <2>9, <2>10
<1>4. \A k \in 0 .. len : k \in Good
  <2>1. \A k \in 0 .. len - 1 : k \in Good => k + 1 \in Good
    BY <1>3
  <2> HIDE DEF Good
  <2> QED
    BY <1>2, <2>1, InductionUpTo
<1>5. len \in Good /\ g[len] \in Sinking(len)
  BY <1>4
<1>6. /\ g[len].heap \in Seq(TimerId) /\ g[len].pos \in Nat \ {0}
      /\ Len(g[len].heap) = len
  <2>1. g[len].heap \in [1 .. len -> TimerId] /\ g[len].pos \in Nat \ {0}
    BY <1>5 DEF Sinking
  <2> PICK h \in [1 .. len -> TimerId] : h = g[len].heap
    BY <2>1
  <2>2. h \in Seq(TimerId) /\ Len(h) = len
    BY FunctionIsSequence, Zenon
  <2> QED
    BY <2>1, <2>2
<1>7. HeapBy(g[len].heap, key)
  <2>1. CASE g[len].pos > len
    <3>1. ASSUME NEW n \in 2 .. len PROVE n \div 2 # g[len].pos
      <4>1. n \div 2 \in 1 .. n - 1
        BY ParentAndSons
      <4> QED
        BY <1>6, <2>1, <4>1
    <3>2. SinkingOrder(g[len].heap, key, g[len].pos)
      BY <1>5
    <3> QED
      BY <1>6, <3>1, <3>2 DEF SinkingOrder, HeapBy
  <2> QED
    BY <1>5, <1>6, <2>1
<1>8. SameTimers(g[len].heap, timers)
  BY <1>5
<1> QED
  BY <1>1, <1>6, <1>7, <1>8

-----------------------------------------------------------------------------
(* The heaps of the timer module *)

\* h is a heap, ordered by key, of the timers in A.
HeapOf(h, key, A) ==
  h \in Seq(TimerId) /\ Distinct(h) /\ ToSet(h) = A /\ HeapBy(h, key)

\* The order depends on the keys of the timers in the heap only.
LEMMA HeapKeyChange ==
  ASSUME NEW h, NEW A, NEW key \in [TimerId -> Nat],
         NEW newKey \in [TimerId -> Nat], HeapOf(h, key, A),
         \A i \in A : newKey[i] = key[i]
  PROVE  HeapOf(h, newKey, A)
<1>1. /\ h \in Seq(TimerId) /\ Distinct(h) /\ ToSet(h) = A
      /\ Len(h) \in Nat /\ HeapBy(h, key)
  BY DEF HeapOf
<1>2. \A n \in 1 .. Len(h) : newKey[h[n]] = key[h[n]]
  BY <1>1 DEF ToSet
<1>3. \A n \in 2 .. Len(h) : n \in 1 .. Len(h) /\ n \div 2 \in 1 .. Len(h)
  BY <1>1
<1>4. HeapBy(h, newKey)
  BY <1>1, <1>2, <1>3 DEF HeapBy
<1> QED
  BY <1>1, <1>4 DEF HeapOf

\* The root is the least element.
LEMMA RootIsLeast ==
  ASSUME NEW h, NEW A, NEW key \in [TimerId -> Nat], HeapOf(h, key, A)
  PROVE  /\ A \subseteq TimerId
         /\ h = <<>> <=> A = {}
         /\ h # <<>> => h[1] \in A /\ \A j \in A : key[h[1]] <= key[j]
<1> PICK len \in Nat : len = Len(h)
  BY DEF HeapOf
<1>1. /\ h \in Seq(TimerId) /\ Distinct(h) /\ ToSet(h) = A /\ HeapBy(h, key)
      /\ DOMAIN h = 1 .. len
  BY DEF HeapOf
<1>2. A \subseteq TimerId /\ (h = <<>> <=> A = {})
  <2>1. A = {h[k] : k \in 1 .. len}
    BY <1>1 DEF ToSet
  <2>2. h = <<>> <=> len = 0
    BY <1>1
  <2>3. len # 0 => 1 \in 1 .. len
    OBVIOUS
  <2>4. \A k \in 1 .. len : h[k] \in TimerId
    BY <1>1
  <2>5. A \subseteq TimerId
    BY <2>1, <2>4
  <2>6. len # 0 => A # {}
    BY <2>1, <2>3
  <2>7. len = 0 => A = {}
    BY <2>1
  <2> QED
    BY <2>2, <2>5, <2>6, <2>7
<1>3. ASSUME h # <<>>
      PROVE  h[1] \in A /\ \A j \in A : key[h[1]] <= key[j]
  <2>1. 1 \in 1 .. len /\ \A m \in 1 .. len : h[m] \in TimerId /\ key[h[m]] \in Nat
    BY <1>1, <1>3
  <2> DEFINE Good == {k \in 0 .. len :
                        \A m \in 1 .. k : key[h[1]] <= key[h[m]]}
  <2>2. 0 \in Good
    OBVIOUS
  <2>3. ASSUME NEW k \in 0 .. len - 1, k \in Good PROVE k + 1 \in Good
    <3>1. k + 1 \in 1 .. len /\ k + 1 \in 0 .. len
      OBVIOUS
    <3>2. ASSUME NEW m \in 1 .. k + 1 PROVE key[h[1]] <= key[h[m]]
      <4>1. CASE m \in 1 .. k
        BY <2>3, <4>1
      <4>2. CASE m = 1
        BY <2>1, <4>2
      <4>3. CASE m = k + 1 /\ m # 1
        <5>1. m \in 2 .. len /\ m \in 1 .. len /\ m \in Nat /\ m > 1
          BY <3>1, <4>3
        <5>2. m \div 2 \in 1 .. m - 1
          BY <5>1, ParentAndSons
        <5>3. m \div 2 \in 1 .. k /\ m \div 2 \in 1 .. len
          BY <4>3, <5>1, <5>2
        <5>4. key[h[1]] <= key[h[m \div 2]]
          BY <2>3, <5>3
        <5>5. key[h[m \div 2]] <= key[h[m]]
          BY <1>1, <5>1 DEF HeapBy
        <5>6. key[h[1]] \in Nat /\ key[h[m \div 2]] \in Nat /\ key[h[m]] \in Nat
          BY <2>1, <5>1, <5>3
        <5> QED
          BY <5>4, <5>5, <5>6
      <4> QED
        BY <4>1, <4>2, <4>3
    <3> QED
      BY <3>1, <3>2
  <2>4. \A k \in 0 .. len : k \in Good
    <3>1. \A k \in 0 .. len - 1 : k \in Good => k + 1 \in Good
      BY <2>3
    <3> HIDE DEF Good
    <3> QED
      BY <2>2, <3>1, InductionUpTo
  <2>5. \A m \in 1 .. len : key[h[1]] <= key[h[m]]
    <3>1. len \in Good
      BY <2>4
    <3> QED
      BY <3>1
  <2> QED
    BY <1>1, <2>1, <2>5 DEF ToSet
<1> QED
  BY <1>2, <1>3

\* SameTimers and order give a heap of the same timers.
LEMMA SameHeap ==
  ASSUME NEW h \in Seq(TimerId), NEW s, NEW key,
         SameTimers(h, s), HeapBy(h, key)
  PROVE  HeapOf(h, key, ToSet(s))
BY DEF HeapOf, SameTimers

\* Insertion adds the timer.
LEMMA InsertedHeap ==
  ASSUME NEW h, NEW A, NEW key \in [TimerId -> Nat], HeapOf(h, key, A),
         NEW i \in TimerId, i \notin A
  PROVE  HeapOf(Inserted(h, key, i), key, A \cup {i})
<1> PICK len \in Nat : len = Len(h)
  BY DEF HeapOf
<1>1. /\ h \in Seq(TimerId) /\ Distinct(h) /\ ToSet(h) = A /\ HeapBy(h, key)
      /\ DOMAIN h = 1 .. len
  BY DEF HeapOf
<1> DEFINE e == Append(h, i)
<1>2. /\ e \in Seq(TimerId) /\ Len(e) = len + 1 /\ DOMAIN e = 1 .. len + 1
      /\ e[len + 1] = i
      /\ \A k \in 1 .. len : e[k] = h[k] /\ h[k] \in A
  BY <1>1 DEF ToSet
<1> HIDE DEF e
<1>3. Distinct(e)
  <2>1. \A k \in 1 .. len : e[k] = h[k] /\ h[k] # i
    BY <1>2
  <2>2. ASSUME NEW m \in 1 .. len + 1, NEW n \in 1 .. len + 1, e[m] = e[n]
        PROVE  m = n
    <3>1. /\ m \in 1 .. len \/ m = len + 1
          /\ n \in 1 .. len \/ n = len + 1
      OBVIOUS
    <3>2. CASE m \in 1 .. len /\ n \in 1 .. len
      BY <1>1, <2>1, <2>2, <3>2 DEF Distinct
    <3>3. CASE m = len + 1 \/ n = len + 1
      BY <1>2, <2>1, <2>2, <3>1, <3>3
    <3> QED
      BY <3>1, <3>2, <3>3
  <2> QED
    BY <1>2, <2>2 DEF Distinct
<1>4. ToSet(e) = A \cup {i}
  <2>1. ASSUME NEW x \in ToSet(e) PROVE x \in A \cup {i}
    <3>1. PICK k \in 1 .. len + 1 : x = e[k]
      BY <1>2 DEF ToSet
    <3>2. k \in 1 .. len \/ k = len + 1
      OBVIOUS
    <3> QED
      BY <1>2, <3>1, <3>2
  <2>2. ASSUME NEW x \in A PROVE x \in ToSet(e)
    <3>1. PICK k \in 1 .. len : x = h[k]
      BY <1>1 DEF ToSet
    <3>2. k \in 1 .. len + 1
      OBVIOUS
    <3> QED
      BY <1>2, <3>1, <3>2 DEF ToSet
  <2>3. i \in ToSet(e)
    <3>1. len + 1 \in 1 .. len + 1
      OBVIOUS
    <3> QED
      BY <1>2, <3>1 DEF ToSet
  <2> QED
    BY <2>1, <2>2, <2>3
<1>5. RisingOrder(e, key, len + 1)
  <2>1. ASSUME NEW n \in 2 .. len + 1, n # len + 1
        PROVE  key[e[n \div 2]] <= key[e[n]]
    <3>1. n \in Nat /\ n > 1 /\ n \in 1 .. len /\ n \in 2 .. len
      BY <2>1
    <3>2. n \div 2 \in 1 .. n - 1
      BY <3>1, ParentAndSons
    <3>3. n \div 2 \in 1 .. len
      BY <3>1, <3>2
    <3> QED
      BY <1>1, <1>2, <3>1, <3>3 DEF HeapBy
  <2>2. ASSUME NEW n \in 2 .. len + 1 PROVE n \div 2 # len + 1
    <3>1. n \in Nat /\ n > 1
      OBVIOUS
    <3>2. n \div 2 \in 1 .. n - 1
      BY <3>1, ParentAndSons
    <3> QED
      BY <3>1, <3>2
  <2> QED
    BY <1>2, <2>1, <2>2 DEF RisingOrder
<1>6. /\ Subir(e, key, len + 1) \in Seq(TimerId)
      /\ SameTimers(Subir(e, key, len + 1), e)
      /\ HeapBy(Subir(e, key, len + 1), key)
  <2>1. len + 1 \in 1 .. Len(e)
    BY <1>2
  <2> QED
    BY <1>2, <1>3, <1>5, <2>1, SubirOrders
<1>7. Inserted(h, key, i) = Subir(e, key, len + 1)
  BY DEF Inserted, e
<1> QED
  BY <1>4, <1>6, <1>7, SameHeap

\* With a new key of its root only, a heap is in order but for the sons of the
\* root: Descer restores the order.
LEMMA RootSinks ==
  ASSUME NEW h, NEW A, NEW key \in [TimerId -> Nat],
         NEW newKey \in [TimerId -> Nat], HeapOf(h, key, A), h # <<>>,
         \A i \in A \ {h[1]} : newKey[i] = key[i]
  PROVE  HeapOf(Descer(h, newKey), newKey, A)
<1> PICK len \in Nat : len = Len(h)
  BY DEF HeapOf
<1>1. /\ h \in Seq(TimerId) /\ Distinct(h) /\ ToSet(h) = A /\ HeapBy(h, key)
      /\ DOMAIN h = 1 .. len
  BY DEF HeapOf
<1>2. ASSUME NEW k \in 2 .. len PROVE newKey[h[k]] = key[h[k]]
  <2>1. h[k] \in A /\ h[k] # h[1]
    <3>1. k \in 1 .. len /\ 1 \in 1 .. len /\ k # 1
      OBVIOUS
    <3> QED
      BY <1>1, <3>1 DEF ToSet, Distinct
  <2> QED
    BY <2>1
<1>3. SinkingOrder(h, newKey, 1)
  <2>1. ASSUME NEW n \in 2 .. len, n \div 2 # 1
        PROVE  newKey[h[n \div 2]] <= newKey[h[n]]
    <3>1. n \div 2 \in 1 .. n - 1
      BY ParentAndSons
    <3>2. n \div 2 \in 2 .. len
      BY <2>1, <3>1
    <3> QED
      BY <1>1, <1>2, <3>2 DEF HeapBy
  <2> QED
    BY <2>1 DEF SinkingOrder
<1> QED
  BY <1>1, <1>3, DescerOrders, SameHeap

\* The last element takes the place of the root.
LEMMA RootReplaced ==
  ASSUME NEW len \in Nat, NEW h \in Seq(TimerId), Len(h) = len, len >= 1
  PROVE  /\ Front([h EXCEPT ![1] = Last(h)]) \in Seq(TimerId)
         /\ Len(Front([h EXCEPT ![1] = Last(h)])) = len - 1
         /\ \A k \in 1 .. len - 1 :
              Front([h EXCEPT ![1] = Last(h)])[k] = IF k = 1 THEN h[len] ELSE h[k]
<1> DEFINE g == [h EXCEPT ![1] = Last(h)]
<1>1. /\ g \in Seq(TimerId) /\ Len(g) = len
      /\ \A k \in 1 .. len : g[k] = IF k = 1 THEN h[len] ELSE h[k]
  BY DEF Last
<1> HIDE DEF g
<1>2. /\ Front(g) \in Seq(TimerId) /\ Len(Front(g)) = len - 1
      /\ \A k \in 1 .. len - 1 : Front(g)[k] = g[k]
  BY <1>1, SMTT(30) DEF Front
<1>3. \A k \in 1 .. len - 1 : k \in 1 .. len
  OBVIOUS
<1> QED
  BY <1>1, <1>2, <1>3 DEF g

\* Removal takes the root away; only its key may have changed.
LEMMA WithoutRootHeap ==
  ASSUME NEW h, NEW A, NEW key \in [TimerId -> Nat],
         NEW newKey \in [TimerId -> Nat], HeapOf(h, key, A), h # <<>>,
         \A i \in A \ {h[1]} : newKey[i] = key[i]
  PROVE  HeapOf(WithoutRoot(h, newKey), newKey, A \ {h[1]})
<1> PICK len \in Nat : len = Len(h)
  BY DEF HeapOf
<1>1. /\ h \in Seq(TimerId) /\ Distinct(h) /\ ToSet(h) = A /\ HeapBy(h, key)
      /\ DOMAIN h = 1 .. len /\ len >= 1
  BY DEF HeapOf
<1> DEFINE f == Front([h EXCEPT ![1] = Last(h)])
<1>2. /\ f \in Seq(TimerId) /\ Len(f) = len - 1
      /\ \A k \in 1 .. len - 1 : f[k] = IF k = 1 THEN h[len] ELSE h[k]
  BY <1>1, RootReplaced
<1> HIDE DEF f
<1>3. DOMAIN f = 1 .. len - 1
  BY <1>2
<1>4. Distinct(f)
  <2>1. ASSUME NEW m \in 1 .. len - 1, NEW n \in 1 .. len - 1, f[m] = f[n]
        PROVE  m = n
    <3>1. m \in 1 .. len /\ n \in 1 .. len /\ len \in 1 .. len /\ m # len /\ n # len
      BY <1>1
    <3>2. /\ f[m] = IF m = 1 THEN h[len] ELSE h[m]
          /\ f[n] = IF n = 1 THEN h[len] ELSE h[n]
      BY <1>2
    <3>3. \A a, b \in 1 .. len : h[a] = h[b] => a = b
      BY <1>1 DEF Distinct
    <3>4. CASE m = 1
      BY <2>1, <3>1, <3>2, <3>3, <3>4
    <3>5. CASE m # 1
      BY <2>1, <3>1, <3>2, <3>3, <3>5
    <3> QED
      BY <3>4, <3>5
  <2> QED
    BY <1>2, <2>1 DEF Distinct
<1>5. ToSet(f) = A \ {h[1]}
  <2>1. ASSUME NEW x \in ToSet(f) PROVE x \in A \ {h[1]}
    <3>1. PICK k \in 1 .. len - 1 : x = f[k]
      BY <1>3 DEF ToSet
    <3>2. k \in 1 .. len /\ len \in 1 .. len /\ 1 \in 1 .. len /\ len # 1
      OBVIOUS
    <3>3. CASE k = 1
      <4>1. x = h[len]
        BY <1>2, <3>1, <3>3
      <4> QED
        BY <1>1, <3>2, <4>1 DEF ToSet, Distinct
    <3>4. CASE k # 1
      <4>1. x = h[k]
        BY <1>2, <3>1, <3>4
      <4> QED
        BY <1>1, <3>2, <3>4, <4>1 DEF ToSet, Distinct
    <3> QED
      BY <3>3, <3>4
  <2>2. ASSUME NEW x \in A \ {h[1]} PROVE x \in ToSet(f)
    <3>1. PICK k \in 1 .. len : x = h[k]
      BY <1>1 DEF ToSet
    <3>2. k # 1
      BY <3>1
    <3>3. CASE k = len
      <4>1. 1 \in 1 .. len - 1
        BY <3>2, <3>3
      <4>2. f[1] = x
        BY <1>2, <3>1, <3>3, <4>1
      <4> QED
        BY <1>3, <4>1, <4>2 DEF ToSet
    <3>4. CASE k # len
      <4>1. k \in 1 .. len - 1
        BY <3>4
      <4>2. f[k] = x
        BY <1>2, <3>1, <3>2, <4>1
      <4> QED
        BY <1>3, <4>1, <4>2 DEF ToSet
    <3> QED
      BY <3>3, <3>4
  <2> QED
    BY <2>1, <2>2
<1>6. SinkingOrder(f, newKey, 1)
  <2>1. ASSUME NEW n \in 2 .. len - 1, n \div 2 # 1
        PROVE  newKey[f[n \div 2]] <= newKey[f[n]]
    <3>1. n \div 2 \in 1 .. n - 1
      BY ParentAndSons
    <3>2. /\ n \div 2 \in 1 .. len - 1 /\ n \in 1 .. len - 1 /\ n # 1
          /\ n \div 2 \in 1 .. len /\ n \in 1 .. len /\ 1 \in 1 .. len
          /\ n \in 2 .. len
      BY <2>1, <3>1
    <3>3. f[n] = h[n] /\ f[n \div 2] = h[n \div 2]
      BY <1>2, <2>1, <3>2
    <3>4. h[n] \in A \ {h[1]} /\ h[n \div 2] \in A \ {h[1]}
      BY <1>1, <2>1, <3>2 DEF ToSet, Distinct
    <3>5. key[h[n \div 2]] <= key[h[n]]
      BY <1>1, <3>2 DEF HeapBy
    <3> QED
      BY <3>3, <3>4, <3>5
  <2> QED
    BY <1>2, <2>1 DEF SinkingOrder
<1>7. /\ Descer(f, newKey) \in Seq(TimerId)
      /\ SameTimers(Descer(f, newKey), f)
      /\ HeapBy(Descer(f, newKey), newKey)
  BY <1>2, <1>4, <1>6, DescerOrders
<1>8. WithoutRoot(h, newKey) = Descer(f, newKey)
  BY DEF WithoutRoot, f
<1>9. HeapOf(Descer(f, newKey), newKey, ToSet(f))
  BY <1>7, SameHeap
<1> QED
  BY <1>5, <1>8, <1>9

\* Subir keeps the elements timers, in whatever order and however often they
\* are in the heap.
LEMMA SubirType ==
  ASSUME NEW h \in Seq(TimerId), NEW key \in [TimerId -> Nat],
         NEW i \in 1 .. Len(h)
  PROVE  Subir(h, key, i) \in Seq(TimerId) /\ Len(Subir(h, key, i)) = Len(h)
<1> PICK len \in Nat : len = Len(h)
  OBVIOUS
<1>1. PICK g : SubirBy(g, h, key, i, len)
  BY SubirTurns
<1>2. g[len] \in Rising(len) /\ Subir(h, key, i) = g[len].heap
  <2>1. len \in 0 .. len
    OBVIOUS
  <2> QED
    BY <1>1, <2>1, Zenon DEF SubirBy
<1>3. g[len].heap \in [1 .. len -> TimerId]
  BY <1>2 DEF Rising
<1> QED
  BY <1>2, <1>3, FunctionIsSequence

\* So does Descer.
LEMMA DescerType ==
  ASSUME NEW h \in Seq(TimerId), NEW key \in [TimerId -> Nat]
  PROVE  Descer(h, key) \in Seq(TimerId)
<1> PICK len \in Nat : len = Len(h)
  OBVIOUS
<1>1. PICK g : DescerBy(g, h, key, len)
  BY DescerTurns
<1>2. g[len] \in Sinking(len) /\ Descer(h, key) = g[len].heap
  <2>1. len \in 0 .. len
    OBVIOUS
  <2> QED
    BY <1>1, <2>1, Zenon DEF DescerBy
<1>3. g[len].heap \in [1 .. len -> TimerId]
  BY <1>2 DEF Sinking
<1> QED
  BY <1>2, <1>3, FunctionIsSequence

\* And insertion.
LEMMA InsertedType ==
  ASSUME NEW h \in Seq(TimerId), NEW key \in [TimerId -> Nat],
         NEW i \in TimerId
  PROVE  Inserted(h, key, i) \in Seq(TimerId)
<1>1. /\ Append(h, i) \in Seq(TimerId)
      /\ Len(h) + 1 \in 1 .. Len(Append(h, i))
  OBVIOUS
<1> QED
  BY <1>1, SubirType DEF Inserted

\* And the removal of the root.
LEMMA WithoutRootType ==
  ASSUME NEW h \in Seq(TimerId), NEW key \in [TimerId -> Nat], h # <<>>
  PROVE  WithoutRoot(h, key) \in Seq(TimerId)
<1> PICK len \in Nat : len = Len(h)
  OBVIOUS
<1>1. len >= 1
  OBVIOUS
<1>2. Front([h EXCEPT ![1] = Last(h)]) \in Seq(TimerId)
  BY <1>1, RootReplaced
<1> QED
  BY <1>2, DescerType DEF WithoutRoot

\* OSTimerStop searches for the first entry of a timer that is in the heap.
LEMMA FirstEntry ==
  ASSUME NEW h \in Seq(TimerId), NEW i \in ToSet(h), NEW key
  PROVE  \E pos \in 1 .. Len(h) :
           /\ h[pos] = i
           /\ Stopped(h, key, i) = WithoutRoot(Subir(h, key, pos), key)
<1> PICK len \in Nat : len = Len(h)
  OBVIOUS
<1> DEFINE entries == {n \in 1 .. len : h[n] = i}
           First(n) == h[n] = i /\ \A m \in 1 .. n - 1 : h[m] # i
<1>1. DOMAIN h = 1 .. len
  OBVIOUS
<1>2. entries # {} /\ entries \in SUBSET Nat
  BY <1>1 DEF ToSet
<1>3. PICK n \in entries : \A e \in entries : n <= e
  BY <1>2, LeastExists
<1>4. n \in 1 .. len /\ First(n)
  <2>1. ASSUME NEW m \in 1 .. n - 1, h[m] = i PROVE FALSE
    BY <1>3, <2>1
  <2> QED
    BY <1>3, <2>1
<1> DEFINE pos == CHOOSE k \in DOMAIN h : First(k)
<1>5. pos \in 1 .. len /\ First(pos)
  BY <1>1, <1>4
<1>6. Stopped(h, key, i) = WithoutRoot(Subir(h, key, pos), key)
  BY DEF Stopped
<1> QED
  BY <1>5, <1>6

\* So a stop keeps the elements timers as well.
LEMMA StoppedType ==
  ASSUME NEW h \in Seq(TimerId), NEW key \in [TimerId -> Nat],
         NEW i \in ToSet(h)
  PROVE  Stopped(h, key, i) \in Seq(TimerId)
<1>1. PICK pos \in 1 .. Len(h) :
        Stopped(h, key, i) = WithoutRoot(Subir(h, key, pos), key)
  BY FirstEntry
<1>2. /\ Subir(h, key, pos) \in Seq(TimerId)
      /\ Len(Subir(h, key, pos)) = Len(h) /\ Len(h) >= 1
  BY SubirType
<1>3. Subir(h, key, pos) # <<>>
  BY <1>2
<1> QED
  BY <1>1, <1>2, <1>3, WithoutRootType

\* With key 0 a timer rises above all that have a later timeout, and the root
\* is removed: that timer, or another one with key 0.
LEMMA StoppedHeap ==
  ASSUME NEW h, NEW A, NEW key \in [TimerId -> Nat],
         NEW newKey \in [TimerId -> Nat], HeapOf(h, key, A),
         NEW i \in A, newKey[i] = 0,
         \A j \in A \ {i} : newKey[j] = key[j]
  PROVE  \E x \in A : /\ newKey[x] = 0
                      /\ HeapOf(Stopped(h, newKey, i), newKey, A \ {x})
<1> PICK len \in Nat : len = Len(h)
  BY DEF HeapOf
<1>1. /\ h \in Seq(TimerId) /\ Distinct(h) /\ ToSet(h) = A /\ HeapBy(h, key)
      /\ DOMAIN h = 1 .. len
      /\ \A k \in 1 .. len : h[k] \in A /\ key[h[k]] \in Nat /\ newKey[h[k]] \in Nat
  <2>1. /\ h \in Seq(TimerId) /\ Distinct(h) /\ ToSet(h) = A /\ HeapBy(h, key)
        /\ DOMAIN h = 1 .. len
    BY DEF HeapOf
  <2>2. \A k \in 1 .. len : h[k] \in A /\ h[k] \in TimerId
    BY <2>1 DEF ToSet
  <2> QED
    BY <2>1, <2>2
<1>2. PICK pos \in 1 .. len : /\ h[pos] = i
                              /\ Stopped(h, newKey, i)
                                   = WithoutRoot(Subir(h, newKey, pos), newKey)
  BY <1>1, FirstEntry
<1>3. ASSUME NEW k \in 1 .. len, k # pos PROVE newKey[h[k]] = key[h[k]]
  <2>1. h[k] \in A \ {i}
    BY <1>1, <1>2, <1>3 DEF Distinct
  <2> QED
    BY <2>1
<1>4. newKey[h[pos]] = 0
  BY <1>2
<1>5. RisingOrder(h, newKey, pos)
  <2>1. ASSUME NEW n \in 2 .. len, n # pos
        PROVE  newKey[h[n \div 2]] <= newKey[h[n]]
    <3>1. n \div 2 \in 1 .. n - 1
      BY ParentAndSons
    <3>2. n \div 2 \in 1 .. len /\ n \in 1 .. len
      BY <3>1
    <3>3. CASE n \div 2 = pos
      <4>1. newKey[h[n \div 2]] = 0 /\ newKey[h[n]] \in Nat
        BY <1>1, <1>4, <3>2, <3>3
      <4> QED
        BY <4>1
    <3>4. CASE n \div 2 # pos
      BY <1>1, <1>3, <2>1, <3>2, <3>4 DEF HeapBy
    <3> QED
      BY <3>3, <3>4
  <2>2. ASSUME NEW n \in 2 .. len, n \div 2 = pos, pos > 1
        PROVE  newKey[h[pos \div 2]] <= newKey[h[n]]
    <3>1. n \div 2 \in 1 .. n - 1 /\ pos \div 2 \in 1 .. pos - 1
      BY <1>2, <2>2, ParentAndSons
    <3>2. /\ pos \in 2 .. len /\ pos \in 1 .. len /\ n \in 1 .. len /\ n # pos
          /\ pos \div 2 \in 1 .. len /\ pos \div 2 # pos
      BY <1>2, <2>2, <3>1
    <3>3. key[h[pos \div 2]] <= key[h[pos]] /\ key[h[pos]] <= key[h[n]]
      BY <1>1, <2>2, <3>2 DEF HeapBy
    <3>4. /\ key[h[pos \div 2]] \in Nat /\ key[h[pos]] \in Nat
          /\ key[h[n]] \in Nat
      BY <1>1, <3>2
    <3>5. key[h[pos \div 2]] <= key[h[n]]
      BY <3>3, <3>4
    <3>6. newKey[h[n]] = key[h[n]] /\ newKey[h[pos \div 2]] = key[h[pos \div 2]]
      BY <1>3, <3>2
    <3> QED
      BY <3>5, <3>6
  <2> QED
    BY <2>1, <2>2 DEF RisingOrder
<1> DEFINE s == Subir(h, newKey, pos)
<1>6. HeapOf(s, newKey, A)
  BY <1>1, <1>2, <1>5, SubirOrders, SameHeap
<1> HIDE DEF s
<1>7. /\ s # <<>> /\ s[1] \in A /\ newKey[s[1]] <= newKey[i]
      /\ newKey[s[1]] \in Nat
  <2>1. A # {} /\ A \subseteq TimerId
    BY <1>6, RootIsLeast
  <2> QED
    BY <1>6, <2>1, RootIsLeast
<1>8. HeapOf(WithoutRoot(s, newKey), newKey, A \ {s[1]})
  BY <1>6, <1>7, WithoutRootHeap
<1>9. newKey[s[1]] = 0
  BY <1>7
<1>10. HeapOf(Stopped(h, newKey, i), newKey, A \ {s[1]})
  BY <1>2, <1>8 DEF s
<1> QED
  BY <1>7, <1>9, <1>10

-----------------------------------------------------------------------------
(* The inductive invariant *)

\* No other task is above the timer task.
TimerTaskOnTop ==
  \A t \in Client : InitPriority[t] < InitPriority[TimerTask]

Asleep == TimerTask \in delayList

\* Unless it sleeps, the timer task has the processor.
TimerTaskState ==
  /\ Priority = InitPriority /\ OSBlockedList = PrioRange
  /\ ~Asleep => currentTask = TimerTask /\ ~changeContext
  /\ Asleep => pc = "wake"

\* Both heaps are in order and share their timers; a running timer is in one of
\* them, or was removed in place of another one; p is the root of the current
\* heap while the timer task works.
HeapsInv ==
  /\ HeapOf(current, timeout, ToSet(current))
  /\ HeapOf(future, timeout, ToSet(future))
  /\ ToSet(current) \cap ToSet(future) = {}
  /\ \A i \in ToSet(current) \cup ToSet(future) : state[i] # "NOT_USED"
  /\ \A i \in TimerId : state[i] = "RUNNING" =>
       i \in ToSet(current) \cup ToSet(future) \/ timeout[i] = 0
  /\ pc \in {"drain", "drainCallback", "serve", "callback"} => p = Root(current)

TimerInv ==
  /\ KernelInv /\ SoftTimerTypeOK /\ TimerTaskState
  /\ pc \in {"drainCallback", "callback"} => p # NoTimer
  /\ ~restarted => HeapsInv

\* Facts about the constants.
LEMMA TimerConstants ==
  /\ TimerTask \in Task /\ TimerTask \in Thread /\ Client \subseteq Task
  /\ TimerTask \notin Client
  /\ TICK_COUNT_OVERFLOW \in Nat \ {0} /\ MAX_TIMER \in Nat
  /\ MAX_TIMER = TICK_COUNT_OVERFLOW + 3
  /\ TIMER_MAX_COUNTER \in Nat /\ TIMER_MAX_COUNTER = TICK_COUNT_OVERFLOW - 1
  /\ TimerWait \subseteq Nat /\ \A w \in TimerWait : w <= MAX_TIMER
  /\ Repeat \subseteq Nat /\ \A w \in Repeat : w <= MAX_TIMER
  /\ NoTimer = 0 /\ NoTimer \notin TimerId /\ TimerId \subseteq Nat \ {0}
BY SoftTimerAssumption, ConstantFacts
DEF Client, MAX_TIMER, TIMER_MAX_COUNTER, NoTimer, TimerId

\* What the type invariant says of the variables of the timers.
LEMMA TimerTypes ==
  ASSUME SoftTimerTypeOK
  PROVE  /\ timeout \in [TimerId -> Nat]
         /\ \A i \in TimerId : timeout[i] <= MAX_TIMER
         /\ OSTickCounter \in Nat /\ OSTickCounter < TICK_COUNT_OVERFLOW
         /\ OSTickCounter <= TIMER_MAX_COUNTER
BY TimerConstants DEF SoftTimerTypeOK, TypeOK

\* The kernel does not mind a new TimeToWait.
LEMMA TimeToWaitKeepsInv ==
  ASSUME KernelInv, TimeToWait' \in [Thread -> 0 .. MAX_TIMER],
         UNCHANGED <<PriorityVector, Priority, OSReadyList, OSBlockedList,
                     delayList, OSTickCounter, currentTask, changeContext, left>>
  PROVE  KernelInv'
<1>1. PrioritiesOwned' /\ RunningIsRunnable' /\ NoTaskLost'
  BY DEF KernelInv, PrioritiesOwned, RunningIsRunnable, NoTaskLost
<1>2. TypeOK'
  BY DEF KernelInv, TypeOK
<1> QED
  BY <1>1, <1>2 DEF KernelInv

\* The timer task goes to sleep as OSDelayTask does.
LEMMA SleepKeepsInv ==
  ASSUME KernelInv, TimerTaskSleeps
  PROVE  KernelInv'
<1> USE TimerConstants, ConstantFacts DEF KernelInv, TimerTaskSleeps
<1>1. UNCHANGED priorityVars
  OBVIOUS
<1>2. PrioritiesOwned'
  BY <1>1, PrioritiesOwnedPreserved DEF PrioritiesOwned
<1>3. TypeOK'
  BY <1>1 DEF TypeOK, priorityVars
<1>4. RunningIsRunnable'
  BY DEF RunningIsRunnable
<1>5. NoTaskLost'
  <2> SUFFICES ASSUME NEW u \in Task
               PROVE  Priority'[u] \in OSReadyList' <=> u \notin delayList'
    BY DEF NoTaskLost
  <2>1. Priority' = Priority
    BY <1>1 DEF priorityVars
  <2>2. CASE u = TimerTask
    BY <1>1, <2>1, <2>2
  <2>3. CASE u # TimerTask
    <3>1. Priority[u] # Priority[TimerTask]
      BY <2>3, PrioritiesDiffer
    <3> QED
      BY <1>1, <2>1, <2>3, <3>1 DEF NoTaskLost
  <2> QED
    BY <2>2, <2>3
<1> QED
  BY <1>2, <1>3, <1>4, <1>5

\* Every other thread, Idle included, is below the timer task.
LEMMA TimerTaskAbove ==
  ASSUME TimerTaskOnTop, NEW t \in Thread \ {TimerTask}
  PROVE  ~(InitPriority[TimerTask] <= InitPriority[t])
<1>1. InitPriority[TimerTask] \in Nat /\ InitPriority[t] \in Nat
  BY ConstantFacts, TimerConstants
<1>2. CASE t = Idle
  <2>1. InitPriority[t] = 0 /\ InitPriority[TimerTask] # 0
    BY <1>2, PriorityAssumption, ThreadAssumption, TimerConstants
  <2> QED
    BY <1>1, <2>1
<1>3. CASE t # Idle
  <2>1. InitPriority[t] < InitPriority[TimerTask]
    BY <1>3 DEF TimerTaskOnTop, Client, Thread
  <2> QED
    BY <1>1, <2>1
<1> QED
  BY <1>2, <1>3

\* The end of an interrupt gives the processor to the timer task, if it does
\* not sleep.
LEMMA TimerTaskRunsFirst ==
  ASSUME TimerTaskOnTop, KernelInv', Reschedule,
         Priority' = InitPriority, OSBlockedList' = PrioRange,
         TimerTask \notin delayList'
  PROVE  currentTask' = TimerTask /\ changeContext' = FALSE
<1>1. /\ currentTask' \in Thread /\ changeContext' = FALSE
      /\ \A t \in Thread : Priority'[t] \in OSReadyList' \cap OSBlockedList'
                             => Priority'[t] <= Priority'[currentTask']
  BY RescheduleIsRight DEF KernelInv
<1>2. InitPriority[TimerTask] \in OSReadyList' \cap OSBlockedList'
  BY ConstantFacts, TimerConstants DEF KernelInv, NoTaskLost
<1>3. InitPriority[TimerTask] <= InitPriority[currentTask']
  BY <1>1, <1>2, TimerConstants
<1> QED
  BY <1>1, <1>3, TimerTaskAbove

\* The state after OSTimerInit and BRTOSStart satisfies the invariant.
LEMMA InitTimerInv ==
  ASSUME TimerTaskOnTop, TimerInit
  PROVE  TimerInv
<1>1. KernelInv
  BY InitKernelInv DEF TimerInit
<1>2. SoftTimerTypeOK
  <2>1. TypeOK
    BY <1>1 DEF KernelInv
  <2>2. timeout \in [TimerId -> 0 .. MAX_TIMER] /\ 0 \in 0 .. MAX_TIMER
    BY TimerConstants DEF TimerInit
  <2>3. due \in [TimerId -> Nat \cup {-1}] /\ func_cb \in [TimerId -> BOOLEAN]
    BY DEF TimerInit
  <2>4. <<>> \in Seq(TimerId)
    OBVIOUS
  <2>5. /\ state \in [TimerId -> {"NOT_ALLOCATED", "NOT_USED", "STOPPED", "RUNNING"}]
        /\ current = <<>> /\ future = <<>> /\ pc = "start" /\ p = NoTimer
        /\ next_time_to_wake = 0 /\ unreduced = {}
        /\ crossed = FALSE /\ fault = FALSE /\ restarted = FALSE /\ misled = FALSE
    BY DEF TimerInit
  <2> QED
    BY <2>1, <2>2, <2>3, <2>4, <2>5 DEF SoftTimerTypeOK
<1>3. TimerTaskState
  <2>1. currentTask = TimerTask
    <3>1. /\ currentTask \in Thread
          /\ \A t \in Thread : InitPriority[t] \in OSReadyList \cap OSBlockedList
                                 => InitPriority[t] <= InitPriority[currentTask]
      <4>1. /\ Priority[Idle] = 0 /\ Priority \in [Thread -> PrioRange]
            /\ \A t \in Thread : PriorityVector[Priority[t]] = t
            /\ OSReadyList \subseteq {Priority[t] : t \in Thread}
            /\ Priority = InitPriority
        BY <1>1 DEF KernelInv, PrioritiesOwned, TimerInit, Init
      <4>2. currentTask = OSSchedule(PriorityVector, OSReadyList, OSBlockedList)
        BY DEF TimerInit, Init
      <4>3. /\ currentTask \in Thread
            /\ \A t \in Thread : Priority[t] \in OSReadyList \cap OSBlockedList
                                   => Priority[t] <= Priority[currentTask]
        BY <4>1, <4>2, OSScheduleIsRight
      <4> QED
        BY <4>1, <4>3
    <3>2. InitPriority[TimerTask] \in OSReadyList \cap OSBlockedList
      BY ConstantFacts, TimerConstants DEF TimerInit, Init
    <3>3. InitPriority[TimerTask] <= InitPriority[currentTask]
      BY <3>1, <3>2, TimerConstants
    <3> QED
      BY <3>1, <3>3, TimerTaskAbove
  <2> QED
    BY <2>1, TimerConstants DEF TimerInit, Init, TimerTaskState, Asleep
<1>4. HeapsInv
  <2>1. HeapOf(<<>>, timeout, {})
    BY DEF HeapOf, Distinct, HeapBy, ToSet
  <2>2. /\ current = <<>> /\ future = <<>> /\ ToSet(<<>>) = {} /\ pc = "start"
        /\ \A i \in TimerId : state[i] # "RUNNING"
    BY DEF TimerInit, ToSet
  <2> QED
    BY <2>1, <2>2 DEF HeapsInv
<1> QED
  BY <1>1, <1>2, <1>3, <1>4 DEF TimerInv, TimerInit

-----------------------------------------------------------------------------
(* What the operations do to the heaps *)

\* What HeapsInv says of the heaps.
LEMMA HeapFacts ==
  ASSUME TimerInv, ~restarted
  PROVE  /\ HeapOf(current, timeout, ToSet(current))
         /\ HeapOf(future, timeout, ToSet(future))
         /\ ToSet(current) \cap ToSet(future) = {}
         /\ ToSet(current) \subseteq TimerId /\ ToSet(future) \subseteq TimerId
         /\ \A i \in ToSet(current) \cup ToSet(future) : state[i] # "NOT_USED"
         /\ \A i \in TimerId : state[i] = "RUNNING" =>
              i \in ToSet(current) \cup ToSet(future) \/ timeout[i] = 0
         /\ timeout \in [TimerId -> Nat]
<1>1. timeout \in [TimerId -> Nat]
  BY TimerTypes DEF TimerInv
<1>2. HeapsInv
  BY DEF TimerInv
<1> QED
  BY <1>1, <1>2, RootIsLeast DEF HeapsInv

\* Whatever timers a step moves between the heaps, HeapsInv follows from what
\* the new heaps hold.
LEMMA HeapsAgain ==
  ASSUME NEW A, NEW B,
         HeapOf(current', timeout', A), HeapOf(future', timeout', B),
         A \cap B = {}, \A i \in A \cup B : state'[i] # "NOT_USED",
         \A i \in TimerId : state'[i] = "RUNNING" =>
           i \in A \cup B \/ timeout'[i] = 0,
         pc' \in {"drain", "drainCallback", "serve", "callback"} =>
           p' = Root(current')
  PROVE  HeapsInv'
<1>1. ToSet(current') = A /\ ToSet(future') = B
  BY DEF HeapOf
<1>2. Root(current)' = Root(current')
  BY DEF Root
<1> QED
  BY <1>1, <1>2 DEF HeapsInv

\* A new timeout of a timer that is in neither heap changes no order.
LEMMA UnlinkedTimeout ==
  ASSUME TimerInv, ~restarted, NEW i \in TimerId, ~Linked(i),
         NEW v \in 0 .. MAX_TIMER, timeout' = [timeout EXCEPT ![i] = v]
  PROVE  /\ timeout' \in [TimerId -> Nat] /\ timeout'[i] = v
         /\ HeapOf(current, timeout', ToSet(current))
         /\ HeapOf(future, timeout', ToSet(future))
         /\ i \notin ToSet(current) /\ i \notin ToSet(future)
<1>1. /\ timeout' \in [TimerId -> Nat]
      /\ timeout'[i] = v /\ \A j \in TimerId \ {i} : timeout'[j] = timeout[j]
  BY TimerConstants, TimerTypes DEF TimerInv
<1>2. i \notin ToSet(current) /\ i \notin ToSet(future)
  BY DEF Linked
<1>3. \A j \in ToSet(current) \cup ToSet(future) : timeout'[j] = timeout[j]
  BY <1>1, <1>2, HeapFacts
<1> QED
  BY <1>1, <1>2, <1>3, HeapFacts, HeapKeyChange

\* The new timeout that Arm computes.
LEMMA ArmTimeout ==
  ASSUME TimerInv, NEW i \in TimerId, NEW w \in 0 .. MAX_TIMER, Arm(i, w)
  PROVE  \E v \in 0 .. MAX_TIMER :
           /\ timeout' = [timeout EXCEPT ![i] = v]
           /\ \/ /\ OSTickCounter + w >= TICK_COUNT_OVERFLOW
                 /\ v = OSTickCounter + w - TICK_COUNT_OVERFLOW
                 /\ future' = Inserted(future, timeout', i)
                 /\ current' = current /\ TimeToWait' = TimeToWait
              \/ /\ OSTickCounter + w < TICK_COUNT_OVERFLOW
                 /\ v = OSTickCounter + w
                 /\ current' = Inserted(current, timeout', i)
                 /\ future' = future
                 /\ TimeToWait' = IF pc # "start" /\ timeout'[Root(current')] = v
                                  THEN [TimeToWait EXCEPT ![TimerTask] = v]
                                  ELSE TimeToWait
<1>0. PICK t : t = OSTickCounter + w
  OBVIOUS
<1>1. /\ t \in Nat /\ OSTickCounter \in Nat /\ w \in Nat
      /\ t < TICK_COUNT_OVERFLOW => t \in 0 .. MAX_TIMER
      /\ t >= TICK_COUNT_OVERFLOW => t - TICK_COUNT_OVERFLOW \in 0 .. MAX_TIMER
      /\ ~(t >= TICK_COUNT_OVERFLOW) <=> t < TICK_COUNT_OVERFLOW
  BY <1>0, TimerConstants, TimerTypes DEF TimerInv
<1>2. CASE t >= TICK_COUNT_OVERFLOW
  <2>1. /\ timeout' = [timeout EXCEPT ![i] = t - TICK_COUNT_OVERFLOW]
        /\ future' = Inserted(future, timeout', i)
        /\ current' = current /\ TimeToWait' = TimeToWait
    BY <1>0, <1>2 DEF Arm, BeyondWrap
  <2>2. PICK v : v = t - TICK_COUNT_OVERFLOW
    OBVIOUS
  <2>3. timeout' = [timeout EXCEPT ![i] = v]
    BY <2>1, <2>2
  <2>4. v \in 0 .. MAX_TIMER
    BY <1>1, <1>2, <2>2
  <2>5. OSTickCounter + w >= TICK_COUNT_OVERFLOW
    BY <1>0, <1>2
  <2>6. v = OSTickCounter + w - TICK_COUNT_OVERFLOW
    BY <1>0, <1>1, <2>2, TimerConstants
  <2> WITNESS v \in 0 .. MAX_TIMER
  <2> QED
    BY <2>1, <2>3, <2>5, <2>6, Zenon
<1>3. CASE ~(t >= TICK_COUNT_OVERFLOW)
  <2>1. /\ timeout' = [timeout EXCEPT ![i] = t]
        /\ current' = Inserted(current, timeout', i)
        /\ future' = future
        /\ TimeToWait' = IF pc # "start" /\ timeout'[Root(current')] = t
                         THEN [TimeToWait EXCEPT ![TimerTask] = t]
                         ELSE TimeToWait
    BY <1>0, <1>3 DEF Arm, BeyondWrap
  <2> QED
    BY <1>0, <1>1, <1>3, <2>1
<1> QED
  BY <1>2, <1>3

\* Whatever timer is armed, the types stay.
LEMMA ArmTypes ==
  ASSUME TimerInv, NEW i \in TimerId, NEW w \in 0 .. MAX_TIMER, Arm(i, w)
  PROVE  /\ timeout' \in [TimerId -> 0 .. MAX_TIMER]
         /\ {current', future'} \subseteq Seq(TimerId)
         /\ TimeToWait' \in [Thread -> 0 .. MAX_TIMER]
         /\ state' \in [TimerId -> {"NOT_ALLOCATED", "NOT_USED", "STOPPED", "RUNNING"}]
         /\ due' \in [TimerId -> Nat \cup {-1}]
         /\ misled' \in BOOLEAN /\ unreduced' \subseteq TimerId
<1>1. PICK v \in 0 .. MAX_TIMER :
        /\ timeout' = [timeout EXCEPT ![i] = v]
        /\ \/ /\ future' = Inserted(future, timeout', i)
              /\ current' = current /\ TimeToWait' = TimeToWait
           \/ /\ current' = Inserted(current, timeout', i)
              /\ future' = future
              /\ \/ TimeToWait' = [TimeToWait EXCEPT ![TimerTask] = v]
                 \/ TimeToWait' = TimeToWait
  BY ArmTimeout
<1>2. /\ timeout \in [TimerId -> 0 .. MAX_TIMER]
      /\ current \in Seq(TimerId) /\ future \in Seq(TimerId)
      /\ TimeToWait \in [Thread -> 0 .. MAX_TIMER]
      /\ state \in [TimerId -> {"NOT_ALLOCATED", "NOT_USED", "STOPPED", "RUNNING"}]
      /\ due \in [TimerId -> Nat \cup {-1}] /\ w \in Nat
      /\ misled \in BOOLEAN /\ unreduced \subseteq TimerId
  BY TimerConstants DEF TimerInv, SoftTimerTypeOK, TypeOK
<1>3. timeout' \in [TimerId -> 0 .. MAX_TIMER]
  <2>1. timeout' = [timeout EXCEPT ![i] = v]
    BY <1>1
  <2> QED
    BY <1>2, <2>1
<1>4. timeout' \in [TimerId -> Nat]
  BY <1>3, TimerConstants
<1>5. {current', future'} \subseteq Seq(TimerId)
  <2>1. /\ Inserted(current, timeout', i) \in Seq(TimerId)
        /\ Inserted(future, timeout', i) \in Seq(TimerId)
    BY <1>2, <1>4, InsertedType
  <2> QED
    BY <1>1, <1>2, <2>1
<1>6. TimeToWait' \in [Thread -> 0 .. MAX_TIMER]
  BY <1>1, <1>2
<1>7. /\ state' = [state EXCEPT ![i] = "RUNNING"]
      /\ due' = [due EXCEPT ![i] = w]
      /\ unreduced' = unreduced \ {i} /\ misled' = misled
  BY DEF Arm
<1>8. /\ state' \in [TimerId -> {"NOT_ALLOCATED", "NOT_USED", "STOPPED", "RUNNING"}]
      /\ due' \in [TimerId -> Nat \cup {-1}]
      /\ misled' \in BOOLEAN /\ unreduced' \subseteq TimerId
  BY <1>2, <1>7
<1> QED
  BY <1>3, <1>5, <1>6, <1>8

\* Arm links a timer that was not linked in one of the heaps.
LEMMA ArmLinks ==
  ASSUME TimerInv, ~restarted, NEW i \in TimerId, ~Linked(i),
         NEW w \in 0 .. MAX_TIMER, Arm(i, w), pc = "wake"
  PROVE  /\ HeapsInv'
         /\ \/ current' = current
            \/ /\ OSTickCounter + w < TICK_COUNT_OVERFLOW
               /\ ToSet(current') = ToSet(current) \cup {i}
<1> DEFINE A == ToSet(current)
           B == ToSet(future)
<1>1. PICK v \in 0 .. MAX_TIMER :
        /\ timeout' = [timeout EXCEPT ![i] = v]
        /\ \/ /\ OSTickCounter + w >= TICK_COUNT_OVERFLOW
              /\ future' = Inserted(future, timeout', i)
              /\ current' = current
           \/ /\ OSTickCounter + w < TICK_COUNT_OVERFLOW
              /\ current' = Inserted(current, timeout', i)
              /\ future' = future
  BY ArmTimeout
<1>2. /\ timeout' \in [TimerId -> Nat]
      /\ HeapOf(current, timeout', A) /\ HeapOf(future, timeout', B)
      /\ i \notin A /\ i \notin B
  BY <1>1, UnlinkedTimeout
<1>3. /\ state' = [state EXCEPT ![i] = "RUNNING"]
      /\ state \in [TimerId -> {"NOT_ALLOCATED", "NOT_USED", "STOPPED", "RUNNING"}]
      /\ pc' = pc
  BY DEF Arm, timerTaskFrame, localVars, TimerInv, SoftTimerTypeOK
<1>4. /\ \A j \in A \cup B \cup {i} : state'[j] # "NOT_USED"
      /\ \A j \in TimerId : state'[j] = "RUNNING" =>
           j \in A \cup B \cup {i} \/ timeout'[j] = 0
  BY <1>1, <1>3, HeapFacts
<1>5. CASE /\ OSTickCounter + w >= TICK_COUNT_OVERFLOW
           /\ future' = Inserted(future, timeout', i)
           /\ current' = current
  <2>1. HeapOf(future', timeout', B \cup {i})
    BY <1>2, <1>5, InsertedHeap
  <2>2. A \cap (B \cup {i}) = {} /\ A \cup (B \cup {i}) = A \cup B \cup {i}
    BY <1>2, HeapFacts
  <2>3. HeapsInv'
    BY <1>2, <1>3, <1>4, <1>5, <2>1, <2>2, HeapsAgain
  <2> QED
    BY <1>5, <2>3
<1>6. CASE /\ OSTickCounter + w < TICK_COUNT_OVERFLOW
           /\ current' = Inserted(current, timeout', i)
           /\ future' = future
  <2>1. HeapOf(current', timeout', A \cup {i})
    BY <1>2, <1>6, InsertedHeap
  <2>2. (A \cup {i}) \cap B = {} /\ (A \cup {i}) \cup B = A \cup B \cup {i}
    BY <1>2, HeapFacts
  <2>3. HeapsInv'
    BY <1>2, <1>3, <1>4, <1>6, <2>1, <2>2, HeapsAgain
  <2> QED
    BY <1>6, <2>1, <2>3 DEF HeapOf
<1> QED
  BY <1>1, <1>5, <1>6

\* Whichever timer OSTimerStop finds, the types stay.
LEMMA StopTypes ==
  ASSUME TimerInv, NEW i \in TimerId, NEW del \in BOOLEAN, OSTimerStop(i, del),
         ~fault'
  PROVE  /\ timeout' = [timeout EXCEPT ![i] = 0]
         /\ timeout' \in [TimerId -> 0 .. MAX_TIMER]
         /\ timeout' \in [TimerId -> Nat]
         /\ \/ /\ i \in ToSet(current) /\ UNCHANGED future
               /\ current' = Stopped(current, timeout', i)
            \/ /\ i \in ToSet(future) /\ UNCHANGED current
               /\ future' = Stopped(future, timeout', i)
         /\ {current', future'} \subseteq Seq(TimerId)
         /\ state' = [state EXCEPT ![i] = IF del THEN "NOT_ALLOCATED" ELSE "STOPPED"]
         /\ func_cb' \in [TimerId -> BOOLEAN]
         /\ due' = [due EXCEPT ![i] = -1]
         /\ misled' = \/ misled
                      \/ /\ current' # <<>>
                         /\ timeout'[Root(current')] # TimeToWait[TimerTask]
         /\ unreduced' = unreduced \ {i}
         /\ UNCHANGED <<restarted, TimeToWait, timerTaskFrame>>
<1>1. /\ timeout' = [timeout EXCEPT ![i] = 0]
      /\ \/ /\ i \in ToSet(current) /\ UNCHANGED future
            /\ current' = Stopped(current, timeout', i)
         \/ /\ i \in ToSet(future) /\ UNCHANGED current
            /\ future' = Stopped(future, timeout', i)
      /\ state' = [state EXCEPT ![i] = IF del THEN "NOT_ALLOCATED" ELSE "STOPPED"]
      /\ func_cb' = [func_cb EXCEPT ![i] = func_cb[i] /\ ~del]
      /\ due' = [due EXCEPT ![i] = -1]
      /\ misled' = \/ misled
                   \/ /\ current' # <<>>
                      /\ timeout'[Root(current')] # TimeToWait[TimerTask]
      /\ unreduced' = unreduced \ {i}
      /\ UNCHANGED <<restarted, TimeToWait, timerTaskFrame>>
  BY DEF OSTimerStop, Fault
<1>2. /\ timeout \in [TimerId -> 0 .. MAX_TIMER] /\ 0 \in 0 .. MAX_TIMER
      /\ current \in Seq(TimerId) /\ future \in Seq(TimerId)
      /\ func_cb \in [TimerId -> BOOLEAN]
  BY TimerConstants DEF TimerInv, SoftTimerTypeOK
<1>3. timeout' \in [TimerId -> 0 .. MAX_TIMER]
  BY <1>1, <1>2
<1>4. timeout' \in [TimerId -> Nat]
  BY <1>3, TimerConstants
<1>5. {current', future'} \subseteq Seq(TimerId)
  <2>1. /\ i \in ToSet(current) => Stopped(current, timeout', i) \in Seq(TimerId)
        /\ i \in ToSet(future) => Stopped(future, timeout', i) \in Seq(TimerId)
    BY <1>2, <1>4, StoppedType
  <2> QED
    BY <1>1, <1>2, <2>1
<1>6. func_cb' \in [TimerId -> BOOLEAN]
  BY <1>1, <1>2
<1> QED
  BY <1>1, <1>3, <1>4, <1>5, <1>6

\* OSTimerStop unlinks the timer, or another one with timeout 0.
LEMMA StopUnlinks ==
  ASSUME TimerInv, ~restarted, NEW i \in TimerId, NEW del \in BOOLEAN,
         OSTimerStop(i, del), ~fault', state[i] # "NOT_USED", pc = "wake"
  PROVE  HeapsInv'
<1> DEFINE A == ToSet(current)
           B == ToSet(future)
<1>1. /\ timeout' \in [TimerId -> Nat]
      /\ timeout'[i] = 0 /\ \A j \in TimerId \ {i} : timeout'[j] = timeout[j]
  <2>1. timeout' = [timeout EXCEPT ![i] = 0] /\ timeout' \in [TimerId -> Nat]
    BY StopTypes
  <2> QED
    BY <2>1, TimerTypes DEF TimerInv
<1>2. pc' = pc
  BY StopTypes DEF timerTaskFrame, localVars
<1>3. /\ \A j \in A \cup B : state'[j] # "NOT_USED"
      /\ \A j \in TimerId : state'[j] = "RUNNING" =>
           j \in A \cup B \/ timeout'[j] = 0
  <2>0. state' = [state EXCEPT ![i] = IF del THEN "NOT_ALLOCATED" ELSE "STOPPED"]
    BY StopTypes
  <2>1. state \in [TimerId -> {"NOT_ALLOCATED", "NOT_USED", "STOPPED", "RUNNING"}]
    BY DEF TimerInv, SoftTimerTypeOK
  <2>2. /\ \A j \in A \cup B : state[j] # "NOT_USED" /\ j \in TimerId
        /\ \A j \in TimerId : state[j] = "RUNNING" =>
             j \in A \cup B \/ timeout[j] = 0
    BY HeapFacts
  <2>3. /\ state'[i] # "NOT_USED" /\ state'[i] # "RUNNING"
        /\ \A j \in TimerId \ {i} : state'[j] = state[j]
    BY <2>0, <2>1
  <2> QED
    BY <1>1, <2>2, <2>3
<1>4. CASE /\ i \in A /\ UNCHANGED future
           /\ current' = Stopped(current, timeout', i)
  <2>1. \A j \in A \ {i} : timeout'[j] = timeout[j]
    BY <1>1, HeapFacts
  <2>2. PICK x \in A : /\ timeout'[x] = 0
                       /\ HeapOf(current', timeout', A \ {x})
    BY <1>1, <1>4, <2>1, HeapFacts, StoppedHeap
  <2>3. HeapOf(future', timeout', B)
    <3>1. \A j \in B : timeout'[j] = timeout[j]
      BY <1>1, <1>4, HeapFacts
    <3> QED
      BY <1>1, <1>4, <3>1, HeapFacts, HeapKeyChange
  <2>4. /\ (A \ {x}) \cap B = {}
        /\ \A j \in (A \ {x}) \cup B : state'[j] # "NOT_USED"
        /\ \A j \in TimerId : state'[j] = "RUNNING" =>
             j \in (A \ {x}) \cup B \/ timeout'[j] = 0
    BY <1>3, <2>2, HeapFacts
  <2> QED
    BY <1>2, <2>2, <2>3, <2>4, HeapsAgain
<1>5. CASE /\ i \in B /\ UNCHANGED current
           /\ future' = Stopped(future, timeout', i)
  <2>1. \A j \in B \ {i} : timeout'[j] = timeout[j]
    BY <1>1, HeapFacts
  <2>2. PICK x \in B : /\ timeout'[x] = 0
                       /\ HeapOf(future', timeout', B \ {x})
    BY <1>1, <1>5, <2>1, HeapFacts, StoppedHeap
  <2>3. HeapOf(current', timeout', A)
    <3>1. \A j \in A : timeout'[j] = timeout[j]
      BY <1>1, <1>5, HeapFacts
    <3> QED
      BY <1>1, <1>5, <3>1, HeapFacts, HeapKeyChange
  <2>4. /\ A \cap (B \ {x}) = {}
        /\ \A j \in A \cup (B \ {x}) : state'[j] # "NOT_USED"
        /\ \A j \in TimerId : state'[j] = "RUNNING" =>
             j \in A \cup (B \ {x}) \/ timeout'[j] = 0
    BY <1>3, <2>2, HeapFacts
  <2> QED
    BY <1>2, <2>2, <2>3, <2>4, HeapsAgain
<1> QED
  BY <1>4, <1>5, StopTypes

\* The timer whose callback executes is the root of the current heap.
LEMMA ServedTimer ==
  ASSUME TimerInv, ~restarted, pc \in {"drainCallback", "callback"}
  PROVE  /\ current # <<>> /\ current[1] = p
         /\ p \in ToSet(current) /\ p \notin ToSet(future) /\ p \in TimerId
<1>1. p = Root(current) /\ p # NoTimer
  BY DEF TimerInv, HeapsInv
<1>2. current # <<>> /\ current[1] = p
  BY <1>1 DEF Root
<1>3. p \in ToSet(current)
  BY <1>2, HeapFacts, RootIsLeast
<1> QED
  BY <1>2, <1>3, HeapFacts

\* A new timeout of that timer disturbs the current heap at its root only.
LEMMA ServedTimeout ==
  ASSUME TimerInv, ~restarted, pc \in {"drainCallback", "callback"},
         NEW v \in 0 .. MAX_TIMER, timeout' = [timeout EXCEPT ![p] = v]
  PROVE  /\ HeapOf(WithoutRoot(current, timeout'), timeout', ToSet(current) \ {p})
         /\ HeapOf(Descer(current, timeout'), timeout', ToSet(current))
         /\ HeapOf(future, timeout', ToSet(future))
         /\ HeapOf(Inserted(future, timeout', p), timeout', ToSet(future) \cup {p})
<1>1. /\ timeout' \in [TimerId -> 0 .. MAX_TIMER]
      /\ timeout'[p] = v /\ \A j \in TimerId \ {p} : timeout'[j] = timeout[j]
  BY ServedTimer DEF TimerInv, SoftTimerTypeOK
<1>2. timeout' \in [TimerId -> Nat]
  BY <1>1, TimerConstants
<1>3. \A j \in (ToSet(current) \cup ToSet(future)) \ {p} : timeout'[j] = timeout[j]
  BY <1>1, HeapFacts
<1>4. HeapOf(WithoutRoot(current, timeout'), timeout', ToSet(current) \ {p})
  <2>1. /\ current # <<>> /\ current[1] = p
        /\ HeapOf(current, timeout, ToSet(current)) /\ timeout \in [TimerId -> Nat]
        /\ \A j \in ToSet(current) \ {current[1]} : timeout'[j] = timeout[j]
    BY <1>3, HeapFacts, ServedTimer
  <2>2. HeapOf(WithoutRoot(current, timeout'), timeout',
               ToSet(current) \ {current[1]})
    BY <1>2, <2>1, WithoutRootHeap
  <2> QED
    BY <2>1, <2>2
<1>5. HeapOf(Descer(current, timeout'), timeout', ToSet(current))
  <2>1. /\ current # <<>>
        /\ HeapOf(current, timeout, ToSet(current)) /\ timeout \in [TimerId -> Nat]
        /\ \A j \in ToSet(current) \ {current[1]} : timeout'[j] = timeout[j]
    BY <1>3, HeapFacts, ServedTimer
  <2> QED
    BY <1>2, <2>1, RootSinks
<1>6. HeapOf(future, timeout', ToSet(future))
  <2>1. \A j \in ToSet(future) : timeout'[j] = timeout[j]
    BY <1>3, ServedTimer
  <2> QED
    BY <1>2, <2>1, HeapFacts, HeapKeyChange
<1>7. HeapOf(Inserted(future, timeout', p), timeout', ToSet(future) \cup {p})
  BY <1>2, <1>6, ServedTimer, InsertedHeap
<1> QED
  BY <1>4, <1>5, <1>6, <1>7

\* The new timeout and the new heaps of a timer whose callback has returned.
Served(v) ==
  /\ timeout' = [timeout EXCEPT ![p] = v]
  /\ \/ /\ future' = Inserted(future, timeout', p)
        /\ current' = WithoutRoot(current, timeout')
     \/ /\ v = 0
        /\ current' = WithoutRoot(current, timeout') /\ UNCHANGED future
     \/ current' = Descer(current, timeout') /\ UNCHANGED future

\* The types stay.
LEMMA ServedTypes ==
  ASSUME TimerInv, p # NoTimer, current # <<>>, NEW v \in 0 .. MAX_TIMER,
         Served(v)
  PROVE  /\ timeout' \in [TimerId -> 0 .. MAX_TIMER]
         /\ {current', future'} \subseteq Seq(TimerId)
<1>1. /\ timeout \in [TimerId -> 0 .. MAX_TIMER] /\ p \in TimerId
      /\ current \in Seq(TimerId) /\ future \in Seq(TimerId)
  BY DEF TimerInv, SoftTimerTypeOK
<1>2. timeout' \in [TimerId -> 0 .. MAX_TIMER]
  BY <1>1 DEF Served
<1>3. timeout' \in [TimerId -> Nat]
  BY <1>2, TimerConstants
<1>4. /\ Inserted(future, timeout', p) \in Seq(TimerId)
      /\ WithoutRoot(current, timeout') \in Seq(TimerId)
      /\ Descer(current, timeout') \in Seq(TimerId)
  BY <1>1, <1>3, InsertedType, WithoutRootType, DescerType
<1> QED
  BY <1>1, <1>2, <1>4 DEF Served

\* A timer that is gone leaves the current heap; one that repeats moves to the
\* future heap, or sinks in the current one.
LEMMA ServedHeaps ==
  ASSUME TimerInv, ~restarted, pc \in {"drainCallback", "callback"},
         NEW v \in 0 .. MAX_TIMER, Served(v),
         \/ UNCHANGED state
         \/ state' = [state EXCEPT ![p] = "NOT_ALLOCATED"],
         p' = Root(current')
  PROVE  HeapsInv'
<1> DEFINE A == ToSet(current)
           B == ToSet(future)
<1>1. /\ timeout' = [timeout EXCEPT ![p] = v]
      /\ p \in A /\ p \notin B /\ p \in TimerId
  BY ServedTimer DEF Served
<1>2. timeout'[p] = v /\ \A j \in TimerId \ {p} : timeout'[j] = timeout[j]
  BY <1>1, TimerTypes DEF TimerInv
<1>3. /\ \A j \in A \cup B : state'[j] # "NOT_USED"
      /\ \A j \in TimerId : state'[j] = "RUNNING" =>
           j \in A \cup B \/ timeout'[j] = 0
  <2>1. state \in [TimerId -> {"NOT_ALLOCATED", "NOT_USED", "STOPPED", "RUNNING"}]
    BY DEF TimerInv, SoftTimerTypeOK
  <2>2. /\ \A j \in A \cup B : state[j] # "NOT_USED" /\ j \in TimerId
        /\ \A j \in TimerId : state[j] = "RUNNING" =>
             j \in A \cup B \/ timeout[j] = 0
    BY HeapFacts
  <2>3. \A j \in TimerId : state'[j] \in {state[j], "NOT_ALLOCATED"}
    BY <1>1, <2>1
  <2> QED
    BY <1>1, <1>2, <2>2, <2>3
<1>4. CASE /\ future' = Inserted(future, timeout', p)
           /\ current' = WithoutRoot(current, timeout')
  <2>1. /\ HeapOf(current', timeout', A \ {p})
        /\ HeapOf(future', timeout', B \cup {p})
    BY <1>1, <1>4, ServedTimeout
  <2>2. /\ (A \ {p}) \cap (B \cup {p}) = {}
        /\ (A \ {p}) \cup (B \cup {p}) = A \cup B
    BY <1>1, HeapFacts
  <2> QED
    BY <1>3, <2>1, <2>2, HeapsAgain
<1>5. CASE /\ v = 0
           /\ current' = WithoutRoot(current, timeout') /\ UNCHANGED future
  <2>1. /\ HeapOf(current', timeout', A \ {p})
        /\ HeapOf(future', timeout', B)
    BY <1>1, <1>5, ServedTimeout
  <2>2. (A \ {p}) \cap B = {} /\ (A \ {p}) \cup B = (A \cup B) \ {p}
    BY <1>1, HeapFacts
  <2>3. /\ \A j \in (A \ {p}) \cup B : state'[j] # "NOT_USED"
        /\ \A j \in TimerId : state'[j] = "RUNNING" =>
             j \in (A \ {p}) \cup B \/ timeout'[j] = 0
    BY <1>2, <1>3, <1>5, <2>2
  <2> QED
    BY <2>1, <2>2, <2>3, HeapsAgain
<1>6. CASE current' = Descer(current, timeout') /\ UNCHANGED future
  <2>1. /\ HeapOf(current', timeout', A)
        /\ HeapOf(future', timeout', B)
    BY <1>1, <1>6, ServedTimeout
  <2> QED
    BY <1>3, <2>1, HeapFacts, HeapsAgain
<1> QED
  BY <1>4, <1>5, <1>6 DEF Served

-----------------------------------------------------------------------------
(* Every step keeps the invariant *)

\* A step that leaves the heaps and the timer task alone.
LEMMA OtherStepKeepsInv ==
  ASSUME TimerInv, KernelInv', TimerTaskState',
         UNCHANGED <<heapVars, localVars, restarted, misled, unreduced>>,
         due' \in [TimerId -> Nat \cup {-1}], fault' \in BOOLEAN
  PROVE  TimerInv'
<1>1. UNCHANGED <<state, timeout, func_cb, current, future, pc, p,
                  next_time_to_wake, crossed, restarted, misled, unreduced>>
  BY DEF heapVars, localVars
<1>2. SoftTimerTypeOK'
  BY <1>1 DEF TimerInv, KernelInv, SoftTimerTypeOK
<1>3. ~restarted' => HeapsInv'
  BY <1>1 DEF TimerInv, HeapsInv, Root
<1> QED
  BY <1>1, <1>2, <1>3 DEF TimerInv

\* In particular one that only records a fault.
LEMMA FaultKeepsInv ==
  ASSUME TimerInv,
         UNCHANGED <<kernelVars, heapVars, localVars, history>>,
         fault' \in BOOLEAN
  PROVE  TimerInv'
<1>1. UNCHANGED <<PriorityVector, Priority, TimeToWait, OSReadyList,
                  OSBlockedList, delayList, OSTickCounter, currentTask,
                  changeContext, left>>
  BY DEF kernelVars, priorityVars
<1>2. KernelInv'
  BY <1>1, TimeToWaitKeepsInv DEF TimerInv, KernelInv, TypeOK
<1>3. TimerTaskState'
  BY <1>1 DEF TimerInv, TimerTaskState, Asleep, localVars
<1>4. due' \in [TimerId -> Nat \cup {-1}] /\ UNCHANGED <<restarted, misled, unreduced>>
  BY DEF history, TimerInv, SoftTimerTypeOK
<1> QED
  BY <1>2, <1>3, <1>4, OtherStepKeepsInv

\* A user task runs only while the timer task sleeps.
LEMMA ClientsRunWhileAsleep ==
  ASSUME TimerInv, NEW t \in Client, Running(t)
  PROVE  Asleep /\ pc = "wake"
BY TimerConstants DEF TimerInv, TimerTaskState, Running

\* The frame of the timer services.
LEMMA ServiceKeepsInv ==
  ASSUME TimerInv, Asleep, pc = "wake", UNCHANGED timerTaskFrame,
         TimeToWait' \in [Thread -> 0 .. MAX_TIMER],
         timeout' \in [TimerId -> 0 .. MAX_TIMER],
         {current', future'} \subseteq Seq(TimerId),
         state' \in [TimerId -> {"NOT_ALLOCATED", "NOT_USED", "STOPPED", "RUNNING"}],
         func_cb' \in [TimerId -> BOOLEAN],
         due' \in [TimerId -> Nat \cup {-1}],
         {restarted', misled'} \subseteq BOOLEAN, unreduced' \subseteq TimerId,
         ~restarted' => HeapsInv'
  PROVE  TimerInv'
<1>1. KernelInv'
  BY TimeToWaitKeepsInv DEF TimerInv, timerTaskFrame, priorityVars
<1>2. UNCHANGED <<pc, p, next_time_to_wake, crossed, fault>>
  BY DEF timerTaskFrame, localVars
<1>3. SoftTimerTypeOK'
  BY <1>1, <1>2 DEF TimerInv, KernelInv, SoftTimerTypeOK
<1>4. TimerTaskState'
  BY <1>2 DEF TimerInv, TimerTaskState, Asleep, timerTaskFrame, priorityVars
<1> QED
  BY <1>1, <1>2, <1>3, <1>4 DEF TimerInv

\* A new timer is not linked.
LEMMA NewTimerUnlinked ==
  ASSUME TimerInv, ~restarted, NEW i \in TimerId, FreeTimer(i)
  PROVE  ~Linked(i)
BY HeapFacts DEF FreeTimer, Linked

\* OSTimerSet keeps the invariant, with and without a time to wait.
LEMMA SetKeepsInv ==
  ASSUME TimerInv, Asleep, pc = "wake", NEW i \in TimerId, NEW w \in TimerWait,
         OSTimerSet(i, w)
  PROVE  TimerInv'
<1>1. /\ state \in [TimerId -> {"NOT_ALLOCATED", "NOT_USED", "STOPPED", "RUNNING"}]
      /\ func_cb \in [TimerId -> BOOLEAN]
      /\ {restarted, misled} \subseteq BOOLEAN
      /\ FreeTimer(i) /\ state[i] = "NOT_USED" /\ w \in 0 .. MAX_TIMER
  BY TimerConstants DEF TimerInv, SoftTimerTypeOK, OSTimerSet, FreeTimer
<1>2. CASE Fault
  BY <1>2, FaultKeepsInv DEF Fault
<1>3. CASE /\ Arm(i, w) /\ func_cb' = [func_cb EXCEPT ![i] = TRUE]
           /\ UNCHANGED restarted
  <2>1. ~restarted' => HeapsInv'
    BY <1>1, <1>3, ArmLinks, NewTimerUnlinked
  <2>2. UNCHANGED timerTaskFrame
    BY <1>3 DEF Arm
  <2>3. func_cb' \in [TimerId -> BOOLEAN] /\ restarted' \in BOOLEAN
    BY <1>1, <1>3
  <2> QED
    BY <1>1, <1>3, <2>1, <2>2, <2>3, ArmTypes, ServiceKeepsInv
<1>4. CASE /\ state' = [state EXCEPT ![i] = "STOPPED"]
           /\ func_cb' = [func_cb EXCEPT ![i] = TRUE]
           /\ UNCHANGED <<timeout, current, future, history, TimeToWait,
                          timerTaskFrame>>
  <2>1. /\ state' \in [TimerId -> {"NOT_ALLOCATED", "NOT_USED", "STOPPED", "RUNNING"}]
        /\ func_cb' \in [TimerId -> BOOLEAN]
        /\ \A j \in TimerId : j # i => state'[j] = state[j]
        /\ state'[i] = "STOPPED"
    BY <1>1, <1>4
  <2>2. UNCHANGED <<timeout, current, future, pc, p, TimeToWait, due, restarted,
                    misled, unreduced>>
    BY <1>4 DEF timerTaskFrame, localVars, history
  <2>3. ~restarted' => HeapsInv'
    <3> SUFFICES ASSUME ~restarted PROVE HeapsInv'
      BY <2>2
    <3>1. /\ ToSet(current) \subseteq TimerId /\ ToSet(future) \subseteq TimerId
          /\ HeapsInv
      BY HeapFacts DEF TimerInv
    <3>2. HeapsInv'
      BY <2>1, <2>2, <3>1 DEF HeapsInv, Root
    <3> QED
      BY <3>2
  <2>4. /\ timeout' \in [TimerId -> 0 .. MAX_TIMER]
        /\ {current', future'} \subseteq Seq(TimerId)
        /\ TimeToWait' \in [Thread -> 0 .. MAX_TIMER]
        /\ due' \in [TimerId -> Nat \cup {-1}]
        /\ {restarted', misled'} \subseteq BOOLEAN /\ unreduced' \subseteq TimerId
    BY <2>2 DEF TimerInv, SoftTimerTypeOK, TypeOK
  <2> QED
    BY <1>4, <2>1, <2>3, <2>4, ServiceKeepsInv
<1> QED
  BY <1>2, <1>3, <1>4 DEF OSTimerSet, ArmOverruns

\* The time that OSTimerStart passes on.
Clamped(w) == IF w > TIMER_MAX_COUNTER THEN TIMER_MAX_COUNTER ELSE w

\* So does OSTimerStart, of a linked timer as well.
LEMMA StartKeepsInv ==
  ASSUME TimerInv, Asleep, pc = "wake", NEW i \in TimerId, NEW w \in TimerWait,
         OSTimerStart(i, w)
  PROVE  TimerInv'
<1> PICK v : v = Clamped(w)
  OBVIOUS
<1>1. /\ v \in 0 .. MAX_TIMER
      /\ func_cb \in [TimerId -> BOOLEAN] /\ restarted \in BOOLEAN
  BY TimerConstants DEF TimerInv, SoftTimerTypeOK, Clamped
<1>2. CASE Fault
  BY <1>2, FaultKeepsInv DEF Fault
<1>3. CASE /\ Arm(i, v) /\ restarted' = (restarted \/ Linked(i))
           /\ UNCHANGED func_cb
  <2>1. ~restarted' => HeapsInv'
    BY <1>1, <1>3, ArmLinks
  <2>2. UNCHANGED timerTaskFrame
    BY <1>3 DEF Arm
  <2>3. func_cb' \in [TimerId -> BOOLEAN] /\ restarted' \in BOOLEAN
    BY <1>1, <1>3 DEF Linked
  <2> QED
    BY <1>1, <1>3, <2>1, <2>2, <2>3, ArmTypes, ServiceKeepsInv
<1> QED
  BY <1>2, <1>3 DEF OSTimerStart, ArmOverruns, Clamped

\* And OSTimerStop, and the deletion of a timer.
LEMMA StopKeepsInv ==
  ASSUME TimerInv, Asleep, pc = "wake", ~fault, NEW i \in TimerId,
         state[i] # "NOT_USED", NEW del \in BOOLEAN, OSTimerStop(i, del)
  PROVE  TimerInv'
<1>1. CASE fault'
  <2>1. Fault
    BY <1>1 DEF OSTimerStop, timerTaskFrame
  <2> QED
    BY <2>1, FaultKeepsInv DEF Fault
<1>2. CASE ~fault'
  <2>1. /\ timeout' \in [TimerId -> 0 .. MAX_TIMER]
        /\ {current', future'} \subseteq Seq(TimerId)
        /\ state' = [state EXCEPT ![i] = IF del THEN "NOT_ALLOCATED" ELSE "STOPPED"]
        /\ func_cb' \in [TimerId -> BOOLEAN]
        /\ due' = [due EXCEPT ![i] = -1]
        /\ misled' = \/ misled
                     \/ /\ current' # <<>>
                        /\ timeout'[Root(current')] # TimeToWait[TimerTask]
        /\ unreduced' = unreduced \ {i}
        /\ UNCHANGED <<restarted, TimeToWait, timerTaskFrame>>
    BY <1>2, StopTypes
  <2>2. /\ state \in [TimerId -> {"NOT_ALLOCATED", "NOT_USED", "STOPPED", "RUNNING"}]
        /\ due \in [TimerId -> Nat \cup {-1}] /\ unreduced \subseteq TimerId
        /\ {restarted, misled} \subseteq BOOLEAN
        /\ TimeToWait \in [Thread -> 0 .. MAX_TIMER]
    BY DEF TimerInv, SoftTimerTypeOK, TypeOK
  <2>3. state' \in [TimerId -> {"NOT_ALLOCATED", "NOT_USED", "STOPPED", "RUNNING"}]
    BY <2>1, <2>2
  <2>4. due' \in [TimerId -> Nat \cup {-1}]
    BY <2>1, <2>2
  <2>5. /\ {restarted', misled'} \subseteq BOOLEAN /\ unreduced' \subseteq TimerId
        /\ TimeToWait' \in [Thread -> 0 .. MAX_TIMER]
    BY <2>1, <2>2
  <2>6. ~restarted' => HeapsInv'
    BY <1>2, <2>1, StopUnlinks
  <2> QED
    BY <2>1, <2>3, <2>4, <2>5, <2>6, ServiceKeepsInv
<1> QED
  BY <1>1, <1>2

\* Every step of a user task keeps the invariant.
LEMMA ClientKeepsInv ==
  ASSUME TimerInv, NEW t \in Client, ClientStep(t)
  PROVE  TimerInv'
<1>1. Asleep /\ pc = "wake" /\ ~fault
  BY ClientsRunWhileAsleep DEF ClientStep
<1> QED
  BY <1>1, SetKeepsInv, StartKeepsInv, StopKeepsInv DEF ClientStep

\* A step of the timer task that the kernel does not see.
LEMMA TaskStepKeepsInv ==
  ASSUME TimerInv, ~Asleep, UNCHANGED <<kernelVars, restarted, misled, fault>>,
         timeout' \in [TimerId -> 0 .. MAX_TIMER],
         {current', future'} \subseteq Seq(TimerId),
         state' \in [TimerId -> {"NOT_ALLOCATED", "NOT_USED", "STOPPED", "RUNNING"}],
         func_cb' \in [TimerId -> BOOLEAN],
         due' \in [TimerId -> Nat \cup {-1}], unreduced' \subseteq TimerId,
         pc' \in {"start", "store", "link", "wake", "drain", "drainCallback",
                  "serve", "callback"},
         pc' \in {"drainCallback", "callback"} => p' # NoTimer,
         p' \in TimerId \cup {NoTimer}, next_time_to_wake' \in 0 .. MAX_TIMER,
         crossed' \in BOOLEAN, ~restarted => HeapsInv'
  PROVE  TimerInv'
<1>1. KernelInv'
  BY DEF TimerInv, KernelInv, kernelVars, TypeOK, PrioritiesOwned,
         RunningIsRunnable, NoTaskLost
<1>2. SoftTimerTypeOK'
  BY <1>1 DEF TimerInv, KernelInv, SoftTimerTypeOK
<1>3. TimerTaskState'
  BY DEF TimerInv, TimerTaskState, Asleep, kernelVars
<1> QED
  BY <1>1, <1>2, <1>3 DEF TimerInv

\* The root of a heap is one of the timers, or none.
LEMMA RootType ==
  ASSUME NEW h \in Seq(TimerId)
  PROVE  Root(h) \in TimerId \cup {NoTimer}
BY DEF Root

\* The steps of the timer task that keep the heaps as they are.
LEMMA SimpleTaskStepKeepsInv ==
  ASSUME TimerInv, ~Asleep,
         \/ TimerTaskStarts \/ TimerTaskWakes
         \/ DrainFindsCallback \/ TimerTaskFindsExpired
  PROVE  TimerInv'
<1>1. CASE Fault
  BY <1>1, FaultKeepsInv DEF Fault
<1>2. CASE ~Fault
  <2>1. /\ UNCHANGED <<kernelVars, restarted, misled, fault>>
        /\ UNCHANGED <<state, timeout, func_cb, current, future, crossed, due,
                       unreduced>>
    BY <1>2 DEF TimerTaskStarts, TimerTaskWakes, DrainFindsCallback,
                TimerTaskFindsExpired, CallbackFound, heapVars, history
  <2>2. /\ pc' \in {"store", "drain", "drainCallback", "serve", "callback"}
        /\ pc' \in {"drainCallback", "callback"} => p' # NoTimer
    BY <1>2 DEF TimerTaskStarts, TimerTaskWakes, DrainFindsCallback,
                TimerTaskFindsExpired, CallbackFound, Expired
  <2>3. /\ p \in TimerId \cup {NoTimer} /\ next_time_to_wake \in 0 .. MAX_TIMER
        /\ current \in Seq(TimerId) /\ timeout \in [TimerId -> 0 .. MAX_TIMER]
    BY DEF TimerInv, SoftTimerTypeOK
  <2>4. Root(current) \in TimerId \cup {NoTimer}
    BY <2>3, RootType
  <2>5. p' \in TimerId \cup {NoTimer}
    BY <1>2, <2>3, <2>4 DEF TimerTaskStarts, TimerTaskWakes,
         DrainFindsCallback, TimerTaskFindsExpired, CallbackFound
  <2>6. next_time_to_wake' \in 0 .. MAX_TIMER
    <3>1. WakeTime(Root(current)) \in 0 .. MAX_TIMER
      <4>1. TIMER_MAX_COUNTER \in 0 .. MAX_TIMER
        BY TimerConstants
      <4>2. \A i \in TimerId : timeout'[i] \in 0 .. MAX_TIMER
        BY <2>1, <2>3
      <4> QED
        BY <2>4, <4>1, <4>2 DEF WakeTime
    <3> QED
      BY <1>2, <2>3, <3>1 DEF TimerTaskStarts, TimerTaskWakes,
           DrainFindsCallback, TimerTaskFindsExpired, CallbackFound
  <2>7. ASSUME ~restarted PROVE HeapsInv'
    <3>1. HeapsInv
      BY <2>7 DEF TimerInv
    <3>2. pc' \in {"drain", "drainCallback", "serve", "callback"} =>
            p' = Root(current)
      BY <1>2, <3>1 DEF TimerTaskStarts, TimerTaskWakes, DrainFindsCallback,
           TimerTaskFindsExpired, CallbackFound, HeapsInv
    <3> QED
      BY <2>1, <3>1, <3>2 DEF HeapsInv, Root
  <2>8. /\ func_cb' \in [TimerId -> BOOLEAN] /\ crossed' \in BOOLEAN
        /\ state' \in [TimerId -> {"NOT_ALLOCATED", "NOT_USED", "STOPPED", "RUNNING"}]
        /\ due' \in [TimerId -> Nat \cup {-1}] /\ unreduced' \subseteq TimerId
        /\ timeout' \in [TimerId -> 0 .. MAX_TIMER]
        /\ {current', future'} \subseteq Seq(TimerId)
    BY <2>1 DEF TimerInv, SoftTimerTypeOK
  <2> QED
    BY <2>1, <2>2, <2>5, <2>6, <2>7, <2>8, TaskStepKeepsInv
<1> QED
  BY <1>1, <1>2

\* Writing TimeToWait keeps the invariant.
LEMMA StoreKeepsInv ==
  ASSUME TimerInv, ~Asleep, TimerTaskStoresWakeTime
  PROVE  TimerInv'
<1>1. TimeToWait' \in [Thread -> 0 .. MAX_TIMER]
  BY DEF TimerTaskStoresWakeTime, TimerInv, SoftTimerTypeOK, TypeOK
<1>2. KernelInv'
  BY <1>1, TimeToWaitKeepsInv
  DEF TimerTaskStoresWakeTime, TimerInv, priorityVars
<1>3. UNCHANGED <<heapVars, crossed, history, fault>>
  BY DEF TimerTaskStoresWakeTime
<1>4. pc' = "link" /\ p' = NoTimer /\ next_time_to_wake' = 0
  BY DEF TimerTaskStoresWakeTime
<1>5. SoftTimerTypeOK'
  BY <1>2, <1>3, <1>4, TimerConstants
  DEF TimerInv, KernelInv, SoftTimerTypeOK, heapVars, history
<1>6. TimerTaskState'
  BY DEF TimerTaskStoresWakeTime, TimerInv, TimerTaskState, Asleep, priorityVars
<1>7. ~restarted' => HeapsInv'
  BY <1>3, <1>4 DEF TimerInv, HeapsInv, heapVars, history
<1> QED
  BY <1>2, <1>4, <1>5, <1>6, <1>7 DEF TimerInv

\* So does going to sleep.
LEMMA SleepsKeepsInv ==
  ASSUME TimerInv, ~Asleep, TimerTaskSleeps
  PROVE  TimerInv'
<1>1. KernelInv'
  BY SleepKeepsInv DEF TimerInv
<1>2. /\ UNCHANGED <<heapVars, p, next_time_to_wake, crossed, history, fault>>
      /\ pc' = "wake"
  BY DEF TimerTaskSleeps
<1>3. SoftTimerTypeOK'
  BY <1>1, <1>2 DEF TimerInv, KernelInv, SoftTimerTypeOK, heapVars, history
<1>4. TimerTaskState'
  BY DEF TimerTaskSleeps, TimerInv, TimerTaskState, Asleep, priorityVars
<1>5. ~restarted' => HeapsInv'
  BY <1>2 DEF TimerInv, HeapsInv, heapVars, history
<1> QED
  BY <1>1, <1>2, <1>3, <1>4, <1>5 DEF TimerInv

\* A callback that returned 0 ends its timer.
LEMMA FinishServes ==
  ASSUME TimerInv, p # NoTimer, Finish(p)
  PROVE  /\ Served(0) /\ 0 \in 0 .. MAX_TIMER
         /\ state' = [state EXCEPT ![p] = "NOT_ALLOCATED"]
         /\ state' \in [TimerId -> {"NOT_ALLOCATED", "NOT_USED", "STOPPED", "RUNNING"}]
         /\ func_cb' \in [TimerId -> BOOLEAN]
         /\ due' \in [TimerId -> Nat \cup {-1}] /\ unreduced' \subseteq TimerId
         /\ crossed' \in BOOLEAN
<1>1. /\ timeout' = [timeout EXCEPT ![p] = 0]
      /\ state' = [state EXCEPT ![p] = "NOT_ALLOCATED"]
      /\ func_cb' = [func_cb EXCEPT ![p] = FALSE]
      /\ current' = WithoutRoot(current, timeout')
      /\ due' = [due EXCEPT ![p] = -1]
      /\ unreduced' = unreduced \ {p}
      /\ future' = future /\ crossed' = crossed
  BY DEF Finish
<1>2. /\ state \in [TimerId -> {"NOT_ALLOCATED", "NOT_USED", "STOPPED", "RUNNING"}]
      /\ func_cb \in [TimerId -> BOOLEAN] /\ crossed \in BOOLEAN
      /\ due \in [TimerId -> Nat \cup {-1}] /\ unreduced \subseteq TimerId
  BY DEF TimerInv, SoftTimerTypeOK
<1>3. Served(0)
  BY <1>1 DEF Served
<1>4. 0 \in 0 .. MAX_TIMER
  BY TimerConstants
<1> QED
  BY <1>1, <1>2, <1>3, <1>4

\* The history of a timer that repeats.
LEMMA RepeatTypes ==
  ASSUME TimerInv, p # NoTimer, NEW r \in Repeat,
         due' = [due EXCEPT ![p] = r],
         unreduced' \in {unreduced \cup {p}, unreduced \ {p}},
         UNCHANGED <<state, func_cb>>
  PROVE  /\ state' \in [TimerId -> {"NOT_ALLOCATED", "NOT_USED", "STOPPED", "RUNNING"}]
         /\ func_cb' \in [TimerId -> BOOLEAN]
         /\ due' \in [TimerId -> Nat \cup {-1}] /\ unreduced' \subseteq TimerId
<1>1. /\ state \in [TimerId -> {"NOT_ALLOCATED", "NOT_USED", "STOPPED", "RUNNING"}]
      /\ func_cb \in [TimerId -> BOOLEAN] /\ p \in TimerId /\ r \in Nat
      /\ due \in [TimerId -> Nat \cup {-1}] /\ unreduced \subseteq TimerId
  BY TimerConstants DEF TimerInv, SoftTimerTypeOK
<1> QED
  BY <1>1

\* The return of a callback, in the drain or in its turn.
LEMMA ServedKeepsInv ==
  ASSUME TimerInv, ~Asleep, pc \in {"drainCallback", "callback"},
         UNCHANGED <<kernelVars, next_time_to_wake, restarted, misled, fault>>,
         current # <<>>, NEW v \in 0 .. MAX_TIMER, Served(v),
         \/ UNCHANGED state
         \/ state' = [state EXCEPT ![p] = "NOT_ALLOCATED"],
         state' \in [TimerId -> {"NOT_ALLOCATED", "NOT_USED", "STOPPED", "RUNNING"}],
         func_cb' \in [TimerId -> BOOLEAN],
         due' \in [TimerId -> Nat \cup {-1}], unreduced' \subseteq TimerId,
         crossed' \in BOOLEAN, pc' \in {"drain", "serve"}, p' = Root(current')
  PROVE  TimerInv'
<1>1. p # NoTimer /\ next_time_to_wake \in 0 .. MAX_TIMER
  BY DEF TimerInv, SoftTimerTypeOK
<1>2. /\ timeout' \in [TimerId -> 0 .. MAX_TIMER]
      /\ {current', future'} \subseteq Seq(TimerId)
  BY <1>1, ServedTypes
<1>3. p' \in TimerId \cup {NoTimer}
  BY <1>2, RootType
<1>4. ~restarted => HeapsInv'
  BY ServedHeaps
<1>5. next_time_to_wake' \in 0 .. MAX_TIMER
  BY <1>1
<1> QED
  BY <1>2, <1>3, <1>4, <1>5, TaskStepKeepsInv

\* The drain of the current heap keeps the invariant.
LEMMA DrainCallbackKeepsInv ==
  ASSUME TimerInv, ~Asleep, NEW r \in Repeat, DrainCallback(r)
  PROVE  TimerInv'
<1>1. CASE Fault
  BY <1>1, FaultKeepsInv DEF Fault
<1>2. CASE ~Fault
  <2>1. /\ pc = "drainCallback" /\ pc' = "drain" /\ p # NoTimer
        /\ p' = Root(current') /\ current # <<>>
        /\ UNCHANGED <<kernelVars, next_time_to_wake, restarted, misled, fault>>
    BY <1>2 DEF DrainCallback, CallbackFaults, CallbackReturns, TimerInv
  <2>2. CASE Finish(p)
    BY <2>1, <2>2, FinishServes, ServedKeepsInv
  <2>3. CASE /\ timeout' = [timeout EXCEPT ![p] =
                              (OSTickCounter + r) % (MAX_TIMER + 1)]
             /\ future' = Inserted(future, timeout', p)
             /\ current' = WithoutRoot(current, timeout')
             /\ crossed' = (OSTickCounter + r > TIMER_MAX_COUNTER)
             /\ due' = [due EXCEPT ![p] = r]
             /\ unreduced' = IF BeyondWrap(r) THEN unreduced \cup {p}
                                              ELSE unreduced \ {p}
             /\ UNCHANGED <<state, func_cb>>
    <3> PICK v : v = (OSTickCounter + r) % (MAX_TIMER + 1)
      OBVIOUS
    <3>1. v \in 0 .. MAX_TIMER
      <4>1. OSTickCounter + r \in Nat /\ MAX_TIMER \in Nat
        BY TimerConstants, TimerTypes DEF TimerInv
      <4>2. \A a, b \in Nat : a % (b + 1) \in 0 .. b
        OBVIOUS
      <4> QED
        BY <4>1, <4>2, Zenon
    <3>2. Served(v) /\ crossed' \in BOOLEAN
      BY <2>3 DEF Served
    <3>3. unreduced' \in {unreduced \cup {p}, unreduced \ {p}}
      BY <2>3
    <3>4. /\ state' \in [TimerId -> {"NOT_ALLOCATED", "NOT_USED", "STOPPED", "RUNNING"}]
          /\ func_cb' \in [TimerId -> BOOLEAN]
          /\ due' \in [TimerId -> Nat \cup {-1}] /\ unreduced' \subseteq TimerId
      BY <2>1, <2>3, <3>3, RepeatTypes
    <3>5. UNCHANGED state
      BY <2>3
    <3> QED
      BY <2>1, <3>1, <3>2, <3>4, <3>5, ServedKeepsInv
  <2> QED
    BY <1>2, <2>2, <2>3 DEF DrainCallback, CallbackFaults
<1> QED
  BY <1>1, <1>2

\* What Callback computes for a timer that repeats.
LEMMA RepeatServes ==
  ASSUME TimerInv, NEW r \in Repeat,
         IF BeyondWrap(r) THEN RepeatLater(p, OSTickCounter + r)
                          ELSE RepeatSooner(p, OSTickCounter + r)
  PROVE  \E v \in 0 .. MAX_TIMER :
           /\ Served(v)
           /\ v = IF OSTickCounter + r >= TICK_COUNT_OVERFLOW
                  THEN OSTickCounter + r - TICK_COUNT_OVERFLOW
                  ELSE OSTickCounter + r
<1>1. PICK t : t = OSTickCounter + r
  OBVIOUS
<1>2. /\ t \in Nat /\ TICK_COUNT_OVERFLOW \in Nat
      /\ OSTickCounter \in Nat /\ r \in Nat
      /\ ~(t >= TICK_COUNT_OVERFLOW) => t \in 0 .. MAX_TIMER
      /\ t >= TICK_COUNT_OVERFLOW => t - TICK_COUNT_OVERFLOW \in 0 .. MAX_TIMER
  BY <1>1, TimerConstants, TimerTypes DEF TimerInv
<1>3. PICK v : v = IF t >= TICK_COUNT_OVERFLOW THEN t - TICK_COUNT_OVERFLOW ELSE t
  OBVIOUS
<1>4. v \in 0 .. MAX_TIMER
  BY <1>2, <1>3
<1>5. Served(v)
  <2>1. CASE t >= TICK_COUNT_OVERFLOW
    <3>1. RepeatLater(p, t) /\ v = t - TICK_COUNT_OVERFLOW
      BY <1>1, <1>3, <2>1 DEF BeyondWrap
    <3> QED
      BY <3>1 DEF Served, RepeatLater
  <2>2. CASE ~(t >= TICK_COUNT_OVERFLOW)
    <3>1. RepeatSooner(p, t) /\ v = t
      BY <1>1, <1>3, <2>2 DEF BeyondWrap
    <3> QED
      BY <3>1 DEF Served, RepeatSooner
  <2> QED
    BY <2>1, <2>2
<1>6. v = IF OSTickCounter + r >= TICK_COUNT_OVERFLOW
          THEN OSTickCounter + r - TICK_COUNT_OVERFLOW
          ELSE OSTickCounter + r
  BY <1>1, <1>2, <1>3
<1> QED
  BY <1>4, <1>5, <1>6, Zenon

\* So does a callback whose turn it is.
LEMMA CallbackKeepsInv ==
  ASSUME TimerInv, ~Asleep, NEW r \in Repeat, Callback(r)
  PROVE  TimerInv'
<1>1. CASE Fault
  BY <1>1, FaultKeepsInv DEF Fault
<1>2. CASE ~Fault
  <2>1. /\ pc = "callback" /\ pc' = "serve" /\ p # NoTimer
        /\ p' = Root(current') /\ current # <<>>
        /\ UNCHANGED <<kernelVars, next_time_to_wake, restarted, misled, fault>>
    BY <1>2 DEF Callback, CallbackFaults, CallbackReturns, TimerInv
  <2>2. CASE Finish(p)
    BY <2>1, <2>2, FinishServes, ServedKeepsInv
  <2>3. CASE /\ IF BeyondWrap(r) THEN RepeatLater(p, OSTickCounter + r)
                                 ELSE RepeatSooner(p, OSTickCounter + r)
             /\ crossed' = (OSTickCounter + r > TIMER_MAX_COUNTER)
             /\ due' = [due EXCEPT ![p] = r]
             /\ unreduced' = unreduced \ {p}
             /\ UNCHANGED <<state, func_cb>>
    <3>1. PICK v \in 0 .. MAX_TIMER : Served(v)
      BY <2>3, RepeatServes
    <3>2. crossed' \in BOOLEAN /\ UNCHANGED state
      BY <2>3
    <3>3. /\ state' \in [TimerId -> {"NOT_ALLOCATED", "NOT_USED", "STOPPED", "RUNNING"}]
          /\ func_cb' \in [TimerId -> BOOLEAN]
          /\ due' \in [TimerId -> Nat \cup {-1}] /\ unreduced' \subseteq TimerId
      BY <2>1, <2>3, RepeatTypes
    <3> QED
      BY <2>1, <3>1, <3>2, <3>3, ServedKeepsInv
  <2> QED
    BY <1>2, <2>2, <2>3 DEF Callback, CallbackFaults
<1> QED
  BY <1>1, <1>2

\* The heaps may change places at the end of the drain and before the next
\* sleep.
LEMMA SwitchListsKeepsInv ==
  ASSUME TimerInv, ~Asleep, DrainEnds \/ TimerTaskServedAll
  PROVE  TimerInv'
<1>1. /\ UNCHANGED <<kernelVars, state, timeout, func_cb, crossed, history, fault>>
      /\ pc \in {"drain", "serve"}
      /\ \/ pc' = "serve" /\ p' = Root(current')
               /\ next_time_to_wake' = next_time_to_wake
         \/ pc' = "store" /\ next_time_to_wake' = WakeTime(p')
  BY DEF DrainEnds, TimerTaskServedAll
<1>2. \/ SwitchLists /\ p' = Root(current')
      \/ UNCHANGED <<current, future, p>>
  BY DEF DrainEnds, TimerTaskServedAll
<1>3. /\ p \in TimerId \cup {NoTimer}
      /\ next_time_to_wake \in 0 .. MAX_TIMER
      /\ current \in Seq(TimerId) /\ future \in Seq(TimerId)
      /\ timeout \in [TimerId -> 0 .. MAX_TIMER]
  BY DEF TimerInv, SoftTimerTypeOK
<1>4. \/ current' = current /\ future' = future
      \/ current' = future /\ future' = current
  BY <1>2 DEF SwitchLists
<1>5. p' \in TimerId \cup {NoTimer}
  BY <1>2, <1>3, <1>4, RootType
<1>6. next_time_to_wake' \in 0 .. MAX_TIMER
  <2>1. WakeTime(p') \in 0 .. MAX_TIMER
    BY <1>1, <1>3, <1>5, TimerConstants DEF WakeTime
  <2> QED
    BY <1>1, <1>3, <2>1
<1>7. ASSUME ~restarted PROVE HeapsInv'
  <2>1. /\ HeapOf(current, timeout', ToSet(current))
        /\ HeapOf(future, timeout', ToSet(future))
        /\ ToSet(current) \cap ToSet(future) = {}
        /\ \A i \in ToSet(current) \cup ToSet(future) : state'[i] # "NOT_USED"
        /\ \A i \in TimerId : state'[i] = "RUNNING" =>
             i \in ToSet(current) \cup ToSet(future) \/ timeout'[i] = 0
    BY <1>1, <1>7, HeapFacts
  <2>2. pc' \in {"drain", "drainCallback", "serve", "callback"} =>
          p' = Root(current')
    BY <1>1
  <2>3. CASE current' = current /\ future' = future
    BY <2>1, <2>2, <2>3, HeapsAgain
  <2>4. CASE current' = future /\ future' = current
    <3>1. /\ ToSet(future) \cap ToSet(current) = {}
          /\ ToSet(future) \cup ToSet(current) = ToSet(current) \cup ToSet(future)
      BY <2>1
    <3> QED
      BY <2>1, <2>2, <2>4, <3>1, HeapsAgain
  <2> QED
    BY <1>4, <2>3, <2>4
<1>8. /\ func_cb' \in [TimerId -> BOOLEAN] /\ crossed' \in BOOLEAN
      /\ state' \in [TimerId -> {"NOT_ALLOCATED", "NOT_USED", "STOPPED", "RUNNING"}]
      /\ due' \in [TimerId -> Nat \cup {-1}] /\ unreduced' \subseteq TimerId
      /\ timeout' \in [TimerId -> 0 .. MAX_TIMER]
      /\ UNCHANGED <<kernelVars, restarted, misled, fault>>
  BY <1>1 DEF TimerInv, SoftTimerTypeOK, history
<1>9. {current', future'} \subseteq Seq(TimerId)
  BY <1>3, <1>4
<1>10. pc' \in {"store", "serve"}
  BY <1>1
<1> QED
  BY <1>5, <1>6, <1>7, <1>8, <1>9, <1>10, TaskStepKeepsInv

\* The timer task executes only while it is not asleep.
LEMMA RunsAwake ==
  ASSUME TimerInv, Running(TimerTask)
  PROVE  ~Asleep
<1> SUFFICES ASSUME Asleep PROVE FALSE
  OBVIOUS
<1>1. currentTask = TimerTask /\ ~changeContext
  BY DEF Running
<1>2. Priority[TimerTask] \in OSReadyList
  BY <1>1, TimerConstants, ThreadAssumption
  DEF TimerInv, KernelInv, RunningIsRunnable
<1> QED
  BY <1>2, TimerConstants DEF TimerInv, KernelInv, NoTaskLost, Asleep

\* Every step of the timer task keeps the invariant.
LEMMA TimerTaskKeepsInv ==
  ASSUME TimerInv, BRTOSTimerTask
  PROVE  TimerInv'
<1>1. ~Asleep
  BY RunsAwake DEF BRTOSTimerTask
<1> QED
  BY <1>1, SimpleTaskStepKeepsInv, StoreKeepsInv, SleepsKeepsInv,
     DrainCallbackKeepsInv, CallbackKeepsInv, SwitchListsKeepsInv
  DEF BRTOSTimerTask

\* The tick and the context switch keep the invariant.
LEMMA InterruptKeepsTimerInv ==
  ASSUME TimerTaskOnTop, TimerInv, Tick \/ Switch
  PROVE  TimerInv'
<1>1. KernelInv'
  BY TickKeepsInv, SwitchKeepsInv DEF TimerInv, Tick, Switch
<1>2. /\ UNCHANGED <<heapVars, localVars, restarted, misled, unreduced, fault>>
      /\ Reschedule
      /\ Priority' = Priority /\ OSBlockedList' = OSBlockedList
      /\ delayList' \subseteq delayList
  BY DEF Tick, Switch, TickTimer, SwitchContext, priorityVars, history
<1>3. due' \in [TimerId -> Nat \cup {-1}]
  <2>1. due \in [TimerId -> Nat \cup {-1}]
    BY DEF TimerInv, SoftTimerTypeOK
  <2>2. CASE due' = due
    BY <2>1, <2>2
  <2>3. CASE due' = [i \in TimerId |-> IF due[i] >= 0 THEN due[i] - 1 ELSE -1]
    <3>1. \A i \in TimerId : due[i] >= 0 => due[i] - 1 \in Nat \cup {-1}
      BY <2>1
    <3> QED
      BY <2>3, <3>1
  <2> QED
    BY <2>2, <2>3 DEF Tick, Switch, history
<1>4. TimerTaskState'
  <2>1. Priority' = InitPriority /\ OSBlockedList' = PrioRange
    BY <1>2 DEF TimerInv, TimerTaskState
  <2>2. TimerTask \notin delayList' => currentTask' = TimerTask /\ ~changeContext'
    BY <1>1, <1>2, <2>1, TimerTaskRunsFirst
  <2>3. TimerTask \in delayList' => pc' = "wake"
    BY <1>2 DEF TimerInv, TimerTaskState, Asleep, localVars
  <2> QED
    BY <2>1, <2>2, <2>3 DEF TimerTaskState, Asleep
<1>5. fault' \in BOOLEAN
  BY <1>2 DEF TimerInv, SoftTimerTypeOK
<1> QED
  BY <1>1, <1>2, <1>3, <1>4, <1>5, OtherStepKeepsInv

\* Every step keeps the invariant.
LEMMA StepTimerInv ==
  ASSUME TimerTaskOnTop, TimerInv, [TimerNext]_vars
  PROVE  TimerInv'
<1>1. CASE UNCHANGED vars
  <2>1. UNCHANGED <<kernelVars, heapVars, localVars, history, fault>>
    BY <1>1 DEF vars
  <2>2. fault' \in BOOLEAN
    BY <2>1 DEF TimerInv, SoftTimerTypeOK
  <2> QED
    BY <2>1, <2>2, FaultKeepsInv
<1> QED
  BY <1>1, ClientKeepsInv, TimerTaskKeepsInv, InterruptKeepsTimerInv
  DEF TimerNext

\* The invariant holds whenever the timer task has the highest priority,
\* whatever timers are set, started, stopped and deleted.
THEOREM TimerInvariance ==
  ASSUME TimerTaskOnTop
  PROVE  TimerSpec => []TimerInv
<1>1. TimerInit => TimerInv
  BY InitTimerInv
<1>2. TimerInv /\ [TimerNext]_vars => TimerInv'
  BY StepTimerInv
<1> QED
  BY <1>1, <1>2, PTL DEF TimerSpec

\* The types of the timer module's variables: heaps hold control blocks,
\* timeouts fit ostick_t, also when a timer is linked many times.
THEOREM SoftTimerTypeCorrect ==
  ASSUME TimerTaskOnTop
  PROVE  TimerSpec => []SoftTimerTypeOK
<1>1. TimerInv => SoftTimerTypeOK
  BY DEF TimerInv
<1> QED
  BY <1>1, TimerInvariance, PTL

\* The sifts of stimer.c keep both heaps in order through every operation,
\* until a timer is started while it is linked.
THEOREM HeapsStayOrdered ==
  ASSUME TimerTaskOnTop
  PROVE  TimerSpec => []HeapOrdered
<1>1. TimerInv => HeapOrdered
  BY DEF TimerInv, HeapsInv, HeapOf, HeapBy, HeapOrdered, IsHeap
<1> QED
  BY <1>1, TimerInvariance, PTL

\* Until then no timer is linked twice, and a running one that has lost its
\* link has timeout 0: OSTimerStop removed it in place of another.
THEOREM TimersLinkedOnce ==
  ASSUME TimerTaskOnTop
  PROVE  TimerSpec => []RunningTimersLinked
<1>1. TimerInv => RunningTimersLinked
  <2> SUFFICES ASSUME TimerInv, ~restarted PROVE RunningTimersLinked
    BY DEF RunningTimersLinked
  <2>1. PICK m, n \in Nat : m = Len(current) /\ n = Len(future)
    BY HeapFacts DEF HeapOf
  <2>2. /\ current \in Seq(TimerId) /\ future \in Seq(TimerId)
        /\ \A a, b \in 1 .. m : current[a] = current[b] => a = b
        /\ \A a, b \in 1 .. n : future[a] = future[b] => a = b
    <3>1. /\ current \in Seq(TimerId) /\ Distinct(current)
          /\ future \in Seq(TimerId) /\ Distinct(future)
      BY HeapFacts DEF HeapOf
    <3> QED
      BY <2>1, <3>1 DEF Distinct
  <2>3. \A a \in 1 .. m, b \in 1 .. n : current[a] # future[b]
    <3>1. /\ \A a \in 1 .. m : current[a] \in ToSet(current)
          /\ \A b \in 1 .. n : future[b] \in ToSet(future)
      BY <2>1, <2>2 DEF ToSet
    <3> QED
      BY <3>1, HeapFacts
  <2>4. /\ DOMAIN Both = 1 .. m + n
        /\ \A k \in 1 .. m + n : Both[k] = IF k <= m THEN current[k]
                                                     ELSE future[k - m]
    BY <2>1, <2>2 DEF Both
  <2>5. ASSUME NEW a \in 1 .. m + n, NEW b \in 1 .. m + n, Both[a] = Both[b]
        PROVE  a = b
    <3>1. /\ a <= m => a \in 1 .. m
          /\ b <= m => b \in 1 .. m
          /\ ~(a <= m) => a - m \in 1 .. n
          /\ ~(b <= m) => b - m \in 1 .. n
      BY <2>1
    <3>2. CASE a <= m /\ b <= m
      BY <2>2, <2>4, <2>5, <3>1, <3>2
    <3>3. CASE ~(a <= m) /\ ~(b <= m)
      <4>1. future[a - m] = future[b - m]
        BY <2>4, <2>5, <3>3
      <4>2. a - m = b - m
        BY <2>2, <3>1, <3>3, <4>1
      <4> QED
        BY <4>2
    <3>4. CASE a <= m <=> ~(b <= m)
      BY <2>3, <2>4, <2>5, <3>1, <3>4
    <3> QED
      BY <3>2, <3>3, <3>4
  <2>6. LinkedOnce
    BY <2>4, <2>5 DEF LinkedOnce
  <2> QED
    BY <2>6, HeapFacts DEF RunningTimersLinked, Linked
<1> QED
  BY <1>1, TimerInvariance, PTL

-----------------------------------------------------------------------------
(* The time left *)

\* Nothing waits for the whole range of the tick counter or longer.
ShortTimes ==
  TimerWait \subseteq 0 .. TIMER_MAX_COUNTER /\ Repeat \subseteq 0 .. TIMER_MAX_COUNTER

\* Every timeout that was reduced at the wrap is the tick at which its timer
\* shall fire.
LeftInv ==
  \A i \in TimerId \ unreduced :
    due[i] >= 0 => timeout[i] < TICK_COUNT_OVERFLOW /\ due[i] = OSTimerGet(i)

\* The tick w ticks from now.
TickIn(w) == IF OSTickCounter + w >= TICK_COUNT_OVERFLOW
             THEN OSTickCounter + w - TICK_COUNT_OVERFLOW
             ELSE OSTickCounter + w

\* OSTimerGet inverts it.
LEMMA LeftUntilTickIn ==
  ASSUME TimerInv, TimerInv', UNCHANGED OSTickCounter, NEW i \in TimerId,
         NEW w \in 0 .. TIMER_MAX_COUNTER, timeout'[i] = TickIn(w)
  PROVE  timeout'[i] < TICK_COUNT_OVERFLOW /\ OSTimerGet(i)' = w
<1>1. PICK v, now, last, over : /\ v = timeout'[i] /\ now = OSTickCounter
                                /\ last = TIMER_MAX_COUNTER
                                /\ over = TICK_COUNT_OVERFLOW
  OBVIOUS
<1>2. /\ now \in Nat /\ now <= last /\ last \in Nat /\ over = last + 1
      /\ w \in Nat /\ w <= last
  BY <1>1, TimerConstants, TimerTypes DEF TimerInv
<1>3. v = IF now + w >= over THEN now + w - over ELSE now + w
  BY <1>1 DEF TickIn
<1>4. v \in Nat /\ v < over
  BY <1>2, <1>3
<1>5. OSTimerGet(i)' = IF v >= now THEN v - now ELSE last - now + v + 1
  BY <1>1 DEF OSTimerGet
<1>6. OSTimerGet(i)' = w
  BY <1>2, <1>3, <1>4, <1>5
<1> QED
  BY <1>1, <1>4, <1>6

\* Between two ticks the time left is right for a timer that keeps its timeout
\* and for one that gets a new one.
LEMMA LeftKept ==
  ASSUME TimerInv, TimerInv', LeftInv, UNCHANGED OSTickCounter,
         \A i \in TimerId \ unreduced' : due'[i] >= 0 =>
           \/ /\ i \notin unreduced /\ due'[i] = due[i]
              /\ timeout'[i] = timeout[i]
           \/ \E w \in 0 .. TIMER_MAX_COUNTER :
                due'[i] = w /\ timeout'[i] = TickIn(w)
  PROVE  LeftInv'
<1> SUFFICES ASSUME NEW i \in TimerId \ unreduced', due'[i] >= 0
             PROVE  /\ timeout'[i] < TICK_COUNT_OVERFLOW
                    /\ due'[i] = OSTimerGet(i)'
  BY DEF LeftInv
<1>1. CASE /\ i \notin unreduced /\ due'[i] = due[i]
           /\ timeout'[i] = timeout[i]
  <2>1. timeout[i] < TICK_COUNT_OVERFLOW /\ due[i] = OSTimerGet(i)
    BY <1>1 DEF LeftInv
  <2>2. OSTimerGet(i)' = OSTimerGet(i)
    BY <1>1 DEF OSTimerGet
  <2> QED
    BY <1>1, <2>1, <2>2
<1>2. CASE \E w \in 0 .. TIMER_MAX_COUNTER :
             due'[i] = w /\ timeout'[i] = TickIn(w)
  BY <1>2, LeftUntilTickIn
<1> QED
  BY <1>1, <1>2

\* A new timeout of one timer, or none.
LEMMA LeftOfOne ==
  ASSUME TimerInv, TimerInv', LeftInv, UNCHANGED OSTickCounter,
         NEW i \in TimerId, NEW w \in 0 .. TIMER_MAX_COUNTER,
         due' = [due EXCEPT ![i] = w], timeout' = [timeout EXCEPT ![i] = TickIn(w)],
         unreduced' = unreduced \ {i}
  PROVE  LeftInv'
<1>1. /\ due \in [TimerId -> Nat \cup {-1}] /\ timeout \in [TimerId -> Nat]
  BY TimerTypes DEF TimerInv, SoftTimerTypeOK
<1>2. due'[i] = w /\ timeout'[i] = TickIn(w)
  BY <1>1
<1>3. \A j \in TimerId \ {i} : due'[j] = due[j] /\ timeout'[j] = timeout[j]
  BY <1>1
<1> QED
  BY <1>2, <1>3, LeftKept

\* A timer that is stopped or gone has no time left.
LEMMA LeftOfNone ==
  ASSUME TimerInv, TimerInv', LeftInv, UNCHANGED OSTickCounter,
         NEW i \in TimerId, NEW v,
         due' = [due EXCEPT ![i] = -1], timeout' = [timeout EXCEPT ![i] = v],
         unreduced' = unreduced \ {i}
  PROVE  LeftInv'
<1>1. /\ due \in [TimerId -> Nat \cup {-1}] /\ timeout \in [TimerId -> Nat]
  BY TimerTypes DEF TimerInv, SoftTimerTypeOK
<1>2. due'[i] = -1
  BY <1>1
<1>3. \A j \in TimerId \ {i} : due'[j] = due[j] /\ timeout'[j] = timeout[j]
  BY <1>1
<1>4. ~(-1 >= 0)
  OBVIOUS
<1> QED
  BY <1>2, <1>3, <1>4, LeftKept

\* A step that changes no timeout.
LEMMA LeftOfAll ==
  ASSUME TimerInv, TimerInv', LeftInv,
         UNCHANGED <<OSTickCounter, timeout, due, unreduced>>
  PROVE  LeftInv'
BY LeftKept

\* A fault changes nothing else.
LEMMA FaultIsLast ==
  ASSUME Fault
  PROVE  UNCHANGED <<kernelVars, heapVars, localVars, history, OSTickCounter,
                     delayList, TimeToWait, state, timeout, func_cb, current,
                     future, pc, p, next_time_to_wake, crossed, due, restarted,
                     misled, unreduced>>
BY DEF Fault, kernelVars, heapVars, localVars, history

\* The services keep the time left of every timer right.
LEMMA ClientLeft ==
  ASSUME ShortTimes, TimerInv, TimerInv', LeftInv, NEW t \in Client, ClientStep(t)
  PROVE  LeftInv'
<1>1. CASE Fault
  BY <1>1, FaultIsLast, LeftOfAll
<1>2. ASSUME NEW i \in TimerId, NEW w \in 0 .. TIMER_MAX_COUNTER, Arm(i, w)
      PROVE  LeftInv'
  <2>1. w \in 0 .. MAX_TIMER
    BY TimerConstants
  <2>2. PICK v : /\ timeout' = [timeout EXCEPT ![i] = v]
                 /\ \/ /\ OSTickCounter + w >= TICK_COUNT_OVERFLOW
                       /\ v = OSTickCounter + w - TICK_COUNT_OVERFLOW
                    \/ /\ OSTickCounter + w < TICK_COUNT_OVERFLOW
                       /\ v = OSTickCounter + w
    BY <1>2, <2>1, ArmTimeout
  <2>3. OSTickCounter + w \in Nat /\ TICK_COUNT_OVERFLOW \in Nat
    BY <2>1, TimerConstants, TimerTypes DEF TimerInv
  <2>4. v = TickIn(w)
    BY <2>2, <2>3 DEF TickIn
  <2>5. /\ due' = [due EXCEPT ![i] = w] /\ unreduced' = unreduced \ {i}
        /\ UNCHANGED OSTickCounter
    BY <1>2 DEF Arm, timerTaskFrame
  <2> QED
    BY <2>2, <2>4, <2>5, LeftOfOne
<1>3. ASSUME NEW i \in TimerId, NEW w \in TimerWait, OSTimerSet(i, w), ~Fault
      PROVE  LeftInv'
  <2>1. w \in 0 .. TIMER_MAX_COUNTER
    BY DEF ShortTimes
  <2>2. CASE UNCHANGED <<timeout, history, timerTaskFrame>>
    BY <2>2, LeftOfAll DEF history, timerTaskFrame
  <2> QED
    BY <1>2, <1>3, <2>1, <2>2 DEF OSTimerSet, ArmOverruns
<1>4. ASSUME NEW i \in TimerId, NEW w \in TimerWait, OSTimerStart(i, w), ~Fault
      PROVE  LeftInv'
  <2>1. Clamped(w) \in 0 .. TIMER_MAX_COUNTER
    BY TimerConstants DEF Clamped
  <2>2. Arm(i, Clamped(w))
    BY <1>4 DEF OSTimerStart, ArmOverruns, Clamped
  <2> QED
    BY <1>2, <2>1, <2>2
<1>5. ASSUME NEW i \in TimerId, NEW del \in BOOLEAN, OSTimerStop(i, del), ~Fault
      PROVE  LeftInv'
  <2>1. /\ timeout' = [timeout EXCEPT ![i] = 0]
        /\ due' = [due EXCEPT ![i] = -1] /\ unreduced' = unreduced \ {i}
        /\ UNCHANGED OSTickCounter
    BY <1>5 DEF OSTimerStop, timerTaskFrame
  <2> QED
    BY <2>1, LeftOfNone
<1> QED
  BY <1>1, <1>3, <1>4, <1>5 DEF ClientStep

\* So does the timer task.
LEMMA TimerTaskLeft ==
  ASSUME ShortTimes, TimerInv, TimerInv', LeftInv, BRTOSTimerTask
  PROVE  LeftInv'
<1>1. CASE Fault
  BY <1>1, FaultIsLast, LeftOfAll
<1>2. CASE \/ TimerTaskStarts \/ TimerTaskStoresWakeTime \/ TimerTaskSleeps
           \/ TimerTaskWakes \/ DrainEnds \/ TimerTaskServedAll
  <2>1. UNCHANGED <<OSTickCounter, timeout, due, unreduced>>
    BY <1>2 DEF TimerTaskStarts, TimerTaskStoresWakeTime, TimerTaskSleeps,
         TimerTaskWakes, DrainEnds, TimerTaskServedAll, kernelVars, heapVars,
         history
  <2> QED
    BY <2>1, LeftOfAll
<1>3. CASE (DrainFindsCallback \/ TimerTaskFindsExpired) /\ ~Fault
  <2>1. UNCHANGED <<OSTickCounter, timeout, due, unreduced>>
    BY <1>3 DEF DrainFindsCallback, TimerTaskFindsExpired, CallbackFound,
         kernelVars, heapVars, history
  <2> QED
    BY <2>1, LeftOfAll
<1>4. ASSUME NEW r \in Repeat, DrainCallback(r) \/ Callback(r), ~Fault
      PROVE  LeftInv'
  <2>1. /\ p \in TimerId /\ UNCHANGED OSTickCounter
        /\ r \in 0 .. TIMER_MAX_COUNTER
    BY <1>4 DEF DrainCallback, Callback, CallbackFaults, CallbackReturns,
         TimerInv, SoftTimerTypeOK, ShortTimes, kernelVars
  <2>2. CASE Finish(p)
    <3>1. /\ timeout' = [timeout EXCEPT ![p] = 0]
          /\ due' = [due EXCEPT ![p] = -1] /\ unreduced' = unreduced \ {p}
      BY <2>2 DEF Finish
    <3> QED
      BY <2>1, <3>1, LeftOfNone
  <2>3. CASE /\ IF BeyondWrap(r) THEN RepeatLater(p, OSTickCounter + r)
                                 ELSE RepeatSooner(p, OSTickCounter + r)
             /\ due' = [due EXCEPT ![p] = r]
             /\ unreduced' = unreduced \ {p}
    <3>1. timeout' = [timeout EXCEPT ![p] = TickIn(r)]
      BY <2>3, RepeatServes DEF Served, TickIn
    <3> QED
      BY <2>1, <2>3, <3>1, LeftOfOne
  <2>4. CASE /\ timeout' = [timeout EXCEPT ![p] =
                              (OSTickCounter + r) % (MAX_TIMER + 1)]
             /\ due' = [due EXCEPT ![p] = r]
             /\ unreduced' = IF BeyondWrap(r) THEN unreduced \cup {p}
                                              ELSE unreduced \ {p}
    <3>1. CASE BeyondWrap(r)
      <4>1. /\ due \in [TimerId -> Nat \cup {-1}] /\ timeout \in [TimerId -> Nat]
        BY TimerTypes DEF TimerInv, SoftTimerTypeOK
      <4>2. \A j \in TimerId \ {p} : due'[j] = due[j] /\ timeout'[j] = timeout[j]
        BY <2>4, <4>1
      <4>3. unreduced' = unreduced \cup {p}
        BY <2>4, <3>1
      <4> QED
        BY <2>1, <4>2, <4>3, LeftKept
    <3>2. CASE ~BeyondWrap(r)
      <4>1. (OSTickCounter + r) % (MAX_TIMER + 1) = TickIn(r)
        <5>1. PICK x : x = OSTickCounter + r
          OBVIOUS
        <5>2. x \in Nat /\ MAX_TIMER \in Nat /\ x <= MAX_TIMER
              /\ ~(x >= TICK_COUNT_OVERFLOW)
          BY <2>1, <3>2, <5>1, TimerConstants, TimerTypes DEF BeyondWrap, TimerInv
        <5>3. \A a, b \in Nat : a <= b => a % (b + 1) = a
          OBVIOUS
        <5>4. x % (MAX_TIMER + 1) = x
          BY <5>2, <5>3
        <5> QED
          BY <5>1, <5>2, <5>4, Zenon DEF TickIn
      <4>2. unreduced' = unreduced \ {p}
        BY <2>4, <3>2
      <4>3. timeout' = [timeout EXCEPT ![p] = TickIn(r)]
        BY <2>4, <4>1, Zenon
      <4> QED
        BY <2>1, <2>4, <4>2, <4>3, LeftOfOne
    <3> QED
      BY <3>1, <3>2
  <2> QED
    BY <1>4, <2>2, <2>3, <2>4 DEF DrainCallback, Callback, CallbackFaults
<1> QED
  BY <1>1, <1>2, <1>3, <1>4 DEF BRTOSTimerTask

\* What a tick does to the counter and to the history.
LEMMA TickFacts ==
  ASSUME TimerInv, Tick
  PROVE  /\ UNCHANGED <<state, timeout, func_cb, current, future, pc, p,
                        next_time_to_wake, crossed, restarted, misled, unreduced>>
         /\ \A i \in TimerId :
              /\ due[i] \in Nat \cup {-1}
              /\ due'[i] = IF due[i] >= 0 THEN due[i] - 1 ELSE -1
         /\ OSTickCounter' = IF OSTickCounter = TIMER_MAX_COUNTER
                             THEN 0 ELSE OSTickCounter + 1
         /\ Asleep /\ TimeToWait[TimerTask] # OSTickCounter' =>
              Asleep' /\ TimeToWait'[TimerTask] = TimeToWait[TimerTask]
         /\ Asleep /\ TimeToWait[TimerTask] = OSTickCounter' => ~Asleep'
         /\ ~Asleep => ~Asleep' /\ TimeToWait'[TimerTask] = TimeToWait[TimerTask]
<1>1. UNCHANGED <<state, timeout, func_cb, current, future, pc, p,
                  next_time_to_wake, crossed, restarted, misled, unreduced>>
  BY DEF Tick, heapVars, localVars
<1>2. \A i \in TimerId :
        /\ due[i] \in Nat \cup {-1}
        /\ due'[i] = IF due[i] >= 0 THEN due[i] - 1 ELSE -1
  BY DEF Tick, TimerInv, SoftTimerTypeOK
<1>3. OSTickCounter' = IF OSTickCounter = TIMER_MAX_COUNTER
                       THEN 0 ELSE OSTickCounter + 1
  <2>1. OSTickCounter' = IF OSTickCounter + 1 = TICK_COUNT_OVERFLOW
                         THEN 0 ELSE OSTickCounter + 1
    BY DEF Tick, TickTimer, IncCounter
  <2> QED
    BY <2>1, TimerConstants, TimerTypes DEF TimerInv
<1>4. TimerTask \in Thread
  BY TimerConstants
<1> QED
  BY <1>1, <1>2, <1>3, <1>4 DEF Tick, TickTimer, Asleep

\* A tick takes one tick from the time left, also at the wrap.
LEMMA TickLeft ==
  ASSUME TimerInv, LeftInv, Tick
  PROVE  LeftInv'
<1> SUFFICES ASSUME NEW i \in TimerId \ unreduced', due'[i] >= 0
             PROVE  /\ timeout'[i] < TICK_COUNT_OVERFLOW
                    /\ due'[i] = OSTimerGet(i)'
  BY DEF LeftInv
<1>1. PICK v, now, next, last, d : /\ v = timeout[i] /\ now = OSTickCounter
                                   /\ next = OSTickCounter' /\ d = due[i]
                                   /\ last = TIMER_MAX_COUNTER
  OBVIOUS
<1>2. /\ i \in TimerId /\ i \notin unreduced /\ timeout'[i] = v
      /\ d \in Nat \cup {-1} /\ due'[i] = IF d >= 0 THEN d - 1 ELSE -1
      /\ next = IF now = last THEN 0 ELSE now + 1
  BY <1>1, TickFacts
<1>3. d \in Nat /\ d >= 1 /\ due'[i] = d - 1
  BY <1>2
<1>4. /\ v \in Nat /\ now \in Nat /\ now <= last /\ last \in Nat
      /\ TICK_COUNT_OVERFLOW = last + 1
  BY <1>1, <1>2, TimerConstants, TimerTypes DEF TimerInv
<1>5. v < TICK_COUNT_OVERFLOW /\ d = OSTimerGet(i)
  BY <1>1, <1>2, <1>3 DEF LeftInv
<1>6. OSTimerGet(i) = IF v >= now THEN v - now ELSE last - now + v + 1
  BY <1>1 DEF OSTimerGet
<1>7. OSTimerGet(i)' = IF v >= next THEN v - next ELSE last - next + v + 1
  BY <1>1, <1>2 DEF OSTimerGet
<1>8. v # now
  BY <1>3, <1>4, <1>5, <1>6
<1>9. CASE now = last
  <2>1. next = 0 /\ v < now
    BY <1>2, <1>4, <1>5, <1>8, <1>9
  <2>2. d = v + 1 /\ OSTimerGet(i)' = v
    BY <1>4, <1>5, <1>6, <1>7, <1>9, <2>1
  <2> QED
    BY <1>2, <1>3, <1>4, <1>5, <2>2
<1>10. CASE now # last
  <2>1. next = now + 1
    BY <1>2, <1>10
  <2>2. CASE v > now
    BY <1>2, <1>3, <1>4, <1>5, <1>6, <1>7, <2>1, <2>2
  <2>3. CASE v < now
    BY <1>2, <1>3, <1>4, <1>5, <1>6, <1>7, <2>1, <2>3
  <2> QED
    BY <1>4, <1>8, <2>2, <2>3
<1> QED
  BY <1>9, <1>10

\* Every step keeps the time left right.
LEMMA StepLeft ==
  ASSUME ShortTimes, TimerInv, TimerInv', LeftInv, [TimerNext]_vars
  PROVE  LeftInv'
<1>1. CASE UNCHANGED vars \/ Switch
  <2>1. UNCHANGED <<OSTickCounter, timeout, due, unreduced>>
    BY <1>1 DEF vars, kernelVars, heapVars, history, Switch, SwitchContext
  <2> QED
    BY <2>1, LeftOfAll
<1> QED
  BY <1>1, ClientLeft, TimerTaskLeft, TickLeft DEF TimerNext

\* At the start no timer has a time.
LEMMA InitLeft ==
  ASSUME TimerInit
  PROVE  LeftInv
<1>1. \A i \in TimerId : due[i] = -1
  BY DEF TimerInit
<1>2. ~(-1 >= 0)
  OBVIOUS
<1> QED
  BY <1>1, <1>2 DEF LeftInv

\* OSTimerGet tells the time left of every running timer that is not late, in
\* whatever order the services, the timer task and the tick come, unless the
\* timeout of the timer was not reduced at the wrap.
THEOREM TimeLeftIsExact ==
  ASSUME TimerTaskOnTop, ShortTimes
  PROVE  TimerSpec => []TimeLeftExact
<1>1. TimerInit => TimerInv /\ LeftInv
  BY InitTimerInv, InitLeft
<1>2. (TimerInv /\ LeftInv) /\ [TimerNext]_vars => (TimerInv /\ LeftInv)'
  BY StepTimerInv, StepLeft
<1>3. LeftInv => TimeLeftExact
  BY DEF LeftInv, TimeLeftExact
<1> QED
  BY <1>1, <1>2, <1>3, PTL DEF TimerSpec

-----------------------------------------------------------------------------
(* Never early *)

\* A timer that is still to come has its timeout in this period of the tick
\* counter.
Coming(i) == due[i] > 0 => timeout[i] >= OSTickCounter

\* A heap without the timers whose timeout was not reduced at the wrap.
Reduced(timers) == ToSet(timers) \ unreduced

\* The timer task takes, or has taken, the current heap for one of the last
\* period.
Draining ==
  \/ pc \in {"drain", "drainCallback"}
  \/ /\ ~Asleep /\ pc = "wake" /\ current # <<>>
     /\ timeout[Root(current)] > OSTickCounter

\* The timer task is going to wake at the first timeout; when it is awake, the
\* current heap has only timers of this period, or only timers that are late.
AwakeInTime ==
  /\ pc = "store" /\ current # <<>> =>
       next_time_to_wake = timeout[Root(current)]
  /\ (pc = "link" \/ Asleep) /\ current # <<>> =>
       TimeToWait[TimerTask] = timeout[Root(current)]
  /\ ~Asleep /\ pc \in {"wake", "serve", "callback"} =>
       \A i \in Reduced(current) : Coming(i)
  /\ Draining => /\ \A i \in Reduced(current) : due[i] <= 0
                 /\ \A i \in Reduced(future) : Coming(i)
  /\ pc = "callback" /\ p \notin unreduced => due[p] <= 0

EarlyInv == ~restarted /\ ~misled => AwakeInTime

\* At the start the heaps are empty.
LEMMA InitEarly ==
  ASSUME TimerInit
  PROVE  EarlyInv
BY DEF TimerInit, EarlyInv, AwakeInTime, Draining, Reduced, ToSet

\* A step that leaves the timers, the timer task and the tick counter alone.
LEMMA SameTimesEarly ==
  ASSUME EarlyInv, Asleep' = Asleep, TimeToWait' = TimeToWait,
         UNCHANGED <<OSTickCounter, timeout, current, future, pc, p,
                     next_time_to_wake, due, restarted, misled, unreduced>>
  PROVE  EarlyInv'
BY DEF EarlyInv, AwakeInTime, Draining, Reduced, Coming, Root

\* While the timer task sleeps, only its wake-up time counts.
LEMMA SleepingEarly ==
  ASSUME Asleep', pc' = "wake",
         ~restarted' /\ ~misled' /\ current' # <<>> =>
           TimeToWait'[TimerTask] = timeout'[Root(current')]
  PROVE  EarlyInv'
BY DEF EarlyInv, AwakeInTime, Draining, Root

\* Arm moves the wake-up time with the first timeout.
LEMMA ArmEarly ==
  ASSUME TimerInv, TimerInv', EarlyInv, Asleep, pc = "wake", ~restarted,
         NEW i \in TimerId, ~Linked(i), NEW w \in 0 .. MAX_TIMER, Arm(i, w)
  PROVE  EarlyInv'
<1>1. Asleep' /\ pc' = "wake" /\ misled' = misled
  BY DEF Arm, timerTaskFrame, localVars, Asleep
<1> SUFFICES ASSUME ~restarted', ~misled', current' # <<>>
             PROVE  TimeToWait'[TimerTask] = timeout'[Root(current')]
  BY <1>1, SleepingEarly
<1>2. current # <<>> => TimeToWait[TimerTask] = timeout[Root(current)]
  BY <1>1 DEF EarlyInv, AwakeInTime
<1>3. PICK v \in 0 .. MAX_TIMER :
               /\ timeout' = [timeout EXCEPT ![i] = v]
               /\ \/ current' = current /\ TimeToWait' = TimeToWait
                  \/ /\ OSTickCounter + w < TICK_COUNT_OVERFLOW
                     /\ current' = Inserted(current, timeout', i)
                     /\ TimeToWait' = IF timeout'[Root(current')] = v
                                      THEN [TimeToWait EXCEPT ![TimerTask] = v]
                                      ELSE TimeToWait
  <2>1. PICK v \in 0 .. MAX_TIMER :
          /\ timeout' = [timeout EXCEPT ![i] = v]
          /\ \/ current' = current /\ TimeToWait' = TimeToWait
             \/ /\ OSTickCounter + w < TICK_COUNT_OVERFLOW
                /\ current' = Inserted(current, timeout', i)
                /\ TimeToWait' = IF pc # "start" /\ timeout'[Root(current')] = v
                                 THEN [TimeToWait EXCEPT ![TimerTask] = v]
                                 ELSE TimeToWait
    BY ArmTimeout
  <2>2. pc # "start"
    OBVIOUS
  <2> QED
    BY <2>1, <2>2
<1>4. /\ \A j \in TimerId \ {i} : timeout'[j] = timeout[j]
      /\ timeout'[i] = v /\ timeout' \in [TimerId -> Nat]
  BY <1>3, TimerTypes, TimerConstants DEF TimerInv
<1>5. i \notin ToSet(current) /\ ToSet(current) \subseteq TimerId
  BY HeapFacts DEF Linked
<1>6. CASE current' = current
  <2>1. Root(current) \in ToSet(current) /\ Root(current') = Root(current)
    BY <1>6, HeapFacts, RootIsLeast DEF Root
  <2>2. timeout'[Root(current')] = timeout[Root(current)]
    BY <1>4, <1>5, <2>1
  <2>3. timeout'[Root(current')] = v => v = timeout[Root(current)]
    BY <2>2
  <2>4. TimeToWait \in [Thread -> 0 .. MAX_TIMER] /\ TimerTask \in Thread
    BY TimerConstants DEF TimerInv, SoftTimerTypeOK, TypeOK
  <2> QED
    BY <1>2, <1>3, <1>6, <2>2, <2>4
<1>7. CASE /\ ToSet(current') = ToSet(current) \cup {i}
           /\ TimeToWait' = IF timeout'[Root(current')] = v
                            THEN [TimeToWait EXCEPT ![TimerTask] = v]
                            ELSE TimeToWait
  <2>1. TimeToWait \in [Thread -> 0 .. MAX_TIMER] /\ TimerTask \in Thread
    BY TimerConstants DEF TimerInv, SoftTimerTypeOK, TypeOK
  <2>2. CASE timeout'[Root(current')] = v
    BY <1>7, <2>1, <2>2
  <2>3. CASE timeout'[Root(current')] # v
    <3>1. HeapOf(current', timeout', ToSet(current'))
      BY DEF TimerInv, HeapsInv
    <3>2. PICK x : x = Root(current')
      OBVIOUS
    <3>3. /\ x \in ToSet(current')
          /\ \A j \in ToSet(current') : timeout'[x] <= timeout'[j]
      BY <1>4, <3>1, <3>2, RootIsLeast DEF Root
    <3>4. x # i /\ x \in ToSet(current)
      BY <1>4, <1>7, <2>3, <3>2, <3>3
    <3>5. current # <<>>
      BY <3>4 DEF ToSet
    <3>6. PICK y : y = Root(current)
      OBVIOUS
    <3>7. /\ y \in ToSet(current)
          /\ \A j \in ToSet(current) : timeout[y] <= timeout[j]
      BY <3>5, <3>6, HeapFacts, RootIsLeast DEF Root
    <3>8. /\ timeout'[x] = timeout[x] /\ timeout'[y] = timeout[y]
          /\ timeout[x] \in Nat /\ timeout[y] \in Nat
      BY <1>4, <1>5, <3>4, <3>7, HeapFacts
    <3>9. timeout[y] <= timeout[x]
      BY <3>4, <3>7
    <3>10. timeout[x] <= timeout[y]
      <4>1. y \in ToSet(current')
        BY <1>7, <3>7
      <4> QED
        BY <3>3, <3>8, <4>1
    <3>11. timeout'[x] = timeout[y]
      BY <3>8, <3>9, <3>10
    <3> QED
      BY <1>2, <1>7, <2>3, <3>2, <3>5, <3>6, <3>11
  <2> QED
    BY <2>2, <2>3
<1>8. CASE /\ OSTickCounter + w < TICK_COUNT_OVERFLOW
           /\ current' = Inserted(current, timeout', i)
           /\ TimeToWait' = IF timeout'[Root(current')] = v
                            THEN [TimeToWait EXCEPT ![TimerTask] = v]
                            ELSE TimeToWait
  <2>1. /\ timeout' \in [TimerId -> Nat] /\ i \notin ToSet(current)
        /\ HeapOf(current, timeout', ToSet(current))
    <3>1. \A j \in ToSet(current) : timeout'[j] = timeout[j]
      BY <1>4, <1>5
    <3> QED
      BY <1>4, <1>5, <3>1, HeapFacts, HeapKeyChange
  <2>2. HeapOf(current', timeout', ToSet(current) \cup {i})
    BY <1>8, <2>1, InsertedHeap
  <2> QED
    BY <1>7, <1>8, <2>2 DEF HeapOf
<1> QED
  BY <1>3, <1>6, <1>8

\* The services leave the wake-up time right, or mislead the timer task.
LEMMA ClientEarly ==
  ASSUME TimerInv, TimerInv', EarlyInv, NEW t \in Client, ClientStep(t)
  PROVE  EarlyInv'
<1>1. Asleep /\ pc = "wake" /\ ~fault
  BY ClientsRunWhileAsleep DEF ClientStep
<1>2. CASE Fault
  <2>1. Asleep' = Asleep
    BY <1>2, FaultIsLast DEF Asleep
  <2> QED
    BY <1>2, <2>1, FaultIsLast, SameTimesEarly
<1>3. CASE restarted'
  BY <1>3 DEF EarlyInv
<1>4. ASSUME ~Fault, ~restarted', NEW i \in TimerId, NEW w \in TimerWait,
             OSTimerSet(i, w)
      PROVE  EarlyInv'
  <2>1. w \in 0 .. MAX_TIMER /\ FreeTimer(i)
    BY <1>4, TimerConstants DEF OSTimerSet
  <2>2. CASE Arm(i, w) /\ UNCHANGED restarted
    BY <1>1, <1>4, <2>1, <2>2, NewTimerUnlinked, ArmEarly
  <2>3. CASE UNCHANGED <<timeout, current, future, history, TimeToWait,
                         timerTaskFrame>>
    <3>1. Asleep' = Asleep
      BY <2>3 DEF timerTaskFrame, Asleep
    <3>2. UNCHANGED <<OSTickCounter, timeout, current, future, pc, p,
                      next_time_to_wake, due, restarted, misled, unreduced>>
      BY <2>3 DEF timerTaskFrame, localVars, history
    <3> QED
      BY <2>3, <3>1, <3>2, SameTimesEarly
  <2> QED
    BY <1>4, <2>2, <2>3 DEF OSTimerSet, ArmOverruns
<1>5. ASSUME ~Fault, ~restarted', NEW i \in TimerId, NEW w \in TimerWait,
             OSTimerStart(i, w)
      PROVE  EarlyInv'
  <2>1. Clamped(w) \in 0 .. MAX_TIMER
    BY TimerConstants DEF Clamped
  <2>2. Arm(i, Clamped(w)) /\ restarted' = (restarted \/ Linked(i))
    BY <1>5 DEF OSTimerStart, ArmOverruns, Clamped
  <2>3. ~restarted /\ ~Linked(i)
    BY <1>5, <2>2
  <2> QED
    BY <1>1, <2>1, <2>2, <2>3, ArmEarly
<1>6. ASSUME ~Fault, NEW i \in TimerId, NEW del \in BOOLEAN, OSTimerStop(i, del)
      PROVE  EarlyInv'
  <2>1. /\ misled' = \/ misled
                     \/ /\ current' # <<>>
                        /\ timeout'[Root(current')] # TimeToWait[TimerTask]
        /\ UNCHANGED <<TimeToWait, timerTaskFrame>>
    BY <1>6 DEF OSTimerStop
  <2>2. Asleep' /\ pc' = "wake"
    BY <1>1, <2>1 DEF timerTaskFrame, localVars, Asleep
  <2> QED
    BY <2>1, <2>2, SleepingEarly
<1> QED
  BY <1>2, <1>3, <1>4, <1>5, <1>6 DEF ClientStep

\* The steps of the timer task before and after its work.
LEMMA RestEarly ==
  ASSUME TimerInv, EarlyInv, ~Asleep,
         TimerTaskStarts \/ TimerTaskStoresWakeTime \/ TimerTaskSleeps
  PROVE  EarlyInv'
<1> SUFFICES ASSUME ~restarted', ~misled' PROVE AwakeInTime'
  BY DEF EarlyInv
<1>1. /\ UNCHANGED <<timeout, current, future, restarted, misled>>
      /\ Root(current)' = Root(current)
  BY DEF TimerTaskStarts, TimerTaskStoresWakeTime, TimerTaskSleeps, heapVars,
         history, Root
<1>2. AwakeInTime
  BY <1>1 DEF EarlyInv
<1>3. current # <<>> => Root(current) # NoTimer
  BY TimerConstants DEF Root, TimerInv, SoftTimerTypeOK
<1>4. CASE TimerTaskStarts
  <2>1. /\ pc' = "store" /\ Asleep' = Asleep
        /\ current # <<>> => next_time_to_wake' = timeout'[Root(current)]
    BY <1>3, <1>4 DEF TimerTaskStarts, WakeTime, kernelVars, Asleep
  <2> QED
    BY <1>1, <2>1 DEF AwakeInTime, Draining
<1>5. CASE TimerTaskStoresWakeTime
  <2>1. /\ pc = "store" /\ pc' = "link" /\ Asleep' = Asleep
        /\ TimeToWait'[TimerTask] = next_time_to_wake
    BY <1>5, TimerConstants
    DEF TimerTaskStoresWakeTime, Asleep, TimerInv, SoftTimerTypeOK, TypeOK
  <2> QED
    BY <1>1, <1>2, <2>1 DEF AwakeInTime, Draining
<1>6. CASE TimerTaskSleeps
  <2>1. /\ pc = "link" /\ pc' = "wake" /\ Asleep'
        /\ TimeToWait' = TimeToWait
    BY <1>6 DEF TimerTaskSleeps, Asleep
  <2> QED
    BY <1>1, <1>2, <2>1 DEF AwakeInTime, Draining
<1> QED
  BY <1>4, <1>5, <1>6

\* The steps of the timer task between waking and sleeping that change no
\* timeout.
LEMMA WorkEarly ==
  ASSUME TimerInv, LeftInv, EarlyInv, ~Asleep, ~Fault,
         \/ TimerTaskWakes \/ DrainFindsCallback \/ DrainEnds
         \/ TimerTaskFindsExpired \/ TimerTaskServedAll
  PROVE  EarlyInv'
<1> SUFFICES ASSUME ~restarted', ~misled' PROVE AwakeInTime'
  BY DEF EarlyInv
<1>1. /\ UNCHANGED <<OSTickCounter, TimeToWait, timeout, due, unreduced,
                     restarted, misled>>
      /\ Asleep' = Asleep
  BY DEF TimerTaskWakes, DrainFindsCallback, DrainEnds, TimerTaskFindsExpired,
         TimerTaskServedAll, CallbackFound, kernelVars, heapVars, history, Asleep
<1>2. AwakeInTime /\ ~restarted /\ HeapsInv
  BY <1>1 DEF EarlyInv, TimerInv
<1>3. \A i : Coming(i)' = Coming(i)
  BY <1>1 DEF Coming
<1>4. CASE TimerTaskWakes
  <2>1. /\ pc = "wake" /\ UNCHANGED <<current, future>>
        /\ pc' = IF Root(current) # NoTimer /\ timeout[Root(current)] > OSTickCounter
                 THEN "drain" ELSE "serve"
    BY <1>4 DEF TimerTaskWakes, heapVars
  <2>2. pc' = "drain" => Draining
    BY <2>1 DEF Draining, Root
  <2> QED
    BY <1>1, <1>2, <1>3, <2>1, <2>2 DEF AwakeInTime, Draining, Reduced
<1>5. CASE DrainFindsCallback
  <2>1. /\ pc = "drain" /\ pc' = "drainCallback" /\ UNCHANGED <<current, future>>
    BY <1>5 DEF DrainFindsCallback, CallbackFound, heapVars
  <2> QED
    BY <1>1, <1>2, <1>3, <2>1 DEF AwakeInTime, Draining, Reduced
<1>6. CASE DrainEnds
  <2>1. /\ pc = "drain" /\ pc' = "serve" /\ current' = future
    BY <1>6 DEF DrainEnds, SwitchLists
  <2> QED
    BY <1>1, <1>2, <1>3, <2>1 DEF AwakeInTime, Draining, Reduced
<1>7. CASE TimerTaskFindsExpired
  <2>1. /\ pc = "serve" /\ pc' = "callback"
        /\ UNCHANGED <<current, future, p>> /\ Expired(p)
    BY <1>7 DEF TimerTaskFindsExpired, CallbackFound, heapVars
  <2>2. p \in ToSet(current) /\ p \in TimerId
    <3>1. p = Root(current) /\ p # NoTimer
      BY <1>2, <2>1 DEF HeapsInv, Expired
    <3>2. current # <<>> /\ current[1] = p
      BY <3>1 DEF Root
    <3> QED
      BY <1>2, <3>2, HeapFacts, RootIsLeast
  <2>3. ASSUME p \notin unreduced PROVE due[p] <= 0
    <3>1. Coming(p)
      BY <1>2, <2>1, <2>2, <2>3 DEF AwakeInTime, Reduced
    <3>2. PICK v, now, d : v = timeout[p] /\ now = OSTickCounter /\ d = due[p]
      OBVIOUS
    <3>3. v \in Nat /\ now \in Nat /\ d \in Nat \cup {-1}
      BY <2>2, <3>2, TimerTypes DEF TimerInv, SoftTimerTypeOK
    <3>4. v <= now /\ (d > 0 => v >= now)
      BY <2>1, <3>1, <3>2 DEF Expired, Coming
    <3>5. d >= 0 => d = OSTimerGet(p)
      BY <2>2, <2>3, <3>2 DEF LeftInv
    <3>6. v >= now => OSTimerGet(p) = v - now
      BY <3>2 DEF OSTimerGet
    <3>7. d <= 0
      BY <3>3, <3>4, <3>5, <3>6
    <3> QED
      BY <3>2, <3>7
  <2> QED
    BY <1>1, <1>2, <1>3, <2>1, <2>3 DEF AwakeInTime, Draining, Reduced
<1>8. CASE TimerTaskServedAll
  <2>1. /\ pc = "serve" /\ pc' = "store" /\ next_time_to_wake' = WakeTime(p')
    BY <1>8 DEF TimerTaskServedAll
  <2>2. p' = Root(current')
    BY <1>2, <1>8, <2>1 DEF TimerTaskServedAll, HeapsInv
  <2>3. current' \in Seq(TimerId)
    BY <1>8 DEF TimerTaskServedAll, SwitchLists, TimerInv, SoftTimerTypeOK
  <2>4. current' # <<>> => p' # NoTimer
    BY <2>2, <2>3, TimerConstants DEF Root
  <2>5. Root(current)' = Root(current')
    BY DEF Root
  <2> QED
    BY <1>1, <2>1, <2>2, <2>4, <2>5 DEF AwakeInTime, Draining, WakeTime
<1> QED
  BY <1>4, <1>5, <1>6, <1>7, <1>8

\* What the return of a callback changes: the timer itself.
LEMMA OthersServed ==
  ASSUME TimerInv, ~restarted, pc \in {"drainCallback", "callback"},
         NEW v \in 0 .. MAX_TIMER, Served(v), NEW d,
         due' = [due EXCEPT ![p] = d], UNCHANGED OSTickCounter,
         unreduced' \in {unreduced \cup {p}, unreduced \ {p}}
  PROVE  /\ p \in TimerId /\ due'[p] = d /\ timeout'[p] = v
         /\ ToSet(current) \subseteq TimerId /\ ToSet(future) \subseteq TimerId
         /\ \A j \in TimerId \ {p} :
              /\ due'[j] = due[j] /\ Coming(j)' = Coming(j)
              /\ j \in unreduced' <=> j \in unreduced
         /\ ToSet(current') \subseteq ToSet(current)
         /\ ToSet(future') \subseteq ToSet(future) \cup {p}
<1>1. p \in TimerId
  BY ServedTimer
<1>2. /\ timeout' = [timeout EXCEPT ![p] = v]
      /\ timeout \in [TimerId -> Nat] /\ due \in [TimerId -> Nat \cup {-1}]
  BY TimerTypes DEF Served, TimerInv, SoftTimerTypeOK
<1>3. /\ due'[p] = d /\ timeout'[p] = v
      /\ \A j \in TimerId \ {p} : due'[j] = due[j] /\ timeout'[j] = timeout[j]
  BY <1>1, <1>2
<1>4. \A j \in TimerId \ {p} : Coming(j)' = Coming(j)
  BY <1>3 DEF Coming
<1>5. /\ ToSet(current') \subseteq ToSet(current)
      /\ ToSet(future') \subseteq ToSet(future) \cup {p}
  <2>1. /\ ToSet(WithoutRoot(current, timeout')) = ToSet(current) \ {p}
        /\ ToSet(Descer(current, timeout')) = ToSet(current)
        /\ ToSet(Inserted(future, timeout', p)) = ToSet(future) \cup {p}
    BY <1>2, ServedTimeout DEF HeapOf
  <2> QED
    BY <2>1 DEF Served
<1> QED
  BY <1>1, <1>3, <1>4, <1>5, HeapFacts

\* A timer that the drain moves to the future heap is still to come.
LEMMA DrainCallbackEarly ==
  ASSUME ShortTimes, TimerInv, EarlyInv, ~Asleep, ~Fault, NEW r \in Repeat,
         DrainCallback(r)
  PROVE  EarlyInv'
<1> SUFFICES ASSUME ~restarted', ~misled' PROVE AwakeInTime'
  BY DEF EarlyInv
<1>1. /\ pc = "drainCallback" /\ pc' = "drain" /\ p # NoTimer
      /\ UNCHANGED <<OSTickCounter, restarted, misled>> /\ Asleep' = Asleep
  BY DEF DrainCallback, CallbackFaults, CallbackReturns, TimerInv, kernelVars,
         Asleep
<1>2. /\ AwakeInTime /\ ~restarted /\ p \in TimerId
      /\ \A i \in Reduced(current) : due[i] <= 0
      /\ \A i \in Reduced(future) : Coming(i)
  BY <1>1, ServedTimer DEF EarlyInv, AwakeInTime, Draining
<1>3. PICK v \in 0 .. MAX_TIMER, d \in Nat \cup {-1} :
        /\ Served(v) /\ due' = [due EXCEPT ![p] = d]
        /\ unreduced' \in {unreduced \cup {p}, unreduced \ {p}}
        /\ current' = WithoutRoot(current, timeout')
        /\ p \notin unreduced' /\ d > 0 => v >= OSTickCounter
  <2>1. CASE Finish(p)
    <3>1. /\ due' = [due EXCEPT ![p] = -1] /\ unreduced' = unreduced \ {p}
          /\ current' = WithoutRoot(current, timeout')
      BY <2>1 DEF Finish
    <3>2. Served(0) /\ 0 \in 0 .. MAX_TIMER
      BY <1>1, <2>1, FinishServes
    <3>3. -1 \in Nat \cup {-1} /\ ~(-1 > 0)
      OBVIOUS
    <3> QED
      BY <3>1, <3>2, <3>3
  <2>2. CASE /\ timeout' = [timeout EXCEPT ![p] =
                              (OSTickCounter + r) % (MAX_TIMER + 1)]
             /\ future' = Inserted(future, timeout', p)
             /\ current' = WithoutRoot(current, timeout')
             /\ due' = [due EXCEPT ![p] = r]
             /\ unreduced' = IF BeyondWrap(r) THEN unreduced \cup {p}
                                              ELSE unreduced \ {p}
    <3>1. PICK x, v : x = OSTickCounter + r /\ v = x % (MAX_TIMER + 1)
      OBVIOUS
    <3>2. /\ x \in Nat /\ MAX_TIMER \in Nat /\ r \in Nat /\ OSTickCounter \in Nat
          /\ x >= OSTickCounter
          /\ x < TICK_COUNT_OVERFLOW => x <= MAX_TIMER
      BY <3>1, TimerConstants, TimerTypes DEF TimerInv
    <3>3. \A a, b \in Nat : a % (b + 1) \in 0 .. b /\ (a <= b => a % (b + 1) = a)
      OBVIOUS
    <3>4. v \in 0 .. MAX_TIMER
      BY <3>1, <3>2, <3>3, Zenon
    <3>5. x <= MAX_TIMER => v = x
      BY <3>1, <3>2, <3>3, Zenon
    <3>6. p \notin unreduced' => v >= OSTickCounter
      <4>1. p \notin unreduced' => ~(x >= TICK_COUNT_OVERFLOW)
        BY <2>2, <3>1 DEF BeyondWrap
      <4>2. ~(x >= TICK_COUNT_OVERFLOW) => v >= OSTickCounter
        BY <3>2, <3>5, TimerConstants
      <4> QED
        BY <4>1, <4>2
    <3>7. timeout' = [timeout EXCEPT ![p] = v]
      BY <2>2, <3>1
    <3>8. Served(v)
      BY <2>2, <3>7 DEF Served
    <3>9. unreduced' \in {unreduced \cup {p}, unreduced \ {p}}
      BY <2>2
    <3> QED
      BY <2>2, <3>2, <3>4, <3>6, <3>8, <3>9
  <2> QED
    BY <2>1, <2>2 DEF DrainCallback, CallbackFaults
<1>4. p \notin ToSet(current')
  <2>1. timeout' = [timeout EXCEPT ![p] = v]
    BY <1>3 DEF Served
  <2> QED
    BY <1>1, <1>2, <1>3, <2>1, ServedTimeout DEF HeapOf
<1>5. /\ due'[p] = d /\ timeout'[p] = v
      /\ ToSet(current) \subseteq TimerId /\ ToSet(future) \subseteq TimerId
      /\ \A j \in TimerId \ {p} :
           /\ due'[j] = due[j] /\ Coming(j)' = Coming(j)
           /\ j \in unreduced' <=> j \in unreduced
      /\ ToSet(current') \subseteq ToSet(current)
      /\ ToSet(future') \subseteq ToSet(future) \cup {p}
  BY <1>1, <1>2, <1>3, OthersServed
<1>6. \A i \in ToSet(current') : i \notin unreduced' => due'[i] <= 0
  BY <1>2, <1>4, <1>5 DEF Reduced
<1>7. \A i \in ToSet(future') : i \notin unreduced' => Coming(i)'
  <2>1. PICK x : x = p
    OBVIOUS
  <2>2. x \notin unreduced' => Coming(x)'
    BY <1>1, <1>3, <1>5, <2>1 DEF Coming
  <2> QED
    BY <1>2, <1>5, <2>1, <2>2 DEF Reduced
<1> QED
  BY <1>1, <1>6, <1>7 DEF AwakeInTime, Draining, Reduced

\* A timer that a callback repeats in this period is still to come; one that it
\* repeats in the next period leaves the current heap.
LEMMA CallbackEarly ==
  ASSUME ShortTimes, TimerInv, EarlyInv, ~Asleep, ~Fault, NEW r \in Repeat,
         Callback(r)
  PROVE  EarlyInv'
<1> SUFFICES ASSUME ~restarted', ~misled' PROVE AwakeInTime'
  BY DEF EarlyInv
<1>1. /\ pc = "callback" /\ pc' = "serve" /\ p # NoTimer
      /\ UNCHANGED <<OSTickCounter, restarted, misled>> /\ Asleep' = Asleep
  BY DEF Callback, CallbackFaults, CallbackReturns, TimerInv, kernelVars,
         Asleep
<1>2. /\ AwakeInTime /\ ~restarted /\ p \in TimerId
      /\ \A i \in Reduced(current) : Coming(i)
  BY <1>1, ServedTimer DEF EarlyInv, AwakeInTime
<1>3. PICK v \in 0 .. MAX_TIMER, d \in Nat \cup {-1} :
        /\ Served(v) /\ due' = [due EXCEPT ![p] = d]
        /\ unreduced' = unreduced \ {p}
        /\ \/ current' = WithoutRoot(current, timeout')
           \/ v >= OSTickCounter
  <2>1. CASE Finish(p)
    <3>1. /\ due' = [due EXCEPT ![p] = -1] /\ unreduced' = unreduced \ {p}
          /\ current' = WithoutRoot(current, timeout')
      BY <2>1 DEF Finish
    <3>2. Served(0) /\ 0 \in 0 .. MAX_TIMER
      BY <1>1, <2>1, FinishServes
    <3> QED
      BY <3>1, <3>2
  <2>2. CASE /\ IF BeyondWrap(r) THEN RepeatLater(p, OSTickCounter + r)
                                 ELSE RepeatSooner(p, OSTickCounter + r)
             /\ due' = [due EXCEPT ![p] = r]
             /\ unreduced' = unreduced \ {p}
    <3>1. PICK v \in 0 .. MAX_TIMER :
            /\ Served(v)
            /\ v = IF OSTickCounter + r >= TICK_COUNT_OVERFLOW
                   THEN OSTickCounter + r - TICK_COUNT_OVERFLOW
                   ELSE OSTickCounter + r
      BY <2>2, RepeatServes
    <3>2. r \in Nat /\ OSTickCounter \in Nat
      BY TimerConstants, TimerTypes DEF TimerInv
    <3>3. BeyondWrap(r) => current' = WithoutRoot(current, timeout')
      BY <2>2 DEF RepeatLater
    <3>4. ~BeyondWrap(r) => v >= OSTickCounter
      BY <3>1, <3>2 DEF BeyondWrap
    <3> QED
      BY <2>2, <3>1, <3>2, <3>3, <3>4
  <2> QED
    BY <2>1, <2>2 DEF Callback, CallbackFaults
<1>4. current' = WithoutRoot(current, timeout') => p \notin ToSet(current')
  <2>1. timeout' = [timeout EXCEPT ![p] = v]
    BY <1>3 DEF Served
  <2> QED
    BY <1>1, <1>2, <1>3, <2>1, ServedTimeout DEF HeapOf
<1>5. /\ due'[p] = d /\ timeout'[p] = v
      /\ ToSet(current) \subseteq TimerId
      /\ \A j \in TimerId \ {p} :
           /\ due'[j] = due[j] /\ Coming(j)' = Coming(j)
           /\ j \in unreduced' <=> j \in unreduced
      /\ ToSet(current') \subseteq ToSet(current)
  BY <1>1, <1>2, <1>3, OthersServed
<1>6. \A i \in ToSet(current') : i \notin unreduced' => Coming(i)'
  <2>1. PICK x : x = p
    OBVIOUS
  <2>2. x \in ToSet(current') => Coming(x)'
    BY <1>1, <1>3, <1>4, <1>5, <2>1 DEF Coming
  <2> QED
    BY <1>2, <1>5, <2>1, <2>2 DEF Reduced
<1> QED
  BY <1>1, <1>6 DEF AwakeInTime, Draining, Reduced

\* A tick brings no timer past its time, wakes the timer task at the first
\* timeout, and makes a whole heap late at the wrap.
LEMMA TickEarly ==
  ASSUME TimerInv, LeftInv, EarlyInv, Tick
  PROVE  EarlyInv'
<1> SUFFICES ASSUME ~restarted', ~misled' PROVE AwakeInTime'
  BY DEF EarlyInv
<1>1. /\ UNCHANGED <<timeout, current, future, pc, p, next_time_to_wake,
                     restarted, misled, unreduced>>
      /\ OSTickCounter' = IF OSTickCounter = TIMER_MAX_COUNTER
                          THEN 0 ELSE OSTickCounter + 1
      /\ Asleep /\ TimeToWait[TimerTask] # OSTickCounter' =>
           Asleep' /\ TimeToWait'[TimerTask] = TimeToWait[TimerTask]
      /\ Asleep /\ TimeToWait[TimerTask] = OSTickCounter' => ~Asleep'
      /\ ~Asleep => ~Asleep' /\ TimeToWait'[TimerTask] = TimeToWait[TimerTask]
  BY TickFacts
<1>2. /\ AwakeInTime /\ ~restarted /\ (Asleep => pc = "wake")
      /\ ToSet(current) \subseteq TimerId /\ ToSet(future) \subseteq TimerId
      /\ Root(current)' = Root(current)
  BY <1>1, HeapFacts DEF EarlyInv, TimerInv, TimerTaskState, Root
<1>3. /\ OSTickCounter \in Nat /\ OSTickCounter <= TIMER_MAX_COUNTER
      /\ TIMER_MAX_COUNTER \in Nat /\ timeout \in [TimerId -> Nat]
      /\ TICK_COUNT_OVERFLOW = TIMER_MAX_COUNTER + 1
  BY TimerConstants, TimerTypes DEF TimerInv
<1>4. ASSUME NEW i \in TimerId, due[i] <= 0 PROVE due'[i] <= 0
  <2>1. /\ due[i] \in Nat \cup {-1}
        /\ due'[i] = IF due[i] >= 0 THEN due[i] - 1 ELSE -1
    BY TickFacts
  <2> QED
    BY <1>4, <2>1
<1>5. ASSUME NEW i \in TimerId, i \notin unreduced, Coming(i)
      PROVE  /\ Coming(i)'
             /\ OSTickCounter' = 0 => due[i] <= 0
  <2>1. PICK d, v, now, last : /\ d = due[i] /\ v = timeout[i]
                               /\ now = OSTickCounter /\ last = TIMER_MAX_COUNTER
    OBVIOUS
  <2>2. /\ d \in Nat \cup {-1} /\ due'[i] = IF d >= 0 THEN d - 1 ELSE -1
        /\ v \in Nat /\ now \in Nat /\ last \in Nat /\ now <= last
        /\ timeout'[i] = v
        /\ OSTickCounter' = IF now = last THEN 0 ELSE now + 1
    BY <1>1, <1>3, <2>1, TickFacts
  <2>3. d > 0 => v >= now
    BY <1>5, <2>1 DEF Coming
  <2>4. d >= 0 => v <= last /\ d = IF v >= now THEN v - now
                                               ELSE last - now + v + 1
    <3>1. d >= 0 => v < last + 1 /\ d = OSTimerGet(i)
      BY <1>3, <1>5, <2>1 DEF LeftInv
    <3> QED
      BY <2>1, <2>2, <3>1 DEF OSTimerGet
  <2>5. OSTickCounter' = 0 => d <= 0
    BY <2>2, <2>3, <2>4
  <2>6. due'[i] > 0 => v >= OSTickCounter'
    BY <2>2, <2>3, <2>4
  <2>7. Coming(i)'
    BY <2>2, <2>6 DEF Coming
  <2> QED
    BY <2>1, <2>5, <2>7
<1>6. /\ \A i \in Reduced(current) : Coming(i) => Coming(i)'
      /\ \A i \in Reduced(future) : Coming(i) => Coming(i)'
      /\ \A i \in Reduced(current) :
           OSTickCounter' = 0 /\ Coming(i) => due[i] <= 0
      /\ \A i \in Reduced(current) : due[i] <= 0 => due'[i] <= 0
      /\ Reduced(current)' = Reduced(current)
      /\ Reduced(future)' = Reduced(future)
  BY <1>1, <1>2, <1>4, <1>5 DEF Reduced
<1>7. Asleep /\ ~Asleep' /\ current # <<>> =>
        timeout[Root(current)] = OSTickCounter'
  BY <1>1, <1>2 DEF AwakeInTime
<1>8. pc = "store" /\ current # <<>> =>
        next_time_to_wake' = timeout'[Root(current)]
  BY <1>1, <1>2 DEF AwakeInTime
<1>9. (pc = "link" \/ Asleep') /\ current # <<>> =>
        TimeToWait'[TimerTask] = timeout'[Root(current)]
  BY <1>1, <1>2 DEF AwakeInTime
<1>10. ASSUME ~Asleep', pc \in {"wake", "serve", "callback"}
       PROVE  \A i \in Reduced(current) : Coming(i)'
  <2>1. CASE ~Asleep
    BY <1>2, <1>6, <1>10, <2>1 DEF AwakeInTime
  <2>2. CASE Asleep
    <3> SUFFICES ASSUME NEW i \in Reduced(current) PROVE Coming(i)'
      OBVIOUS
    <3>1. i \in ToSet(current) /\ current # <<>>
      BY DEF Reduced, ToSet
    <3>2. timeout[Root(current)] <= timeout[i]
      BY <1>2, <3>1, HeapFacts, RootIsLeast DEF Root
    <3>3. OSTickCounter' <= timeout[i]
      BY <1>7, <1>10, <2>2, <3>1, <3>2
    <3>4. OSTickCounter' \in Nat /\ timeout[i] \in Nat /\ timeout'[i] = timeout[i]
      BY <1>1, <1>2, <1>3, <3>1
    <3> QED
      BY <3>3, <3>4 DEF Coming
  <2> QED
    BY <2>1, <2>2
<1>11. ASSUME Draining'
       PROVE  /\ \A i \in Reduced(current) : due'[i] <= 0
              /\ \A i \in Reduced(future) : Coming(i)'
  <2>1. CASE Draining
    BY <1>2, <1>6, <2>1 DEF AwakeInTime
  <2>2. CASE ~Draining
    <3>1. /\ ~Asleep' /\ pc = "wake" /\ current # <<>>
          /\ timeout[Root(current)] > OSTickCounter'
      BY <1>1, <1>2, <1>11, <2>2 DEF Draining
    <3>2. Root(current) \in TimerId
      BY <1>2, <3>1, HeapFacts, RootIsLeast DEF Root
    <3>3. PICK v, next : v = timeout[Root(current)] /\ next = OSTickCounter'
      OBVIOUS
    <3>4. v \in Nat /\ next \in Nat /\ v > next
      BY <1>1, <1>3, <3>1, <3>2, <3>3
    <3>5. ~Asleep
      BY <1>7, <3>1, <3>3, <3>4
    <3>6. ~(v > OSTickCounter)
      BY <2>2, <3>1, <3>3, <3>5 DEF Draining
    <3>7. next = 0
      BY <1>1, <1>3, <3>3, <3>4, <3>6
    <3>8. \A i \in Reduced(current) : due'[i] <= 0
      BY <1>2, <1>6, <3>1, <3>3, <3>5, <3>7 DEF AwakeInTime
    <3>9. \A i \in Reduced(future) : Coming(i)'
      <4>1. \A i \in TimerId : timeout'[i] >= OSTickCounter'
        BY <1>1, <1>3, <3>3, <3>7
      <4> QED
        BY <1>2, <4>1 DEF Reduced, Coming
    <3> QED
      BY <3>8, <3>9
  <2> QED
    BY <2>1, <2>2
<1>12. pc = "callback" /\ p \notin unreduced => due'[p] <= 0
  <2>1. pc = "callback" => p \in TimerId
    BY DEF TimerInv, SoftTimerTypeOK
  <2> QED
    BY <1>2, <1>4, <2>1 DEF AwakeInTime
<1> QED
  BY <1>1, <1>2, <1>6, <1>8, <1>9, <1>10, <1>11, <1>12 DEF AwakeInTime

\* No step makes the timer task take a timer for another.
LEMMA StepEarly ==
  ASSUME ShortTimes, TimerInv, TimerInv', LeftInv, EarlyInv, [TimerNext]_vars
  PROVE  EarlyInv'
<1>1. CASE UNCHANGED vars \/ Fault
  <2>1. /\ Asleep' = Asleep /\ TimeToWait' = TimeToWait
        /\ UNCHANGED <<OSTickCounter, timeout, current, future, pc, p,
                       next_time_to_wake, due, restarted, misled, unreduced>>
    BY <1>1, FaultIsLast
    DEF vars, kernelVars, heapVars, localVars, history, Asleep
  <2> QED
    BY <2>1, SameTimesEarly
<1>2. CASE Switch
  <2>1. /\ Asleep' = Asleep /\ TimeToWait' = TimeToWait
        /\ UNCHANGED <<OSTickCounter, timeout, current, future, pc, p,
                       next_time_to_wake, due, restarted, misled, unreduced>>
    BY <1>2 DEF Switch, SwitchContext, heapVars, localVars, history, Asleep
  <2> QED
    BY <2>1, SameTimesEarly
<1>3. CASE BRTOSTimerTask /\ ~Fault
  <2>1. ~Asleep
    BY <1>3, RunsAwake DEF BRTOSTimerTask
  <2> QED
    BY <1>3, <2>1, RestEarly, WorkEarly, DrainCallbackEarly, CallbackEarly
    DEF BRTOSTimerTask
<1> QED
  BY <1>1, <1>2, <1>3, ClientEarly, TickEarly DEF TimerNext

\* However late the timer task gets the processor, a callback is called before
\* its time only after a stop that moved the first timeout, after the start of
\* a linked timer, or for a timer whose timeout was not reduced at the wrap.
THEOREM TimersNeverEarly ==
  ASSUME TimerTaskOnTop, ShortTimes
  PROVE  TimerSpec => []EarlyOnlyAfterStop
<1>1. TimerInit => TimerInv /\ LeftInv /\ EarlyInv
  BY InitTimerInv, InitLeft, InitEarly
<1>2. (TimerInv /\ LeftInv /\ EarlyInv) /\ [TimerNext]_vars
        => (TimerInv /\ LeftInv /\ EarlyInv)'
  BY StepTimerInv, StepLeft, StepEarly
<1>3. TimerInv /\ EarlyInv => EarlyOnlyAfterStop
  <2> SUFFICES ASSUME TimerInv, AwakeInTime, ~restarted, Fires, p \notin unreduced
               PROVE  due[p] <= 0
    BY DEF EarlyInv, EarlyOnlyAfterStop
  <2>1. CASE pc = "callback"
    BY <2>1 DEF AwakeInTime
  <2>2. CASE pc \in {"drain", "drainCallback"}
    <3>1. p = Root(current) /\ p # NoTimer
      BY <2>2 DEF TimerInv, HeapsInv, Fires
    <3>2. current # <<>> /\ current[1] = p
      BY <3>1 DEF Root
    <3>3. p \in ToSet(current)
      BY <3>2, HeapFacts, RootIsLeast
    <3> QED
      BY <2>2, <3>3 DEF AwakeInTime, Draining, Reduced
  <2> QED
    BY <2>1, <2>2 DEF Fires
<1> QED
  BY <1>1, <1>2, <1>3, PTL DEF TimerSpec
=============================================================================
