-------------------------- MODULE DelayListProofs ---------------------------
(***************************************************************************)
(* Proofs about DelayList, for every finite set of tasks: the linked list  *)
(* implements the set that Kernel works with, it stays doubly linked, and  *)
(* the walk of the tick handler misses no task.                            *)
(*                                                                         *)
(* The inductive invariant says that there is a sequence of different      *)
(* tasks which the links spell out forwards and backwards.  It does not    *)
(* constrain the links of tasks outside the list, which the code leaves as *)
(* they were, so it shows that nothing ever depends on them.               *)
(***************************************************************************)
EXTENDS DelayList, FiniteSetTheorems, WellFoundedInduction, TLAPS

-----------------------------------------------------------------------------
(* Following links *)

Less == {pair \in Nat \X Nat : pair[1] < pair[2]}

\* A set of natural numbers has a least element.
LEMMA LeastExists ==
  ASSUME NEW S \in SUBSET Nat, S # {}
  PROVE  \E d \in S : \A e \in S : d <= e
<1>1. IsWellFoundedOn(Less, Nat)
  BY NatLessThanWellFounded DEF OpToRel, Less
<1>2. PICK d \in S : \A e \in S : ~(<<e, d>> \in Less)
  BY <1>1, WFMin, Zenon
<1>3. ASSUME NEW e \in S PROVE d <= e
  <2>1. ~(<<e, d>> \in Less)
    BY <1>2
  <2> QED
    BY <2>1 DEF Less
<1> QED
  BY <1>3

\* A function that satisfies the equation of a chain is the chain.
LEMMA ChainIsUnique ==
  ASSUME NEW node, NEW link, NEW g, Cardinality(Task) \in Nat,
         g = [n \in 0 .. Cardinality(Task) |->
                IF n = 0 THEN node
                ELSE IF g[n - 1] = NULL THEN NULL ELSE link[g[n - 1]]]
  PROVE  Chain(node, link) = g
<1> DEFINE C == Cardinality(Task)
           Eq(f) == f = [n \in 0 .. C |->
                           IF n = 0 THEN node
                           ELSE IF f[n - 1] = NULL THEN NULL
                                                   ELSE link[f[n - 1]]]
           h == Chain(node, link)
<1>1. h = CHOOSE f : Eq(f)
  BY DEF Chain
<1>2. Eq(g)
  OBVIOUS
<1>3. Eq(h)
  <2> HIDE DEF Eq, h
  <2> QED
    BY <1>1, <1>2
<1> HIDE DEF h
<1> DEFINE Differ == {n \in 0 .. C : h[n] # g[n]}
<1>4. Differ = {}
  <2>1. SUFFICES ASSUME Differ # {} PROVE FALSE
    OBVIOUS
  <2>2. Differ \in SUBSET Nat
    OBVIOUS
  <2> HIDE DEF Differ
  <2>3. PICK d \in Differ : \A e \in Differ : d <= e
    BY <2>1, <2>2, LeastExists
  <2>4. d \in 0 .. C /\ h[d] # g[d]
    BY <2>3 DEF Differ
  <2>5. d # 0
    BY <1>2, <1>3, <2>4
  <2>6. d - 1 \in 0 .. C /\ d - 1 \notin Differ
    BY <2>3, <2>4, <2>5
  <2>7. h[d - 1] = g[d - 1]
    BY <2>6 DEF Differ
  <2> QED
    BY <1>2, <1>3, <2>4, <2>5, <2>7
<1>5. \A n \in 0 .. C : h[n] = g[n]
  BY <1>4
<1>6. h = [n \in 0 .. C |-> h[n]] /\ g = [n \in 0 .. C |-> g[n]]
  <2> HIDE DEF Differ
  <2>1. ASSUME NEW f, Eq(f) PROVE f = [n \in 0 .. C |-> f[n]]
    BY <2>1
  <2> QED
    BY <1>2, <1>3, <2>1
<1> HIDE DEF C, Differ, Eq
<1>7. h = g
  BY <1>5, <1>6
<1> QED
  BY <1>7 DEF h

-----------------------------------------------------------------------------
(* The inductive invariant *)

\* The links spell out the n tasks of s, in both directions.
Represents(s, n) ==
  /\ ListHead = IF n = 0 THEN NULL ELSE s[1]
  /\ ListTail = IF n = 0 THEN NULL ELSE s[n]
  /\ \A i \in 1 .. n :
       /\ Next[s[i]] = IF i = n THEN NULL ELSE s[i + 1]
       /\ Previous[s[i]] = IF i = 1 THEN NULL ELSE s[i - 1]

Different(s, n) ==
  /\ s \in [1 .. n -> Task]
  /\ \A i, j \in 1 .. n : s[i] = s[j] => i = j

\* The cursor is at a place of s with no expired task before it.
WalkedTo(s, n) ==
  \E k \in 1 .. n + 1 :
    /\ cursor = IF k = n + 1 THEN NULL ELSE s[k]
    /\ \A j \in 1 .. n : j < k => s[j] \notin expired

LinkTypes == Next \in [Task -> Task \cup {NULL}] /\ Previous \in [Task -> Task \cup {NULL}]

ListInv ==
  /\ LinkTypes
  /\ \E n \in Nat : \E s \in [1 .. n -> Task] :
       /\ Different(s, n)
       /\ Represents(s, n)
       /\ walking => WalkedTo(s, n)

\* A list of different tasks is at most as long as there are tasks.
LEMMA LengthBound ==
  ASSUME NEW n \in Nat, NEW s, Different(s, n)
  PROVE  n <= Cardinality(Task) /\ Cardinality(Task) \in Nat
<1>1. s \in Injection(1 .. n, Task)
  BY DEF Different, Injection, IsInjective
<1>2. Cardinality(1 .. n) <= Cardinality(Task) /\ Cardinality(Task) \in Nat
  BY <1>1, DelayListAssumption, FS_Injection, FS_CardinalityType
<1>3. Cardinality(1 .. n) = n
  BY FS_Interval
<1> QED
  BY <1>2, <1>3

\* The chains from both ends.
LEMMA ChainsSpellOut ==
  ASSUME NEW n \in Nat, NEW s, Different(s, n), Represents(s, n)
  PROVE  /\ Chain(ListHead, Next)
              = [k \in 0 .. Cardinality(Task) |-> IF k < n THEN s[k + 1] ELSE NULL]
         /\ Chain(ListTail, Previous)
              = [k \in 0 .. Cardinality(Task) |-> IF k < n THEN s[n - k] ELSE NULL]
<1> DEFINE C == Cardinality(Task)
           f == [k \in 0 .. C |-> IF k < n THEN s[k + 1] ELSE NULL]
           b == [k \in 0 .. C |-> IF k < n THEN s[n - k] ELSE NULL]
<1>1. n <= C /\ C \in Nat
  BY LengthBound
<1>2. \A i \in 1 .. n : s[i] \in Task /\ s[i] # NULL
  BY DelayListAssumption DEF Different
<1>3. ASSUME NEW k \in 0 .. C
      PROVE  f[k] = IF k = 0 THEN ListHead
                    ELSE IF f[k - 1] = NULL THEN NULL ELSE Next[f[k - 1]]
  <2>1. CASE k = 0
    BY <1>1, <2>1 DEF Represents
  <2>2. CASE k # 0 /\ k - 1 < n
    <3>1. f[k - 1] = s[k] /\ k \in 1 .. n /\ k - 1 \in 0 .. C
      BY <1>1, <2>2
    <3> QED
      BY <1>1, <1>2, <2>2, <3>1 DEF Represents
  <2>3. CASE k # 0 /\ ~(k - 1 < n)
    BY <1>1, <2>3
  <2> QED
    BY <2>1, <2>2, <2>3
<1>4. f = [k \in 0 .. C |-> IF k = 0 THEN ListHead
                            ELSE IF f[k - 1] = NULL THEN NULL
                                                    ELSE Next[f[k - 1]]]
  <2> HIDE DEF C
  <2>1. f = [k \in 0 .. C |-> f[k]]
    OBVIOUS
  <2> HIDE DEF f
  <2> QED
    BY <1>3, <2>1
<1>5. Chain(ListHead, Next) = f
  <2> HIDE DEF f
  <2> QED
    BY <1>1, <1>4, ChainIsUnique
<1>6. ASSUME NEW k \in 0 .. C
      PROVE  b[k] = IF k = 0 THEN ListTail
                    ELSE IF b[k - 1] = NULL THEN NULL ELSE Previous[b[k - 1]]
  <2>1. CASE k = 0
    BY <1>1, <2>1 DEF Represents
  <2>2. CASE k # 0 /\ k - 1 < n
    <3>1. /\ b[k - 1] = s[n - k + 1] /\ n - k + 1 \in 1 .. n /\ k - 1 \in 0 .. C
          /\ n - (k - 1) = n - k + 1
      BY <1>1, <2>2
    <3>2. Previous[s[n - k + 1]]
            = IF n - k + 1 = 1 THEN NULL ELSE s[n - k + 1 - 1]
      BY <3>1 DEF Represents
    <3>3. b[k] = IF k < n THEN s[n - k] ELSE NULL
      OBVIOUS
    <3>4. b[k] = Previous[s[n - k + 1]]
      BY <2>2, <3>2, <3>3
    <3> QED
      BY <1>2, <2>2, <3>1, <3>4
  <2>3. CASE k # 0 /\ ~(k - 1 < n)
    BY <1>1, <2>3
  <2> QED
    BY <2>1, <2>2, <2>3
<1>7. b = [k \in 0 .. C |-> IF k = 0 THEN ListTail
                            ELSE IF b[k - 1] = NULL THEN NULL
                                                    ELSE Previous[b[k - 1]]]
  <2> HIDE DEF C
  <2>1. b = [k \in 0 .. C |-> b[k]]
    OBVIOUS
  <2> HIDE DEF b
  <2> QED
    BY <1>6, <2>1
<1>8. Chain(ListTail, Previous) = b
  <2> HIDE DEF b
  <2> QED
    BY <1>1, <1>7, ChainIsUnique
<1> QED
  BY <1>5, <1>8

\* The tasks in the list are those of s.
LEMMA Members ==
  ASSUME NEW n \in Nat, NEW s, Different(s, n), Represents(s, n), NEW t \in Task
  PROVE  InList(t) <=> \E i \in 1 .. n : t = s[i]
<1> DEFINE C == Cardinality(Task)
<1>1. n <= C /\ C \in Nat /\ t # NULL
  BY LengthBound, DelayListAssumption
<1>2. Linked(ListHead, Next)
        = {[k \in 0 .. C |-> IF k < n THEN s[k + 1] ELSE NULL][m] : m \in 0 .. C}
  BY ChainsSpellOut DEF Linked
<1>3. Linked(ListHead, Next) = {IF m < n THEN s[m + 1] ELSE NULL : m \in 0 .. C}
  BY <1>2
<1>4. ASSUME NEW i \in 1 .. n, t = s[i] PROVE InList(t)
  <2>1. i - 1 \in 0 .. C /\ i - 1 < n /\ (i - 1) + 1 = i
    BY <1>1
  <2> QED
    BY <1>3, <1>4, <2>1 DEF InList
<1>5. ASSUME InList(t) PROVE \E i \in 1 .. n : t = s[i]
  <2>1. PICK m \in 0 .. C : t = IF m < n THEN s[m + 1] ELSE NULL
    BY <1>3, <1>5 DEF InList
  <2>2. m + 1 \in 1 .. n /\ t = s[m + 1]
    BY <1>1, <2>1
  <2> QED
    BY <2>2
<1> QED
  BY <1>4, <1>5

-----------------------------------------------------------------------------
(* The two macros *)

With(s, n, t) == [i \in 1 .. n + 1 |-> IF i <= n THEN s[i] ELSE t]

Without(s, n, k) == [i \in 1 .. n - 1 |-> IF i < k THEN s[i] ELSE s[i + 1]]

\* IncludeTaskIntoDelayList appends.
LEMMA IncludeAppends ==
  ASSUME LinkTypes, NEW n \in Nat, NEW s, Different(s, n), Represents(s, n),
         NEW t \in Task, \A i \in 1 .. n : s[i] # t, IncludeTaskIntoDelayList(t)
  PROVE  /\ LinkTypes'
         /\ Different(With(s, n, t), n + 1)
         /\ Represents(With(s, n, t), n + 1)'
<1> DEFINE r == With(s, n, t)
<1>1. /\ \A i \in 1 .. n : s[i] \in Task /\ s[i] # NULL /\ r[i] = s[i]
      /\ r[n + 1] = t /\ t # NULL
      /\ \A i \in 1 .. n + 1 : i \in 1 .. n \/ i = n + 1
  BY DelayListAssumption DEF Different, With
<1>2. Different(r, n + 1)
  <2>1. r \in [1 .. n + 1 -> Task]
    BY <1>1 DEF With
  <2> HIDE DEF r
  <2>2. \A i, j \in 1 .. n + 1 : r[i] = r[j] => i = j
    BY <1>1 DEF Different
  <2> QED
    BY <2>1, <2>2 DEF Different
<1> HIDE DEF r
<1>3. CASE n = 0
  <2>1. /\ ListTail' = t /\ ListHead' = t
        /\ Next' = [Next EXCEPT ![t] = NULL]
        /\ Previous' = [Previous EXCEPT ![t] = NULL]
    BY <1>3 DEF IncludeTaskIntoDelayList, Represents
  <2> QED
    BY <1>1, <1>2, <1>3, <2>1 DEF LinkTypes, Represents, r
<1>4. CASE n # 0
  <2>1. ListTail = s[n] /\ n \in 1 .. n /\ s[n] # t
    BY <1>4 DEF Represents
  <2>2. /\ ListTail' = t /\ ListHead' = ListHead
        /\ Next' = [Next EXCEPT ![s[n]] = t, ![t] = NULL]
        /\ Previous' = [Previous EXCEPT ![t] = s[n]]
    BY <1>1, <2>1 DEF IncludeTaskIntoDelayList
  <2>3. LinkTypes'
    BY <1>1, <2>1, <2>2 DEF LinkTypes
  <2>4. /\ Next'[t] = NULL /\ Next'[s[n]] = t /\ Previous'[t] = s[n]
        /\ \A i \in 1 .. n : i # n => Next'[s[i]] = Next[s[i]]
        /\ \A i \in 1 .. n : Previous'[s[i]] = Previous[s[i]]
    BY <1>1, <2>1, <2>2 DEF LinkTypes, Different
  <2>5. ASSUME NEW i \in 1 .. n + 1
        PROVE  /\ Next'[r[i]] = IF i = n + 1 THEN NULL ELSE r[i + 1]
               /\ Previous'[r[i]] = IF i = 1 THEN NULL ELSE r[i - 1]
    <3>1. CASE i = n + 1
      BY <1>1, <1>4, <2>1, <2>4, <3>1
    <3>2. CASE i = n
      BY <1>1, <1>4, <2>1, <2>4, <3>2 DEF Represents
    <3>3. CASE i < n
      <4>1. i \in 1 .. n /\ i + 1 \in 1 .. n /\ (i # 1 => i - 1 \in 1 .. n)
        BY <3>3
      <4>2. /\ Next[s[i]] = s[i + 1]
            /\ Previous[s[i]] = IF i = 1 THEN NULL ELSE s[i - 1]
        BY <3>3, <4>1 DEF Represents
      <4> QED
        BY <1>1, <2>4, <3>3, <4>1, <4>2
    <3> QED
      BY <3>1, <3>2, <3>3
  <2>6. ListHead' = r[1] /\ ListTail' = r[n + 1] /\ n + 1 # 0
    BY <1>1, <1>4, <2>2 DEF Represents
  <2> QED
    BY <1>2, <2>3, <2>5, <2>6 DEF Represents, r
<1> QED
  BY <1>3, <1>4

\* RemoveFromDelayList takes out the task at place k and leaves its links.
LEMMA RemoveTakesOut ==
  ASSUME LinkTypes, NEW n \in Nat, NEW s, Different(s, n), Represents(s, n),
         NEW k \in 1 .. n, RemoveFromDelayList(s[k])
  PROVE  /\ LinkTypes'
         /\ Different(Without(s, n, k), n - 1)
         /\ Represents(Without(s, n, k), n - 1)'
         /\ Next'[s[k]] = Next[s[k]]
<1> DEFINE r == Without(s, n, k)
           t == s[k]
<1>1. /\ \A i \in 1 .. n : s[i] \in Task /\ s[i] # NULL
      /\ \A i, j \in 1 .. n : s[i] = s[j] => i = j
      /\ \A i \in 1 .. n - 1 :
           r[i] = IF i < k THEN s[i] ELSE s[i + 1]
      /\ \A i \in 1 .. n - 1 : i \in 1 .. n /\ i + 1 \in 1 .. n
      /\ n - 1 \in Nat
  BY DelayListAssumption DEF Different, Without
<1>2. Different(r, n - 1)
  <2>1. r \in [1 .. n - 1 -> Task]
    BY <1>1 DEF Without
  <2> HIDE DEF r
  <2>2. ASSUME NEW i \in 1 .. n - 1, NEW j \in 1 .. n - 1, r[i] = r[j]
        PROVE  i = j
    <3>1. CASE i < k /\ j < k
      BY <1>1, <2>2, <3>1
    <3>2. CASE i < k /\ ~(j < k)
      <4>1. i = j + 1
        BY <1>1, <2>2, <3>2
      <4> QED
        BY <3>2, <4>1
    <3>3. CASE ~(i < k) /\ j < k
      <4>1. i + 1 = j
        BY <1>1, <2>2, <3>3
      <4> QED
        BY <3>3, <4>1
    <3>4. CASE ~(i < k) /\ ~(j < k)
      <4>1. i + 1 = j + 1
        BY <1>1, <2>2, <3>4
      <4> QED
        BY <4>1
    <3> QED
      BY <3>1, <3>2, <3>3, <3>4
  <2> QED
    BY <2>1, <2>2 DEF Different
<1>3. /\ ListHead = s[1] /\ ListTail = s[n]
      /\ t = ListHead <=> k = 1
      /\ t = ListTail <=> k = n
      /\ Next[t] = IF k = n THEN NULL ELSE s[k + 1]
      /\ Previous[t] = IF k = 1 THEN NULL ELSE s[k - 1]
  BY <1>1 DEF Represents
<1>4. \A i \in 1 .. n :
        /\ Next[s[i]] = IF i = n THEN NULL ELSE s[i + 1]
        /\ Previous[s[i]] = IF i = 1 THEN NULL ELSE s[i - 1]
  BY DEF Represents
\* What the four cases of the macro have in common.
<1>5. /\ LinkTypes'
      /\ \A i \in 1 .. n : Next'[s[i]] =
           IF i = k - 1 THEN Next[s[k]] ELSE Next[s[i]]
      /\ \A i \in 1 .. n : Previous'[s[i]] =
           IF i = k + 1 THEN Previous[s[k]] ELSE Previous[s[i]]
      /\ ListHead' = IF k = 1 THEN Next[s[k]] ELSE ListHead
      /\ ListTail' = IF k = n THEN Previous[s[k]] ELSE ListTail
  <2>1. CASE k = 1 /\ k = n
    <3>1. /\ ListHead' = NULL /\ ListTail' = NULL
          /\ UNCHANGED <<Next, Previous>>
      BY <1>3, <2>1
      DEF RemoveFromDelayList, RemoveOnly, RemoveHead, RemoveTail, RemoveInner
    <3> QED
      BY <1>3, <2>1, <3>1 DEF LinkTypes
  <2>2. CASE k = 1 /\ k # n
    <3>1. /\ ListHead' = Next[t]
          /\ Previous' = [Previous EXCEPT ![s[k + 1]] = NULL]
          /\ UNCHANGED <<ListTail, Next>>
      BY <1>3, <2>2
      DEF RemoveFromDelayList, RemoveOnly, RemoveHead, RemoveTail, RemoveInner
    <3>2. k + 1 \in 1 .. n
      BY <2>2
    <3>3. \A i \in 1 .. n : Previous'[s[i]] =
            IF i = k + 1 THEN NULL ELSE Previous[s[i]]
      BY <1>1, <3>1, <3>2 DEF LinkTypes
    <3>4. LinkTypes'
      BY <1>1, <3>1, <3>2 DEF LinkTypes
    <3> QED
      BY <1>3, <2>2, <3>1, <3>3, <3>4
  <2>3. CASE k # 1 /\ k = n
    <3>1. /\ ListTail' = Previous[t]
          /\ Next' = [Next EXCEPT ![s[k - 1]] = NULL]
          /\ UNCHANGED <<ListHead, Previous>>
      BY <1>3, <2>3
      DEF RemoveFromDelayList, RemoveOnly, RemoveHead, RemoveTail, RemoveInner
    <3>2. k - 1 \in 1 .. n
      BY <2>3
    <3>3. \A i \in 1 .. n : Next'[s[i]] =
            IF i = k - 1 THEN NULL ELSE Next[s[i]]
      BY <1>1, <3>1, <3>2 DEF LinkTypes
    <3>4. LinkTypes'
      BY <1>1, <3>1, <3>2 DEF LinkTypes
    <3>5. \A i \in 1 .. n : i # k + 1
      BY <2>3
    <3> QED
      BY <1>3, <2>3, <3>1, <3>3, <3>4, <3>5
  <2>4. CASE k # 1 /\ k # n
    <3>1. /\ Previous' = [Previous EXCEPT ![s[k + 1]] = s[k - 1]]
          /\ Next' = [Next EXCEPT ![s[k - 1]] = s[k + 1]]
          /\ UNCHANGED <<ListHead, ListTail>>
      BY <1>3, <2>4
      DEF RemoveFromDelayList, RemoveOnly, RemoveHead, RemoveTail, RemoveInner
    <3>2. k - 1 \in 1 .. n /\ k + 1 \in 1 .. n
      BY <2>4
    <3>3. \A i \in 1 .. n :
            /\ Next'[s[i]] = IF i = k - 1 THEN s[k + 1] ELSE Next[s[i]]
            /\ Previous'[s[i]] = IF i = k + 1 THEN s[k - 1] ELSE Previous[s[i]]
      BY <1>1, <3>1, <3>2 DEF LinkTypes
    <3>4. LinkTypes'
      BY <1>1, <3>1, <3>2 DEF LinkTypes
    <3> QED
      BY <1>3, <2>4, <3>1, <3>3, <3>4
  <2> QED
    BY <2>1, <2>2, <2>3, <2>4
<1> HIDE DEF r
<1>6. ListHead' = IF n - 1 = 0 THEN NULL ELSE r[1]
  <2>1. CASE n = 1
    BY <1>3, <1>5, <2>1
  <2>2. CASE n # 1
    <3>1. 1 \in 1 .. n - 1
      BY <2>2
    <3> QED
      BY <1>1, <1>3, <1>5, <2>2, <3>1
  <2> QED
    BY <2>1, <2>2
<1>7. ListTail' = IF n - 1 = 0 THEN NULL ELSE r[n - 1]
  <2>1. CASE n = 1
    BY <1>3, <1>5, <2>1
  <2>2. CASE n # 1
    <3>1. n - 1 \in 1 .. n - 1 /\ (n - 1) + 1 = n
      BY <2>2
    <3> QED
      BY <1>1, <1>3, <1>5, <2>2, <3>1
  <2> QED
    BY <2>1, <2>2
<1>8. ASSUME NEW i \in 1 .. n - 1
      PROVE  /\ Next'[r[i]] = IF i = n - 1 THEN NULL ELSE r[i + 1]
             /\ Previous'[r[i]] = IF i = 1 THEN NULL ELSE r[i - 1]
  <2>1. /\ i \in 1 .. n /\ i + 1 \in 1 .. n
        /\ i # n - 1 => i + 1 \in 1 .. n - 1 /\ i + 1 + 1 \in 1 .. n
        /\ i # 1 => i - 1 \in 1 .. n - 1 /\ i - 1 \in 1 .. n
        /\ i + 1 - 1 = i /\ i - 1 + 1 = i
    OBVIOUS
  <2>2. CASE i < k
    <3>1. r[i] = s[i]
      BY <1>1, <2>2
    <3>2. Next'[s[i]] = IF i = n - 1 THEN NULL ELSE r[i + 1]
      <4>1. CASE i = k - 1
        <5>1. Next'[s[i]] = IF k = n THEN NULL ELSE s[k + 1]
          BY <1>3, <1>5, <2>1, <4>1
        <5> QED
          BY <1>1, <2>1, <4>1, <5>1
      <4>2. CASE i # k - 1
        <5>1. Next'[s[i]] = s[i + 1] /\ i + 1 < k /\ i # n - 1
          BY <1>4, <1>5, <2>1, <2>2, <4>2
        <5> QED
          BY <1>1, <2>1, <5>1
      <4> QED
        BY <4>1, <4>2
    <3>3. Previous'[s[i]] = IF i = 1 THEN NULL ELSE r[i - 1]
      <4>1. Previous'[s[i]] = IF i = 1 THEN NULL ELSE s[i - 1]
        BY <1>4, <1>5, <2>1, <2>2
      <4> QED
        BY <1>1, <2>1, <2>2, <4>1
    <3> QED
      BY <3>1, <3>2, <3>3
  <2>3. CASE ~(i < k)
    <3>1. r[i] = s[i + 1]
      BY <1>1, <2>3
    <3>2. Next'[s[i + 1]] = IF i = n - 1 THEN NULL ELSE r[i + 1]
      <4>1. Next'[s[i + 1]] = IF i + 1 = n THEN NULL ELSE s[i + 1 + 1]
        BY <1>4, <1>5, <2>1, <2>3
      <4> QED
        BY <1>1, <2>1, <2>3, <4>1
    <3>3. Previous'[s[i + 1]] = IF i = 1 THEN NULL ELSE r[i - 1]
      <4>1. CASE i = k
        <5>1. Previous'[s[i + 1]] = IF k = 1 THEN NULL ELSE s[k - 1]
          BY <1>3, <1>5, <2>1, <4>1
        <5> QED
          BY <1>1, <2>1, <4>1, <5>1
      <4>2. CASE i # k
        <5>1. Previous'[s[i + 1]] = s[i] /\ i # 1 /\ ~(i - 1 < k)
          BY <1>4, <1>5, <2>1, <2>3, <4>2
        <5> QED
          BY <1>1, <2>1, <5>1
      <4> QED
        BY <4>1, <4>2
    <3> QED
      BY <3>1, <3>2, <3>3
  <2> QED
    BY <2>2, <2>3
<1>9. Represents(r, n - 1)'
  BY <1>6, <1>7, <1>8 DEF Represents
<1>10. Next'[s[k]] = Next[s[k]]
  BY <1>5
<1> QED
  BY <1>2, <1>5, <1>9, <1>10 DEF r

-----------------------------------------------------------------------------
(* ListInv is inductive *)

LEMMA InitListInv == Init => ListInv
<1> SUFFICES ASSUME Init PROVE ListInv
  OBVIOUS
<1>1. LinkTypes
  BY DEF Init, LinkTypes
<1> DEFINE s == [i \in 1 .. 0 |-> NULL]
<1>2. s \in [1 .. 0 -> Task] /\ Different(s, 0)
  BY DEF Different
<1>3. Represents(s, 0) /\ ~walking
  BY DEF Init, Represents
<1> HIDE DEF s
<1> QED
  BY <1>1, <1>2, <1>3 DEF ListInv

\* The sequence after the removal of the task at place k, for the steps below.
LEMMA RemovalKeepsList ==
  ASSUME LinkTypes, NEW n \in Nat, NEW s, Different(s, n), Represents(s, n),
         NEW k \in 1 .. n, RemoveFromDelayList(s[k]),
         walking' => WalkedTo(Without(s, n, k), n - 1)'
  PROVE  ListInv'
<1>1. /\ LinkTypes'
      /\ Different(Without(s, n, k), n - 1)
      /\ Represents(Without(s, n, k), n - 1)'
  BY RemoveTakesOut
<1>2. n - 1 \in Nat /\ Without(s, n, k) \in [1 .. n - 1 -> Task]
  BY <1>1 DEF Different
<1>3. Different(Without(s, n, k), n - 1)'
  BY <1>1 DEF Different
<1> QED
  BY <1>1, <1>2, <1>3 DEF ListInv

LEMMA StepListInv == ListInv /\ [ListNext]_vars => ListInv'
<1> SUFFICES ASSUME ListInv, [ListNext]_vars PROVE ListInv'
  OBVIOUS
<1>1. PICK n \in Nat : \E s \in [1 .. n -> Task] :
        Different(s, n) /\ Represents(s, n) /\ (walking => WalkedTo(s, n))
  BY DEF ListInv
<1>2. PICK s \in [1 .. n -> Task] :
        Different(s, n) /\ Represents(s, n) /\ (walking => WalkedTo(s, n))
  BY <1>1
<1>3. LinkTypes
  BY DEF ListInv
<1>4. ASSUME UNCHANGED links PROVE LinkTypes' /\ Represents(s, n)' /\ Different(s, n)'
  BY <1>2, <1>3, <1>4 DEF links, LinkTypes, Represents, Different
<1>5. ASSUME NEW t \in Task, TaskDelays(t) PROVE ListInv'
  <2>1. \A i \in 1 .. n : s[i] # t
    BY <1>2, <1>5, Members DEF TaskDelays
  <2>2. /\ LinkTypes'
        /\ Different(With(s, n, t), n + 1)
        /\ Represents(With(s, n, t), n + 1)'
    BY <1>2, <1>3, <1>5, <2>1, IncludeAppends DEF TaskDelays
  <2>3. /\ n + 1 \in Nat /\ With(s, n, t) \in [1 .. n + 1 -> Task]
        /\ Different(With(s, n, t), n + 1)'
    BY <2>2 DEF Different
  <2>4. ~walking'
    BY <1>5 DEF TaskDelays, walk
  <2> QED
    BY <2>2, <2>3, <2>4 DEF ListInv
<1>6. ASSUME NEW t \in Task, TaskWasPosted(t) PROVE ListInv'
  <2>1. PICK k \in 1 .. n : t = s[k]
    BY <1>2, <1>6, Members DEF TaskWasPosted
  <2>2. RemoveFromDelayList(s[k]) /\ ~walking'
    BY <1>6, <2>1 DEF TaskWasPosted, walk
  <2> QED
    BY <1>2, <1>3, <2>2, RemovalKeepsList
<1>7. ASSUME NEW tasks, TickStarts(tasks) PROVE ListInv'
  <2>1. UNCHANGED links /\ cursor' = ListHead
    BY <1>7 DEF TickStarts
  <2>2. 1 \in 1 .. n + 1 /\ \A j \in 1 .. n : ~(j < 1)
    OBVIOUS
  <2>3. ListHead = IF 1 = n + 1 THEN NULL ELSE s[1]
    BY <1>2 DEF Represents
  <2>4. WalkedTo(s, n)'
    BY <2>1, <2>2, <2>3 DEF WalkedTo
  <2> QED
    BY <1>4, <2>1, <2>4 DEF ListInv
<1>8. ASSUME TickVisits PROVE ListInv'
  <2>1. PICK k \in 1 .. n + 1 :
          /\ cursor = IF k = n + 1 THEN NULL ELSE s[k]
          /\ \A j \in 1 .. n : j < k => s[j] \notin expired
    BY <1>2, <1>8 DEF TickVisits, WalkedTo
  <2>2. k \in 1 .. n /\ cursor = s[k]
    BY <1>8, <2>1 DEF TickVisits
  <2>3. Next[s[k]] = IF k = n THEN NULL ELSE s[k + 1]
    BY <1>2, <2>2 DEF Represents
  <2>4. CASE s[k] \in expired
    <3>1. RemoveFromDelayList(s[k]) /\ cursor' = Next'[s[k]] /\ expired' = expired
      BY <1>8, <2>2, <2>4 DEF TickVisits
    <3>2. Next'[s[k]] = Next[s[k]]
      BY <1>2, <1>3, <2>2, <3>1, RemoveTakesOut
    <3> DEFINE r == Without(s, n, k)
    <3>3. \A j \in 1 .. n - 1 : r[j] = IF j < k THEN s[j] ELSE s[j + 1]
      BY DEF Without
    <3>4. cursor' = IF k = (n - 1) + 1 THEN NULL ELSE r[k]
      BY <2>2, <2>3, <3>1, <3>2, <3>3
    <3>5. \A j \in 1 .. n - 1 : j < k => r[j] \notin expired'
      BY <2>1, <3>1, <3>3
    <3>6. k \in 1 .. (n - 1) + 1
      BY <2>2
    <3> HIDE DEF r
    <3>7. WalkedTo(r, n - 1)'
      BY <3>4, <3>5, <3>6 DEF WalkedTo
    <3> QED
      BY <1>2, <1>3, <2>2, <3>1, <3>7, RemovalKeepsList DEF r
  <2>5. CASE s[k] \notin expired
    <3>1. UNCHANGED links /\ cursor' = Next'[s[k]] /\ expired' = expired
      BY <1>8, <2>2, <2>5 DEF TickVisits
    <3>2. cursor' = IF k + 1 = n + 1 THEN NULL ELSE s[k + 1]
      BY <2>2, <2>3, <3>1 DEF links
    <3>3. \A j \in 1 .. n : j < k + 1 => s[j] \notin expired'
      <4>1. \A j \in 1 .. n : j < k + 1 => j < k \/ j = k
        BY <2>2
      <4> QED
        BY <2>1, <2>5, <3>1, <4>1
    <3>4. k + 1 \in 1 .. n + 1
      BY <2>2
    <3>5. WalkedTo(s, n)'
      BY <3>2, <3>3, <3>4 DEF WalkedTo
    <3> QED
      BY <1>4, <3>1, <3>5 DEF ListInv
  <2> QED
    BY <2>4, <2>5
<1>9. ASSUME TickEnds PROVE ListInv'
  BY <1>4, <1>9 DEF TickEnds, ListInv
<1>10. ASSUME UNCHANGED vars PROVE ListInv'
  <2>1. UNCHANGED links /\ UNCHANGED walk
    BY <1>10 DEF vars
  <2>2. walking' => WalkedTo(s, n)'
    BY <1>2, <2>1 DEF walk, WalkedTo
  <2> QED
    BY <1>4, <2>1, <2>2 DEF ListInv
<1> QED
  BY <1>5, <1>6, <1>7, <1>8, <1>9, <1>10 DEF ListNext

\* The links of the delay list always spell out one sequence of different tasks,
\* in both directions, and the cursor of the tick handler is at a place of that
\* sequence with no expired task before it (the macros of BRTOS.h and the loop
\* of OS_TICK_HANDLER).
THEOREM ListInvariance == Spec => []ListInv
<1>1. Init => ListInv
  BY InitListInv
<1>2. ListInv /\ [ListNext]_vars => ListInv'
  BY StepListInv
<1> QED
  BY <1>1, <1>2, PTL DEF Spec

-----------------------------------------------------------------------------
(* The properties *)

LEMMA InvGivesDoublyLinked == ListInv => DoublyLinked
<1> SUFFICES ASSUME ListInv PROVE DoublyLinked
  OBVIOUS
<1>1. PICK n \in Nat : \E s \in [1 .. n -> Task] :
        Different(s, n) /\ Represents(s, n)
  BY DEF ListInv
<1>2. PICK s \in [1 .. n -> Task] : Different(s, n) /\ Represents(s, n)
  BY <1>1
<1> DEFINE C == Cardinality(Task)
<1>3. /\ n <= C /\ C \in Nat
      /\ \A i \in 1 .. n : s[i] \in Task /\ s[i] # NULL
      /\ \A i, j \in 1 .. n : s[i] = s[j] => i = j
  BY <1>2, LengthBound, DelayListAssumption DEF Different
<1>4. /\ Linked(ListHead, Next)
           = {[k \in 0 .. C |-> IF k < n THEN s[k + 1] ELSE NULL][m] : m \in 0 .. C}
      /\ Linked(ListTail, Previous)
           = {[k \in 0 .. C |-> IF k < n THEN s[n - k] ELSE NULL][m] : m \in 0 .. C}
  BY <1>2, ChainsSpellOut DEF Linked
<1>5. /\ Linked(ListHead, Next) = {IF m < n THEN s[m + 1] ELSE NULL : m \in 0 .. C}
      /\ Linked(ListTail, Previous) = {IF m < n THEN s[n - m] ELSE NULL : m \in 0 .. C}
  BY <1>4
<1>6. C \in 0 .. C /\ ~(C < n)
  BY <1>3
<1>7. NULL \in Linked(ListHead, Next) /\ NULL \in Linked(ListTail, Previous)
  BY <1>5, <1>6
<1>8. Linked(ListHead, Next) = Linked(ListTail, Previous)
  <2>1. \A m \in 0 .. C : m < n =>
          n - m - 1 \in 0 .. C /\ n - m - 1 < n
            /\ n - (n - m - 1) = m + 1 /\ (n - m - 1) + 1 = n - m
    BY <1>3
  <2>2. ASSUME NEW x \in Linked(ListHead, Next)
        PROVE  x \in Linked(ListTail, Previous)
    <3>1. PICK m \in 0 .. C : x = IF m < n THEN s[m + 1] ELSE NULL
      BY <1>5, <2>2
    <3>2. CASE m < n
      BY <1>5, <2>1, <3>1, <3>2
    <3>3. CASE ~(m < n)
      BY <1>7, <3>1, <3>3
    <3> QED
      BY <3>2, <3>3
  <2>3. ASSUME NEW x \in Linked(ListTail, Previous)
        PROVE  x \in Linked(ListHead, Next)
    <3>1. PICK m \in 0 .. C : x = IF m < n THEN s[n - m] ELSE NULL
      BY <1>5, <2>3
    <3>2. CASE m < n
      BY <1>5, <2>1, <3>1, <3>2
    <3>3. CASE ~(m < n)
      BY <1>7, <3>1, <3>3
    <3> QED
      BY <3>2, <3>3
  <2> QED
    BY <2>2, <2>3
<1>9. ASSUME NEW t \in Task, InList(t)
      PROVE  /\ Next[t] = NULL \/ Previous[Next[t]] = t
             /\ Next[t] = NULL <=> t = ListTail
             /\ Previous[t] = NULL <=> t = ListHead
  <2>1. PICK i \in 1 .. n : t = s[i]
    BY <1>2, <1>9, Members
  <2>2. /\ Next[t] = IF i = n THEN NULL ELSE s[i + 1]
        /\ Previous[t] = IF i = 1 THEN NULL ELSE s[i - 1]
        /\ ListHead = s[1] /\ ListTail = s[n]
    BY <1>2, <2>1 DEF Represents
  <2>3. i # n => i + 1 \in 1 .. n /\ Previous[s[i + 1]] = s[i]
    <3>1. i # n => i + 1 \in 1 .. n /\ i + 1 # 1 /\ i + 1 - 1 = i
      OBVIOUS
    <3> QED
      BY <1>2, <3>1 DEF Represents
  <2>4. i # 1 => i - 1 \in 1 .. n
    OBVIOUS
  <2> QED
    BY <1>3, <2>1, <2>2, <2>3, <2>4
<1> QED
  BY <1>7, <1>8, <1>9 DEF DoublyLinked

\* Include and remove (BRTOS.h) keep the two directions of the list in agreement
\* and both ends terminated, for any number of tasks and any order of calls.
THEOREM DelayListIsDoublyLinked == Spec => []DoublyLinked
  BY ListInvariance, InvGivesDoublyLinked, PTL

\* When the loop of OS_TICK_HANDLER ends, no task whose time is up is still in
\* the list, although the loop goes on from nodes it has just unlinked.
THEOREM WalkVisitsEverybody == Spec => []WalkMissesNobody
<1> DEFINE ExpiredTasks == expired \in SUBSET Task
<1>1. ListInv /\ ExpiredTasks => WalkMissesNobody
  <2> SUFFICES ASSUME ListInv, walking, cursor = NULL,
                      NEW t \in expired, t \in Task, InList(t)
               PROVE  FALSE
    BY DEF WalkMissesNobody
  <2>1. PICK n \in Nat : \E s \in [1 .. n -> Task] :
          Different(s, n) /\ Represents(s, n) /\ WalkedTo(s, n)
    BY DEF ListInv
  <2>2. PICK s \in [1 .. n -> Task] :
          Different(s, n) /\ Represents(s, n) /\ WalkedTo(s, n)
    BY <2>1
  <2>3. \A j \in 1 .. n : s[j] \in Task /\ s[j] # NULL
    BY DelayListAssumption
  <2>4. \A j \in 1 .. n : s[j] \notin expired
    BY <2>2, <2>3 DEF WalkedTo
  <2> QED
    BY <2>2, <2>4, Members
<1>2. Init => ExpiredTasks
  BY DEF Init
<1>3. ExpiredTasks /\ [ListNext]_vars => ExpiredTasks'
  <2> SUFFICES ASSUME ExpiredTasks, [ListNext]_vars PROVE ExpiredTasks'
    OBVIOUS
  <2>1. ASSUME NEW tasks \in SUBSET {t \in Task : InList(t)}, TickStarts(tasks)
        PROVE  ExpiredTasks'
    BY <2>1 DEF TickStarts
  <2> QED
    BY <2>1 DEF ListNext, TaskDelays, TaskWasPosted, TickVisits, TickEnds,
                vars, walk
<1> QED
  BY <1>1, <1>2, <1>3, ListInvariance, PTL DEF Spec

-----------------------------------------------------------------------------
(* The abstract set *)

\* Members as a formula, so that it can be used in the state after a step.
MembersAgree ==
  \A n \in Nat : \A s \in [1 .. n -> Task] :
    Different(s, n) /\ Represents(s, n) =>
      \A t \in Task : InList(t) <=> \E i \in 1 .. n : t = s[i]

LEMMA MembersAgreeNext == MembersAgree'
<1>1. MembersAgree
  BY Members DEF MembersAgree
<1> QED
  BY <1>1, PTL

LEMMA MembersNext ==
  ASSUME NEW n \in Nat, NEW s, Different(s, n), Represents(s, n)', NEW t \in Task
  PROVE  InList(t)' <=> \E i \in 1 .. n : t = s[i]
<1>1. s \in [1 .. n -> Task] /\ Different(s, n)'
  BY DEF Different
<1> QED
  BY <1>1, MembersAgreeNext DEF MembersAgree

\* Include and remove, seen as operations on the set of linked tasks.
LEMMA IncludeIsSetInclude ==
  ASSUME ListInv, NEW t \in Task, ~InList(t), IncludeTaskIntoDelayList(t)
  PROVE  D!Include(t)
<1>1. PICK n \in Nat : \E s \in [1 .. n -> Task] :
        Different(s, n) /\ Represents(s, n)
  BY DEF ListInv
<1>2. PICK s \in [1 .. n -> Task] : Different(s, n) /\ Represents(s, n)
  BY <1>1
<1>3. \A i \in 1 .. n : s[i] # t
  BY <1>2, Members
<1> DEFINE r == With(s, n, t)
<1>4. Different(r, n + 1) /\ Represents(r, n + 1)'
  BY <1>2, <1>3, IncludeAppends DEF ListInv
<1>5. ASSUME NEW u \in Task PROVE InList(u)' <=> InList(u) \/ u = t
  <2>1. InList(u) <=> \E i \in 1 .. n : u = s[i]
    BY <1>2, Members
  <2>2. InList(u)' <=> \E i \in 1 .. n + 1 : u = r[i]
    BY <1>4, MembersNext
  <2>3. (\E i \in 1 .. n + 1 : u = r[i]) <=> (\E i \in 1 .. n : u = s[i]) \/ u = t
    BY DEF With
  <2> QED
    BY <2>1, <2>2, <2>3
<1> QED
  BY <1>5 DEF D!Include

LEMMA RemoveIsSetRemove ==
  ASSUME ListInv, NEW t \in Task, InList(t), RemoveFromDelayList(t)
  PROVE  D!Remove(t)
<1>1. PICK n \in Nat : \E s \in [1 .. n -> Task] :
        Different(s, n) /\ Represents(s, n)
  BY DEF ListInv
<1>2. PICK s \in [1 .. n -> Task] : Different(s, n) /\ Represents(s, n)
  BY <1>1
<1>3. PICK k \in 1 .. n : t = s[k]
  BY <1>2, Members
<1> DEFINE r == Without(s, n, k)
<1>4. Different(r, n - 1) /\ Represents(r, n - 1)' /\ n - 1 \in Nat
  BY <1>2, <1>3, RemoveTakesOut DEF ListInv
<1>5. ASSUME NEW u \in Task PROVE InList(u)' <=> InList(u) /\ u # t
  <2>1. InList(u) <=> \E i \in 1 .. n : u = s[i]
    BY <1>2, Members
  <2>2. InList(u)' <=> \E i \in 1 .. n - 1 : u = r[i]
    BY <1>4, MembersNext
  <2>3. ASSUME NEW i \in 1 .. n - 1 PROVE r[i] # t /\ \E j \in 1 .. n : r[i] = s[j]
    <3>1. r[i] = IF i < k THEN s[i] ELSE s[i + 1]
      BY DEF Without
    <3>2. i \in 1 .. n /\ i + 1 \in 1 .. n /\ (i < k \/ i + 1 # k)
      OBVIOUS
    <3> QED
      BY <1>2, <1>3, <3>1, <3>2 DEF Different
  <2>4. ASSUME NEW i \in 1 .. n, s[i] # t PROVE \E j \in 1 .. n - 1 : s[i] = r[j]
    <3>1. CASE i < k
      <4>1. i \in 1 .. n - 1 /\ r[i] = s[i]
        BY <3>1 DEF Without
      <4> QED
        BY <4>1
    <3>2. CASE i > k
      <4>1. i - 1 \in 1 .. n - 1 /\ r[i - 1] = s[i - 1 + 1] /\ i - 1 + 1 = i
        BY <3>2 DEF Without
      <4> QED
        BY <4>1
    <3> QED
      BY <1>3, <2>4, <3>1, <3>2
  <2> HIDE DEF r
  <2>5. ASSUME NEW i \in 1 .. n - 1, u = r[i]
        PROVE  u # t /\ \E j \in 1 .. n : u = s[j]
    BY <2>3, <2>5
  <2>6. ASSUME NEW i \in 1 .. n, u = s[i], u # t
        PROVE  \E j \in 1 .. n - 1 : u = r[j]
    BY <2>4, <2>6
  <2> QED
    BY <2>1, <2>2, <2>5, <2>6
<1> QED
  BY <1>5 DEF D!Remove

\* Towards the kernel the linked list behaves as a set of tasks: every step of
\* a task or of the walk includes one task, removes one, or changes nothing.
THEOREM DelayListIsASet == Spec => ImplementsSet
<1>1. Init => D!Init
  <2> SUFFICES ASSUME Init PROVE D!Init
    OBVIOUS
  <2>1. ListInv
    BY InitListInv
  <2>2. ASSUME NEW t \in Task PROVE ~InList(t)
    <3> DEFINE s == [i \in 1 .. 0 |-> NULL]
    <3>1. Different(s, 0) /\ Represents(s, 0)
      BY DEF Init, Different, Represents
    <3> HIDE DEF s
    <3> QED
      BY <3>1, Members
  <2> QED
    BY <2>2 DEF D!Init
<1>2. ListInv /\ [ListNext]_vars => [D!Next]_{t \in Task : InList(t)}
  <2> SUFFICES ASSUME ListInv, [ListNext]_vars
               PROVE  D!Next \/ UNCHANGED {t \in Task : InList(t)}
    OBVIOUS
  <2>1. ASSUME NEW t \in Task, TaskDelays(t) PROVE D!Next
    BY <2>1, IncludeIsSetInclude DEF TaskDelays, D!Next
  <2>2. ASSUME NEW t \in Task, TaskWasPosted(t) PROVE D!Next
    BY <2>2, RemoveIsSetRemove DEF TaskWasPosted, D!Next
  <2>3. ASSUME UNCHANGED links PROVE UNCHANGED {t \in Task : InList(t)}
    BY <2>3 DEF links, InList, Linked, Chain
  <2>4. ASSUME TickVisits PROVE D!Next \/ UNCHANGED {t \in Task : InList(t)}
    <3>1. PICK n \in Nat : \E s \in [1 .. n -> Task] :
            Different(s, n) /\ Represents(s, n) /\ WalkedTo(s, n)
      BY <2>4 DEF ListInv, TickVisits
    <3>2. PICK s \in [1 .. n -> Task] :
            Different(s, n) /\ Represents(s, n) /\ WalkedTo(s, n)
      BY <3>1
    <3>3. PICK k \in 1 .. n : cursor = s[k]
      <4>1. PICK k \in 1 .. n + 1 : cursor = IF k = n + 1 THEN NULL ELSE s[k]
        BY <3>2 DEF WalkedTo
      <4>2. k \in 1 .. n /\ cursor = s[k]
        BY <2>4, <4>1 DEF TickVisits
      <4> QED
        BY <4>2
    <3>4. cursor \in Task /\ InList(cursor)
      BY <3>2, <3>3, Members
    <3>5. CASE cursor \in expired
      BY <2>4, <3>4, <3>5, RemoveIsSetRemove DEF TickVisits, D!Next
    <3>6. CASE cursor \notin expired
      BY <2>3, <2>4, <3>6 DEF TickVisits
    <3> QED
      BY <3>5, <3>6
  <2> QED
    BY <2>1, <2>2, <2>3, <2>4 DEF ListNext, TickStarts, TickEnds, vars
<1> QED
  BY <1>1, <1>2, ListInvariance, PTL DEF Spec, ImplementsSet, D!Spec
=============================================================================
