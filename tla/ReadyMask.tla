----------------------------- MODULE ReadyMask ------------------------------
(***************************************************************************)
(* Priority masks as the code stores them, one bit per priority, and the   *)
(* successive-approximation search for the highest bit.  Kernel works with *)
(* the set of priorities in a mask and with the highest of them.           *)
(***************************************************************************)
EXTENDS Kernel, FiniteSetsExt

CONSTANT NUMBER_OF_PRIORITIES    \* 8, 16 or 32

\* configMAX_TASK_PRIORITY is 7, 15 or 31 (BRTOS.h).
ASSUME MaskAssumption ==
  /\ NUMBER_OF_PRIORITIES \in {8, 16, 32}
  /\ configMAX_TASK_PRIORITY < NUMBER_OF_PRIORITIES

Priorities == 0 .. NUMBER_OF_PRIORITIES - 1

PriorityMask(p) == 2 ^ p

\* The mask whose bits are the priorities in ready.
MaskOf(ready) == MapThenSumSet(PriorityMask, ready)

\* Mutant: a digit of the threshold of priority 13 is missing.
Threshold_Mistyped ==
  <<\h1, \h3, \h7, \hF, \h1F, \h3F, \h7F, \hFF,
    \h1FF, \h3FF, \h7FF, \hFFF, \h1FF, \h3FFF, \h7FFF, \hFFFF,
    \h1FFFF, \h3FFFF, \h7FFFF, \hFFFFF, \h1FFFFF, \h3FFFFF, \h7FFFFF, \hFFFFFF,
    \h1FFFFFF, \h3FFFFFF, \h7FFFFFF, \hFFFFFFF, \h1FFFFFFF, \h3FFFFFFF,
    \h7FFFFFFF>>

\* The constants of the decision tree, in the order of the priorities: the mask
\* is above Threshold[p] when its highest bit is p or more.
Threshold ==
  <<\h1, \h3, \h7, \hF, \h1F, \h3F, \h7F, \hFF,
    \h1FF, \h3FF, \h7FF, \hFFF, \h1FFF, \h3FFF, \h7FFF, \hFFFF,
    \h1FFFF, \h3FFFF, \h7FFFF, \hFFFFF, \h1FFFFF, \h3FFFFF, \h7FFFFF, \hFFFFFF,
    \h1FFFFFF, \h3FFFFFF, \h7FFFFFF, \hFFFFFFF, \h1FFFFFFF, \h3FFFFFFF,
    \h7FFFFFFF>>

\* One comparison of the decision tree: which half of the 2 * half priorities
\* from lo on has the highest bit.
Upper(mask, lo, half) ==
  IF mask > Threshold[lo + half] THEN lo + half ELSE lo

\* The decision tree of SAScheduler; its first levels exist only for wide masks.
HighestBit(mask) ==
  LET sixteen == IF NUMBER_OF_PRIORITIES > 16 THEN Upper(mask, 0, 16) ELSE 0
      eight == IF NUMBER_OF_PRIORITIES > 8 THEN Upper(mask, sixteen, 8)
                                           ELSE sixteen
      four == Upper(mask, eight, 4)
      two  == Upper(mask, four, 2)
  IN  Upper(mask, two, 1)

SearchAgrees(ready) == HighestBit(MaskOf(ready)) = SAScheduler(ready)

SearchAgreesOnEveryMask == \A ready \in SUBSET Priorities : SearchAgrees(ready)

\* The bit search of the code finds the highest priority of the mask that
\* OSSchedule hands it, 0 (Idle) for the empty one, and of every other mask of
\* this width: each threshold of its decision tree is a constant of its own,
\* and a wrong one selects a task that is not ready.
FindsHighest ==
  /\ SearchAgrees(OSReadyList \cap OSBlockedList)
  /\ SearchAgreesOnEveryMask
=============================================================================
