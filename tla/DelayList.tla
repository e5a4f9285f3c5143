----------------------------- MODULE DelayList ------------------------------
(***************************************************************************)
(* The doubly linked delay list of BRTOS (macros IncludeTaskIntoDelayList  *)
(* and RemoveFromDelayList of BRTOS.h) and the walk of OS_TICK_HANDLER,    *)
(* which follows Task->Next after it has unlinked Task.                    *)
(*                                                                         *)
(* Tasks link themselves only when they are not in the list and unlink     *)
(* themselves only when they are: property DelayListContract of Event.     *)
(* The walk runs in the tick interrupt, so no task moves during it.        *)
(***************************************************************************)
EXTENDS Naturals, FiniteSets

CONSTANTS Task, NULL

ASSUME DelayListAssumption == IsFiniteSet(Task) /\ NULL \notin Task

VARIABLES
  ListHead, ListTail,   \* Head and Tail of the code
  Next, Previous,
  walking,    \* the tick handler is in its loop
  cursor,     \* its variable Task
  expired     \* the tasks whose TimeToWait is the current tick

links == <<ListHead, ListTail, Next, Previous>>
walk  == <<walking, cursor, expired>>
vars  == <<links, walk>>

\* The nodes met when following link from node.
Chain(node, link) ==
  LET nth[n \in 0 .. Cardinality(Task)] ==
        IF n = 0 THEN node
        ELSE IF nth[n - 1] = NULL THEN NULL ELSE link[nth[n - 1]]
  IN  nth

Linked(node, link) == {Chain(node, link)[n] : n \in 0 .. Cardinality(Task)}

InList(t) == t \in Linked(ListHead, Next)

-----------------------------------------------------------------------------
IncludeTaskIntoDelayList(t) ==
  /\ ListTail' = t
  /\ IF ListTail # NULL
     THEN /\ Next' = [Next EXCEPT ![ListTail] = t, ![t] = NULL]
          /\ Previous' = [Previous EXCEPT ![t] = ListTail]
          /\ UNCHANGED ListHead
     ELSE /\ Next' = [Next EXCEPT ![t] = NULL]
          /\ Previous' = [Previous EXCEPT ![t] = NULL]
          /\ ListHead' = t

RemoveOnly(t) ==
  /\ t = ListHead /\ t = ListTail
  /\ ListHead' = NULL /\ ListTail' = NULL
  /\ UNCHANGED <<Next, Previous>>

\* Mutant: the new head keeps a link to the removed task.
RemoveHead_StalePrevious(t) ==
  /\ t = ListHead /\ t # ListTail
  /\ ListHead' = Next[t]
  /\ UNCHANGED <<ListTail, Next, Previous>>

\* Mutant: the removed task's own link is cleared.
RemoveHead_ClearsNext(t) ==
  /\ t = ListHead /\ t # ListTail
  /\ ListHead' = Next[t]
  /\ Next' = [Next EXCEPT ![t] = NULL]
  /\ Previous' = [Previous EXCEPT ![Next[t]] = NULL]
  /\ UNCHANGED ListTail

\* Mutant: the test for the last task is missing.
RemoveHead_EmptiesList(t) ==
  /\ t = ListHead /\ t # ListTail
  /\ ListHead' = NULL /\ ListTail' = NULL
  /\ UNCHANGED <<Next, Previous>>

RemoveHead(t) ==
  /\ t = ListHead /\ t # ListTail
  /\ ListHead' = Next[t]
  /\ Previous' = [Previous EXCEPT ![Next[t]] = NULL]
  /\ UNCHANGED <<ListTail, Next>>

RemoveTail(t) ==
  /\ t # ListHead /\ t = ListTail
  /\ ListTail' = Previous[t]
  /\ Next' = [Next EXCEPT ![Previous[t]] = NULL]
  /\ UNCHANGED <<ListHead, Previous>>

RemoveInner(t) ==
  /\ t # ListHead /\ t # ListTail
  /\ Previous' = [Previous EXCEPT ![Next[t]] = Previous[t]]
  /\ Next' = [Next EXCEPT ![Previous[t]] = Next[t]]
  /\ UNCHANGED <<ListHead, ListTail>>

\* The links of the removed task itself keep their values.
RemoveFromDelayList(t) ==
  RemoveOnly(t) \/ RemoveHead(t) \/ RemoveTail(t) \/ RemoveInner(t)

-----------------------------------------------------------------------------
TaskDelays(t) ==
  /\ ~walking
  /\ ~InList(t)
  /\ IncludeTaskIntoDelayList(t)
  /\ UNCHANGED walk

TaskWasPosted(t) ==
  /\ ~walking
  /\ InList(t)
  /\ RemoveFromDelayList(t)
  /\ UNCHANGED walk

TickStarts(tasks) ==
  /\ ~walking
  /\ walking' = TRUE
  /\ cursor' = ListHead
  /\ expired' = tasks
  /\ UNCHANGED links

\* One turn of the loop: the next node is read after the removal.
TickVisits ==
  /\ walking
  /\ cursor # NULL
  /\ IF cursor \in expired THEN RemoveFromDelayList(cursor)
                           ELSE UNCHANGED links
  /\ cursor' = Next'[cursor]
  /\ UNCHANGED <<walking, expired>>

TickEnds ==
  /\ walking
  /\ cursor = NULL
  /\ walking' = FALSE
  /\ expired' = {}
  /\ UNCHANGED <<links, cursor>>

-----------------------------------------------------------------------------
Init ==
  /\ ListHead = NULL /\ ListTail = NULL
  /\ Next = [t \in Task |-> NULL]
  /\ Previous = [t \in Task |-> NULL]
  /\ walking = FALSE
  /\ cursor = NULL
  /\ expired = {}

ListNext ==
  \/ \E t \in Task : TaskDelays(t) \/ TaskWasPosted(t)
  \/ \E tasks \in SUBSET {t \in Task : InList(t)} : TickStarts(tasks)
  \/ TickVisits
  \/ TickEnds

Spec == Init /\ [][ListNext]_vars

-----------------------------------------------------------------------------
(* Properties *)

\* Forwards from ListHead and backwards from ListTail the same tasks are met, in
\* opposite orders, and both chains end: the list has no cycle and no stale
\* link, whatever was left in the links of removed tasks.
DoublyLinked ==
  /\ NULL \in Linked(ListHead, Next)
  /\ NULL \in Linked(ListTail, Previous)
  /\ Linked(ListHead, Next) = Linked(ListTail, Previous)
  /\ \A t \in Task : InList(t) =>
       /\ Next[t] = NULL \/ Previous[Next[t]] = t
       /\ Next[t] = NULL <=> t = ListTail
       /\ Previous[t] = NULL <=> t = ListHead

\* The walk misses no task, although it follows the links of tasks it has just
\* removed: when it ends no expired task is left in the list.
WalkMissesNobody ==
  walking /\ cursor = NULL => \A t \in expired : ~InList(t)

D == INSTANCE DelaySet WITH delayList <- {t \in Task : InList(t)}

\* The linked list is the set of tasks that Kernel works with.
ImplementsSet == D!Spec
=============================================================================
