------------------------------ MODULE DelaySet ------------------------------
(* What Kernel assumes of the delay list: it is a set of tasks.             *)
CONSTANT Task

VARIABLE delayList

Init == delayList = {}

Include(t) == t \notin delayList /\ delayList' = delayList \cup {t}

Remove(t) == t \in delayList /\ delayList' = delayList \ {t}

Next == \E t \in Task : Include(t) \/ Remove(t)

Spec == Init /\ [][Next]_delayList
=============================================================================
