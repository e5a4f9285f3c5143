---------------------------- MODULE MCSoftTimer -----------------------------
(* Constants for model checking SoftTimer: the timer task, at the highest   *)
(* priority, and one task that uses the timers.                             *)
EXTENDS SoftTimer, TLC

MCPriority2 == (1 :> 1) @@ (2 :> 2) @@ (3 :> 0)

\* What the passing run explores: programs of three timers; of two, with three
\* links between them or with one of them linked again and again, once a stop
\* has misled the timer task or a linked or deleted timer was started.
MCBound ==
  /\ state[4] = "NOT_USED"
  /\ \/ restarted \/ misled
     \/ \E i \in TimerId : state[i] = "RUNNING" /\ ~func_cb[i]
     => state[3] = "NOT_USED" /\ (Len(Both) <= 3 \/ ToSet(Both) = {1})
=============================================================================
