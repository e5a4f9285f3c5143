---------------------------- MODULE MCSemaphore -----------------------------
(* Constants for model checking Semaphore: priorities 1 .. 3 for the tasks. *)
EXTENDS Semaphore, TLC

MCPriority3 == (1 :> 1) @@ (2 :> 2) @@ (3 :> 3) @@ (4 :> 0)
=============================================================================
