------------------------------ MODULE MCMutex -------------------------------
(* Constants for model checking Mutex: tasks at the priorities 1 .. 3, the  *)
(* priorities above them are for the mutexes.                               *)
EXTENDS Mutex, TLC

MCPriority3 == (1 :> 1) @@ (2 :> 2) @@ (3 :> 3) @@ (4 :> 0)
=============================================================================
