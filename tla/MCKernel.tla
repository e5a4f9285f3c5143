------------------------------ MODULE MCKernel ------------------------------
(* Constants for model checking Kernel: three tasks at priorities 1, 3, 4   *)
(* of 0 .. 4; priority 2 is not used by any task.                           *)
EXTENDS ReadyMask, TLC

MCPriority == (1 :> 1) @@ (2 :> 3) @@ (3 :> 4) @@ (4 :> 0)
=============================================================================
