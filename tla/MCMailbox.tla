----------------------------- MODULE MCMailbox ------------------------------
(* Constants for model checking Mailbox: priorities 1 .. 3 for the tasks.   *)
EXTENDS Mailbox, TLC

MCPriority3 == (1 :> 1) @@ (2 :> 2) @@ (3 :> 3) @@ (4 :> 0)
=============================================================================
