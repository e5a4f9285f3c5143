------------------------------ MODULE MCQueue -------------------------------
(* Constants for model checking Queue: priorities 1 .. n for the n tasks.   *)
EXTENDS Queue, TLC

MCPriority2 == (1 :> 1) @@ (2 :> 2) @@ (3 :> 0)
MCDynamicSizes == {<<2, 2>>}
MCSymmetry == Permutations(Data)
MCPriority3 == (1 :> 1) @@ (2 :> 2) @@ (3 :> 3) @@ (4 :> 0)
=============================================================================
