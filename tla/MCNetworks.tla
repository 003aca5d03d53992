------------------------------ MODULE MCNetworks ------------------------------
(* Three computations of different sizes, one of them larger than a batch.   *)
EXTENDS Networks, TLC

CONSTANTS c1, c2, c3

MCSize == (c1 :> 1) @@ (c2 :> 1) @@ (c3 :> 3)
MCMaxBatch == [w \in Worker |-> 2]
==============================================================================
