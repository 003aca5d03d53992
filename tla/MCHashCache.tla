----------------------------- MODULE MCHashCache -----------------------------
(* Keys that collide in tables of 2, 4 and 6 slots, also across their end. *)
EXTENDS HashCache, TLC

MCSymmetry == Permutations(Thread) \cup Permutations(Value)
==============================================================================
