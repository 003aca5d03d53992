----------------------------- MODULE MCSearchTree -----------------------------
(* A small tree of positions: two moves at the root, two replies to one.   *)
EXTENDS SearchTree, TLC

CONSTANTS r, a, b, c, d

MCNode == {r, a, b, c, d}
MCParent == [x \in {a, b, c, d} |-> IF x \in {a, b} THEN r ELSE a]
MCSymmetry == Permutations(Worker)
==============================================================================
