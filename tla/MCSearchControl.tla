--------------------------- MODULE MCSearchControl ---------------------------
(* SearchControl on small instances. Workers are interchangeable, and so are *)
(* the moves; the symmetry is used by the runs that check no liveness.       *)
EXTENDS SearchControl, TLC

MCSymmetry == Permutations(Worker) \cup Permutations(Move)
==============================================================================
