----------------------------- MODULE MCTournament -----------------------------
(* Tournaments of two single games, of single games without end, and of two  *)
(* mirrored openings in two batches or in one that is not full.              *)
EXTENDS Tournament

MCModes == {[total |-> 2, multi |-> 0], [total |-> -1, multi |-> 0],
            [total |-> -2, multi |-> 1], [total |-> 2, multi |-> 2]}
==============================================================================
