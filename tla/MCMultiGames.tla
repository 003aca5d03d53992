----------------------------- MODULE MCMultiGames -----------------------------
(* Three openings: two of them with white to move, one with black.           *)
EXTENDS MultiGames

MCOpeningPly == <<2, 2, 1>>
==============================================================================
