------------------------------- MODULE MCEngine -------------------------------
(* Engine with games of a move at most: a search ponders behind that move or *)
(* not at all. Each setting differs from another in what is loaded anew: the *)
(* backend by its name, or its configuration and the tablebases.             *)
EXTENDS Engine

CONSTANT a

MCPosition == {<<>>, <<a>>}

MCSetting == {[name |-> "n1", config |-> "c1", paths |-> "p1"],
              [name |-> "n2", config |-> "c1", paths |-> "p1"],
              [name |-> "n1", config |-> "c2", paths |-> "p2"]}
==============================================================================
