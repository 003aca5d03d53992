------------------------------ MODULE MCNodeTree ------------------------------
(* A game where each side has one piece that goes to and fro until somebody pushes; *)
(* then only pushes are left, and the third one ends the game.                       *)
EXTENDS NodeTree

MCBoard == [white : 0..1, black : 0..1, pushes : 0..3, turn : BOOLEAN]
MCMove == {"shift", "push"}

Shifted(b) ==
  IF b.turn THEN [b EXCEPT !.black = 1 - @, !.turn = FALSE]
  ELSE [b EXCEPT !.white = 1 - @, !.turn = TRUE]
Pushed(b) == [b EXCEPT !.pushes = @ + 1, !.turn = ~@]

MCZeroing == {b \in MCBoard : b.pushes < 3} \X {"push"}
MCAfter ==
  [x \in ({b \in MCBoard : b.pushes = 0} \X {"shift"}) \cup MCZeroing |->
     IF x[2] = "shift" THEN Shifted(x[1]) ELSE Pushed(x[1])]
MCBlack == [b \in MCBoard |-> b.turn]
MCMated == {b \in MCBoard : b.pushes = 3 /\ b.white # b.black}
MCStage == [b \in MCBoard |-> b.pushes]

Start == Position([white |-> 0, black |-> 0, pushes |-> 0, turn |-> FALSE], 0)
OtherStart == Position([white |-> 1, black |-> 0, pushes |-> 1, turn |-> FALSE], 2)

MCGameState ==
  [startpos : {Start},
   moves : {<<>>, <<"shift">>, <<"push">>, <<"shift", "shift">>,
            <<"shift", "shift", "shift", "shift">>}]
  \cup [startpos : {OtherStart}, moves : {<<>>}]

\* States that differ in addresses only, or in what is left of garbage, are the same.
MCView ==
  LET live == Live
      free == Free(node)
      Place(x) ==
        IF x = None THEN <<"none">>
        ELSE IF x \in live THEN <<"live", MovesTo(node, x, gamebegin_node_)>>
        ELSE IF x \in free THEN <<"free">> ELSE <<"garbage">>
      Size(e) == <<Cardinality(e), Cardinality(Subtree(node, e))>>
  IN
  << \* These two only have TLC evaluate the variables.
    node = node, subtrees_to_gc_ = subtrees_to_gc_,
    {[node[x] EXCEPT !.parent = Place(@), !.child = Cardinality(@), !.index = Place(x)] :
       x \in live},
    {<<Size(e), old_head \in Subtree(node, e),
       Cardinality({f \in subtrees_to_gc_ : Size(f) = Size(e)})>> : e \in subtrees_to_gc_},
    Place(current_head_), Place(old_head), OwnedOnce, ParentsRight,
    history_, game, todo, pc, resetting, seen_old_head>>
===============================================================================
