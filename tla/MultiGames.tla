------------------------------ MODULE MultiGames ------------------------------
(***************************************************************************)
(* One batch of games played by MultiSelfPlayGames::Play (multigame.cc):   *)
(* in every round the games of one side are gathered into one computation  *)
(* of the Evaluator, which is run and then makes a move in each of them.   *)
(* A position is its opening and its ply; a move is the position it is     *)
(* legal in. Tournament has such batches among threads that abort them.    *)
(***************************************************************************)
EXTENDS Naturals

CONSTANTS
  OpeningPly,  \* plies of the opening of each game of the batch, 1..n -> Nat
  MaxPly       \* bound: a game is over by then

Tree == DOMAIN OpeningPly
Nothing == <<0, 0>>

VARIABLES
  ply,          \* plies played in each game, its opening included
  decided,      \* games with a result
  abort_,       \* of the batch
  pc,           \* "round", "gather", "run", "move" or "done"
  blacks_move,  \* the side to move in this round, 1 for black
  inputs,       \* positions of comp_, the computation of the round
  moves_,       \* the position whose moves the Evaluator holds
  todo,         \* games that get a move in this round
  made          \* the move last made in each game

vars == <<ply, decided, abort_, pc, blacks_move, inputs, moves_, todo, made>>

Position(t) == <<t, ply[t]>>
Lowest(S) == CHOOSE t \in S : \A u \in S : t <= u

\* The head of the loop: abort_, then the results, then the side of the first game that
\* goes on.
Round ==
  /\ pc = "round"
  /\ \/ /\ abort_ /\ pc' = "done"
        /\ UNCHANGED <<decided, blacks_move, todo, inputs>>
     \/ /\ ~abort_
        /\ \E over \in SUBSET Tree :
             /\ decided \cup {t \in Tree : ply[t] >= MaxPly} \subseteq over
             /\ decided' = over
             /\ IF over = Tree
                  THEN pc' = "done" /\ UNCHANGED <<blacks_move, todo, inputs>>
                  ELSE LET side == ply[Lowest(Tree \ over)] % 2 IN
                       /\ blacks_move' = side
                       /\ todo' = {t \in Tree \ over : ply[t] % 2 = side}
                       /\ inputs' = {}
                       /\ pc' = "gather"
  /\ UNCHANGED <<ply, abort_, moves_, made>>

\* Gather: moves_ and p_ are cleared and filled for this tree.
Gather ==
  /\ pc = "gather"
  /\ LET waiting == {t \in todo : Position(t) \notin inputs}
         next == Position(Lowest(waiting))
     IN
     /\ inputs' = inputs \cup {next}
     /\ moves_' = next
     /\ pc' = IF waiting = {Lowest(waiting)} THEN "run" ELSE "gather"
  /\ UNCHANGED <<ply, decided, abort_, blacks_move, todo, made>>

Run ==
  /\ pc = "run"
  /\ pc' = "move"
  /\ UNCHANGED <<ply, decided, abort_, blacks_move, inputs, moves_, todo, made>>

\* MakeBestMove, for the trees in the same order.
MakeBestMove ==
  /\ pc = "move"
  /\ LET t == Lowest(todo) IN
       /\ made' = [made EXCEPT ![t] = moves_]
       /\ ply' = [ply EXCEPT ![t] = @ + 1]
       /\ todo' = todo \ {t}
       /\ pc' = IF todo' = {} THEN "round" ELSE "move"
  /\ UNCHANGED <<decided, abort_, blacks_move, inputs, moves_>>

Abort ==
  /\ abort_' = TRUE
  /\ UNCHANGED <<ply, decided, pc, blacks_move, inputs, moves_, todo, made>>

Init ==
  /\ ply = OpeningPly
  /\ decided = {} /\ abort_ = FALSE
  /\ pc = "round" /\ blacks_move = 0
  /\ inputs = {} /\ moves_ = Nothing /\ todo = {}
  /\ made = [t \in Tree |-> Nothing]

Next == Round \/ Gather \/ Run \/ MakeBestMove \/ Abort

Spec == Init /\ [][Next]_vars

\* multigame.h:43: MakeBestMove() is "Run for each tree in the same order as Gather.", so
\* the move it makes in a tree is one of the position gathered for that tree.
MovesOfOwnPosition ==
  [][\A t \in Tree : ply'[t] # ply[t] => made'[t] = Position(t)]_vars
===============================================================================
