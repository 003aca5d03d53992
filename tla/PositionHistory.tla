---------------------------- MODULE PositionHistory ----------------------------
(***************************************************************************)
(* Positions of a game and their repetition counters                       *)
(* (src/src/chess/position.cc, position.h). A board is a member of a set,  *)
(* the rules of chess are a graph of boards; position.cc relies on three   *)
(* facts about it, stated as assumptions.                                  *)
(***************************************************************************)
EXTENDS Integers, Sequences, FiniteSets, FiniteSetsExt

CONSTANTS
  Board, Move,
  After,    \* After[b, m]: the board after a legal move; its domain says which are legal
  Zeroing,  \* captures and pawn moves
  Black,    \* Black[b]: black is to move
  Stage     \* Stage[b]: which pieces are left, and how far the pawns got

\* Sides alternate, no two moves lead back, and zeroing moves cannot be undone.
ASSUME PositionAssumption ==
  /\ DOMAIN After \subseteq Board \X Move /\ After \in [DOMAIN After -> Board]
  /\ Zeroing \subseteq DOMAIN After
  /\ Black \in [Board -> BOOLEAN] /\ Stage \in [Board -> Nat]
  /\ \A x \in DOMAIN After :
       /\ Black[After[x]] = ~Black[x[1]]
       /\ \A m \in Move : <<After[x], m>> \in DOMAIN After => After[After[x], m] # x[1]
       /\ IF x \in Zeroing THEN Stage[After[x]] > Stage[x[1]]
          ELSE Stage[After[x]] = Stage[x[1]]

\* A position: its board, the plies since the last zeroing move, how often it occurred
\* before, and the plies since it last did.
Position(board, rule50) ==
  [board |-> board, rule50 |-> rule50, repetitions |-> 0, cycle |-> 0]

LegalMoves(board) == {m \in Move : <<board, m>> \in DOMAIN After}

Latest(h) == h[Len(h)]

\* Position(parent, m).
AfterMove(p, m) ==
  Position(After[p.board, m], IF <<p.board, m>> \in Zeroing THEN 0 ELSE p.rule50 + 1)

\* The positions the loop looks at, from the last to the first.
Candidates(h) == {i \in 1..(Len(h) - 4) : (Len(h) - i) % 2 = 0}

\* Mutant of Repeated: the shortest repetition is passed over.
RepeatedLongAgo(h) ==
  IF Latest(h).rule50 <= 4 THEN {}
  ELSE {i \in Candidates(h) :
          /\ h[i].board = Latest(h).board
          /\ \A j \in Candidates(h) : j > i => h[j].board # Latest(h).board /\ h[j].rule50 >= 2}

\* Where the search for an equal board ends, if it finds one.
Repeated(h) ==
  IF Latest(h).rule50 < 4 THEN {}
  ELSE {i \in Candidates(h) :
          /\ h[i].board = Latest(h).board
          /\ \A j \in Candidates(h) : j > i => h[j].board # Latest(h).board /\ h[j].rule50 >= 2}

\* ComputeLastMoveRepetitions.
CountRepetitions(h) ==
  IF Repeated(h) = {} THEN Latest(h)
  ELSE LET i == CHOOSE i \in Repeated(h) : TRUE IN
       [Latest(h) EXCEPT !.repetitions = 1 + h[i].repetitions, !.cycle = Len(h) - i]

AppendMove(h, m) ==
  LET longer == Append(h, AfterMove(Latest(h), m)) IN
  [longer EXCEPT ![Len(longer)] = CountRepetitions(longer)]

\* Append() for each move.
AppendMoves(h, moves) ==
  LET played[k \in 0..Len(moves)] ==
        IF k = 0 THEN h ELSE AppendMove(played[k - 1], moves[k])
  IN played[Len(moves)]

\* Reset() to a position first.
Play(start, moves) == AppendMoves(<<start>>, moves)

-----------------------------------------------------------------------------
\* Where the board of the k-th position occurred before.
Occurrences(h, k) == {i \in 1..(k - 1) : h[i].board = h[k].board}

\* The plies since it last did.
SinceLast(h, k) ==
  IF Occurrences(h, k) = {} THEN 0 ELSE k - Max(Occurrences(h, k))

\* The counters say how often a position occurred before, and how long ago.
CountersRight(h) ==
  \A k \in 1..Len(h) :
    /\ h[k].repetitions = Cardinality(Occurrences(h, k))
    /\ h[k].cycle = SinceLast(h, k)
===============================================================================
