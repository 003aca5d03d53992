------------------------------- MODULE NodeTree -------------------------------
(***************************************************************************)
(* The tree of a game (NodeTree and Node in src/src/search/classic/node.cc *)
(* and node.h): the caller moves its head along the game, the searches     *)
(* between two moves grow it below the head, and what is cut off is freed  *)
(* by the garbage collecting thread. Nodes are kept apart by address: they *)
(* move in memory, and a freed address is used again.                      *)
(*                                                                         *)
(* The order of siblings, priors and values are left out, but not the      *)
(* bounds that finished games put on the result of a node. A search is a   *)
(* series of playouts of src/src/search/classic/search.cc, one at a time,  *)
(* on the nodes as they were left: SearchTree is about their interleaving. *)
(***************************************************************************)
EXTENDS PositionHistory, Functions, SequencesExt

CONSTANTS
  Address,             \* 1..k
  GameState,           \* [startpos, moves]: what the callers ask for
  MaxVisits,           \* bound of the model: visits of the head
  MaxGarbage,          \* bound of the model: a search goes on with so many entries of garbage
  SolidTreeThreshold,  \* option solid-tree-threshold
  TwoFoldDraws,        \* option two-fold-draws
  StickyEndgames,      \* option sticky-endgames
  Rule50,              \* 100
  Mated,               \* boards without a legal move that are lost for the side to move
  None

\* Moves that can be played one after the other.
LegalLine(board, moves) ==
  \E after \in [1..Len(moves) -> Board] : \A i \in 1..Len(moves) :
    LET before == IF i = 1 THEN board ELSE after[i - 1] IN
    moves[i] \in LegalMoves(before) /\ after[i] = After[before, moves[i]]

\* Callers only pass on what they could parse.
LegalGame(state) ==
  /\ state.startpos.board \in Board /\ state.startpos.rule50 \in Nat
  /\ state.startpos = Position(state.startpos.board, state.startpos.rule50)
  /\ state.moves \in Seq(Move) /\ LegalLine(state.startpos.board, state.moves)

ASSUME NodeTreeAssumption ==
  /\ Address \subseteq Nat /\ IsFiniteSet(Address) /\ None \notin Address
  /\ IsFiniteSet(Move)
  /\ MaxVisits \in Nat /\ MaxGarbage \in Nat
  /\ SolidTreeThreshold \in Nat \ {0}
  /\ TwoFoldDraws \in BOOLEAN /\ StickyEndgames \in BOOLEAN /\ Rule50 \in Nat
  /\ \A state \in GameState : LegalGame(state)

VARIABLES
  node,             \* what is at each address
  subtrees_to_gc_,  \* sets of siblings, each with what is below them
  gamebegin_node_, current_head_, history_,
  game,             \* what the callers asked for: the start and all moves made
  todo,             \* moves that ResetToPosition() or MakeMove() has still to make
  pc,               \* where they are: "idle", "moving", "create" or "finish"
  resetting, old_head, seen_old_head

memory == <<node, subtrees_to_gc_>>
call == <<todo, pc, resetting, old_head, seen_old_head>>
vars == <<memory, gamebegin_node_, current_head_, history_, game, call>>

-----------------------------------------------------------------------------
(* Nodes. The operators take and return what is at all addresses. Results  *)
(* are those of the side that moved to the node: 1, 0 or -1.               *)

NewNode(parent, index) ==
  [used |-> TRUE, parent |-> parent, index |-> index, edges |-> {}, child |-> {},
   solid |-> FALSE, n |-> 0, terminal |-> "no", m |-> 0, lower |-> -1, upper |-> 1]
Unused == [NewNode(None, None) EXCEPT !.used = FALSE]

Free(nodes) == {a \in Address : ~nodes[a].used}

\* An allocation gets the lowest free address, or that of the head before.
Allocated == {a \in Free(node) : a = Min(Free(node)) \/ a = old_head}

\* S and all nodes below.
Subtree(nodes, S) ==
  LET below[x \in Address] == {x} \cup UNION {below[c] : c \in nodes[x].child}
  IN UNION {below[x] : x \in S}

\* The nodes from top down to x, found by following the parents.
Path(nodes, top, x) ==
  LET up[path \in Seq(Address) \ {<<>>}] ==
        LET y == Head(path) IN
        IF y = top \/ nodes[y].parent = None THEN path
        ELSE up[<<nodes[y].parent>> \o path]
  IN up[<<x>>]

\* The moves from top to x.
MovesTo(nodes, x, top) ==
  LET path == Path(nodes, top, x) IN
  [i \in 1..(Len(path) - 1) |-> nodes[path[i + 1]].index]

ChildAt(nodes, x, move) == {c \in nodes[x].child : nodes[c].index = move}

VisitsOf(nodes, S) == SumFunctionOnSet([x \in Address |-> nodes[x].n], S)

\* GetOrSpawnNode, at address a if there is no node yet.
Spawn(nodes, x, move, a) ==
  IF ChildAt(nodes, x, move) # {} THEN nodes
  ELSE [nodes EXCEPT ![a] = NewNode(x, move), ![x].child = @ \cup {a}]

\* MakeTerminal, for the end of a game.
MakeTerminal(nodes, x, result) ==
  [nodes EXCEPT ![x].terminal = "end", ![x].lower = result, ![x].upper = result]

MakeNotTerminal(nodes, x) ==
  [nodes EXCEPT
     ![x].terminal = "no",
     ![x].n = IF nodes[x].edges = {} THEN 0 ELSE 1 + VisitsOf(nodes, nodes[x].child)]

\* Mutant of Moved: the shells keep the children too.
Copied(nodes, to) ==
  [x \in Address |->
     IF \E a \in DOMAIN to : to[a] = x THEN nodes[CHOOSE a \in DOMAIN to : to[a] = x]
     ELSE IF \E a \in DOMAIN to : x \in nodes[a].child
       THEN [nodes[x] EXCEPT !.parent = to[@]]
     ELSE nodes[x]]

\* Siblings move, each node a to to[a]: their children follow them, shells without any stay.
Moved(nodes, to) ==
  [x \in Address |->
     IF \E a \in DOMAIN to : to[a] = x THEN nodes[CHOOSE a \in DOMAIN to : to[a] = x]
     ELSE IF x \in DOMAIN to THEN NewNode(None, None)
     ELSE IF \E a \in DOMAIN to : x \in nodes[a].child
       THEN [nodes[x] EXCEPT !.parent = to[@]]
     ELSE nodes[x]]

\* The addresses of a block for the children of x.
Block(nodes, x) ==
  CHOOSE B \in kSubset(Cardinality(nodes[x].edges), Free(nodes)) :
    \A a \in B, b \in Free(nodes) \ B : a < b

\* MakeSolid: the children of x move into one block, with those not visited yet.
MakeSolid(nodes, x) ==
  LET B == Block(nodes, x)
      slot == CHOOSE f \in [nodes[x].edges -> B] : IsInjective(f)
      fresh == [a \in Address |->
                  IF a \in B THEN NewNode(x, CHOOSE m \in nodes[x].edges : slot[m] = a)
                  ELSE nodes[a]]
      to == [c \in nodes[x].child |-> slot[nodes[c].index]]
  IN [Moved(fresh, to) EXCEPT ![x].child = B, ![x].solid = TRUE]

-----------------------------------------------------------------------------
(* The garbage collector.                                                  *)

\* It frees the siblings of an entry and what is below them.
GarbageCollect ==
  \E entry \in subtrees_to_gc_ :
    /\ subtrees_to_gc_' = subtrees_to_gc_ \ {entry}
    /\ node' = [a \in Address |-> IF a \in Subtree(node, entry) THEN Unused ELSE node[a]]
    /\ UNCHANGED <<gamebegin_node_, current_head_, history_, game, call>>

\* AddToGcQueue.
Queued(S) == IF S = {} THEN subtrees_to_gc_ ELSE subtrees_to_gc_ \cup {S}

-----------------------------------------------------------------------------
(* Moves.                                                                  *)

\* The rest of MakeMove(): the head is at x, the move is in the history; and of the loop
\* of ResetToPosition(), or the return to the caller.
Arrive(x) ==
  /\ current_head_' = x
  /\ history_' = AppendMove(history_, Head(todo))
  /\ todo' = Tail(todo)
  /\ seen_old_head' = (seen_old_head \/ x = old_head)
  /\ pc' = IF Len(todo) > 1 THEN "moving" ELSE IF resetting THEN "finish" ELSE "idle"
  /\ UNCHANGED <<gamebegin_node_, game, resetting, old_head>>

\* Mutant of KeepOne: the children of a node that moved still point to its old place.
KeepOneOnly(nodes, x, c, a) ==
  [nodes EXCEPT ![a] = nodes[c], ![c] = NewNode(None, None), ![x].child = {a}, ![x].solid = FALSE]

\* ReleaseChildrenExceptOne: c survives, in a place of its own if it was in a block.
KeepOne(nodes, x, c, a) ==
  [Moved(nodes, [b \in {c} |-> a]) EXCEPT ![x].child = {a}, ![x].solid = FALSE]

\* MakeMove along an edge of the head. Above the head there are no other nodes.
MoveAlongEdge ==
  /\ pc = "moving" /\ Head(todo) \in node[current_head_].edges
  /\ \E a \in Allocated :
       LET x == current_head_
           spawned == Spawn(node, x, Head(todo), a)
           c == CHOOSE c \in ChildAt(spawned, x, Head(todo)) : TRUE
           open == IF spawned[c].terminal = "no" THEN spawned ELSE MakeNotTerminal(spawned, c)
       IN IF node[x].solid
            THEN /\ node' = KeepOne(open, x, c, a)
                 /\ subtrees_to_gc_' = Queued(node[x].child)
                 /\ Arrive(a)
            ELSE /\ node' = [open EXCEPT ![x].child = {c}]
                 /\ subtrees_to_gc_' = Queued(node[x].child \ {c})
                 /\ Arrive(c)

\* MakeMove to where no edge leads: everything below the head is released, ...
ReleaseAll ==
  /\ pc = "moving" /\ Head(todo) \notin node[current_head_].edges
  /\ subtrees_to_gc_' = Queued(node[current_head_].child)
  /\ node' = [node EXCEPT ![current_head_].child = {}, ![current_head_].solid = FALSE,
                          ![current_head_].edges = {}]
  /\ pc' = "create"
  /\ UNCHANGED <<gamebegin_node_, current_head_, history_, game, todo, resetting, old_head,
                 seen_old_head>>

\* ... then there is a single edge (CreateSingleChildNode).
CreateSingleChildNode ==
  /\ pc = "create"
  /\ \E a \in Allocated :
       /\ node' = [Spawn(node, current_head_, Head(todo), a) EXCEPT
                     ![current_head_].edges = @ \cup {Head(todo)}]
       /\ Arrive(a)
  /\ UNCHANGED subtrees_to_gc_

\* TrimTreeAtHead.
TrimmedHead ==
  [node EXCEPT ![current_head_] = NewNode(node[current_head_].parent, node[current_head_].index)]

TrimTreeAtHead ==
  /\ pc = "idle" /\ gamebegin_node_ # None
  /\ node' = TrimmedHead
  /\ subtrees_to_gc_' = Queued(node[current_head_].child)
  /\ UNCHANGED <<gamebegin_node_, current_head_, history_, game, call>>

\* Mutant of ResetToPosition: the moves are made from the old head.
ContinueToPosition(state) ==
  LET other == gamebegin_node_ # None /\ history_[1] # state.startpos
      fresh == other \/ gamebegin_node_ = None
  IN
  /\ pc = "idle"
  /\ subtrees_to_gc_' = IF other THEN Queued({gamebegin_node_}) ELSE subtrees_to_gc_
  /\ \E a \in IF fresh THEN Allocated ELSE {gamebegin_node_} :
       /\ node' = IF fresh THEN [node EXCEPT ![a] = NewNode(None, None)] ELSE node
       /\ gamebegin_node_' = a /\ current_head_' = (IF fresh THEN a ELSE current_head_)
       /\ old_head' = IF other THEN None ELSE current_head_
       /\ seen_old_head' = (~other /\ a = current_head_)
  /\ history_' = <<state.startpos>>
  /\ game' = state /\ todo' = state.moves /\ resetting' = TRUE
  /\ pc' = IF state.moves = <<>> THEN "finish" ELSE "moving"

\* ResetToPosition: another game gives up the tree.
ResetToPosition(state) ==
  LET other == gamebegin_node_ # None /\ history_[1] # state.startpos
      fresh == other \/ gamebegin_node_ = None
  IN
  /\ pc = "idle"
  /\ subtrees_to_gc_' = IF other THEN Queued({gamebegin_node_}) ELSE subtrees_to_gc_
  /\ \E a \in IF fresh THEN Allocated ELSE {gamebegin_node_} :
       /\ node' = IF fresh THEN [node EXCEPT ![a] = NewNode(None, None)] ELSE node
       /\ gamebegin_node_' = a /\ current_head_' = a
       /\ old_head' = IF other THEN None ELSE current_head_
       /\ seen_old_head' = (~other /\ a = current_head_)
  /\ history_' = <<state.startpos>>
  /\ game' = state /\ todo' = state.moves /\ resetting' = TRUE
  /\ pc' = IF state.moves = <<>> THEN "finish" ELSE "moving"

\* Mutant of Finish: what is below the head is always kept.
FinishUntrimmed ==
  /\ pc = "finish"
  /\ pc' = "idle" /\ old_head' = None
  /\ UNCHANGED <<memory, gamebegin_node_, current_head_, history_, game, todo, resetting,
                 seen_old_head>>

\* A head that is not a successor of the old one starts afresh.
Finish ==
  /\ pc = "finish"
  /\ IF seen_old_head THEN UNCHANGED memory
     ELSE node' = TrimmedHead /\ subtrees_to_gc_' = Queued(node[current_head_].child)
  /\ pc' = "idle" /\ old_head' = None
  /\ UNCHANGED <<gamebegin_node_, current_head_, history_, game, todo, resetting, seen_old_head>>

\* Self-play makes one move at a time.
MakeMove(m) ==
  LET longer == [startpos |-> game.startpos, moves |-> Append(game.moves, m)] IN
  /\ pc = "idle" /\ gamebegin_node_ # None
  /\ m \in LegalMoves(Latest(history_).board)
  /\ longer \in GameState /\ game' = longer
  /\ todo' = <<m>> /\ pc' = "moving" /\ resetting' = FALSE
  /\ UNCHANGED <<memory, gamebegin_node_, current_head_, history_, old_head, seen_old_head>>

-----------------------------------------------------------------------------
(* Playouts: what a search does to the nodes.                              *)

Inner(nodes, x) == nodes[x].n > 0 /\ nodes[x].terminal = "no"

Plies(nodes, x) == Len(Path(nodes, current_head_, x)) - 1

\* Mutant of Correct: nothing is reverted.
CorrectNothing(nodes, c) == nodes

\* EnsureNodeTwoFoldCorrectForDepth: a draw by repetition of a position before the root
\* is no draw, and its visits are taken back.
Correct(nodes, c) ==
  IF nodes[c].terminal # "twofold" \/ Plies(nodes, c) >= nodes[c].m THEN nodes
  ELSE LET path == ToSet(Path(nodes, current_head_, c))
           reverted == [x \in Address |->
             IF x \in path /\ nodes[x].n > nodes[c].n
               THEN [nodes[x] EXCEPT !.n = @ - nodes[c].n]
             ELSE IF x \in path THEN [nodes[x] EXCEPT !.n = 0, !.m = 0]
             ELSE nodes[x]]
       IN MakeNotTerminal(reverted, c)

\* Mutant of Extend: a draw by two-fold repetition bounds the result.
ExtendBounding(nodes, c) ==
  LET h == AppendMoves(history_, MovesTo(nodes, c, current_head_))
      p == Latest(h)
      plies == Plies(nodes, c)
  IN IF LegalMoves(p.board) = {}
       THEN MakeTerminal(nodes, c, IF p.board \in Mated THEN 1 ELSE 0)
     ELSE IF c # current_head_ /\ (p.rule50 >= Rule50 \/ p.repetitions >= 2)
       THEN MakeTerminal(nodes, c, 0)
     ELSE IF /\ c # current_head_ /\ p.repetitions = 1 /\ TwoFoldDraws
             /\ plies >= 4 /\ plies >= p.cycle
       THEN [MakeTerminal(nodes, c, 0) EXCEPT ![c].terminal = "twofold", ![c].m = p.cycle]
     ELSE [nodes EXCEPT ![c].edges = LegalMoves(p.board)]

\* ExtendNode: edges, or why the node has none. The root is no draw.
Extend(nodes, c) ==
  LET h == AppendMoves(history_, MovesTo(nodes, c, current_head_))
      p == Latest(h)
      plies == Plies(nodes, c)
  IN IF LegalMoves(p.board) = {}
       THEN MakeTerminal(nodes, c, IF p.board \in Mated THEN 1 ELSE 0)
     ELSE IF c # current_head_ /\ (p.rule50 >= Rule50 \/ p.repetitions >= 2)
       THEN MakeTerminal(nodes, c, 0)
     ELSE IF /\ c # current_head_ /\ p.repetitions = 1 /\ TwoFoldDraws
             /\ plies >= 4 /\ plies >= p.cycle
       THEN [nodes EXCEPT ![c].terminal = "twofold", ![c].m = p.cycle]
     ELSE [nodes EXCEPT ![c].edges = LegalMoves(p.board)]

\* The bounds of x that follow from those of its children, as the best of them is
\* played. Nothing is known of an edge without a node.
ImpliedBounds(nodes, x) ==
  LET open == {m \in nodes[x].edges : ChildAt(nodes, x, m) = {}} IN
  [lower |-> -Max({nodes[c].upper : c \in nodes[x].child} \cup {IF open = {} THEN -1 ELSE 1}),
   upper |-> -Max({nodes[c].lower : c \in nodes[x].child} \cup {-1})]

Unbounded == [lower |-> -1, upper |-> 1]

\* MaybeSetBounds. A node whose result is settled is terminal.
SetBounds(nodes, x) ==
  LET b == ImpliedBounds(nodes, x) IN
  IF b = Unbounded THEN nodes
  ELSE IF b.lower = b.upper THEN MakeTerminal(nodes, x, b.lower)
  ELSE [nodes EXCEPT ![x].lower = b.lower, ![x].upper = b.upper]

\* A node with so many visits becomes solid. (The last condition is a bound of the model:
\* there is no memory without limits. Playout leaves room for two blocks, and no more
\* were needed in any state of the run.)
Solidify(nodes, x) ==
  IF \/ nodes[x].n < SolidTreeThreshold \/ nodes[x].solid
     \/ nodes[x].edges = {} \/ nodes[x].terminal # "no"
     \/ Cardinality(Free(nodes)) < Cardinality(nodes[x].edges) THEN nodes
  ELSE MakeSolid(nodes, x)

\* One more visit of x: the first visit of the end of a game may bound the results of the
\* nodes above it, as long as each has something new to tell.
BackupOne(acc, x) ==
  LET solid == Solidify([acc.nodes EXCEPT ![x].n = @ + 1], x)
      p == solid[x].parent
      sets == /\ acc.update_parent_bounds /\ x # current_head_ /\ p # current_head_
              /\ solid[p].terminal = "no" /\ ImpliedBounds(solid, p) # Unbounded
  IN [nodes |-> IF sets THEN SetBounds(solid, p) ELSE solid, update_parent_bounds |-> sets]

\* The backup of a visit, from c up to the root.
Backup(nodes, c) ==
  LET path == Path(nodes, current_head_, c)
      first == StickyEndgames /\ nodes[c].terminal # "no" /\ nodes[c].n = 0
      backed[k \in 0..Len(path)] ==
        IF k = 0 THEN [nodes |-> nodes, update_parent_bounds |-> first]
        ELSE BackupOne(backed[k - 1], path[Len(path) + 1 - k])
  IN backed[Len(path)].nodes

\* The shells that MakeSolid() left behind are garbage, each on its own.
Shells(nodes) ==
  {{a} : a \in {a \in Free(node) \cup Subtree(node, {current_head_}) :
                  nodes[a].used /\ a \notin Subtree(nodes, {current_head_})}}

Playout ==
  /\ pc = "idle" /\ gamebegin_node_ # None
  /\ node[current_head_].n < MaxVisits
  /\ Cardinality(subtrees_to_gc_) <= MaxGarbage
  /\ Cardinality(Free(node)) >= 1 + 2 * Cardinality(Move)
  /\ \/ /\ ~Inner(node, current_head_)
        /\ LET extended == IF node[current_head_].terminal = "no"
                             THEN Extend(node, current_head_) ELSE node
           IN node' = Backup(extended, current_head_)
     \/ \E x \in Subtree(node, {current_head_}) : \E m \in node[x].edges :
          /\ \A y \in ToSet(Path(node, current_head_, x)) : Inner(node, y)
          /\ LET spawned == Spawn(node, x, m, Min(Free(node)))
                 c == CHOOSE c \in ChildAt(spawned, x, m) : TRUE
                 right == Correct(spawned, c)
                 extended == IF right[c].terminal = "no" THEN Extend(right, c) ELSE right
             IN /\ ~Inner(node, c)
                /\ node' = Backup(extended, c)
  /\ subtrees_to_gc_' = subtrees_to_gc_ \cup Shells(node')
  /\ UNCHANGED <<gamebegin_node_, current_head_, history_, game, call>>

-----------------------------------------------------------------------------
Init ==
  /\ node = [a \in Address |-> Unused] /\ subtrees_to_gc_ = {}
  /\ gamebegin_node_ = None /\ current_head_ = None /\ history_ = <<>>
  /\ game = None /\ todo = <<>> /\ pc = "idle"
  /\ resetting = FALSE /\ old_head = None /\ seen_old_head = FALSE

Next ==
  \/ \E state \in GameState : ResetToPosition(state)
  \/ \E m \in Move : MakeMove(m)
  \/ MoveAlongEdge \/ ReleaseAll \/ CreateSingleChildNode \/ Finish \/ TrimTreeAtHead
  \/ Playout
  \/ GarbageCollect

Spec == Init /\ [][Next]_vars

-----------------------------------------------------------------------------
(* Properties.                                                             *)

Live == IF gamebegin_node_ = None THEN {} ELSE Subtree(node, {gamebegin_node_})

\* Each node has one owner: it is in the tree, or in one entry of the garbage, or freed.
\* So the collecting thread never frees what the tree uses, and nothing is lost.
OwnedOnce ==
  /\ \A e, f \in subtrees_to_gc_ : e # f => Subtree(node, e) \cap Subtree(node, f) = {}
  /\ \A e \in subtrees_to_gc_ : Subtree(node, e) \cap Live = {}
  /\ Live \cup UNION {Subtree(node, e) : e \in subtrees_to_gc_} = Address \ Free(node)

\* node.cc:378-400: however nodes move, a child in the tree points to its parent.
ParentsRight ==
  \A x \in Live : \A c \in node[x].child :
    /\ node[c].parent = x /\ node[c].index \in node[x].edges
    /\ ChildAt(node, x, node[c].index) = {c}

\* Between two calls the path to the head is the game the caller asked for, and so is the
\* history, repetition counters included.
HeadIsPosition ==
  pc = "idle" /\ gamebegin_node_ # None =>
    /\ current_head_ \in Live
    /\ MovesTo(node, current_head_, gamebegin_node_) = game.moves
    /\ history_ = Play(game.startpos, game.moves)

HistoryCounts == history_ # <<>> => CountersRight(history_)

BoardAt(x) ==
  Latest(AppendMoves(history_, MovesTo(node, x, current_head_))).board

\* A search starts from a head that leads everywhere or was not extended yet, and the
\* visits of each node are its own and those of its children: whatever the last search
\* left, also where results were taken back.
VisitsAddUp ==
  pc = "idle" /\ gamebegin_node_ # None =>
    \A x \in Subtree(node, {current_head_}) :
      node[x].terminal = "no" =>
        IF node[x].edges = {} THEN node[x].n = 0
        ELSE /\ node[x].edges = LegalMoves(BoardAt(x))
             /\ node[x].n = 1 + VisitsOf(node, node[x].child)

\* A search counts a position as drawn by its second occurrence only if the first one is
\* at its root or below.
RepeatedInSearch ==
  [][ pc = "idle" /\ current_head_' = current_head_ =>
        \A c \in Subtree(node', {current_head_}) :
          LET moves == MovesTo(node', c, current_head_)
              before == {b \in Subtree(node, {current_head_}) :
                           MovesTo(node, b, current_head_) = moves}
              h == Play(game.startpos, game.moves \o moves)
          IN node'[c].terminal = "twofold" /\ node'[c].n > VisitsOf(node, before) =>
               \E i \in Len(game.moves) + 1 .. Len(h) - 1 :
                 h[i].board = Latest(h).board ]_vars

\* search.cc:2294: below the root, a bound on the result of a node follows from the rules
\* of the game or from the children it has now, whichever search set it, and although
\* children were thought to be drawn by repetition meanwhile.
BoundsJustified ==
  pc = "idle" /\ gamebegin_node_ # None =>
    \A x \in Subtree(node, {current_head_}) \ {current_head_} :
      LET implied == ImpliedBounds(node, x)
          p == Latest(AppendMoves(history_, MovesTo(node, x, current_head_)))
      IN IF node[x].edges # {}
           THEN /\ node[x].lower <= implied.lower /\ implied.upper <= node[x].upper
                /\ node[x].terminal = "end" => node[x].lower = node[x].upper
         ELSE IF node[x].terminal = "end"
           THEN node[x].lower = node[x].upper /\
                node[x].upper = IF LegalMoves(p.board) = {} /\ p.board \in Mated THEN 1 ELSE 0
         ELSE node[x].terminal = "no" => node[x].lower = -1 /\ node[x].upper = 1
===============================================================================
