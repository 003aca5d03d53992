------------------------------ MODULE SearchTree ------------------------------
(***************************************************************************)
(* The tree the search workers share (src/src/search/classic/search.cc and *)
(* node.cc): visits are handed out under nodes_mutex_, nodes extended      *)
(* without it, results backed up under it again. Virtual loss (n_in_flight)*)
(* and collisions keep workers apart in between, and MakeSolid() moves the *)
(* children of a popular node to another place in memory.                  *)
(*                                                                         *)
(* The tree of positions is fixed, scores are left out: PUCT may spread    *)
(* the visits of one gathering in any way. A step is what one worker does  *)
(* under one lock of nodes_mutex_, or between two of them; only a backup   *)
(* is split, one step per item, and holds the lock in between.             *)
(***************************************************************************)
EXTENDS Naturals, FiniteSets, FiniteSetsExt, Functions

CONSTANTS
  Worker,
  Node, Root,         \* positions reachable in this search
  Parent,             \* [Node \ {Root} -> Node]
  MaxCollisions,      \* CalculateCollisionsLeft(): it ends an iteration's gathering
  MaxVisits,          \* bound of the model: visits the root is given
  SolidTreeThreshold, \* option solid-tree-threshold
  OutOfOrderEval      \* option out-of-order-eval

ASSUME SearchTreeAssumption ==
  /\ IsFiniteSet(Worker) /\ IsFiniteSet(Node)
  /\ Root \in Node
  /\ Parent \in [Node \ {Root} -> Node]
  /\ \A S \in SUBSET (Node \ {Root}) : S # {} => \E x \in S : Parent[x] \notin S
  /\ MaxCollisions \in Nat \ {0} /\ MaxVisits \in Nat
  /\ SolidTreeThreshold \in Nat \ {0}
  /\ OutOfOrderEval \in BOOLEAN

VARIABLES
  n,                \* n_ of each node: completed visits
  in_flight,        \* n_in_flight_
  status,           \* "new" (no edges yet), "edges" or "terminal"
  solid,            \* nodes whose children lie in one block (solid_children_)
  picked,           \* picked[w]: visits of the current round of the gather loop
  collided,         \* collided[w]: collisions of that round
  minibatch,        \* minibatch[w]: visits of earlier rounds, to be computed
  collisions,       \* collisions[w]: collisions of earlier rounds
  shared_collisions,
  pc,               \* where each worker is
  work_done,        \* work_done[w]: it backed something up in this iteration
  own_edge          \* nodes whose thread is about to write to the parent's edges

tree == <<n, in_flight, status, solid>>
gathered == <<picked, collided, minibatch, collisions, shared_collisions>>
vars == <<tree, gathered, work_done, pc, own_edge>>

-----------------------------------------------------------------------------
Children(x) == {c \in Node \ {Root} : Parent[c] = x}

\* From a node up to the root, both included.
Path[x \in Node] == IF x = Root THEN {Root} ELSE {x} \cup Path[Parent[x]]

Above(x) == Path[x] \ {x}
Below(x) == {y \in Node : x \in Path[y]}

Nobody == [x \in Node |-> 0]

Total(f) == SumFunction(f)

\* How much of f lies at x or below, and strictly below.
AtOrBelow(f, x) == SumFunctionOnSet(f, Below(x))
StrictlyBelow(f, x) == SumFunctionOnSet(f, Below(x) \ {x})

Plus(f, g) == [x \in Node |-> f[x] + g[x]]

\* Visits and collisions that are pending at a node, whoever holds them.
PendingVisits ==
  [x \in Node |-> SumFunction([w \in Worker |-> picked[w][x] + minibatch[w][x]])]
PendingCollisions ==
  [x \in Node |-> shared_collisions[x] +
                  SumFunction([w \in Worker |-> collided[w][x] + collisions[w][x]])]

\* The visits of the root, counting all that are on their way.
Load == n[Root] + in_flight[Root] + PendingCollisions[Root]

Goto(w, label) == pc' = [pc EXCEPT ![w] = label]

\* nodes_mutex_ is held from one item to the next.
Locked == \E w \in Worker : pc[w] \in {"revert", "backup"}

-----------------------------------------------------------------------------
(* Gathering: PickNodesToExtend().                                         *)

\* Nodes a visit passes through on its way down.
Inner(x) == n[x] > 0 /\ status[x] # "terminal"

\* Where it comes to rest: below inner nodes only, but not an inner node.
Frontier == {x \in Node : ~Inner(x) /\ \A y \in Above(x) : Inner(y)}

\* Mutant of Visiting: a node being extended is handed out again.
VisitingAlways(x, amount) ==
  IF amount = 0 THEN {0} ELSE IF n[x] = 0 \/ x = Root THEN {1} ELSE 1..amount

\* What rests at x may visit it or collide there. TryStartScoreUpdate() gives a
\* node that was never visited to one worker, once; a terminal node may be visited
\* again and again, the root in one gathering only once.
Visiting(x, amount) ==
  IF amount = 0 THEN {0}
  ELSE IF n[x] = 0 THEN {IF in_flight[x] = 0 THEN 1 ELSE 0}
  ELSE IF x = Root THEN {1}
  ELSE 1..amount

CollisionsLeft(w) == MaxCollisions - Total(collisions[w]) - Total(collided[w])

\* Visits count at every node they pass; collisions at all but the last.
PickNodesToExtend(w) ==
  /\ pc[w] = "gather" /\ ~Locked
  /\ \E rest \in [Frontier -> 0..MaxCollisions] :
       /\ Total(rest) \in 1..CollisionsLeft(w)
       /\ Load + Total(rest) <= MaxVisits
       /\ \E visit \in [Frontier -> 0..MaxCollisions] :
            /\ \A x \in Frontier : visit[x] \in Visiting(x, rest[x])
            /\ in_flight' = [x \in Node |-> in_flight[x] +
                 IF x \in Frontier THEN visit[x]
                 ELSE SumFunctionOnSet(rest, Frontier \cap Below(x))]
            /\ picked' = [picked EXCEPT ![w] =
                 [x \in Node |-> IF x \in Frontier THEN visit[x] ELSE 0]]
            /\ collided' = [collided EXCEPT ![w] =
                 [x \in Node |-> IF x \in Frontier THEN rest[x] - visit[x] ELSE 0]]
  /\ Goto(w, "process")
  /\ UNCHANGED <<n, status, solid, minibatch, collisions, shared_collisions,
                 work_done, own_edge>>

-----------------------------------------------------------------------------
(* ProcessPickedTask(), without nodes_mutex_.                              *)

Extending(w, x) == pc[w] = "process" /\ picked[w][x] > 0 /\ status[x] = "new"

\* ExtendNode(): moves, or the end of the game by the rules.
ExtendNode(w, x) ==
  /\ Extending(w, x) /\ x \notin own_edge
  /\ \E s \in {"edges", "terminal"} :
       /\ s = "edges" => Children(x) # {}
       /\ status' = [status EXCEPT ![x] = s]
  /\ UNCHANGED <<n, in_flight, solid, gathered, work_done, pc, own_edge>>

\* A tablebase hit reads the parent under a shared lock, ...
ProbeTablebase(w, x) ==
  /\ Extending(w, x) /\ x \notin own_edge /\ x # Root
  /\ ~Locked
  /\ \/ status' = [status EXCEPT ![x] = "terminal"] /\ UNCHANGED own_edge
     \/ own_edge' = own_edge \cup {x} /\ UNCHANGED status
  /\ UNCHANGED <<n, in_flight, solid, gathered, work_done, pc>>

\* ... but a lost one also clears its policy there, when the lock is released.
ClearOwnEdge(w, x) ==
  /\ Extending(w, x) /\ x \in own_edge
  /\ status' = [status EXCEPT ![x] = "terminal"]
  /\ own_edge' = own_edge \ {x}
  /\ UNCHANGED <<n, in_flight, solid, gathered, work_done, pc>>

\* Terminals and cache hits need no network: they are completed out of order.
OutOfOrder(w) ==
  {ooo \in [Node -> {0} \cup Range(picked[w])] :
     \A x \in Node :
       IF ~OutOfOrderEval THEN ooo[x] = 0
       ELSE ooo[x] = picked[w][x] \/ (ooo[x] = 0 /\ status[x] = "edges")}

\* The others wait in the minibatch.
Processed(w) ==
  /\ pc[w] = "process"
  /\ \A x \in Node : ~Extending(w, x)
  /\ \E ooo \in OutOfOrder(w) :
       /\ minibatch' = [minibatch EXCEPT ![w] =
            [x \in Node |-> @[x] + picked[w][x] - ooo[x]]]
       /\ picked' = [picked EXCEPT ![w] = ooo]
       /\ IF ooo = Nobody
          THEN Goto(w, "check") /\ UNCHANGED work_done
          ELSE /\ ~Locked
               /\ Goto(w, "revert")
               /\ work_done' = [work_done EXCEPT ![w] = TRUE]
  /\ UNCHANGED <<tree, collided, collisions, shared_collisions, own_edge>>

\* Mutant of Cancel: it starts at the node itself.
CancelAtNode(amount) == in_flight' = [x \in Node |-> in_flight[x] - AtOrBelow(amount, x)]

\* CancelScoreUpdate() from the parent of a collision up to the root.
Cancel(amount) == in_flight' = [x \in Node |-> in_flight[x] - StrictlyBelow(amount, x)]

\* If anything was out of order, the round's collisions are given back.
RevertCollision(w, x) ==
  /\ pc[w] = "revert" /\ collided[w][x] > 0
  /\ Cancel([Nobody EXCEPT ![x] = collided[w][x]])
  /\ collided' = [collided EXCEPT ![w][x] = 0]
  /\ UNCHANGED <<n, status, solid, picked, minibatch, collisions, shared_collisions,
                 work_done, pc, own_edge>>

RevertDone(w) ==
  /\ pc[w] = "revert"
  /\ picked[w] = Nobody /\ collided[w] = Nobody
  /\ Goto(w, "check")
  /\ UNCHANGED <<tree, gathered, work_done, own_edge>>

-----------------------------------------------------------------------------
(* DoBackupUpdateSingleNode().                                             *)

\* The visits that the holder of the lock is backing up.
ToBackUp(w) == IF pc[w] = "revert" THEN picked[w] ELSE minibatch[w]

BackedUp(w, x) ==
  IF pc[w] = "revert"
  THEN picked' = [picked EXCEPT ![w][x] = @ - 1] /\ UNCHANGED minibatch
  ELSE minibatch' = [minibatch EXCEPT ![w][x] = @ - 1] /\ UNCHANGED picked

\* Mutant of Finalize: a decided node counts no more visits.
FinalizeUndecided(x) ==
  /\ n' = [y \in Node |->
       n[y] + IF y \in Path[x] /\ (n[y] = 0 \/ status[y] # "terminal") THEN 1 ELSE 0]
  /\ in_flight' = [y \in Node |-> in_flight[y] - IF y \in Path[x] THEN 1 ELSE 0]

\* FinalizeScoreUpdate() from a node up to the root.
Finalize(x) ==
  /\ n' = [y \in Node |-> n[y] + IF y \in Path[x] THEN 1 ELSE 0]
  /\ in_flight' = [y \in Node |-> in_flight[y] - IF y \in Path[x] THEN 1 ELSE 0]

\* MaybeSetBounds(): the first visit of a terminal node may decide nodes above it, up
\* to the first that is decided already; never the root.
Decidable(x) ==
  {y \in Above(x) \ {Root} :
     /\ status[x] = "terminal" /\ n[x] = 0
     /\ \A z \in Above(x) : y \in Path[z] => status[z] # "terminal"}

\* Mutant of MayMakeSolid: collisions are forgotten.
MayMakeSolidInSpiteOfCollisions(x, visits, flight) ==
  \A c \in Children(x) : flight[c] > 0 => visits[c] > 1 /\ status[c] # "terminal"

\* MakeSolid() moves the children of x unless one of them may be held by a worker:
\* a leaf in flight, or one with collisions, which count at x but not at the child.
MayMakeSolid(x, visits, flight) ==
  /\ \A c \in Children(x) : flight[c] > 0 => visits[c] > 1 /\ status[c] # "terminal"
  /\ SumFunctionOnSet(flight, Children(x)) = flight[x]

BackUp(w, x) ==
  /\ pc[w] \in {"revert", "backup"}
  /\ ToBackUp(w)[x] > 0 /\ BackedUp(w, x) /\ Finalize(x)
  /\ \E decided \in SUBSET Decidable(x) :
       status' = [y \in Node |-> IF y \in decided THEN "terminal" ELSE status[y]]
  /\ solid' = solid \cup {y \in Path[x] : /\ status'[y] = "edges"
                                          /\ n'[y] >= SolidTreeThreshold
                                          /\ MayMakeSolid(y, n', in_flight')}
  /\ UNCHANGED <<collided, collisions, shared_collisions, work_done, pc, own_edge>>

-----------------------------------------------------------------------------
(* The rest of an iteration.                                               *)

\* A round in which all visits ended up in one collision may enlarge it.
UpsizeCollision(w, x) ==
  /\ pc[w] = "check" /\ ~Locked
  /\ collided[w][x] > 0 /\ collided[w][x] = Total(collided[w])
  /\ picked[w] = Nobody
  /\ CollisionsLeft(w) > 0 /\ Load < MaxVisits
  /\ collided' = [collided EXCEPT ![w][x] = @ + 1]
  /\ in_flight' = [y \in Node |-> in_flight[y] + IF y \in Above(x) THEN 1 ELSE 0]
  /\ UNCHANGED <<n, status, solid, picked, minibatch, collisions, shared_collisions,
                 work_done, pc, own_edge>>

\* Gather more ...
GatherAgain(w) ==
  /\ pc[w] = "check" /\ CollisionsLeft(w) > 0
  /\ collisions' = [collisions EXCEPT ![w] = Plus(@, collided[w])]
  /\ collided' = [collided EXCEPT ![w] = Nobody]
  /\ Goto(w, "gather")
  /\ UNCHANGED <<tree, picked, minibatch, shared_collisions, work_done, own_edge>>

\* ... or go on with what there is: CollectCollisions() hands the collisions over.
CollectCollisions(w) ==
  /\ pc[w] = "check" \/ (pc[w] = "gather" /\ Load >= MaxVisits)
  /\ ~Locked
  /\ shared_collisions' = Plus(shared_collisions, Plus(collisions[w], collided[w]))
  /\ collisions' = [collisions EXCEPT ![w] = Nobody]
  /\ collided' = [collided EXCEPT ![w] = Nobody]
  /\ Goto(w, "compute")
  /\ UNCHANGED <<tree, picked, minibatch, work_done, own_edge>>

\* The network has answered: DoBackupUpdate() takes the lock.
LockToBackUp(w) ==
  /\ pc[w] = "compute" /\ ~Locked
  /\ work_done' = [work_done EXCEPT ![w] = @ \/ minibatch[w] # Nobody]
  /\ Goto(w, "backup")
  /\ UNCHANGED <<tree, gathered, own_edge>>

\* If there was any work, the collisions of all workers are cancelled with it.
BackupDone(w) ==
  /\ pc[w] = "backup" /\ minibatch[w] = Nobody
  /\ IF work_done[w]
     THEN Cancel(shared_collisions) /\ shared_collisions' = Nobody
     ELSE UNCHANGED <<in_flight, shared_collisions>>
  /\ work_done' = [work_done EXCEPT ![w] = FALSE]
  /\ Goto(w, "gather") \/ Goto(w, "done")
  /\ UNCHANGED <<n, status, solid, picked, collided, minibatch, collisions, own_edge>>

\* ~Search(), after all threads were joined.
DestroySearch ==
  /\ \A w \in Worker : pc[w] = "done"
  /\ Cancel(shared_collisions)
  /\ shared_collisions' = Nobody
  /\ pc' = [w \in Worker |-> "gone"]
  /\ UNCHANGED <<n, status, solid, picked, collided, minibatch, collisions, work_done,
                 own_edge>>

-----------------------------------------------------------------------------
\* A search that starts on a new tree.
Init ==
  /\ n = Nobody /\ in_flight = Nobody
  /\ status = [x \in Node |-> "new"] /\ solid = {}
  /\ picked = [w \in Worker |-> Nobody] /\ collided = [w \in Worker |-> Nobody]
  /\ minibatch = [w \in Worker |-> Nobody] /\ collisions = [w \in Worker |-> Nobody]
  /\ shared_collisions = Nobody
  /\ pc = [w \in Worker |-> "gather"]
  /\ work_done = [w \in Worker |-> FALSE]
  /\ own_edge = {}

WorkerStep(w) ==
  \/ PickNodesToExtend(w) \/ Processed(w) \/ RevertDone(w) \/ GatherAgain(w)
  \/ CollectCollisions(w) \/ LockToBackUp(w) \/ BackupDone(w)
  \/ \E x \in Node : \/ ExtendNode(w, x) \/ ProbeTablebase(w, x) \/ ClearOwnEdge(w, x)
                     \/ RevertCollision(w, x) \/ BackUp(w, x)
                     \/ UpsizeCollision(w, x)

\* The search is gone; the tree stays for the next one.
Terminated == (\A w \in Worker : pc[w] = "gone") /\ UNCHANGED vars

Next == (\E w \in Worker : WorkerStep(w)) \/ DestroySearch \/ Terminated

Spec == Init /\ [][Next]_vars

-----------------------------------------------------------------------------
(* Invariants.                                                             *)

Amounts == [Node -> Nat]

TypeOK ==
  /\ n \in Amounts /\ in_flight \in Amounts
  /\ status \in [Node -> {"new", "edges", "terminal"}] /\ solid \subseteq Node
  /\ picked \in [Worker -> Amounts] /\ collided \in [Worker -> Amounts]
  /\ minibatch \in [Worker -> Amounts] /\ collisions \in [Worker -> Amounts]
  /\ shared_collisions \in Amounts
  /\ pc \in [Worker -> {"gather", "process", "revert", "check", "compute", "backup",
                        "done", "gone"}]
  /\ work_done \in [Worker -> BOOLEAN]
  /\ own_edge \subseteq Node

\* Virtual loss is exact: n_in_flight_ of a node is what the workers will still
\* finalize or cancel there.
FlightConserved ==
  \A x \in Node :
    in_flight[x] = AtOrBelow(PendingVisits, x) + StrictlyBelow(PendingCollisions, x)

\* node.h:191: a node is extended by one thread only, and until its first visit is
\* backed up nobody else holds a visit to it.
ExtendedByOne ==
  \A x \in Node : n[x] = 0 => PendingVisits[x] <= 1

\* A node with edges that is not terminal has one visit of its own and those of its
\* children; MakeNotTerminal() recomputes n_ that way.
VisitsAddUp ==
  \A x \in Node :
    status[x] = "edges" /\ n[x] > 0 => n[x] = 1 + SumFunctionOnSet(n, Children(x))

-----------------------------------------------------------------------------
(* Properties of steps.                                                    *)

Held(x) == PendingVisits[x] > 0 \/ PendingCollisions[x] > 0

\* node.cc:247: the search holds references to leaf nodes across locks, so a node
\* with such a child is not made solid: that would move it.
SolidMovesNoHeldNode ==
  [][\A c \in Node \ {Root} : Parent[c] \in solid' \ solid => ~Held(c)']_vars

-----------------------------------------------------------------------------
(* A statement of a comment that the code does not keep.                   *)

\* search.cc:1979, "Need a lock to access parent, in case MakeSolid is in progress.": a
\* node is not moved while the thread of a child writes to its edges.
ParentAccessLocked ==
  [][\A x \in own_edge : Parent[x] # Root => Parent[Parent[x]] \notin solid' \ solid]_vars
==============================================================================
