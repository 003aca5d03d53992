# TLA+ models of lc0

lc0 is a chess engine: it reads UCI commands, searches a tree by Monte-Carlo
tree search guided by a neural network, and answers with a move; it also plays
games against itself to produce training data. Its move generation and its
kernels are covered by unit tests. What tests hardly reach is the shared-memory
concurrency of the search, the cache all its threads share, the networks that
merge and split the batches of many callers, the tree that is kept from move to
move, tournaments that are aborted while they play, and the order in which a
GUI, the engine and the threads of a search act on one another. This directory
models that part, checks the models with TLC on small instances, and proves the
main results for instances of any size with TLAPS.

Paths below are relative to `src/src/`.

## 1. Inventory of the system

### 1.1 How the parts interact

```
 GUI --lines--> UciLoop --> Engine --SetPosition/StartSearch/Stop/Abort/Wait--> ClassicSearch
                              ^                                                      | owns
                              | UciPonderForwarder (called by search threads)        v
                              +--------------- bestmove, info -------------------- Search
                                                                                 |  |  |
                                  watchdog thread ---- MaybeTriggerStop ---------+  |  |
                                  worker threads: SearchWorker ---------------------+  |
                                       | task workers (RunTasks)                       |
                                       v                                               v
                                  Node tree (nodes_mutex_)                     stoppers (counters_mutex_)
                                       |
                                  MemCache -> HashKeyedCache (its own mutex) -> Backend
                                                                                 |
             NodeTree (head, history, garbage collector)    MuxingNetwork -> DemuxingNetwork

 SelfPlayLoop --> SelfPlayTournament --workers--> SelfPlayGame --> Search, NodeTree (per player)
                                             \--> MultiSelfPlayGames --> Evaluator, NodeTrees
```

`Engine` runs on the thread of the UCI loop. It owns one `ClassicSearch`, which
owns the tree and at most one `Search`. A `Search` starts one watchdog and a
number of workers; each worker repeats: gather a minibatch under
`nodes_mutex_`, extend the nodes without it, ask the network, back results up
under it, and then decide whether the search must stop. A worker may share
gathering and processing with task workers of its own. Every worker asks the
same cache. Between two searches `NodeTree` moves the head along the game; what
is cut off goes to a thread that frees it. A self-play tournament does without
`Engine`: its threads own games, and a game owns the searches for its moves.

### 1.2 Components

| Component | State | Operations | Hard because | Correct if | Module |
|---|---|---|---|---|---|
| Search control: `search/classic/search.cc`, `stoppers/timemgr.*` | `stop_`, `ok_to_respond_bestmove_`, `bestmove_is_sent_`, `final_bestmove_`, `pending_searchers_`, playout counters, threads | worker loop, watchdog, `MaybeTriggerStop`, `Stop`, `Abort`, `Wait`, `GetBestMove`, `ResetBestMove` | decisions on statistics of an earlier lock, several threads that may answer, a client that stops or aborts at any time | one legal answer, last line; no answer after an effective abort; a stop for visits lacks only those taken back meanwhile; no permit lost; threads can be joined | `SearchControl`, `SearchPromise` |
| Stoppers: `search/classic/stoppers/stoppers.*` | limits, hints | `ShouldStop`, `OnSearchDone` | run under one lock on data of another | they fire where their reasons hold | `SearchControl` (visits, pruning) |
| Time managers: the rest of `stoppers/` | time budgets of a game | `GetStopper`, `PopulateIntrinsicStoppers` | floating-point formulas, also at and below zero | the clock never runs out | - |
| Task workers: `SearchWorker::RunTasks` and callers | three counters, a spin flag, the task vector, a condition variable | take, split, complete, sleep, wake, destroy | lock-free reads before a lock, counters reset in three stores, sleeping threads | each task runs once, under the right lock; no lost wake-up | `PickTasks` |
| Search tree: gathering, extension, backup: `search.cc`, `node.cc` | `n_`, `n_in_flight_`, terminal and solid marks, minibatches, shared collisions | `PickNodesToExtend`, `ExtendNode`, collisions, `DoBackupUpdateSingleNode`, `MakeSolid` | nodes are held across locks, virtual loss is taken back on three paths | virtual loss is exact, one worker extends a node, visits add up, no held node moves | `SearchTree` |
| NodeTree and garbage collection: `node.cc` | game history, head, trees to delete | `ResetToPosition`, `MakeMove`, `TrimTreeAtHead`, collecting thread | subtrees are kept, freed and reused while a thread collects | each node has one owner; head and history are those of the game asked for; a search can build on what the last one left | `NodeTree` |
| Evaluation cache: `utils/cache.h`, `neural/memcache.cc` | hash table, order of insertion, pins, evicted entries | `Insert`, `LookupAndPin`, `Unpin`, `SetCapacity`, `Clear` | values are read outside of the lock; a key may be evicted while pinned and come back; gaps are closed across the table's end | held values are alive, nothing leaks, first in first out, every key is found | `PinnedCache`, `HashCache` |
| Engine and UCI: `engine.cc`, `chess/uciloop.cc`, `search/classic/wrapper.cc` | options, last position, last go, clock, pondering, loaded backend | every UCI command | commands arrive while threads of the last search run on; options change between the commands that read them; commands throw half-way | a search examines what was asked for, with living resources, in a tree nobody changes before it has answered; one answer to a `go`; no command hangs | `Engine` |
| Self-play: `selfplay/` | tournament counters, games in progress, two searches a game | `Work`, `PlayOneGame`, `Abort`, `Stop`, `Play` | `Abort()` against the creation and the end of games | an aborted search decides nothing, results are counted once, the last report is complete | `Tournament`, `MultiGames` |
| Multiplexing backends: `neural/backends/network_mux.cc`, `network_demux.cc` | queue of computations, worker threads | `ComputeBlocking`, `Worker`, destructor | batches of many callers, shutdown while callers wait | each computation gets the results of its own inputs, no caller waits for ever | `NetworkMux`, `NetworkDemux`, `Networks` |
| Chess rules: `chess/` | boards, `PositionHistory` | `Append`, `Pop`, `Trim`, repetitions | counters computed once and reused | repetition counts equal their definition | `PositionHistory` |
| DAG search: `search/dag_classic/` | transposition table of low nodes with reference counts | as classic | two parents of one low node | reference counts are exact | planned |
| Options: `utils/optionsdict.*`, `optionsparser.*` | tree of dictionaries | get, set, reset, aliases | one thread only | the innermost value wins | not planned |
| Backends, weights, ONNX, encoders, tablebases, trainingdata, rescorer, tools | - | numerical kernels, conversion and files | no shared state of their own | unit tests | out of scope |

`PROJECT.json` lists every component with its files, and 40 hazards: the places
in this code where something can go wrong that a test would hardly reach, each
with the properties that would notice, or with the reason why none does yet.

## 2. Plan

Modules in the order in which they are written:

1. `SearchPromise`, `SearchControl`, `SearchControlProofs` - when a search stops
   and answers. *Done.*
2. `PickTasks`, `PickTasksProofs` - the task workers. *Done.*
3. `SearchTree`, `SearchTreeProofs` - virtual loss, collisions, `MakeSolid()`.
   *Done.*
4. `CacheCalls`, `PinnedCache`, `HashCache`, `CacheProofs` - the evaluation
   cache as a promise, the hash table that keeps it, and the proofs that the
   promise is consistent and that the table does keep it. *Done.*
5. `Engine`, `EngineProofs` - the UCI commands over searches that behave as
   `SearchPromise` says. *Done.*
6. `PositionHistory`, `NodeTree`, `NodeTreeProofs` - repetitions, and the tree of
   a game with its reuse, its collecting thread and the searches in between.
   *Done.*
7. `Tournament`, `TournamentProofs`, `MultiGames` - games, batches, `Stop()`,
   `Abort()` and results in self-play. *Done.*
8. `NetworkMux`, `NetworkDemux`, `Networks`, `NetworksProofs` - the queues of the
   multiplexing networks, their shutdown, and one over the other. *Done.*
9. Bounds in `NodeTree` - `MaybeSetBounds()` against the bounds that the children
   of a node and its position justify. *Done, for one search worker at a time.*
10. `LowNodes` - the transposition table of the DAG search and its reference
    counts.

The composition: `Engine` instantiates `SearchPromise` for the search it drives,
and `SearchControl` is shown to implement `SearchPromise`. What `Engine` assumes
of a search is therefore exactly what `SearchControl` establishes. In the same
way `PinnedCache` is all a client of the cache may rely on, and `HashCache`
implements it. `NodeTree` extends `PositionHistory`, since it appends to a
history and asks it for repetitions. `Networks` joins `NetworkMux` and
`NetworkDemux`: the call of one network is the computation of the other.

## 3. The modules and the code

### 3.1 SearchPromise and SearchControl

A search is *open* until its fate is decided. It may become *committed* (it has
to answer), *silenced* (it must not), or it answers in the very step that
decides. `SearchPromise` says that and no more, and that a committed search
does answer.

`SearchControl` has one process per worker, one for the watchdog and one for the
client. Each has a program counter; the labels are the places where the code
is between two critical sections, or between two accesses of an atomic variable
that other threads also write.

| Action | Code |
|---|---|
| `Gate`, `ClaimPermit`, `ReleasePermit` | the loop around `pending_searchers_` in `ExecuteOneIteration()`, and the release after gathering |
| `PickNodesToExtend`, `ProcessPicked` | the loop of `GatherMinibatch()`, with the visits of earlier searches it takes back; what is evaluated out of order is backed up at once |
| `ComputeAndBackUp` | `RunNNComputation()`, `DoBackupUpdate()` |
| `PopulateCommonIterationStats` | the snapshot that the stoppers will judge, taken under `nodes_mutex_` |
| `MaybeTriggerStop` | guards, `ShouldStop()`, `stop_`, and the answer, all under `counters_mutex_` and `nodes_mutex_` |
| `MaybeOutputInfo`, `WatchdogCheck`, `WatchdogWake` | info lines; the end and the wait of `WatchdogThread()` |
| `Stop`, `Abort`, `Wait`, `Joined`, `GetBestMove`, `ResetBestMove` | the public methods |

The tree is reduced to the number of visits of the root and to what a snapshot
says of its edges. A stopper for time or depth may fire or not; the visits
limit and smart pruning are computed from the snapshot, because it is their
staleness that the properties are about. `initial_visits` are the visits that a
reused tree brought along. They may fall: gathering finds two-fold draws of an
earlier search that are none in this one, and takes their visits back from the
whole path, the root included (`EnsureNodeTwoFoldCorrectForDepth()`, here
`TakenBack`). So the root's visits do not only grow, while the playouts of this
search do. `stop_reason`, `bestmoves`, `last_output` and `redraws` are history.

### 3.2 PickTasks

One search worker and its task workers. Every load and store of `task_count_`,
`tasks_taken_` and `completed_tasks_` is a step of its own where another thread
can act between two of them; `ResetTasks()` has three. The condition variable is
modelled by the set of sleepers: waiting frees the mutex and joins the set in
one step, a notification empties the set, and spurious wake-ups are possible but
never relied upon. A task records how often it was run; that is history.
Retrying the spin lock is one step, with both outcomes.

### 3.3 SearchTree

A fixed tree of positions; PUCT may distribute the visits of one gathering in
any way, so the choice is free. A worker holds visits (`picked`, `minibatch`)
and collisions (`collided`, `collisions`, and the shared ones) at nodes.
Gathering is one step under `nodes_mutex_`. Extending a node, probing tablebases
and computing are steps without the lock. A backup is one step per item, and
`Locked` keeps others out in between. `MakeSolid()` is part of a backup, as in
the code. A lost tablebase position clears its policy in the parent's edges: the
thread is in `own_edge` between the release of the lock and that write.

### 3.4 PinnedCache and HashCache

Both have one step per operation, since the mutex of the cache covers each.
Only `capacity_` is read before the lock is taken, so a call is a step of its
own (`Call`), and the operation follows later under another capacity.
`PinnedCache` keeps a function from keys to values. `HashCache` has the table:
linear probing, the gap-closing loop of `EvictItem()` with its comparison of
ranges that wrap around, and the moves of `SetCapacity()`. Table sizes follow
the code's load factor, `capacity * 1.9 + 1`, in integers. What the two have in
common, the calling threads and the members that both keep, is `CacheCalls`; the
actions of `HashCache` carry the prefix `Hash` so that one module can hold the
theorems about both.

### 3.5 Engine

The UCI thread receives one command at a time; a command that has to wait for
the threads of a search is split at the wait (`pc`). The options of backend and
tablebases are one `setting` (name and configuration of the one, paths of the
other), next to `Ponder` and `StrictTiming`; each is read where the code reads it
and kept in `backend_name`, `ponder_enabled` and `strict_enabled` as the code
caches it. A position is a sequence of moves.

| Action | Code |
|---|---|
| `SetOption` | `setoption`, which only fills the dictionary |
| `ReceivePosition`, `SetPosition` | `position`: abort, wait, then the rest of `Engine::SetPosition()` |
| `ReceiveNewGame`, `NewGame` | `ucinewgame`: search and tree are deleted, then the start position is set |
| `FirstGo`, `Go` | `go`, up to `StartSearch()`; the first one without a position begins a game |
| `StartSearchRefused` | `StartSearch()` without a legal move among `searchmoves` |
| `ReplaceSearch`, `StartThreads` | the assignment of the new search, whose destructor ends the old one, and what follows |
| `ReceivePonderHit`, `PonderHit`, `Stop`, `Quit`, `Destroy` | the other commands |
| `ReachLimit`, `Respond`, `ThreadsExit` | the search, as `SearchPromise` has it |

A command may fail half-way: a position that does not parse is `None`, a backend
that cannot be created throws after its name was noted (`LoadingThrows`), `go
ponder` may have no move to ponder on, and each exception leaves behind what was
assigned before it. `threads` is true while threads of a search run: they
outlast the answer. `head` is where the tree leads. `disturbed` notes that the
tree was changed under threads, `collisions` that the last worker left nodes in
`shared_collisions_`, which the destructor of the search goes through later, and
`stale` that nodes went away in between. `StartSearch()` may find the button
`ClearTree` pushed (`MaybeTrimTree`).

`gui`, `positioned` and `answers` describe the other side of the pipe. With
`Obedient` the GUI keeps to the UCI protocol: it sends `go` when it waits for
nothing, for a position that was accepted (the same one again if it likes), and
`ponderhit` while it ponders.

### 3.6 PositionHistory and NodeTree

The rules of chess are a graph of boards (`After`, with the legal moves as its
domain). `position.cc` relies on three facts about it, stated as
`PositionAssumption`: the sides alternate, two moves never lead back to a board,
and captures and pawn moves cannot be undone. `Append()` computes the counters
of the new position with the loop of `ComputeLastMoveRepetitions()`;
`Occurrences` and `CountersRight` define what the counters mean without it.

`NodeTree` keeps nodes by address (`node`), because they move: `MakeSolid()` and
`ReleaseChildrenExceptOne()` copy them, and addresses are allocated again.

| Action | Code |
|---|---|
| `ResetToPosition`, `Finish` | `ResetToPosition()` before and after its loop: another game, the old head, trimming |
| `MoveAlongEdge`, `ReleaseAll`, `CreateSingleChildNode` | `MakeMove()` where there is an edge, and where there is none; each call of the loop is a step, so the collecting thread acts in between |
| `MakeMove`, `TrimTreeAtHead` | the calls self-play makes |
| `GarbageCollect` | `NodeGarbageCollector::GarbageCollect()` frees one entry |
| `Playout` | one visit of a search: descent, `EnsureNodeTwoFoldCorrectForDepth()`, `ExtendNode()`, backup with `MaybeSetBounds()`, `MakeSolid()` |

A playout is one step here, as `SearchTree` is about workers at the same time;
in turn this module has what `SearchTree` leaves out: repetitions, the return
of draws by two-fold repetition, trees that were used before, and bounds.
`lower` and `upper` bound the result of a node for the player who moved into it:
1 a win, 0 a draw, -1 a loss. `ImpliedBounds` combines those of the children,
counting one not yet visited as unknown; when the two meet the node is settled
(terminal `end`), if sticky endgames are on, and its parent is looked at next.
`BackupOne` is one turn of the loop of `DoBackupUpdateSingleNode()`, `Backup` the
whole of it, as a recursive function along the path.

Memory is finite in the model: `Playout` starts only if a new node and two blocks
of siblings fit, and `Solidify` moves children only if there is room. Along one
path three nodes could become solid in theory; in no state of the run did a third
one want to, so the second bound never bites there. The theorems need neither.

### 3.7 Tournament and MultiGames

A worker claims a game, or a pair of batches, plays and reports it. Sections of
`mutex_` are steps; `Abort()` holds it while it visits all games, so it is a
sequence of steps (`todo`, `target`) during which nobody else gets the mutex but
the games go on. Within a game the mutex of that game is modelled the same way.
The loop of `SelfPlayGame::Play()` has a label before each of its critical
sections and tests of `abort_`; the rounds of `MultiSelfPlayGames::Play()` have
two. What happens on the board is free, except that a game ends within
`MaxPlies`. `reported`, `asked` and `cut` are history.

`MultiGames` looks into a round: gathering all games of one side, running the
evaluator, and making a move in each game.

### 3.8 NetworkMux, NetworkDemux and Networks

Callers enqueue computations, and threads take them from a queue. In
`NetworkMux` a worker takes as many as fit its batch, one step each while it
holds the mutex; condition variables are sets of sleepers as in `PickTasks`,
with spurious wake-ups. After the answer a caller may destroy its computation,
and workers that still use it would be wrong (`ChildrenStillWait`). In
`NetworkDemux` a computation is cut into parts that threads take in any order;
each part gets its number when it is taken, and the last one to be complete
wakes the caller. Inputs are named `<<computation, index>>`, and what a network
returns for one is its name. So an index that is off by one gives a result that
belongs to another input. The destructors are the steps `NotifyAll`, `Wait`,
`Drain` and `Destroyed`. `Networks` has batches of the first network computed by
the second, and destroys them in the order of the members.

## 4. The runs

| Run | Instance | Shows |
|---|---|---|
| `search_control` | 2 workers, 1 permit, root visited 0 or 2 times before, 2 moves, visits limit 2, batches and playouts up to 2; symmetric | `BestmoveOnceAndLast`, `BestmoveIsAMove`, `VisitLimitReached` |
| `search_control_live` | 2 workers, 1 permit, batches of 1, no symmetry | `KeepsPromise` (refinement with its liveness) and `WaitReturns` |
| `pruning_justified` | 2 workers, 3 moves, no gate | *violation*, see section 6 |
| `pick_tasks` | 2 task workers, GPU backend, up to 2 tasks, 4 sections; no symmetry | `TasksRunOnce`, `WorkUnderLock`, `TasksDone` |
| `search_tree` | 2 workers, 5 positions of depth 3, 2 collisions, 6 visits, solid at 2 visits | `FlightConserved`, `ExtendedByOne`, `VisitsAddUp`, `SolidMovesNoHeldNode` |
| `pinned_cache` | 2 threads, 4 keys, 6 values, capacities 0, 1 and 3; symmetric | `HeldIsAlive`, `OrderMatchesTable`, `AllocatedExact` |
| `hash_cache` | 2 threads, keys 3, 5, 7, 8, 11, 6 values, capacities 0 to 3; symmetric in threads and values | `ProbingEnds`, `ImplementsPinnedCache` |
| `engine` | positions of 0 and 1 moves, 2 backends, one with 2 configurations, 2 sets of tablebases, obedient GUI | `SearchesWhatWasAsked`, `ResourcesOutliveSearch`, `TreeIsQuiet`, `AnsweredOnce`, `CommandsReturn` |
| `tournament` | 2 workers; two single games, endless single games, two mirrored openings in one batch or two; 1 ply | `ResultsMatchReports`, `FinalReportComplete`, `OnlyAbortLeavesUndecided`, `MovesOfFinishedSearches`, `WaitReturns` |
| `multi_games` | games in one batch with openings of different length | *violation*, see section 6 |
| `networks` | computations of 1, 1 and 3 inputs, batches of 2, split at 2, 2 threads in each network | `AnsweredWithOwn`, `ChildrenStillWait`, `ResultsAreOwn`, `PartsStillWanted`, `CallersReturn`, `DestructorReturns` |
| `node_tree` | 12 addresses, 5 visits, solid at 3, a board with one piece a side, three pushes end the game, games of 0 to 4 moves and another start | `OwnedOnce`, `ParentsRight`, `HeadIsPosition`, `HistoryCounts`, `VisitsAddUp`, `RepeatedInSearch`, `BoundsJustified` |

The runs do not check the type invariants of the modules where these are proved,
nor a few other statements that are proved too (section 5): `PermitsConserved` and
`BestMoveIsStable` of `SearchControl`, `ReportsOwnSearch`, `TreeOutlivesSearch` and
`ClockRuns` of `Engine`, in each of which TLC finds no violation on the instances of
`search_control` and `engine`.

### 4.1 Why these bounds are enough to be interesting

- *Search control.* Two workers and the watchdog are three threads that may
  decide; one permit makes the workers compete. With limit 2 and batches of 2 a
  snapshot may be below, at and above the limit when it is used. A root visited
  before differs from a fresh one in what a stopped search may answer, and with
  two such visits a snapshot may have counted none, one or both of those that
  are taken back.
  `MaxPlayouts` only ends the model's work; workers that find nothing to pick go
  on through their loop.
- *Task workers.* Two of them race for one task; two tasks mean that one can be
  split off while the other runs; four sections give every stale counter a
  section to be mistaken in (pick, process, pick again, and one after the idle
  mark -1), which is what a sleeper can straddle.
- *Tree.* Five positions give a path of length two below the root with siblings
  at both levels, so that collisions meet above, at, and below each other. Two
  visits make a node solid while a third is on its way. Six visits allow a
  second round of gathering for both workers after shared collisions.
- *Cache.* Four keys in a capacity of three evict on insertion, and capacities
  0 and 1 evict several at once. Keys 3, 5, 7, 8 and 11 collide in tables of 2,
  4 and 6 slots, across the end of the table too. Six values let two be held,
  three be cached and one be thrown away.
- *Node tree.* Boards go to and fro with one piece a side, so that a position
  returns after four plies. A push is irreversible; after the first only pushes
  are left, and the third ends the game, by mate or by stalemate. Forced lines
  of that kind let a result be settled at the end and two levels above it, as a
  win, a loss or a draw; a node that cannot be won any more but may be lost
  occurs too, one that cannot be lost but may be won does not. Five
  visits are the fewest with which a search sees a draw by repetition at depth
  four and the next one, two plies later, has to take it back. A node is solid
  at three visits, and a solid node can be the head, be left, and be kept.
  Twelve addresses suffice for the tree, two blocks and the garbage. With
  `MaxGarbage` 1 a search starts only when at most one entry is still to be
  collected; moves add entries without such a limit. A view identifies states
  that differ in addresses only. Fifty moves become seven plies (`Rule50`).
- *Tournament.* Two workers claim, play and report at the same time, and there
  is a game more than a worker to claim in some modes. The modes are those in
  which the code takes different paths: a number of games, no end, pairs of
  batches that are full or not. One ply means that a game is searched, goes on
  and is cut. One result for player 1's colours is enough to fill a wrong cell
  of the table.
- *Networks.* Of computations with 1, 1 and 3 inputs two fit a batch of two and
  one exceeds it, so a batch has one child or two, and a child starts at 0 or 1.
  Split at two inputs a batch has one part or two, also of different size.
- *Engine.* One move is enough for a position, the one a move behind it, and the
  start, where there is nothing to ponder on; options may change between any two
  commands. The theorems of section 5 have the invariants for games of any
  length, so the run is kept small for the sake of liveness. The three settings
  differ in the name of the backend, or in its configuration and the tablebases,
  so that a change is noticed by the engine, by the backend, or not at all.

`CHECK_DEADLOCK FALSE` is set for `Engine`, because `quit` ends it, for
`Tournament`, `MultiGames` and `Networks`, which end when games are over or the
networks destroyed, and for `NodeTree`, whose bounds on visits and games leave
states where nothing is left to do. In `PickTasks` and `SearchTree` the end is a
stuttering action (`Terminated`), so any other state without a successor is
reported; in `SearchControl` a client may ask for the best move for ever, so
deadlock says little there and `WaitReturns` checks progress instead.

### 4.2 Fairness

- `SearchControl`: every worker and the watchdog are weakly fair, since the
  operating system runs every thread; so is `Joined`, since `join()` returns
  when its threads have ended. Nothing obliges the client to stop, abort or
  wait, and no limit is obliged to be reached.
- `PickTasks`: every thread is weakly fair. Two steps of the main thread take
  the mutex which sleepers also take for short moments; they are strongly fair,
  the assumption being that a thread which tries to lock a mutex that is free
  again and again gets it at last. Spurious wake-ups are not fair.
- `Engine`: the answer of a committed search and the exit of threads whose
  search was decided are weakly fair. That is not a fact of this module but
  what `KeepsPromise` and `WaitReturns` show of `SearchControl`. The main
  thread continues a command it began. The GUI is never obliged to do anything.
- `Tournament`: workers are weakly fair - threads run, and each search of
  self-play has a limit - and so are the steps of an `Abort()` that was begun,
  joining threads that have ended, and the destructor once it was called. Nobody
  needs to stop, abort, wait or destroy.
- `Networks`: the threads of both networks, the destructor once it was called,
  and the callers as a group are weakly fair: some caller that can run does.
  Spurious wake-ups are not fair, so nothing rests on them.
- `SearchTree`, `NodeTree`, `PinnedCache` and `HashCache` state no liveness and no fairness.

### 4.3 Mutants

Each property of a passing run has a mutant: a definition named `... Early`,
`... Unchecked`, `...Again` and the like, next to the one it would replace, which
changes that definition the way a plausible mistake would (a dropped guard, a
missing reset, a swapped test). TLC finds the property violated when the
definition is replaced by its mutant. They are part of the modules so that it
stays visible what each property protects from.

## 5. What is proved

TLAPS checks all proofs; they hold for every value of the constants that meets
the assumptions named in the modules (`SearchAssumption`,
`PickTasksAssumption`, `SearchTreeAssumption`, `CacheAssumption`,
`EngineAssumption`, `NetworkMuxAssumption`, `NetworksAssumption`,
`TournamentAssumption`, `PositionAssumption`, `NodeTreeAssumption`,
`HashCacheAssumption`): finite sets of threads, keys that are numbers, natural limits, default values that differ from real ones, positions
from which a move can be taken back, a tree in which parents lead up to the root
(every set of other nodes has one whose parent is outside), tournaments as the
constructor accepts them (pairs of games when batches are mirrored), and the
facts about chess of section 3.6.

`SearchControlProofs`:

| Theorem | Statement |
|---|---|
| `TypeCorrect` | `Spec => []TypeOK` |
| `BestmoveOnce` | `Spec => []BestmoveOnceAndLast` |
| `BestmoveLegal` | `Spec => []BestmoveIsAMove` |
| `VisitLimitHonoured` | `Spec => VisitLimitReached` |
| `PermitsKept` | `Spec => []PermitsConserved` |
| `BestMoveKept` | `Spec => BestMoveIsStable` |
| `ImplementsPromise` | `Spec => Promise!Init /\ [][Promise!Next]_(Promise!vars)` |

The argument. That at most one answer is sent is not inductive: a thread that is
about to answer relies on the others having set `bestmove_is_sent` when they
did. `AnswerInv` says that an answer in `bestmoves` is the only one, is the last
output, and has `bestmove_is_sent` set; with it, the guard of
`MaybeTriggerStop` excludes a second answer and the guard of `MaybeOutputInfo` a
line after it. `BestmoveIsAMove` needs in addition that the root was visited
when the answer is drawn, which is the other half of that guard.
`VisitLimitReached` is about a decision on stale data. The root may have fewer
visits than the snapshot counted, as visits of earlier searches are taken back,
so the theorem says by how many: when a search stops for visits, those of the root and
those taken back since the snapshot was made reach the limit. `SnapshotInv` has
what that rests on: the playouts of a snapshot are at most those made by now, and
the earlier visits it counted are at least those that are left. For the permits the set of gathering workers changes by one worker at
a time, and lemmas on cardinality turn that into the sum. The refinement goes
action by action, with `AnswerInv` at the point where `MaybeTriggerStop` commits
and answers in one step.

`CacheProofs`, about `PinnedCache`:

| Theorem | Statement |
|---|---|
| `CacheInvariant` | `Spec => []CacheInv`, the inductive invariant |
| `PinnedIsAlive` | `Spec => []HeldIsAlive` |
| `OrderKept` | `Spec => []OrderMatchesTable` |
| `NothingLeaks` | `Spec => [](AllocatedExact /\ PinsMatchHolders)` |
| `TypeCorrect` | `Spec => []TypeOK` |
| `ReplaceNever` | `Spec => NeverReplaced` |

`HeldIsAlive` is the result that matters, and nothing in it speaks of pins or
counters. It holds because pins count the locks (`PinsCounted`), because
different keys have different values, none of which is also among the evicted
ones, and because the order lists each cached key once - otherwise an eviction
would free a value twice, or one that is still reachable. `Consistent` puts the
latter together as a predicate on an order, a table, the evicted values and a
count, rather than on the variables, so that the lemma `Eviction` applies both
to the cache as it is (`SetCapacity`, `Clear`) and to the one that `Insert` has
just made too big. That `allocated` never drops below zero, part of `TypeOK`,
needs the whole invariant.

`CacheProofs`, about `HashCache`:

| Theorem | Statement |
|---|---|
| `HashInvariant` | `HashSpec => []HashInv`, the inductive invariant |
| `ProbingAlwaysEnds` | `HashSpec => []ProbingEnds` |
| `HashRefined` | `HashSpec => ImplementsPinnedCache`, that is `Cache!Spec` |
| `HashTypeCorrect` | `HashSpec => []HashTypeOK` |

With `HashRefined` all that is proved of `PinnedCache` is true of the table. The
invariant says that the table is `Good`: no key is in it twice, and no free slot
lies between the home of an entry and its slot (`Reached`), so that probing finds
it (`FindKey`). What is hard is that `EvictItem()` keeps this. Seen from any free
slot the circle of slots is a line: no probing passes that slot, "between" is an
interval, and `InRange()`, with its two cases, is a plain comparison
(`ReachedLinear`, `RangeFrom`). Along the line the loop that closes the gap has
an ordinary invariant, `Gap`: entries up to where it has got have their homes
after the gap, and every entry can be reached if the gap is taken for an entry. It
ends at a free slot, where no later entry can need the gap (`GapEnds`), and before
it is back at the slot from which the line was seen. There is no such slot in a
full table. `Insert()` does fill the table, since it evicts only afterwards; but
`HashSizes` shows that this can only be a table of one slot or two, where the gap
itself is the one free slot (`VacateSmall`). Loops are folds over sequences, and a
fold is turned into its states one after the other (`Steps`, `GapFold`,
`EvictFold`, `RehashFold`) by a smallest counterexample. `Progress` then says what
some evictions leave, in terms of the first keys of the order, which is what
`EvictToCapacity()` of `PinnedCache` says (`EvictionRefined`). `Owned` ties
entries to locks: entries have different values, so that a lock finds its own
entry again, evicted or not, though another with its key may be in the table.

`EngineProofs`, for a GUI that keeps to the protocol (`ASSUME Obedient`):

| Theorem | Statement |
|---|---|
| `EngineInvariant` | `Spec => []EngineInv`, the inductive invariant |
| `RightPosition` | `Spec => []SearchesWhatWasAsked` |
| `ResourcesAlive` | `Spec => []ResourcesOutliveSearch` |
| `TreeLeftAlone` | `Spec => []TreeIsQuiet` |
| `RightReport` | `Spec => []ReportsOwnSearch` |
| `OneAnswer` | `Spec => []AnsweredOnce` |
| `TreeForEverySearch` | `Spec => []TreeOutlivesSearch` |
| `ClockStarted` | `Spec => []ClockRuns` |
| `TypeCorrect` | `Spec => []TypeOK` |

The heart of the invariant is `PositionIsFresh`: a position that was accepted and
not yet searched has no threads running on it, and while the last position was
not refused it is in the tree already unless `ponder_enabled_` says that `go` will
put it there. The code nowhere states this; it follows from `SetPosition()`
waiting for the search before it reads the option. With it, whatever `Go()`
prepares is right when `StartSearch()` comes to it (`ReadyToStart`), and remains
right while the search runs (`Running`). `Pondering` shows that a search which
is hit has not answered and never will, so that its replacement is the only one
that does. `TreeLeftAlone` is as much as is true: a GUI may send `go` twice for a
position, the second one does not wait, and `TreeIsQuiet` says that the threads
under which it may change the tree are those of a search that has answered
(`Idle`), never of one that is still to answer. Why that is not enough is said of
`TreeLeftToThreads` in section 6. The protocol is needed: a `go` after a position
was refused may get the old position with the new options, or no tree at all.
`TreeForEverySearch` rests on that, by way of `ReadyToStart`. `ClockStarted` needs
one fact more (`ClockComes`): with a position at hand and no clock, `StrictTiming`
is on as `go` will see it, for both were settled by the last `position`.

`PickTasksProofs`:

| Theorem | Statement |
|---|---|
| `PickInvariant` | `Spec => []PickInv`, the inductive invariant |
| `TasksOnce` | `Spec => []TasksRunOnce` |
| `UnderLock` | `Spec => []WorkUnderLock` |
| `TypeCorrect` | `Spec => []TypeOK` |

A section is active from the end of `ResetTasks()` to the end of
`WaitForTasks()`. `Counted`: completed and running tasks add up to those taken,
and no more are taken than there are. `Quiet`: outside of a section nobody runs
a task, and there is none to take. Whatever a task worker read before it got the
spin lock is worthless; what counts are `SpinLocked` - one thread holds the
flag, and what it read under it is not stale - and that `WaitForTasks()` loads
the completed tasks before the task count. In the other order a task that splits
off another one could be counted as complete and the new one be missed.

`SearchTreeProofs`, for every tree and any number of workers:

| Theorem | Statement |
|---|---|
| `TreeInvariant` | `Spec => []TreeInv`, the inductive invariant |
| `VirtualLossExact` | `Spec => []FlightConserved` |
| `ExtensionExclusive` | `Spec => []ExtendedByOne` |
| `VisitCountsRight` | `Spec => []VisitsAddUp` |
| `SolidSafe` | `Spec => SolidMovesNoHeldNode` |
| `NothingLeftInFlight` | `Spec => []NothingInFlightAtEnd` |
| `TypeCorrect` | `Spec => []TypeOK` |

`FlightConserved` says that the virtual loss of a node is the sum of the visits
that are pending at it or below and of the collisions below it, so the laws of sums come first: `SumAdds`,
`SumSplits`, `SumTakes`. The sum of the community modules is a recursive
function chosen by `CHOOSE`; that it exists, that two such functions agree and
that its value does not depend on the order are proved by induction over finite
sets, which here means taking the smallest counterexample (`SmallestSubset`,
from the library's theorem that strict inclusion is well-founded). The paths of
the tree are treated in the same way, with the assumption about parents as the
induction. Then `BelowChildren` cuts the subtree of a node into the node and the
disjoint subtrees of its children. On that rests the one fact which all actions share:
each adds to `in_flight`, along the path to the root, what it adds to somebody's
hands, and takes back what it takes from them, or moves amounts between hands at
one node. The remaining conjuncts say when the code may do so. `ExtendedByOne`
is not inductive alone: what prevents a second visit of a new node is that the
first one is in flight there, which is `FlightConserved` again, and that no
visit is pending below it (`PendingAtFrontier`). `VisitsAddUp` needs
`VisitedFromAbove`: a node has visits only if its parent has. `SolidSafe` is
the reason why `MakeSolid()` may move children at all. The first half of its
guard excludes a child that is held for a visit. The second, that the virtual
loss of the children adds up to that of the node, excludes one that is held with
a collision: by `FlightConserved` it counts at the node but not at the child
(`NoCollisionsBelow`). When all workers have ended, hands are empty, so by
`FlightConserved` nothing is in flight: the next search inherits a clean tree.

`NetworksProofs`, for any computations, sizes, limits and workers:

| Theorem | Statement |
|---|---|
| `NetworksInvariant` | `Spec => []NetworksInv`, the inductive invariant |
| `MuxRefined` | `Spec => MuxSpec` |
| `OwnAnswers` | `Spec => []AnsweredWithOwn` |
| `ChildrenAlive` | `Spec => []ChildrenStillWait` |
| `PartsAlive` | `Spec => []PartsStillWanted` |
| `OwnResults` | `Spec => []ResultsAreOwn` |

In the first network each computation is in one place: with its caller, in the
queue, among the children of one worker, or answered (`Queued`, `Children`,
`Batches`). So no two workers answer it, and its caller waits as long as a worker
may touch it. That its inputs are found at `idx_in_parent` follows from batches
only growing at their end (`Slices`). These facts do not depend on what computes
a batch, and are proved for `MuxNext`; `MuxRefined` shows that over the second
network the first one makes such steps only. In the second network the parts of
a computation are counted: what is missing is still to be queued, queued, or
held, and what was made, is being made and is yet to come is the number of parts
(`PartsCounted`). From the first, the caller returns only when nobody holds a
part; from the second, every part was made then, and `PartsRight` says that part
`k` has the `k`-th slice, though threads made them in any order.
`BatchesFollowed` joins the two: a batch is with one worker, which waits as long
as it is being computed, and its inputs do not change in that time. `ResultsAreOwn` then is
arithmetic: the `i`-th sample of a batch is in part `(i - 1) \div size`, at
`(i - 1) % size` (`SampleInSlice`).

`TournamentProofs`, for any workers, modes and openings:

| Theorem | Statement |
|---|---|
| `TournamentInvariant` | `Spec => []TournamentInv`, the inductive invariant |
| `TableRight` | `Spec => []ResultsMatchReports` |
| `FinalReportRight` | `Spec => []FinalReportComplete` |
| `StopPlaysOn` | `Spec => []OnlyAbortLeavesUndecided` |
| `MovesRight` | `Spec => MovesOfFinishedSearches` |

`Claims`: the ranges of games that active workers have claimed are disjoint and
below `games_count_`. So a game is reported by one worker (`Reports`), and
without an abort it is remaining, reported or cut (`Complete`). The table is
updated in a later section than the report, so it agrees with the reports except
for those a worker has in hand (`Table`). When the threads were joined and nobody
aborted, no game is remaining, every worker has seen that there is none to claim,
and `games_count_` is the number of games: the report is complete (`Owner`).
`OnlyAbortLeavesUndecided` is about games that are over, but what excuses one is
observed earlier; it holds because reasons never go away - `asked`, `cut` and
`abort_` only grow (`ReasonsGrow`) - and because `Abort()` holds the mutex until
it has visited all games, so a game that is marked was marked by it
(`Aborting`). The same mark, set before the search is aborted, is what
`Play()` tests after its search, so a move is picked only from a search that was
done (`Searches`).

`NodeTreeProofs`, for any finite memory and finite set of moves:

| Theorem | Statement |
|---|---|
| `AppendKeepsCounters` | `Append()` of a legal move keeps the counters of a history right |
| `StartHasRightCounters` | so does `Reset()` |
| `CountersAlwaysRight` | `NodeTree`: `Spec => []HistoryCounts` |
| `EveryNodeOwnedOnce` | `Spec => []OwnedOnce` |
| `ParentsAlwaysRight` | `Spec => []ParentsRight` |
| `HeadAlwaysPosition` | `Spec => []HeadIsPosition` |
| `VisitsAlwaysAddUp` | `Spec => []VisitsAddUp` |
| `BoundsAlwaysJustified` | `Spec => []BoundsJustified` |

The loop of `ComputeLastMoveRepetitions()` starts four plies back, goes by two,
and stops at captures and pawn moves. It misses nothing: `Related` carries over
each move that sides alternate, that the stage of the game never falls, and that
`rule50` counts the plies since it rose. Two equal boards are thus an even
number of plies apart, not two, and every position in between has a counter
high enough for the loop to go on (`LoopReaches`). What it finds is the largest
index with that board (`LoopFindsLatest`), whose counter is right already, and
there is exactly one occurrence more (`OneOccurrenceMore`). For a tree, the
moves that a reset or a move has still to make are legal where the history
stands (`TodoLegal`), whatever searches and the collecting thread do.

The other five come from one inductive invariant, `TreeInv`. None of them is
inductive: whether nodes have one owner depends on where the pointers of garbage
lead, and whether visits still add up after a move depends on nodes that no
search looks at until then. `TreeInv` speaks of four things that are in no state
but exist for each:

- `hs`, the history of positions that led to every node in memory, in the tree
  or not. A child's is that of its parent and one position more (`Histories`), so
  no node is below itself, and what is below a node is found by going down
  (`Forest`). The operators of the model are recursive functions; they unfold
  because histories get longer (`ReachUnfolds`, `PathFound`), and the subtree is
  the least set that is closed under children (`SubtreeIsLeast`).
- Roots: a used node that is no child is the root of the tree or a member of one
  entry of garbage, and of one only (`Owners`). A statement about roots is enough
  for `OwnedOnce`, as subtrees of different roots of a forest are apart
  (`SubtreesApart`), and it is easy to keep: an action only has to say which
  nodes lose their parent and where it puts them.
- `q` and `k`: the nodes from the beginning of the game down, each the only child
  of the one before, with the head at place `k` (`Line`, `Standing`). While
  `ResetToPosition()` goes down an old line, `q` goes on below the head, as long
  as the old head was not passed. That the nodes are in blocks of their own
  (`~solid`) is why a subtree that `MakeMove()` cuts off takes nothing along.
- `D`, the nodes at the end of the line and below: what the next search starts
  from (`Ready`). Each node leads everywhere or nowhere (`Extended`), has its
  visits (`Counted`), no children if drawn by repetition (`Drawn`), and bounds
  that its children justify (`Bounded`), except for the root.

For a playout the invariant is relative to what it started from (`Searched`): it
changes a part of memory only, in which all that is not in its tree is free or a
shell (`Arena`). One node may be *due* a visit while the others add up; spawning,
taking back a two-fold draw, extending, and each turn of the backup then are
steps that keep `Searched` and pass the debt on (`SearchSpawns`,
`SearchCorrects`, `SearchExtends`, `SearchVisits`, `SearchBounds`,
`SearchSolidifies`), and at the root it is paid (`SearchBacksUp`). Taking back
relies on a drawn leaf having fewer visits than each node above it
(`VisitsFall`). A block of siblings that moves is one lemma for `MakeSolid()` and
for `ReleaseChildrenExceptOne()` (`Relocated`, `ForestRelocated`). TLC cannot
enumerate the histories and sets `TreeInv` asks for, so it checks what follows
from it (`InvImplies`); the model was changed for the proof in its form only: the
path up, the backup and the moves of a history are recursive functions now.

*Only model-checked:* liveness in every module (`WaitReturns`, `KeepsPromise` as
far as it promises an answer, `TasksDone`, `CommandsReturn`, `CallersReturn`,
`DestructorReturns`), which is out of the prover's reach; and in `NodeTree` the
action property `RepeatedInSearch`. The library's induction theorems take an operator as a
parameter and cannot be used; where a proof needs induction it takes a smallest
counterexample, as in `SearchTreeProofs`.

## 6. Where code and comments disagree

Two runs end in a violation. Each states what a comment of the code says, and TLC
finds a behaviour of the code that contradicts it.

- `pruning_justified` - smart pruning ends a search for "At most one non losing
  move" although three are open. The statistics were taken before the root was
  expanded, the guard against that (`search.cc:624`) is tested after it: 0 edges
  are at most 0 losing ones. One playout is enough to be misled.
- `multi_games` - `MakeBestMove()` is "Run for each tree in the same order as
  Gather." (`multigame.h:43`), but `Gather()` clears the moves of the evaluator
  for each tree (`multigame.cc:39`). What remains are those of the tree gathered
  last, and one of them is made in all games of the batch.

Six more statements stand at the end of their modules and have no run. The code does
not keep them either: put in the configuration named here in place of its
properties, TLC refutes each within seconds. Where a weaker statement is what the
code does keep, that one is checked or proved.

- `VisitLimitKept` (`SearchControl.cfg`) - an option promises the "Number of visits
  per move to search." (`selfplay/tournament.cc:60`), and a search that stops for
  that number may have fewer at the root. The watchdog counts 2 in a reused tree,
  a worker takes one back because the draw behind it is none in this search, and
  the search stops for a limit of 2 with 1. `VisitLimitReached` is checked and
  proved: those taken back are all it lacks.
- `ParentAccessLocked` (`SearchTree.cfg`) - "Need a lock to access parent, in case
  MakeSolid is in progress." (`search.cc:1979`). For a lost tablebase position
  `ExtendNode()` goes on to `MakeTerminal()` after it released that lock, which
  writes to the edges of the parent (`node.cc:315`); another worker's backup moves
  the parent at that moment. `SolidMovesNoHeldNode` is about the node itself.
- `TreeLeftToThreads` (`Engine.cfg`) - "Must reset the search before mutating the
  tree." (`selfplay/game.cc:298`). The engine does not for a second `go` without a
  new `position`, which `engine_test.cc:126-130` sends too: with `Ponder` on,
  `engine.cc:233` resets the tree while threads of the search that has just
  answered may still be in it; with `ClearTree`, `wrapper.cc:107` trims it.
  `TreeIsQuiet` is checked and proved: that `go` is the only way.
- `CollisionsInTheirTree` (`Engine.cfg`) - the same comment. `StartSearch()`
  replaces the old `Search` last (`wrapper.cc:110`), and its destructor cancels the
  collisions its workers left (`search.cc:1074-1080`) in nodes that `position`, `go`
  or `ClearTree` may have released before: only threads are waited for earlier.
  `TreeOutlivesSearch` is proved: the tree as such is still there.
- `PositionAndGoConsistent` (`Engine.cfg`) - options are cached "to be consistent
  between `position` and `go`" (`engine.h:75`), but written before anything can
  throw. A refused `position` leaves the new `Ponder` with the old position, and a
  `go` would search the tree as pondering left it, one move behind. A GUI within
  the protocol sends none before the next `position`.
- `BackendTracked` (`Engine.cfg`) - "Remember the backend name to track changes."
  (`engine.h:68`). The name is noted before the backend is created. If that throws,
  the next command finds the name as it should be and goes on with the old backend.

Also met while modelling:

- The clock of a search is started before `SetPosition()` or before
  `StartSearch()` (`search.h:66`). With `StrictTiming` and no `position` before
  the first `go`, nobody does: `Go()` looks at the cached option before
  `NewGame()` refreshes it (`engine.cc:231`), and `SetPosition()` leaves the clock
  to `Go()`. `StartSearch()` dereferences an empty `std::optional`. `ClockRuns`
  allows for exactly this.
- The watchdog's wait that "is there to prevent busy wait" (`search.cc:1024`)
  returns at once when its predicate, `stop_`, holds. In `go infinite` or while
  pondering, a search that reached a limit may not answer, so the watchdog spins
  over `nodes_mutex_` until the GUI stops it.
- With a CPU backend task workers are not woken for gathering, and handing out
  processing tasks wakes nobody at all (`search.cc:1488`). If they sleep and no
  subtree is split off, `WaitForTasks()` spins for ever. The default of
  `TaskWorkers` avoids this; an explicit setting does not.
- More than 100 task workers (the option allows 128) get more processing tasks
  than `ResetTasks()` reserved.
- `ponderhit` after the end of pondering starts a search, since
  `last_go_params_` still says ponder. Only a GUI outside of the protocol sends
  it; `Engine` with `Obedient = FALSE` has it. `quit` clears the responder's
  pointer while a thread of a search may be between testing and using it.
- A tournament game that is created right after `Abort()` went through the list
  is played to its end (`tournament.cc:388`); `PlayMultiGames()` looks again.
  `Play()` destroys its search at `game.cc:299` without the mutex under which
  `Abort()` uses it.
- A game of 450 plies is given up without a result (`game.cc:152`), and one
  without a result is not counted (`tournament.cc:391`), though it was claimed:
  a finished tournament may have fewer games than asked for. `FinalReportComplete`
  therefore counts the games that were cut.
- `ResetToPosition()` compares with an old head that may have been freed, so a
  node at a reused address may pass for it. The result is only a tree that is
  not trimmed where a fresh node makes trimming unnecessary; `Allocated` has it.

## 7. What is not modelled

- *Scores.* Q, policy, PUCT, temperature and moves-left are numbers whose only
  effect on control is a choice, and the models make that choice freely.
  Anything that depends on their values (that the best move is the best one)
  is out of scope.
- *Bounds.* `NodeTree` computes them, for one search worker at a time, without
  tablebases and without the adjustment of visits towards shorter wins. In
  `SearchTree` a node may become terminal when it is backed up; which result the
  bounds give is left out there.
- *Two-fold draws among workers.* `NodeTree` takes visits back with nobody else
  in the tree. The code does so while other workers are, under the same lock.
- *Self-play around the games:* openings, training data, the discard pile, and
  resignation are choices of the model. *Networks* that forward to others one
  by one (`network_rr`, `network_check`, `network_record`) have no control.
- *Time.* Budgets are floating-point formulas; a time stopper may fire at any
  moment of a search that may respond.
- *Below an access.* Accesses of plain members without a lock are steps where
  they matter; torn reads and weak memory orders of the atomics are not
  modelled. The counters of `PickTasks` are read and written in program order,
  which their acquire and acq_rel orders justify.
- *Planned*: see section 2. *Out of scope*: see the last rows of the inventory.

## 8. Running

```
tlc -workers 2 -config SearchControl.cfg MCSearchControl
tlapm SearchControlProofs.tla
```

The longest run, `node_tree`, takes two and a half minutes on two cores.
`NodeTreeProofs` takes ten minutes to prove from nothing, the other proofs a few
minutes together. `PROJECT.json` names the module and the configuration of each run, and
maps every definition to the lines it models.
