---------------------------- MODULE SearchControl ----------------------------
(***************************************************************************)
(* Life cycle of one classic Search (src/src/search/classic/search.cc):    *)
(* the worker threads, the watchdog thread and the client that calls       *)
(* Stop(), Abort(), Wait(), GetBestMove() and ResetBestMove(), and the     *)
(* decision, taken by whichever thread comes first, to send bestmove.      *)
(*                                                                         *)
(* The tree is reduced to what that decision depends on: how many visits   *)
(* the root has, and what an IterationStats snapshot says of its edges.    *)
(* A critical section (counters_mutex_, nodes_mutex_) is one step; what    *)
(* the code reads outside of one, or before it, is a step of its own.      *)
(***************************************************************************)
EXTENDS Naturals, Sequences, FiniteSets

CONSTANTS
  Worker,                 \* search threads, each runs a SearchWorker
  Watchdog,               \* the first thread of Search::threads_
  MaxConcurrentSearchers, \* option max-concurrent-searchers, 0 = no gate
  InitialVisits,          \* visits the root of the tree may have already
  RootMoves,              \* number of edges the expanded root has
  LosingMoves,            \* how many of them the search can prove lost
  Move, NoMove,           \* moves of the root; a default constructed Move
  VisitLimit,             \* nodes_limit_ of VisitsStopper
  MaxBatch,               \* target_minibatch_size_
  MaxPlayouts             \* bound of the model: no picks beyond it

ASSUME SearchAssumption ==
  /\ IsFiniteSet(Worker) /\ Watchdog \notin Worker
  /\ MaxConcurrentSearchers \in Nat /\ InitialVisits \subseteq Nat
  /\ RootMoves \in Nat /\ LosingMoves \in 0..RootMoves
  /\ NoMove \notin Move /\ Move # {}
  /\ VisitLimit \in Nat /\ MaxBatch \in Nat /\ MaxPlayouts \in Nat

Thread == Worker \cup {Watchdog}

VARIABLES
  stop,              \* stop_
  ok_to_respond,     \* ok_to_respond_bestmove_
  bestmove_is_sent,  \* bestmove_is_sent_
  final_bestmove,    \* final_bestmove_
  pending_searchers, \* pending_searchers_: free permits to gather
  initial_visits,    \* initial_visits_: visits of a reused root, less those taken back
  total_playouts,    \* total_playouts_
  current_best_edge, \* whether current_best_edge_ is set
  pc,                \* where each thread is
  fresh,             \* visits the worker picked in this round of the gather loop
  batch,             \* visits of its minibatch_ that wait for the network
  stats,             \* IterationStats each thread took its decision data from
  client,            \* "running", "waiting" in Wait(), or "joined"
  stop_reason,       \* history: what set stop_
  redraws,           \* history: ResetBestMove() calls after the answer, modulo 2
  bestmoves,         \* history: the moves sent to the UciResponder
  last_output        \* history: kind of the last line the responder was given

control == <<stop, ok_to_respond, bestmove_is_sent, final_bestmove, stop_reason>>
output == <<bestmoves, last_output>>
work == <<total_playouts, current_best_edge, fresh, batch>>
clientVars == <<client, redraws>>
vars == <<control, output, work, pending_searchers, pc, stats,
          initial_visits, clientVars>>

-----------------------------------------------------------------------------
(* Data.                                                                   *)

\* Visits of the root: total_playouts_ + initial_visits_.
RootVisits == total_playouts + initial_visits

\* What the stoppers read of an IterationStats. An unexpanded root has no
\* edges, and then may_resign keeps its initial TRUE and no edge is losing.
NoStats == [nodes |-> 0, playouts |-> 0, edges |-> 0, losing |-> 0,
            may_resign |-> TRUE]

Stats == [nodes : Nat, playouts : Nat, edges : Nat, losing : Nat,
          may_resign : BOOLEAN]

StatsNow ==
  {s \in [nodes : {RootVisits}, playouts : {total_playouts},
          edges : {0, RootMoves}, losing : 0..LosingMoves, may_resign : BOOLEAN] :
     /\ RootVisits = 0 => s.edges = 0 /\ s.losing = 0 /\ s.may_resign
     /\ RootVisits > 0 => s.edges = RootMoves}

\* Mutant of ShouldStop: the visits limit is taken one short.
ShouldStopOneShort(s) ==
  IF s.nodes + 1 >= VisitLimit THEN {"visits"} ELSE {"none", "depth"}

\* The verdicts the chained stoppers may reach on stats s. The limit on visits (or
\* RAM), and those on depth and mate, work in every mode; clocks and pruning only
\* in searches that may respond by themselves. Depth, time and the size of the
\* lead are not modelled: those stoppers may fire or not.
ShouldStop(s) ==
  IF s.nodes >= VisitLimit THEN {"visits"}
  ELSE {"none", "depth"} \cup
       IF ~ok_to_respond THEN {}
       ELSE {"time"}
            \cup {v \in {"single move"} : s.edges = 1}
            \cup {v \in {"no alternative"} :
                    s.edges <= s.losing + (IF s.may_resign THEN 0 ELSE 1)}
            \cup {v \in {"win", "decided"} : s.edges > 0 /\ s.playouts > 0}

\* Values EnsureBestMoveKnown() may leave in final_bestmove_: temperature makes
\* every call a new draw, so the choice is free.
EnsureBestMoveKnown(sent) ==
  IF sent \/ RootVisits = 0 \/ RootMoves = 0 THEN {final_bestmove} ELSE Move

Goto(t, label) == pc' = [pc EXCEPT ![t] = label]

-----------------------------------------------------------------------------
(* Search threads: SearchWorker::RunBlocking and ExecuteOneIteration.      *)

\* Wait for a permit to gather, unless there is nothing left to do.
Gate(w) ==
  /\ pc[w] = "gate"
  /\ IF MaxConcurrentSearchers = 0 THEN Goto(w, "gather")
     ELSE IF stop /\ RootVisits > 0 THEN Goto(w, "check")
     ELSE Goto(w, "claim")
  /\ UNCHANGED <<control, output, work, pending_searchers, stats,
                 initial_visits, clientVars>>

\* Compare-and-swap on pending_searchers_; failure spins back to the stop test.
ClaimPermit(w) ==
  /\ pc[w] = "claim"
  /\ IF pending_searchers > 0
     THEN /\ pending_searchers' = pending_searchers - 1
          /\ Goto(w, "gather")
     ELSE /\ Goto(w, "gate")
          /\ UNCHANGED pending_searchers
  /\ UNCHANGED <<control, output, work, stats, initial_visits, clientVars>>

\* How many visits PickNodesToExtend() can return. An unexpanded root is given
\* to one worker only; all others get collisions, which are not visits.
Picks(w) ==
  IF total_playouts >= MaxPlayouts THEN {0}
  ELSE IF RootVisits = 0
       THEN IF \E v \in Worker : fresh[v] + batch[v] > 0 THEN {0} ELSE {1}
  ELSE 0..(MaxBatch - batch[w])

\* Draws by repetition that an earlier search found below another root: where they
\* turn out to be none, EnsureNodeTwoFoldCorrectForDepth() takes their visits back,
\* up to the root. Only visits of earlier searches, never the root's own.
TakenBack == IF initial_visits = 0 THEN {0} ELSE 0..(initial_visits - 1)

\* One round of the loop in GatherMinibatch(): pick under nodes_mutex_.
PickNodesToExtend(w) ==
  /\ pc[w] = "gather"
  /\ \E k \in Picks(w) : fresh' = [fresh EXCEPT ![w] = k]
  /\ \E taken \in TakenBack : initial_visits' = initial_visits - taken
  /\ Goto(w, "process")
  /\ UNCHANGED <<control, output, total_playouts, current_best_edge, batch,
                 pending_searchers, stats, clientVars>>

\* Backing n visits up to the root. Only a visit below the root names a best edge.
BackUp(n) ==
  /\ total_playouts' = total_playouts + n
  /\ current_best_edge' = (current_best_edge \/ (n > 0 /\ RootVisits > 0))

\* ... and back up those evaluated out of order (terminals, cache hits); then
\* gather more, or leave the loop.
ProcessPicked(w) ==
  /\ pc[w] = "process"
  /\ \E ooo \in 0..fresh[w] :
       /\ BackUp(ooo)
       /\ batch' = [batch EXCEPT ![w] = batch[w] + (fresh[w] - ooo)]
  /\ fresh' = [fresh EXCEPT ![w] = 0]
  /\ \/ Goto(w, "release")
     \/ fresh[w] > 0 /\ Goto(w, "gather")
  /\ UNCHANGED <<control, output, pending_searchers, stats, initial_visits, clientVars>>

ReleasePermit(w) ==
  /\ pc[w] = "release"
  /\ pending_searchers' = IF MaxConcurrentSearchers = 0 THEN pending_searchers
                          ELSE pending_searchers + 1
  /\ Goto(w, "compute")
  /\ UNCHANGED <<control, output, work, stats, initial_visits, clientVars>>

\* The network answers, and DoBackupUpdate() adds the whole minibatch.
ComputeAndBackUp(w) ==
  /\ pc[w] = "compute"
  /\ BackUp(batch[w])
  /\ batch' = [batch EXCEPT ![w] = 0]
  /\ Goto(w, "populate")
  /\ UNCHANGED <<control, output, fresh, pending_searchers, stats,
                 initial_visits, clientVars>>

\* while (search_->IsSearchActive()), tested after the iteration.
WorkerCheck(w) ==
  /\ pc[w] = "check"
  /\ Goto(w, IF stop THEN "done" ELSE "gate")
  /\ UNCHANGED <<control, output, work, pending_searchers, stats,
                 initial_visits, clientVars>>

-----------------------------------------------------------------------------
(* The decision, by workers (UpdateCounters) and the watchdog alike.       *)

\* PopulateCommonIterationStats(): a snapshot, used after the lock is dropped.
PopulateCommonIterationStats(t) ==
  /\ pc[t] = "populate"
  /\ \E s \in StatsNow : stats' = [stats EXCEPT ![t] = s]
  /\ Goto(t, "trigger")
  /\ UNCHANGED <<control, output, work, pending_searchers, initial_visits, clientVars>>

\* Mutant of RespondBestmove: bestmove_is_sent_ is not set.
RespondBestmoveUnmarked ==
  \E m \in EnsureBestMoveKnown(bestmove_is_sent) :
    /\ final_bestmove' = m
    /\ bestmoves' = Append(bestmoves, m)
    /\ last_output' = "bestmove"
    /\ current_best_edge' = FALSE
    /\ UNCHANGED bestmove_is_sent

\* SendUciInfo, EnsureBestMoveKnown, OutputBestMove, in this order.
RespondBestmove ==
  \E m \in EnsureBestMoveKnown(bestmove_is_sent) :
    /\ final_bestmove' = m
    /\ bestmoves' = Append(bestmoves, m)
    /\ last_output' = "bestmove"
    /\ bestmove_is_sent' = TRUE
    /\ current_best_edge' = FALSE

\* Mutant of MaybeTriggerStop: a stopped search answers before the root is expanded.
MaybeTriggerStopEarly(t) ==
  /\ pc[t] = "trigger"
  /\ Goto(t, "info")
  /\ stats' = [stats EXCEPT ![t] = NoStats]
  /\ IF stop /\ ok_to_respond /\ ~bestmove_is_sent THEN RespondBestmove
     ELSE UNCHANGED <<bestmove_is_sent, final_bestmove, output, current_best_edge>>
  /\ UNCHANGED <<stop, stop_reason, ok_to_respond, total_playouts, fresh, batch,
                 pending_searchers, initial_visits, clientVars>>

\* Mutant of MaybeTriggerStop: only the thread whose own verdict stops the search
\* answers; a stop() by the client is left to others.
MaybeTriggerStopOwnVerdict(t) ==
  /\ pc[t] = "trigger"
  /\ Goto(t, "info")
  /\ stats' = [stats EXCEPT ![t] = NoStats]
  /\ \/ /\ bestmove_is_sent \/ RootVisits = 0 \/ stop
        /\ UNCHANGED <<control, output, current_best_edge>>
     \/ /\ ~bestmove_is_sent /\ RootVisits > 0 /\ ~stop
        /\ \E verdict \in ShouldStop(stats[t]) :
             /\ stop' = (verdict # "none")
             /\ stop_reason' = verdict
             /\ IF verdict # "none" /\ ok_to_respond
                THEN RespondBestmove
                ELSE UNCHANGED <<bestmove_is_sent, final_bestmove, output,
                                 current_best_edge>>
        /\ UNCHANGED ok_to_respond
  /\ UNCHANGED <<total_playouts, fresh, batch, pending_searchers,
                 initial_visits, clientVars>>

\* The snapshot is dead after this step: every use is preceded by a new one.
MaybeTriggerStop(t) ==
  /\ pc[t] = "trigger"
  /\ Goto(t, "info")
  /\ stats' = [stats EXCEPT ![t] = NoStats]
  /\ \/ /\ bestmove_is_sent \/ RootVisits = 0
        /\ UNCHANGED <<control, output, current_best_edge>>
     \/ /\ ~bestmove_is_sent /\ RootVisits > 0
        /\ \E verdict \in IF stop THEN {stop_reason} ELSE ShouldStop(stats[t]) :
             /\ stop' = (verdict # "none")
             /\ stop_reason' = verdict
             /\ IF verdict # "none" /\ ok_to_respond
                THEN RespondBestmove
                ELSE UNCHANGED <<bestmove_is_sent, final_bestmove, output,
                                 current_best_edge>>
        /\ UNCHANGED ok_to_respond
  /\ UNCHANGED <<total_playouts, fresh, batch, pending_searchers,
                 initial_visits, clientVars>>

\* Info lines are a matter of time and depth, hence the free choice.
MaybeOutputInfo(t) ==
  /\ pc[t] = "info"
  /\ \/ UNCHANGED last_output
     \/ ~bestmove_is_sent /\ current_best_edge /\ last_output' = "info"
  /\ Goto(t, "check")
  /\ UNCHANGED <<control, bestmoves, work, pending_searchers, stats,
                 initial_visits, clientVars>>

\* End of the watchdog's round. wait_for() does not sleep if stop_ is set already.
WatchdogCheck ==
  /\ pc[Watchdog] = "check"
  /\ Goto(Watchdog, IF bestmove_is_sent THEN "done"
                    ELSE IF stop THEN "populate" ELSE "sleep")
  /\ UNCHANGED <<control, output, work, pending_searchers, stats,
                 initial_visits, clientVars>>

\* Notified, or at the latest after kMaxWaitTimeMs.
WatchdogWake ==
  /\ pc[Watchdog] = "sleep"
  /\ Goto(Watchdog, "populate")
  /\ UNCHANGED <<control, output, work, pending_searchers, stats,
                 initial_visits, clientVars>>

-----------------------------------------------------------------------------
(* The client: any thread that holds the Search.                           *)

Stop ==
  /\ client # "joined"
  /\ ok_to_respond' = TRUE
  /\ stop' = TRUE
  /\ stop_reason' = IF stop THEN stop_reason ELSE "stop"
  /\ UNCHANGED <<bestmove_is_sent, final_bestmove, output, work,
                 pending_searchers, pc, stats, initial_visits, clientVars>>

\* Mutant of Abort: it silences a search that is due to answer.
AbortRevokes ==
  /\ client # "joined"
  /\ bestmove_is_sent' = TRUE
  /\ stop' = TRUE
  /\ stop_reason' = IF stop THEN stop_reason ELSE "abort"
  /\ UNCHANGED <<ok_to_respond, final_bestmove, output, work,
                 pending_searchers, pc, stats, initial_visits, clientVars>>

\* Abort() silences a search unless it has stopped and is due to answer.
Abort ==
  /\ client # "joined"
  /\ IF ~stop \/ (~bestmove_is_sent /\ ~ok_to_respond)
     THEN /\ bestmove_is_sent' = TRUE
          /\ stop' = TRUE
          /\ stop_reason' = IF stop THEN stop_reason ELSE "abort"
     ELSE UNCHANGED <<bestmove_is_sent, stop, stop_reason>>
  /\ UNCHANGED <<ok_to_respond, final_bestmove, output, work,
                 pending_searchers, pc, stats, initial_visits, clientVars>>

\* Wait() joins every thread. Other client threads may still stop or abort.
Wait ==
  /\ client = "running"
  /\ client' = "waiting"
  /\ UNCHANGED <<control, output, work, pending_searchers, pc, stats, redraws,
                 initial_visits>>

Joined ==
  /\ client = "waiting"
  /\ \A t \in Thread : pc[t] = "done"
  /\ client' = "joined"
  /\ UNCHANGED <<control, output, work, pending_searchers, pc, stats, redraws,
                 initial_visits>>

GetBestMove ==
  /\ \E m \in EnsureBestMoveKnown(bestmove_is_sent) : final_bestmove' = m
  /\ UNCHANGED <<stop, ok_to_respond, bestmove_is_sent, stop_reason, output,
                 work, pending_searchers, pc, stats, initial_visits, clientVars>>

\* ResetBestMove() draws again, as if bestmove had not been sent.
ResetBestMove ==
  /\ \E m \in EnsureBestMoveKnown(FALSE) : final_bestmove' = m
  /\ redraws' = IF bestmove_is_sent THEN 1 - redraws ELSE redraws
  /\ UNCHANGED <<stop, ok_to_respond, bestmove_is_sent, stop_reason, output,
                 work, pending_searchers, pc, stats, client, initial_visits>>

-----------------------------------------------------------------------------
\* A new search responds by itself unless it is `go infinite` or `go ponder`.
Init ==
  /\ stop = FALSE
  /\ ok_to_respond \in BOOLEAN
  /\ bestmove_is_sent = FALSE
  /\ final_bestmove = NoMove
  /\ pending_searchers = MaxConcurrentSearchers
  /\ initial_visits \in InitialVisits
  /\ total_playouts = 0
  /\ current_best_edge = FALSE
  /\ pc = [t \in Thread |-> IF t = Watchdog THEN "populate" ELSE "gate"]
  /\ fresh = [w \in Worker |-> 0]
  /\ batch = [w \in Worker |-> 0]
  /\ stats = [t \in Thread |-> NoStats]
  /\ client = "running" /\ redraws = 0
  /\ stop_reason = "none"
  /\ bestmoves = <<>>
  /\ last_output = "none"

UpdateCounters(t) ==
  PopulateCommonIterationStats(t) \/ MaybeTriggerStop(t) \/ MaybeOutputInfo(t)

WorkerStep(w) ==
  \/ Gate(w) \/ ClaimPermit(w) \/ PickNodesToExtend(w) \/ ProcessPicked(w)
  \/ ReleasePermit(w) \/ ComputeAndBackUp(w) \/ UpdateCounters(w)
  \/ WorkerCheck(w)

WatchdogStep == UpdateCounters(Watchdog) \/ WatchdogCheck \/ WatchdogWake

ClientStep == Stop \/ Abort \/ Wait \/ Joined \/ GetBestMove \/ ResetBestMove

Next == (\E w \in Worker : WorkerStep(w)) \/ WatchdogStep \/ ClientStep

\* The operating system runs every thread, and join() returns. Nothing makes
\* the client call Stop(), Abort() or Wait(), and limits need not be reached.
Fairness ==
  /\ \A w \in Worker : WF_vars(WorkerStep(w))
  /\ WF_vars(WatchdogStep)
  /\ WF_vars(Joined)

Spec == Init /\ [][Next]_vars /\ Fairness

-----------------------------------------------------------------------------
(* Invariants.                                                             *)

Label == {"gate", "claim", "gather", "process", "release", "compute",
          "populate", "trigger", "info", "check", "sleep", "done"}

StopReason == {"none", "visits", "depth", "time", "single move",
               "no alternative", "win", "decided", "stop", "abort"}

TypeOK ==
  /\ stop \in BOOLEAN /\ ok_to_respond \in BOOLEAN /\ bestmove_is_sent \in BOOLEAN
  /\ final_bestmove \in Move \cup {NoMove}
  /\ pending_searchers \in Nat
  /\ initial_visits \in Nat /\ total_playouts \in Nat
  /\ current_best_edge \in BOOLEAN
  /\ pc \in [Thread -> Label]
  /\ fresh \in [Worker -> Nat] /\ batch \in [Worker -> Nat]
  /\ stats \in [Thread -> Stats]
  /\ client \in {"running", "waiting", "joined"} /\ redraws \in {0, 1}
  /\ stop_reason \in StopReason
  /\ bestmoves \in Seq(Move \cup {NoMove})
  /\ last_output \in {"none", "info", "bestmove"}

\* Whatever threads race to the decision, one bestmove at most is sent, and it
\* is the last thing the search says: no info line follows it.
BestmoveOnceAndLast ==
  /\ Len(bestmoves) <= 1
  /\ bestmoves # <<>> => last_output = "bestmove"

\* A search whose root has moves never answers with a default constructed move,
\* however early it was stopped.
BestmoveIsAMove ==
  RootMoves > 0 => \A i \in DOMAIN bestmoves : bestmoves[i] \in Move

Gathering == {w \in Worker : pc[w] \in {"gather", "process", "release"}}

\* Option max-concurrent-searchers: at most that many workers gather at once,
\* and no interleaving of claims, early returns and stops loses a permit.
PermitsConserved ==
  MaxConcurrentSearchers > 0 =>
    pending_searchers + Cardinality(Gathering) = MaxConcurrentSearchers

-----------------------------------------------------------------------------
(* Properties of steps, and liveness.                                      *)

\* search.h:153: the stored best move is kept once bestmove was sent or the
\* search was silenced; only an explicit ResetBestMove() draws it anew.
BestMoveIsStable ==
  [][bestmove_is_sent /\ UNCHANGED redraws => UNCHANGED final_bestmove]_vars

\* Visits taken back since thread t made the snapshot it decides on.
TakenSince(t) == stats[t].nodes - stats[t].playouts - initial_visits

\* search.cc:624: a visits limit is judged on a snapshot that others have outdated by
\* then. The root lacks no visit when the search stops for it, except those that were
\* taken back in between.
VisitLimitReached ==
  [][stop_reason' = "visits" /\ stop_reason # "visits" =>
       \E t \in Thread : /\ pc[t] = "trigger" /\ pc'[t] # "trigger"
                         /\ RootVisits + TakenSince(t) >= VisitLimit]_vars

\* A search that has been told to finish, whoever told it and however early, lets
\* Wait() return.
WaitReturns ==
  (client = "waiting" /\ stop /\ (ok_to_respond \/ bestmove_is_sent)) ~> client = "joined"

\* The search implements its promise: once stopped with leave to respond it
\* answers, a later Abort() notwithstanding; once silenced it never answers; and
\* a `go infinite` or `go ponder` answers only after Stop().
Promise == INSTANCE SearchPromise WITH
  phase <- IF bestmove_is_sent
           THEN IF bestmoves = <<>> THEN "silenced" ELSE "answered"
           ELSE IF stop /\ ok_to_respond THEN "committed" ELSE "open",
  answer <- IF bestmoves = <<>> THEN NoMove ELSE bestmoves[1]

KeepsPromise == Promise!Spec

-----------------------------------------------------------------------------
(* Statements of comments that the code does not keep.                     *)

\* stoppers.cc:210 logs "At most one non losing move, stopping search.": that
\* reason is given only where at most one move is not proven lost.
PruningJustified ==
  stop_reason = "no alternative" => RootMoves - LosingMoves <= 1

\* tournament.cc:60 offers the "Number of visits per move to search": the root has as
\* many when a search stops for that number.
VisitLimitKept ==
  [][stop_reason' = "visits" /\ stop_reason # "visits" => RootVisits >= VisitLimit]_vars

==============================================================================
