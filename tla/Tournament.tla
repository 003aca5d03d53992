------------------------------ MODULE Tournament ------------------------------
(***************************************************************************)
(* Self-play tournaments (src/src/selfplay): worker threads claim games    *)
(* and play them, one by one (SelfPlayGame::Play, game.cc) or as pairs of  *)
(* batches (MultiSelfPlayGames::Play, multigame.cc), while a client stops, *)
(* aborts, waits for or destroys the tournament (tournament.cc).           *)
(*                                                                         *)
(* A critical section of mutex_ is one step, except that of Abort(), which *)
(* visits the games one after the other. A search is what Abort() and      *)
(* Play() tell apart of it; the course of a game is the environment's.     *)
(***************************************************************************)
EXTENDS Integers, Sequences, FiniteSets

CONSTANTS
  Worker,     \* worker threads, kParallelism of them
  Modes,      \* kTotalGames and multi_games_size_: records [total, multi]
  Openings,   \* openings_.size()
  Mirrored,   \* option openings-mirrored
  Outcome,    \* results games may have, of "WHITE_WON", "DRAW" and "BLACK_WON"
  MaxPlies,   \* plies at which a game is cut: 450 in the code
  MaxGames    \* bound on the games of an endless tournament (kTotalGames = -1)

Undecided == "UNDECIDED"
GameResult == Outcome \cup {Undecided}

ASSUME TournamentAssumption ==
  /\ Worker # {} /\ IsFiniteSet(Worker)
  /\ Openings \in Nat /\ Mirrored \in BOOLEAN /\ MaxPlies \in Nat /\ MaxGames \in Nat
  /\ Outcome \subseteq {"WHITE_WON", "DRAW", "BLACK_WON"}
  /\ \A m \in Modes :
       /\ m.multi \in Nat /\ m.total \in Nat \cup {-1, -2}
       /\ m.multi > 0 => /\ Mirrored /\ Openings > 0 /\ m.total # -1
                         /\ m.total # -2 => m.total % 2 = 0 /\ m.total <= 2 * Openings

VARIABLES
  mode,               \* kTotalGames and multi_games_size_ of this tournament
  first_game_black_,  \* whether player 1 is black in the first game
  abort_,             \* of the tournament
  games_count_,       \* games claimed so far
  games,              \* games_ and multigames_, by worker: the games it created
  results,            \* tournament_info_.results[result of player 1][colour]
  finished,           \* tournament_info_.finished, as the final reports sent
  reported,           \* the games handed to game_callback_
  pc, claim, index,   \* of each worker: what is next, its games (first id and
                      \* count), the one it reports
  main,               \* the thread that owns the tournament
  todo, target,       \* Abort() in progress: games to visit, the one being aborted
  asked,              \* history: Abort() has returned
  cut                 \* history: games that reached MaxPlies undecided

played == <<games, results, reported, cut>>
local == <<pc, claim, index>>
client == <<main, todo, target, asked, finished>>
vars == <<mode, first_game_black_, abort_, games_count_, played, local, client>>

-----------------------------------------------------------------------------
(* Helpers.                                                                *)

\* Games in a tournament; openings_ may bound it (kTotalGames = -2).
Endless ==
  \/ mode.total = -1
  \/ mode.multi = 0 /\ mode.total = -2 /\ Openings = 0
Cap ==
  IF Endless THEN MaxGames
  ELSE IF mode.total = -2 THEN Openings * (IF Mirrored THEN 2 ELSE 1)
  ELSE mode.total

\* Abort() holds mutex_ until it has visited every game, and a game's own mutex while
\* it is busy with that game.
MutexFree == todo = {}
GameMutexFree(w) == target # <<w, Len(games[w])>>

NewGame(boards) ==
  [abort |-> FALSE, search |-> "none", plies |-> 0,
   results |-> [i \in 1..boards |-> Undecided]]

Game(w) == games[w][Len(games[w])]
Update(w, g) == games' = [games EXCEPT ![w][Len(games[w])] = g]
Goto(w, label) == pc' = [pc EXCEPT ![w] = label]
KeepPlaces == UNCHANGED <<mode, first_game_black_, client>>

AllGames == UNION {{<<w, i>> : i \in 1..Len(games[w])} : w \in Worker}
AllEnded == \A w \in Worker : pc[w] = "ended"

\* The game a worker reports next; those of a pair take turns.
ReportedGame(w) == games[w][1 + (index[w] % Len(games[w]))]
ReportedResult(w) == ReportedGame(w).results[1 + (index[w] \div Len(games[w]))]
GameId(w) == claim[w].id + index[w]
Player1Black(w) ==
  IF mode.multi = 0 THEN (GameId(w) % 2 = 1) # first_game_black_ ELSE index[w] % 2 = 1

-----------------------------------------------------------------------------
(* Workers.                                                                *)

\* Mutant of Claim: abort_ is not looked at between games.
ClaimOnceMore(w) ==
  LET to_take == IF mode.multi = 0 THEN 1
                 ELSE IF 2 * mode.multi < Cap - games_count_ THEN 2 * mode.multi
                 ELSE Cap - games_count_
  IN
  /\ pc[w] = "claim" /\ MutexFree
  /\ IF games_count_ >= Cap /\ ~Endless
       THEN Goto(w, "ended") /\ UNCHANGED <<games_count_, claim, index>>
       ELSE /\ games_count_ < Cap
            /\ claim' = [claim EXCEPT ![w] = [id |-> games_count_, count |-> to_take]]
            /\ games_count_' = games_count_ + to_take
            /\ index' = [index EXCEPT ![w] = 0]
            /\ Goto(w, "create")
  /\ KeepPlaces /\ UNCHANGED <<abort_, played>>

\* Worker: take the next game, or the next batch of them, unless none is left.
Claim(w) ==
  LET to_take == IF mode.multi = 0 THEN 1
                 ELSE IF 2 * mode.multi < Cap - games_count_ THEN 2 * mode.multi
                 ELSE Cap - games_count_
  IN
  /\ pc[w] = "claim" /\ MutexFree
  /\ IF abort_ \/ (games_count_ >= Cap /\ ~Endless)
       THEN Goto(w, "ended") /\ UNCHANGED <<games_count_, claim, index>>
       ELSE /\ games_count_ < Cap
            /\ claim' = [claim EXCEPT ![w] = [id |-> games_count_, count |-> to_take]]
            /\ games_count_' = games_count_ + to_take
            /\ index' = [index EXCEPT ![w] = 0]
            /\ Goto(w, "create")
  /\ KeepPlaces /\ UNCHANGED <<abort_, played>>

\* PlayOneGame, PlayMultiGames: a new game is put into the list, where Abort() finds
\* it. Only the second looks at abort_ again.
CreateGame(w) ==
  /\ pc[w] = "create" /\ MutexFree
  /\ games' = [games EXCEPT ![w] =
       Append(@, NewGame(IF mode.multi = 0 THEN 1 ELSE claim[w].count \div 2))]
  /\ Goto(w, IF mode.multi = 0 THEN "loop"
             ELSE IF ~abort_ THEN "round"
             ELSE IF games[w] = <<>> THEN "create" ELSE "report")
  /\ KeepPlaces
  /\ UNCHANGED <<abort_, games_count_, results, reported, cut, claim, index>>

\* SelfPlayGame::Play: the head of its loop, without a lock.
Loop(w) ==
  /\ pc[w] = "loop"
  /\ \/ /\ Game(w).abort
        /\ Goto(w, "report")
        /\ UNCHANGED <<games, cut>>
     \/ /\ ~Game(w).abort
        /\ \E r \in GameResult :
             /\ Update(w, [Game(w) EXCEPT !.results[1] = r])
             /\ LET long == r = Undecided /\ Game(w).plies >= MaxPlies IN
                /\ cut' = IF long THEN cut \cup {GameId(w)} ELSE cut
                /\ Goto(w, IF long \/ r # Undecided THEN "report" ELSE "start")
  /\ KeepPlaces
  /\ UNCHANGED <<abort_, games_count_, results, reported, claim, index>>

\* Mutant of StartSearch: the abort_ of the tournament is tested.
StartSearchUnlessStopped(w) ==
  /\ pc[w] = "start" /\ GameMutexFree(w)
  /\ IF abort_
       THEN Goto(w, "report") /\ UNCHANGED games
       ELSE Goto(w, "search") /\ Update(w, [Game(w) EXCEPT !.search = "running"])
  /\ KeepPlaces
  /\ UNCHANGED <<abort_, games_count_, results, reported, cut, claim, index>>

\* SelfPlayGame::Play: under the mutex of the game a search is made, unless aborted.
StartSearch(w) ==
  /\ pc[w] = "start" /\ GameMutexFree(w)
  /\ IF Game(w).abort
       THEN Goto(w, "report") /\ UNCHANGED games
       ELSE Goto(w, "search") /\ Update(w, [Game(w) EXCEPT !.search = "running"])
  /\ KeepPlaces
  /\ UNCHANGED <<abort_, games_count_, results, reported, cut, claim, index>>

\* The search comes to its end, by its limits or by Abort().
RunBlocking(w) ==
  /\ pc[w] = "search"
  /\ Update(w, [Game(w) EXCEPT !.search = IF @ = "running" THEN "done" ELSE @])
  /\ Goto(w, "searched")
  /\ KeepPlaces
  /\ UNCHANGED <<abort_, games_count_, results, reported, cut, claim, index>>

\* Mutant of Searched: the search is not asked whether it was aborted.
SearchedAnyway(w) ==
  /\ pc[w] = "searched"
  /\ \/ \E r \in Outcome : Update(w, [Game(w) EXCEPT !.results[1] = r])
        /\ Goto(w, "report")
     \/ Goto(w, "pick") /\ UNCHANGED games
  /\ KeepPlaces
  /\ UNCHANGED <<abort_, games_count_, results, reported, cut, claim, index>>

\* After the search: give up if aborted, adjudicate, or go on to pick a move.
Searched(w) ==
  /\ pc[w] = "searched"
  /\ \/ Game(w).abort /\ Goto(w, "report") /\ UNCHANGED games
     \/ /\ ~Game(w).abort
        /\ \/ \E r \in Outcome : Update(w, [Game(w) EXCEPT !.results[1] = r])
              /\ Goto(w, "report")
           \/ Goto(w, "pick") /\ UNCHANGED games
  /\ KeepPlaces
  /\ UNCHANGED <<abort_, games_count_, results, reported, cut, claim, index>>

\* GetBestMove, discarding until the move has visits enough; then search_.reset(),
\* without a lock, and MakeMove.
MakeMove(w) ==
  /\ pc[w] = "pick"
  /\ Update(w, [Game(w) EXCEPT !.search = "none", !.plies = @ + 1])
  /\ Goto(w, "loop")
  /\ KeepPlaces
  /\ UNCHANGED <<abort_, games_count_, results, reported, cut, claim, index>>

\* MultiSelfPlayGames::Play: abort_ is looked at once a round.
RoundStart(w) ==
  /\ pc[w] = "round" /\ GameMutexFree(w)
  /\ Goto(w, IF ~Game(w).abort THEN "evaluate"
             ELSE IF Len(games[w]) = 1 THEN "create" ELSE "report")
  /\ KeepPlaces /\ UNCHANGED <<abort_, games_count_, played, claim, index>>

\* MultiSelfPlayGames::Play: results are brought up to date, then a move is made in the
\* games of one side. A game of chess ends at last: by MaxPlies here.
Round(w) ==
  /\ pc[w] = "evaluate"
  /\ \E new \in [DOMAIN Game(w).results -> GameResult] :
       /\ \A i \in DOMAIN new :
            /\ Game(w).results[i] # Undecided => new[i] = Game(w).results[i]
            /\ Game(w).plies >= MaxPlies => new[i] # Undecided
       /\ LET all_done == \A i \in DOMAIN new : new[i] # Undecided IN
          /\ Update(w, [Game(w) EXCEPT !.results = new,
                                       !.plies = IF all_done THEN @ ELSE @ + 1])
          /\ Goto(w, IF ~all_done THEN "round"
                     ELSE IF Len(games[w]) = 1 THEN "create" ELSE "report")
  /\ KeepPlaces
  /\ UNCHANGED <<abort_, games_count_, results, reported, cut, claim, index>>

\* game_callback_ gets every game that has a result, outside of the lock.
Report(w) ==
  /\ pc[w] = "report" /\ index[w] < claim[w].count
  /\ \/ /\ ReportedResult(w) = Undecided
        /\ index' = [index EXCEPT ![w] = @ + 1]
        /\ UNCHANGED <<reported, pc>>
     \/ /\ ReportedResult(w) # Undecided
        /\ reported' = reported \cup
             {[id |-> GameId(w), black |-> Player1Black(w), result |-> ReportedResult(w)]}
        /\ Goto(w, "tally")
        /\ UNCHANGED index
  /\ KeepPlaces
  /\ UNCHANGED <<abort_, games_count_, games, results, cut, claim>>

\* Mutant of Tally: the row is that of white's result.
TallyByWhite(w) ==
  LET result == CASE ReportedResult(w) = "WHITE_WON" -> 0
                  [] ReportedResult(w) = "DRAW" -> 1
                  [] OTHER -> 2
      row == result
      column == IF Player1Black(w) THEN 1 ELSE 0
  IN
  /\ pc[w] = "tally" /\ MutexFree
  /\ results' = [results EXCEPT ![row][column] = @ + 1]
  /\ index' = [index EXCEPT ![w] = @ + 1]
  /\ Goto(w, "report")
  /\ KeepPlaces
  /\ UNCHANGED <<abort_, games_count_, games, reported, cut, claim>>

\* Its result is added to the table: 0 for a win of player 1, 1 for a draw, 2 for a loss.
Tally(w) ==
  LET result == CASE ReportedResult(w) = "WHITE_WON" -> 0
                  [] ReportedResult(w) = "DRAW" -> 1
                  [] OTHER -> 2
      row == IF Player1Black(w) THEN 2 - result ELSE result
      column == IF Player1Black(w) THEN 1 ELSE 0
  IN
  /\ pc[w] = "tally" /\ MutexFree
  /\ results' = [results EXCEPT ![row][column] = @ + 1]
  /\ index' = [index EXCEPT ![w] = @ + 1]
  /\ Goto(w, "report")
  /\ KeepPlaces
  /\ UNCHANGED <<abort_, games_count_, games, reported, cut, claim>>

\* The games are over and taken from the list.
Erase(w) ==
  /\ pc[w] = "report" /\ index[w] = claim[w].count /\ MutexFree
  /\ games' = [games EXCEPT ![w] = <<>>]
  /\ Goto(w, "claim")
  /\ KeepPlaces
  /\ UNCHANGED <<abort_, games_count_, results, reported, cut, claim, index>>

-----------------------------------------------------------------------------
(* The client.                                                             *)

StartAsync ==
  /\ main = "new"
  /\ pc' = [w \in Worker |-> "claim"]
  /\ main' = "started"
  /\ UNCHANGED <<mode, first_game_black_, abort_, games_count_, played, claim,
                 index, todo, target, asked, finished>>

Wait ==
  /\ main = "started"
  /\ main' = "wait"
  /\ UNCHANGED <<mode, first_game_black_, abort_, games_count_, played, local, todo,
                 target, asked, finished>>

\* Mutant of Joined: the final report is sent in any case.
JoinedFinished ==
  /\ main \in {"wait", "rejoin"} /\ AllEnded /\ MutexFree
  /\ finished' = finished + 1
  /\ main' = IF main = "wait" THEN "returned" ELSE "destroyed"
  /\ UNCHANGED <<mode, first_game_black_, abort_, games_count_, played, local, todo,
                 target, asked>>

\* Wait, once the threads are joined: the final report, but not after Abort() or Stop().
Joined ==
  /\ main \in {"wait", "rejoin"} /\ AllEnded /\ MutexFree
  /\ finished' = IF abort_ THEN finished ELSE finished + 1
  /\ main' = IF main = "wait" THEN "returned" ELSE "destroyed"
  /\ UNCHANGED <<mode, first_game_black_, abort_, games_count_, played, local, todo,
                 target, asked>>

Stop ==
  /\ main \in {"started", "wait", "returned"} /\ ~abort_ /\ MutexFree
  /\ abort_' = TRUE
  /\ UNCHANGED <<mode, first_game_black_, games_count_, played, local, client>>

\* Abort: the games in the lists are visited under mutex_, in any order.
AbortBegin ==
  /\ MutexFree
  /\ abort_' = TRUE
  /\ todo' = AllGames
  /\ asked' = (AllGames = {})
  /\ UNCHANGED <<mode, first_game_black_, games_count_, played, local, target, finished>>

\* One Abort() while games are played is enough: the next one finds the same.
Abort ==
  /\ main \in {"started", "wait", "returned"} /\ ~asked
  /\ AbortBegin
  /\ UNCHANGED main

AbortNext(g) == todo' = todo \ {g} /\ target' = <<>> /\ asked' = (todo' = {})

\* SelfPlayGame::Abort: abort_ is set, then the search is aborted if there is one.
AbortGame(g) ==
  /\ g \in todo /\ target = <<>>
  /\ games' = [games EXCEPT ![g[1]][g[2]].abort = TRUE]
  /\ IF games[g[1]][g[2]].search = "none"
       THEN AbortNext(g)
       ELSE target' = g /\ UNCHANGED <<todo, asked>>
  /\ UNCHANGED <<mode, first_game_black_, abort_, games_count_, results, reported, cut,
                 local, main, finished>>

\* The call is left without effect on a search that is over, or destroyed meanwhile.
AbortSearch ==
  /\ target # <<>>
  /\ games' = [games EXCEPT ![target[1]][target[2]].search =
                 IF @ = "running" THEN "aborted" ELSE @]
  /\ AbortNext(target)
  /\ UNCHANGED <<mode, first_game_black_, abort_, games_count_, results, reported, cut,
                 local, main, finished>>

\* The destructor: Abort(), then Wait().
Destroy ==
  /\ main \in {"started", "returned"}
  /\ AbortBegin
  /\ main' = "destroy"

DestroyWait ==
  /\ main = "destroy" /\ MutexFree
  /\ main' = "rejoin"
  /\ UNCHANGED <<mode, first_game_black_, abort_, games_count_, played, local, todo,
                 target, asked, finished>>

-----------------------------------------------------------------------------
Init ==
  /\ mode \in Modes
  /\ first_game_black_ \in (IF mode.total # 1 THEN BOOLEAN ELSE {FALSE})
  /\ abort_ = FALSE /\ games_count_ = 0
  /\ games = [w \in Worker |-> <<>>]
  /\ results = [row \in 0..2 |-> [column \in 0..1 |-> 0]]
  /\ reported = {} /\ cut = {} /\ finished = 0
  /\ pc = [w \in Worker |-> "none"]
  /\ claim = [w \in Worker |-> [id |-> 0, count |-> 0]]
  /\ index = [w \in Worker |-> 0]
  /\ main = "new" /\ todo = {} /\ target = <<>> /\ asked = FALSE

WorkerStep(w) ==
  \/ Claim(w) \/ CreateGame(w) \/ Report(w) \/ Tally(w) \/ Erase(w)
  \/ Loop(w) \/ StartSearch(w) \/ RunBlocking(w) \/ Searched(w) \/ MakeMove(w)
  \/ RoundStart(w) \/ Round(w)

AbortStep == AbortSearch \/ \E g \in AllGames : AbortGame(g)

Next ==
  \/ \E w \in Worker : WorkerStep(w)
  \/ AbortStep \/ StartAsync \/ Wait \/ Joined \/ Stop \/ Abort \/ Destroy \/ DestroyWait

\* Threads run, searches come to their end (a limit is required for self-play), and a
\* thread waiting for mutex_ gets it at last.
Fairness ==
  /\ \A w \in Worker : WF_vars(WorkerStep(w))
  /\ WF_vars(AbortStep) /\ WF_vars(Joined) /\ WF_vars(DestroyWait)

Spec == Init /\ [][Next]_vars /\ Fairness

-----------------------------------------------------------------------------
(* Properties.                                                             *)

\* tournament.cc:415: the table holds each reported game once, in the row of player 1's
\* result whatever colour it had, and no game is reported twice, whichever workers
\* played the two games of a pair.
ResultsMatchReports ==
  LET Score(g) == IF g.result = "DRAW" THEN 1
                  ELSE IF (g.result = "WHITE_WON") = g.black THEN 2 ELSE 0
      InHand == {GameId(w) : w \in {v \in Worker : pc[v] = "tally"}}
  IN
  /\ \A g, h \in reported : g.id = h.id => g = h
  /\ \A row \in 0..2, column \in 0..1 :
       results[row][column] =
         Cardinality({g \in reported : /\ g.id \notin InHand
                                       /\ Score(g) = row
                                       /\ g.black = (column = 1)})

\* tournament.cc:623: the final report is sent once, when every game of the tournament
\* was played and counted; a tournament that was stopped or aborted sends none.
FinalReportComplete ==
  /\ finished <= 1
  /\ finished = 1 => /\ AllEnded /\ ~Endless
                     /\ {g.id : g \in reported} \cup cut = 0..(Cap - 1)

\* tournament.h:65: after Stop() the games in progress are played to their end: a game
\* is undecided only if Abort() was called, it was cut, or it was not begun.
OnlyAbortLeavesUndecided ==
  \A w \in Worker : \A i \in DOMAIN games[w] :
    LET g == games[w][i] IN
    pc[w] \in {"report", "tally"} /\ Undecided \in {g.results[b] : b \in DOMAIN g.results}
      => \/ asked \/ todo # {}
         \/ mode.multi = 0 /\ claim[w].id \in cut
         \/ mode.multi > 0 /\ g.plies = 0 /\ abort_

\* game.cc:166: a move is picked from a search that came to its own end, never from one
\* that Abort() cut short.
MovesOfFinishedSearches ==
  [][\A w \in Worker : pc[w] = "pick" /\ pc'[w] # "pick" => Game(w).search = "done"]_vars

\* Wait() and the destructor return: every worker finds an end, also those that were
\* between two games when the tournament was aborted or stopped.
WaitReturns ==
  /\ main = "wait" /\ (abort_ \/ ~Endless) ~> main # "wait"
  /\ main = "destroy" ~> main = "destroyed"

===============================================================================
