----------------------------- MODULE TournamentProofs -----------------------------
(***************************************************************************)
(* Theorems about Tournament for any number of workers, games, openings    *)
(* and plies: the table agrees with the games reported, the final report   *)
(* is complete, games are left undecided only for the reasons the code     *)
(* gives, and no move is taken from an aborted search.                     *)
(*                                                                         *)
(* Each game of the tournament is claimed by one worker, and it is either  *)
(* still to be looked at by that worker, or was reported or cut. While     *)
(* Abort() visits the games, the lists do not change; a game it aborted    *)
(* keeps that mark, and its search is aborted only after the mark is set.  *)
(***************************************************************************)
EXTENDS Tournament, FunctionTheorems, FiniteSetTheorems, TLAPS

Places == {"none", "claim", "create", "loop", "start", "search", "searched", "pick", "round",
           "evaluate", "report", "tally", "ended"}

\* Where a worker has games claimed, and where it plays one by one.
Active(w) == pc[w] \notin {"none", "claim", "ended"}
Single == {"loop", "start", "search", "searched", "pick"}

\* The boards of a game of the worker, and such a game.
Boards(w) == IF mode.multi = 0 THEN 1 ELSE claim[w].count \div 2
GameOf(boards) ==
  [abort : BOOLEAN, search : {"none", "running", "done", "aborted"}, plies : Nat,
   results : [1..boards -> GameResult]]
GameReport == [id : Nat, black : BOOLEAN, result : Outcome]

TypeOK ==
  /\ mode \in Modes /\ first_game_black_ \in BOOLEAN /\ abort_ \in BOOLEAN
  /\ games_count_ \in Nat /\ finished \in Nat /\ asked \in BOOLEAN
  /\ main \in {"new", "started", "wait", "returned", "destroy", "rejoin", "destroyed"}
  /\ results \in [0..2 -> [0..1 -> Nat]]
  /\ reported \subseteq GameReport /\ IsFiniteSet(reported) /\ cut \subseteq Nat
  /\ pc \in [Worker -> Places]
  /\ claim \in [Worker -> [id : Nat, count : Nat]] /\ index \in [Worker -> Nat]
  /\ DOMAIN games = Worker
  /\ \A w \in Worker : games[w] \in Seq(GameOf(Boards(w)))

\* How many games the list of a worker has.
Lists ==
  \A w \in Worker :
    /\ ~Active(w) => games[w] = <<>>
    /\ mode.multi = 0 => /\ pc[w] \notin {"round", "evaluate"}
                         /\ pc[w] = "create" => games[w] = <<>>
                         /\ pc[w] \in Single \cup {"report", "tally"} => Len(games[w]) = 1
    /\ mode.multi > 0 => /\ pc[w] \notin Single
                         /\ pc[w] = "create" => Len(games[w]) < 2
                         /\ pc[w] \in {"round", "evaluate"} => Len(games[w]) \in 1..2
                         /\ pc[w] \in {"report", "tally"} => Len(games[w]) = 2

\* Who claimed which games, and how far a worker is with reporting them.
Claims ==
  /\ games_count_ <= Cap
  /\ mode.multi > 0 => games_count_ % 2 = 0
  /\ \A w \in Worker : Active(w) =>
       /\ claim[w].id + claim[w].count <= games_count_
       /\ IF mode.multi = 0 THEN claim[w].count = 1
          ELSE claim[w].count > 0 /\ claim[w].count % 2 = 0
       /\ index[w] <= claim[w].count
       /\ pc[w] \notin {"report", "tally"} => index[w] = 0
       /\ pc[w] = "tally" => index[w] < claim[w].count
  /\ \A v, w \in Worker : v # w /\ Active(v) /\ Active(w) =>
       \/ claim[v].id + claim[v].count <= claim[w].id
       \/ claim[w].id + claim[w].count <= claim[v].id

\* The games a worker has claimed and not yet reported, and the report it makes next.
Remaining(w) == (claim[w].id + index[w])..(claim[w].id + claim[w].count - 1)
ReportOf(w) == [id |-> GameId(w), black |-> Player1Black(w), result |-> ReportedResult(w)]

\* A game is reported once, by the worker that claimed it.
Reports ==
  /\ \A g, h \in reported : g.id = h.id => g = h
  /\ \A g \in reported :
       /\ g.id < games_count_
       /\ \A w \in Worker : Active(w) /\ g.id \in Remaining(w) =>
            pc[w] = "tally" /\ g.id = GameId(w)
  /\ \A w \in Worker : pc[w] = "tally" => ReportOf(w) \in reported
  /\ \A id \in cut : id < games_count_

\* The table has the reports, but for those that are still to be added.
Score(g) == IF g.result = "DRAW" THEN 1
            ELSE IF (g.result = "WHITE_WON") = g.black THEN 2 ELSE 0
InHand == {GameId(w) : w \in {v \in Worker : pc[v] = "tally"}}
Row(row, column) ==
  {g \in reported : g.id \notin InHand /\ Score(g) = row /\ g.black = (column = 1)}
Table == \A row \in 0..2, column \in 0..1 : results[row][column] = Cardinality(Row(row, column))

\* Abort() was called. Each game it has visited is marked, and no list changes before it
\* has visited them all.
AbortCalled == asked \/ todo # {}
Aborting ==
  /\ AbortCalled => abort_
  /\ todo \subseteq AllGames
  /\ target # <<>> => target \in todo /\ games[target[1]][target[2]].abort
  /\ \A w \in Worker : \A i \in 1..Len(games[w]) :
       /\ games[w][i].abort => AbortCalled
       /\ games[w][i].search = "aborted" => games[w][i].abort

\* A worker picks a move from a search that is done.
Searches ==
  \A w \in Worker :
    /\ pc[w] = "searched" => Game(w).search \in {"done", "aborted"}
    /\ pc[w] = "search" => Game(w).search # "none"
    /\ pc[w] = "pick" => Game(w).search = "done"

\* Why a game that is over may be undecided.
Excused(w, i) ==
  \/ AbortCalled
  \/ mode.multi = 0 /\ claim[w].id \in cut
  \/ mode.multi > 0 /\ games[w][i].plies = 0 /\ abort_
Over(w, i) == i < Len(games[w]) \/ pc[w] \in {"create", "report", "tally"}
Settled ==
  \A w \in Worker : \A i \in 1..Len(games[w]) :
    Over(w, i) /\ (\E b \in 1..Boards(w) : games[w][i].results[b] = Undecided) => Excused(w, i)

\* Without abort_, no game is lost.
Counted == {g.id : g \in reported} \cup cut
Complete ==
  /\ ~abort_ => \A id \in 0..(games_count_ - 1) :
                  id \in Counted \/ \E w \in Worker : Active(w) /\ id \in Remaining(w)
  /\ ~abort_ => \A w \in Worker : pc[w] = "ended" => games_count_ >= Cap /\ ~Endless

\* The owner: threads are started once, and joined before the final report.
Owner ==
  /\ main = "new" => \A w \in Worker : pc[w] = "none"
  /\ main \in {"new", "started", "wait"} => finished = 0
  /\ main \in {"destroy", "rejoin", "destroyed"} => abort_
  /\ finished <= 1
  /\ finished = 1 => /\ AllEnded /\ ~Endless /\ Counted = 0..(Cap - 1)

TournamentInv ==
  /\ TypeOK /\ Lists /\ Claims /\ Reports /\ Table /\ Aborting /\ Searches /\ Settled
  /\ Complete /\ Owner

-----------------------------------------------------------------------------
(* Steps.                                                                  *)

\* Tournaments in which pairs of batches are played have an even number of games.
LEMMA CapOf ==
  ASSUME TypeOK
  PROVE  /\ mode.multi \in Nat /\ Cap \in Nat
         /\ mode.multi > 0 => Cap % 2 = 0 /\ ~Endless
<1>1. mode \in Modes
    BY DEF TypeOK
<1>2. /\ mode.multi \in Nat /\ mode.total \in Nat \cup {-1, -2}
      /\ mode.multi > 0 => /\ Mirrored /\ Openings > 0 /\ mode.total # -1
                           /\ mode.total # -2 => mode.total % 2 = 0
      /\ Openings \in Nat /\ MaxGames \in Nat
    BY <1>1, TournamentAssumption
<1>3. Cap \in Nat
    BY <1>2 DEF Cap, Endless
<1>4. ASSUME mode.multi > 0 PROVE Cap % 2 = 0 /\ ~Endless
    BY <1>2, <1>4 DEF Cap, Endless
<1> QED
    BY <1>2, <1>3, <1>4

\* What a tournament is like does not change.
LEMMA ModeKept ==
  [Next]_vars => /\ mode' = mode /\ first_game_black_' = first_game_black_
                 /\ Cap' = Cap /\ Endless' = Endless
<1> SUFFICES ASSUME [Next]_vars PROVE mode' = mode /\ first_game_black_' = first_game_black_
    BY DEF Cap, Endless
<1> QED
    BY DEF Next, vars, WorkerStep, KeepPlaces, Claim, CreateGame, Report, Tally, Erase, Loop,
           StartSearch, RunBlocking, Searched, MakeMove, RoundStart, Round, AbortStep, AbortGame,
           AbortSearch, StartAsync, Wait, Joined, Stop, Abort, AbortBegin, Destroy, DestroyWait

\* A worker leaves the owner and the other workers alone.
LEMMA OthersKept ==
  ASSUME TypeOK, NEW w \in Worker, WorkerStep(w)
  PROVE  /\ UNCHANGED <<abort_, client>>
         /\ \A v \in Worker : v # w =>
              pc'[v] = pc[v] /\ claim'[v] = claim[v] /\ index'[v] = index[v] /\ games'[v] = games[v]
<1> USE DEF TypeOK, KeepPlaces, Goto, Update, played
<1>1. CASE Claim(w) \/ CreateGame(w)
    BY <1>1 DEF Claim, CreateGame
<1>2. CASE Report(w) \/ Tally(w) \/ Erase(w)
    BY <1>2 DEF Report, Tally, Erase
<1>3. CASE Loop(w) \/ StartSearch(w) \/ RunBlocking(w)
    BY <1>3 DEF Loop, StartSearch, RunBlocking
<1>4. CASE Searched(w) \/ MakeMove(w)
    BY <1>4 DEF Searched, MakeMove
<1>5. CASE RoundStart(w) \/ Round(w)
    BY <1>5 DEF RoundStart, Round
<1> QED
    BY <1>1, <1>2, <1>3, <1>4, <1>5 DEF WorkerStep

\* The game a worker plays is the last of its list.
Playing == Single \cup {"round", "evaluate"}

\* A worker that plays has a game.
LEMMA GamePlayed ==
  ASSUME TypeOK, Lists, NEW w \in Worker, pc[w] \in Playing
  PROVE  /\ games[w] \in Seq(GameOf(Boards(w))) /\ Len(games[w]) \in 1..Len(games[w])
         /\ Len(games[w]) \in Nat
         /\ Game(w) \in GameOf(Boards(w)) /\ Game(w) = games[w][Len(games[w])]
         /\ mode.multi = 0 => Boards(w) = 1
<1>1. games[w] \in Seq(GameOf(Boards(w))) /\ mode.multi \in Nat
    BY CapOf DEF TypeOK
<1>2. Len(games[w]) > 0
  <2>1. CASE mode.multi = 0
      BY <2>1 DEF Lists, Playing, Single
  <2>2. CASE mode.multi > 0
    <3>1. pc[w] \in {"round", "evaluate"}
        BY <2>2 DEF Lists, Playing
    <3>2. Len(games[w]) \in 1..2
        BY <2>2, <3>1 DEF Lists
    <3>3. \A x \in 1..2 : x > 0
        OBVIOUS
    <3> QED
        BY <3>2, <3>3
  <2> QED
      BY <1>1, <2>1, <2>2
<1>3. Len(games[w]) \in Nat /\ Len(games[w]) \in 1..Len(games[w])
    BY <1>1, <1>2
<1>4. games[w][Len(games[w])] \in GameOf(Boards(w))
    BY <1>1, <1>3
<1> QED
    BY <1>1, <1>3, <1>4 DEF Game, Boards

\* The last game of a list is replaced.
Replaced(w, g) ==
  /\ games'[w] \in Seq(GameOf(Boards(w))) /\ Len(games'[w]) = Len(games[w])
  /\ games'[w][Len(games[w])] = g
  /\ \A i \in 1..Len(games[w]) : i # Len(games[w]) => games'[w][i] = games[w][i]
  /\ DOMAIN games' = Worker

\* What is put in a place of a list leaves the others alone.
LEMMA ReplacedIn ==
  ASSUME NEW S, NEW s \in Seq(S), NEW n \in 1..Len(s), NEW g \in S
  PROVE  /\ [s EXCEPT ![n] = g] \in Seq(S) /\ Len([s EXCEPT ![n] = g]) = Len(s)
         /\ [s EXCEPT ![n] = g][n] = g
         /\ \A i \in 1..Len(s) : i # n => [s EXCEPT ![n] = g][i] = s[i]
OBVIOUS

\* Update() replaces the game that is played.
LEMMA UpdateReplaces ==
  ASSUME TypeOK, Lists, NEW w \in Worker, pc[w] \in Playing,
         NEW g \in GameOf(Boards(w)), Update(w, g)
  PROVE  Replaced(w, g)
<1> DEFINE n == Len(games[w])
<1>1. games[w] \in Seq(GameOf(Boards(w))) /\ n \in 1..n /\ DOMAIN games = Worker
    BY GamePlayed DEF TypeOK
<1>2. games' = [games EXCEPT ![w] = [games[w] EXCEPT ![n] = g]]
    BY DEF Update
<1>3. games'[w] = [games[w] EXCEPT ![n] = g] /\ DOMAIN games' = Worker
    BY <1>1, <1>2
<1> QED
    BY <1>1, <1>3, ReplacedIn DEF Replaced

\* What playing does to the game of a worker.
PlayEffect(w, g) ==
  /\ g \in GameOf(Boards(w)) /\ Replaced(w, g)
  /\ g.abort = Game(w).abort
  /\ g.search = "aborted" => Game(w).search = "aborted"
  /\ UNCHANGED <<games_count_, results, reported, claim, index>>
  /\ cut' = cut \/ (cut' = cut \cup {GameId(w)} /\ mode.multi = 0)
  /\ pc[w] \in Playing /\ pc' = [pc EXCEPT ![w] = pc'[w]]
  /\ mode.multi = 0 => pc'[w] \in Single \cup {"report"}
  /\ mode.multi > 0 => \/ pc'[w] \in {"round", "evaluate"}
                       \/ pc'[w] = "create" /\ Len(games[w]) = 1
                       \/ pc'[w] = "report" /\ Len(games[w]) = 2
  /\ pc'[w] \in {"create", "report"} =>
       \/ \A b \in 1..Boards(w) : g.results[b] # Undecided
       \/ g.abort
       \/ mode.multi = 0 /\ GameId(w) \in cut'
  /\ pc'[w] = "searched" => g.search \in {"done", "aborted"}
  /\ pc'[w] = "search" => g.search # "none"
  /\ pc'[w] = "pick" => g.search = "done"

Play(w) ==
  \/ Loop(w) \/ StartSearch(w) \/ RunBlocking(w) \/ Searched(w) \/ MakeMove(w)
  \/ RoundStart(w) \/ Round(w)

\* Each step of a game has the effects above.
LEMMA PlayHasEffect ==
  ASSUME TypeOK, Lists, Claims, Aborting, Searches, NEW w \in Worker, Play(w)
  PROVE  \E g \in GameOf(Boards(w)) : PlayEffect(w, g)
<1> DEFINE x == Game(w)
           n == Boards(w)
<1>1. /\ x \in GameOf(n) /\ Len(games[w]) \in 1..Len(games[w]) /\ x = games[w][Len(games[w])]
      /\ mode.multi = 0 => n = 1
      /\ pc[w] \in Playing
  <2>1. pc[w] \in Playing
      BY DEF Play, Loop, StartSearch, RunBlocking, Searched, MakeMove, RoundStart, Round,
             Playing, Single
  <2> QED
      BY <2>1, GamePlayed
<1>2. /\ x.abort \in BOOLEAN /\ x.search \in {"none", "running", "done", "aborted"}
      /\ x.plies \in Nat /\ x.results \in [1..n -> GameResult]
    BY <1>1 DEF GameOf
<1>3. x.search = "aborted" => x.abort
    BY <1>1 DEF Aborting
<1>4. /\ pc \in [Worker -> Places] /\ mode.multi \in Nat
      /\ mode.multi = 0 => pc[w] \in Single
      /\ mode.multi > 0 => pc[w] \in {"round", "evaluate"} /\ Len(games[w]) \in 1..2
    BY <1>1, CapOf DEF TypeOK, Lists, Playing
<1>5. ASSUME games' = games PROVE Replaced(w, x)
    BY <1>1, <1>5 DEF TypeOK, Replaced
<1>6. /\ pc[w] = "searched" => x.search \in {"done", "aborted"}
      /\ pc[w] = "search" => x.search # "none"
      /\ pc[w] = "pick" => x.search = "done"
    BY DEF Searches
<1>7. ASSUME NEW g \in GameOf(n), Update(w, g) PROVE Replaced(w, g)
    BY <1>1, <1>7, UpdateReplaces
<1> HIDE DEF x
<1> USE DEF Goto, played
<1>8. ASSUME Loop(w) PROVE \E g \in GameOf(n) : PlayEffect(w, g)
  <2>1. pc[w] = "loop" /\ mode.multi = 0 /\ n = 1
      BY <1>1, <1>4, <1>8 DEF Loop
  <2>2. UNCHANGED <<games_count_, results, reported, claim, index>>
      BY <1>8 DEF Loop
  <2>3. CASE x.abort /\ games' = games /\ cut' = cut /\ pc' = [pc EXCEPT ![w] = "report"]
    <3>1. pc'[w] = "report"
        BY <1>4, <2>3
    <3>2. PlayEffect(w, x)
        BY <1>1, <1>2, <1>4, <1>5, <2>1, <2>2, <2>3, <3>1 DEF PlayEffect, x, Playing
    <3> QED
        BY <1>1, <3>2
  <2>4. ASSUME NEW r \in GameResult, Update(w, [x EXCEPT !.results[1] = r]), ~x.abort,
               LET long == r = Undecided /\ x.plies >= MaxPlies IN
                 /\ cut' = IF long THEN cut \cup {GameId(w)} ELSE cut
                 /\ pc' = [pc EXCEPT ![w] = IF long \/ r # Undecided THEN "report" ELSE "start"]
        PROVE  \E g \in GameOf(n) : PlayEffect(w, g)
    <3> DEFINE g == [x EXCEPT !.results[1] = r]
    <3>1. /\ g.abort = x.abort /\ g.search = x.search /\ g.results[1] = r
          /\ g \in GameOf(n)
        BY <1>1, <1>2, <2>1 DEF GameOf
    <3>2. Replaced(w, g)
        BY <1>7, <2>4, <3>1
    <3> HIDE DEF g
    <3>3. \A b \in 1..n : g.results[b] = r
        BY <2>1, <3>1
    <3>4. pc'[w] \in {"report", "start"}
        BY <1>4, <2>4
    <3>5. pc'[w] = "report" => r # Undecided \/ GameId(w) \in cut'
        BY <1>4, <2>4
    <3>6. cut' = cut \/ cut' = cut \cup {GameId(w)}
        BY <2>4
    <3>7. pc' = [pc EXCEPT ![w] = pc'[w]]
        BY <1>4, <2>4
    <3>8. PlayEffect(w, g)
        BY <1>1, <1>4, <2>1, <2>2, <3>1, <3>2, <3>3, <3>4, <3>5, <3>6, <3>7
        DEF PlayEffect, x, Single
    <3> QED
        BY <3>1, <3>8
  <2> QED
      BY <1>8, <2>3, <2>4 DEF Loop, x
<1>9. ASSUME StartSearch(w) PROVE \E g \in GameOf(n) : PlayEffect(w, g)
  <2>1. /\ pc[w] = "start" /\ mode.multi = 0
        /\ UNCHANGED <<games_count_, results, reported, cut, claim, index>>
      BY <1>4, <1>9 DEF StartSearch
  <2>2. CASE x.abort /\ games' = games /\ pc' = [pc EXCEPT ![w] = "report"]
    <3>1. pc'[w] = "report"
        BY <1>4, <2>2
    <3>2. PlayEffect(w, x)
        BY <1>1, <1>2, <1>4, <1>5, <2>1, <2>2, <3>1 DEF PlayEffect, x
    <3> QED
        BY <1>1, <3>2
  <2>3. CASE pc' = [pc EXCEPT ![w] = "search"] /\ Update(w, [x EXCEPT !.search = "running"])
    <3> DEFINE g == [x EXCEPT !.search = "running"]
    <3>1. g.abort = x.abort /\ g.search = "running" /\ g \in GameOf(n)
        BY <1>1, <1>2 DEF GameOf
    <3>2. Replaced(w, g)
        BY <1>7, <2>3, <3>1
    <3> HIDE DEF g
    <3>3. pc'[w] = "search"
        BY <1>4, <2>3
    <3>4. PlayEffect(w, g)
        BY <1>1, <1>4, <2>1, <2>3, <3>1, <3>2, <3>3 DEF PlayEffect, x, Single
    <3> QED
        BY <3>1, <3>4
  <2> QED
      BY <1>9, <2>2, <2>3 DEF StartSearch, x
<1>10. ASSUME RunBlocking(w) PROVE \E g \in GameOf(n) : PlayEffect(w, g)
  <2> DEFINE g == [x EXCEPT !.search = IF @ = "running" THEN "done" ELSE @]
  <2>1. /\ pc[w] = "search" /\ mode.multi = 0
        /\ UNCHANGED <<games_count_, results, reported, cut, claim, index>>
        /\ pc' = [pc EXCEPT ![w] = "searched"] /\ Update(w, g)
      BY <1>4, <1>10 DEF RunBlocking, x
  <2>2. /\ g.abort = x.abort /\ g.search = (IF x.search = "running" THEN "done" ELSE x.search)
        /\ g \in GameOf(n)
      BY <1>1, <1>2 DEF GameOf
  <2>3. Replaced(w, g)
      BY <1>7, <2>1, <2>2
  <2> HIDE DEF g
  <2>4. g.search \in {"done", "aborted"} /\ (g.search = "aborted" => x.search = "aborted")
      BY <1>2, <1>6, <2>1, <2>2
  <2>5. pc'[w] = "searched"
      BY <1>4, <2>1
  <2>6. PlayEffect(w, g)
      BY <1>1, <1>4, <2>1, <2>2, <2>3, <2>4, <2>5 DEF PlayEffect, x, Single
  <2> QED
      BY <2>2, <2>6
<1>11. ASSUME Searched(w) PROVE \E g \in GameOf(n) : PlayEffect(w, g)
  <2>1. /\ pc[w] = "searched" /\ mode.multi = 0 /\ n = 1
        /\ UNCHANGED <<games_count_, results, reported, cut, claim, index>>
      BY <1>1, <1>4, <1>11 DEF Searched
  <2>2. CASE games' = games /\ \/ x.abort /\ pc' = [pc EXCEPT ![w] = "report"]
                               \/ ~x.abort /\ pc' = [pc EXCEPT ![w] = "pick"]
    <3>1. \/ x.abort /\ pc'[w] = "report"
          \/ x.search = "done" /\ pc'[w] = "pick"
        BY <1>2, <1>3, <1>4, <1>6, <2>1, <2>2
    <3>2. PlayEffect(w, x)
        BY <1>1, <1>2, <1>4, <1>5, <2>1, <2>2, <3>1 DEF PlayEffect, x, Single
    <3> QED
        BY <1>1, <3>2
  <2>3. ASSUME NEW r \in Outcome, Update(w, [x EXCEPT !.results[1] = r]),
               pc' = [pc EXCEPT ![w] = "report"]
        PROVE  \E g \in GameOf(n) : PlayEffect(w, g)
    <3> DEFINE g == [x EXCEPT !.results[1] = r]
    <3>1. /\ g.abort = x.abort /\ g.search = x.search /\ g.results[1] = r
          /\ g \in GameOf(n)
        BY <1>1, <1>2, <2>1 DEF GameOf, GameResult
    <3>2. Replaced(w, g)
        BY <1>7, <2>3, <3>1
    <3> HIDE DEF g
    <3>3. \A b \in 1..n : g.results[b] # Undecided
        BY <2>1, <3>1, TournamentAssumption DEF Undecided
    <3>4. pc'[w] = "report"
        BY <1>4, <2>3
    <3>5. PlayEffect(w, g)
        BY <1>1, <1>4, <2>1, <2>3, <3>1, <3>2, <3>3, <3>4 DEF PlayEffect, x
    <3> QED
        BY <3>1, <3>5
  <2> QED
      BY <1>11, <2>2, <2>3 DEF Searched, x
<1>12. ASSUME MakeMove(w) PROVE \E g \in GameOf(n) : PlayEffect(w, g)
  <2> DEFINE g == [x EXCEPT !.search = "none", !.plies = @ + 1]
  <2>1. /\ pc[w] = "pick" /\ mode.multi = 0
        /\ UNCHANGED <<games_count_, results, reported, cut, claim, index>>
        /\ pc' = [pc EXCEPT ![w] = "loop"] /\ Update(w, g)
      BY <1>4, <1>12 DEF MakeMove, x
  <2>2. g.abort = x.abort /\ g.search = "none" /\ g \in GameOf(n)
    <3>1. x.plies + 1 \in Nat
        BY <1>2
    <3>2. g.abort = x.abort /\ g.search = "none"
        BY <1>1, <1>2 DEF GameOf
    <3>3. g \in GameOf(n)
        BY <1>1, <1>2, <3>1 DEF GameOf
    <3> QED
        BY <3>2, <3>3
  <2>3. Replaced(w, g)
      BY <1>7, <2>1, <2>2
  <2> HIDE DEF g
  <2>4. pc'[w] = "loop"
      BY <1>4, <2>1
  <2>5. PlayEffect(w, g)
      BY <1>1, <1>4, <2>1, <2>2, <2>3, <2>4 DEF PlayEffect, x, Single
  <2> QED
      BY <2>2, <2>5
<1>13. ASSUME RoundStart(w) PROVE \E g \in GameOf(n) : PlayEffect(w, g)
  <2>1. /\ pc[w] = "round" /\ mode.multi > 0 /\ mode.multi # 0
        /\ games' = games /\ UNCHANGED <<games_count_, results, reported, cut, claim, index>>
        /\ pc' = [pc EXCEPT ![w] = IF ~x.abort THEN "evaluate"
                                   ELSE IF Len(games[w]) = 1 THEN "create" ELSE "report"]
      BY <1>4, <1>13 DEF RoundStart, x, Single
  <2>2. pc'[w] = IF ~x.abort THEN "evaluate"
                 ELSE IF Len(games[w]) = 1 THEN "create" ELSE "report"
      BY <1>4, <2>1
  <2>3. Len(games[w]) = 1 \/ Len(games[w]) = 2
      BY <1>4, <2>1
  <2>4. pc' = [pc EXCEPT ![w] = pc'[w]] /\ Replaced(w, x)
      BY <1>4, <1>5, <2>1
  <2>5. PlayEffect(w, x)
    <3>1. \/ pc'[w] = "evaluate"
          \/ pc'[w] = "create" /\ Len(games[w]) = 1 /\ x.abort
          \/ pc'[w] = "report" /\ Len(games[w]) = 2 /\ x.abort
        BY <2>2, <2>3
    <3> QED
        BY <1>1, <2>1, <2>4, <3>1 DEF PlayEffect, x
  <2> QED
      BY <1>1, <2>5
<1>14. ASSUME Round(w) PROVE \E g \in GameOf(n) : PlayEffect(w, g)
  <2>1. /\ pc[w] = "evaluate" /\ mode.multi > 0 /\ mode.multi # 0
        /\ UNCHANGED <<games_count_, results, reported, cut, claim, index>>
      BY <1>4, <1>14 DEF Round, Single
  <2>2. DOMAIN x.results = 1..n
      BY <1>2
  <2>3. PICK new \in [1..n -> GameResult] :
          LET all_done == \A i \in 1..n : new[i] # Undecided IN
          /\ Update(w, [x EXCEPT !.results = new, !.plies = IF all_done THEN @ ELSE @ + 1])
          /\ pc' = [pc EXCEPT ![w] = IF ~all_done THEN "round"
                                     ELSE IF Len(games[w]) = 1 THEN "create" ELSE "report"]
    <3>1. \E new \in [DOMAIN x.results -> GameResult] :
            LET all_done == \A i \in DOMAIN new : new[i] # Undecided IN
            /\ Update(w, [x EXCEPT !.results = new, !.plies = IF all_done THEN @ ELSE @ + 1])
            /\ pc' = [pc EXCEPT ![w] = IF ~all_done THEN "round"
                                       ELSE IF Len(games[w]) = 1 THEN "create" ELSE "report"]
        BY <1>14 DEF Round, x
    <3>2. \A new \in [1..n -> GameResult] : DOMAIN new = 1..n
        OBVIOUS
    <3> QED
        BY <2>2, <3>1, <3>2
  <2> DEFINE all_done == \A i \in 1..n : new[i] # Undecided
             g == [x EXCEPT !.results = new, !.plies = IF all_done THEN @ ELSE @ + 1]
  <2>4. g.abort = x.abort /\ g.search = x.search /\ g.results = new
      BY <1>1, <1>2 DEF GameOf
  <2>5. g \in GameOf(n)
    <3> HIDE DEF all_done
    <3>1. (IF all_done THEN x.plies ELSE x.plies + 1) \in Nat
        BY <1>2
    <3> QED
        BY <1>1, <1>2, <3>1 DEF GameOf
  <2>6. Replaced(w, g)
      BY <1>7, <2>3, <2>5
  <2>7. pc'[w] = IF ~all_done THEN "round"
                 ELSE IF Len(games[w]) = 1 THEN "create" ELSE "report"
      BY <1>4, <2>3
  <2>8. pc' = [pc EXCEPT ![w] = pc'[w]]
      BY <1>4, <2>3
  <2>9. all_done => \A b \in 1..n : g.results[b] # Undecided
      BY <2>4
  <2> HIDE DEF g, all_done
  <2>10. Len(games[w]) = 1 \/ Len(games[w]) = 2
      BY <1>4, <2>1
  <2>11. PlayEffect(w, g)
      BY <1>1, <2>1, <2>4, <2>5, <2>6, <2>7, <2>8, <2>9, <2>10 DEF PlayEffect, x
  <2> QED
      BY <2>5, <2>11
<1> QED
    BY <1>8, <1>9, <1>10, <1>11, <1>12, <1>13, <1>14 DEF Play

\* What Abort() does to a game, in one or two steps.
Marked(x, y) ==
  /\ y.results = x.results /\ y.plies = x.plies
  /\ x.abort => y.abort
  /\ y.search = x.search \/ (x.search = "running" /\ y.search = "aborted" /\ y.abort)

AbortEffect ==
  /\ todo # {} /\ todo' \subseteq todo /\ AbortCalled' /\ asked' \in BOOLEAN
  /\ UNCHANGED <<abort_, games_count_, results, reported, cut, local, main, finished>>
  /\ DOMAIN games' = Worker
  /\ \A w \in Worker :
       /\ games'[w] \in Seq(GameOf(Boards(w))) /\ Len(games'[w]) = Len(games[w])
       /\ \A i \in 1..Len(games[w]) : Marked(games[w][i], games'[w][i])
  /\ target' # <<>> => target' \in todo' /\ games'[target'[1]][target'[2]].abort

\* One game in the lists is marked.
LEMMA MarkOne ==
  ASSUME TypeOK, NEW v \in Worker, NEW j \in 1..Len(games[v]), NEW y \in GameOf(Boards(v)),
         games' = [games EXCEPT ![v][j] = y], Marked(games[v][j], y)
  PROVE  /\ DOMAIN games' = Worker /\ games'[v][j] = y
         /\ \A w \in Worker :
              /\ games'[w] \in Seq(GameOf(Boards(w))) /\ Len(games'[w]) = Len(games[w])
              /\ \A i \in 1..Len(games[w]) : Marked(games[w][i], games'[w][i])
<1>1. games[v] \in Seq(GameOf(Boards(v))) /\ DOMAIN games = Worker
    BY DEF TypeOK
<1> DEFINE s == [games[v] EXCEPT ![j] = y]
<1>2. /\ s \in Seq(GameOf(Boards(v))) /\ Len(s) = Len(games[v]) /\ s[j] = y
      /\ \A i \in 1..Len(games[v]) : i # j => s[i] = games[v][i]
    BY <1>1, ReplacedIn
<1>3. DOMAIN games' = Worker /\ games'[v] = s /\ \A w \in Worker : w # v => games'[w] = games[w]
    BY <1>1
<1> HIDE DEF s
<1>4. \A x : Marked(x, x)
    BY DEF Marked
<1>5. ASSUME NEW w \in Worker
      PROVE  /\ games'[w] \in Seq(GameOf(Boards(w))) /\ Len(games'[w]) = Len(games[w])
             /\ \A i \in 1..Len(games[w]) : Marked(games[w][i], games'[w][i])
  <2>1. CASE w = v
      BY <1>2, <1>3, <1>4, <2>1
  <2>2. CASE w # v
      BY <1>3, <1>4, <2>2 DEF TypeOK
  <2> QED
      BY <2>1, <2>2
<1> QED
    BY <1>2, <1>3, <1>5

\* Each step of Abort() marks one game.
LEMMA AbortHasEffect ==
  ASSUME TypeOK, Aborting, AbortStep
  PROVE  AbortEffect
<1> DEFINE Kept == UNCHANGED <<abort_, games_count_, results, reported, cut, local, main, finished>>
<1>1. ASSUME NEW g \in AllGames, AbortGame(g) PROVE AbortEffect
  <2>1. PICK v \in Worker : \E j \in 1..Len(games[v]) : g = <<v, j>>
      BY <1>1 DEF AllGames
  <2> PICK j \in 1..Len(games[v]) : g = <<v, j>>
      BY <2>1
  <2> DEFINE x == games[v][j]
             y == [x EXCEPT !.abort = TRUE]
  <2>2. g[1] = v /\ g[2] = j
      OBVIOUS
  <2>3. games[v] \in Seq(GameOf(Boards(v))) /\ x \in GameOf(Boards(v))
      BY DEF TypeOK
  <2>4. y \in GameOf(Boards(v)) /\ Marked(x, y) /\ y.abort
      BY <2>3 DEF GameOf, Marked
  <2>5. games' = [games EXCEPT ![v][j] = y] /\ Kept /\ g \in todo
      BY <1>1, <2>2 DEF AbortGame, local
  <2> HIDE DEF x, y
  <2>6. /\ DOMAIN games' = Worker /\ games'[v][j] = y
        /\ \A w \in Worker :
             /\ games'[w] \in Seq(GameOf(Boards(w))) /\ Len(games'[w]) = Len(games[w])
             /\ \A i \in 1..Len(games[w]) : Marked(games[w][i], games'[w][i])
      BY <2>4, <2>5, MarkOne DEF x
  <2>7. \/ todo' = todo \ {g} /\ target' = <<>> /\ asked' = (todo' = {})
        \/ target' = g /\ todo' = todo /\ asked' = asked
      BY <1>1 DEF AbortGame, AbortNext
  <2>8. target' # <<>> => target' \in todo' /\ games'[target'[1]][target'[2]].abort
      BY <2>2, <2>4, <2>5, <2>6, <2>7
  <2>9. todo' \subseteq todo /\ AbortCalled' /\ asked' \in BOOLEAN
      BY <2>5, <2>7 DEF AbortCalled, TypeOK
  <2> QED
      BY <2>5, <2>6, <2>8, <2>9 DEF AbortEffect
<1>2. ASSUME AbortSearch PROVE AbortEffect
  <2>1. target # <<>> /\ target \in todo /\ target \in AllGames
      BY <1>2 DEF AbortSearch, Aborting
  <2>2. PICK v \in Worker : \E j \in 1..Len(games[v]) : target = <<v, j>>
      BY <2>1 DEF AllGames
  <2> PICK j \in 1..Len(games[v]) : target = <<v, j>>
      BY <2>2
  <2> DEFINE x == games[v][j]
             y == [x EXCEPT !.search = IF @ = "running" THEN "aborted" ELSE @]
  <2>3. target[1] = v /\ target[2] = j
      OBVIOUS
  <2>4. games[v] \in Seq(GameOf(Boards(v))) /\ x \in GameOf(Boards(v)) /\ x.abort
      BY <2>1, <2>3 DEF TypeOK, Aborting
  <2>5. y \in GameOf(Boards(v)) /\ Marked(x, y)
      BY <2>4 DEF GameOf, Marked
  <2>6. games' = [games EXCEPT ![v][j] = y] /\ Kept
      BY <1>2, <2>3 DEF AbortSearch, local
  <2> HIDE DEF x, y
  <2>7. /\ DOMAIN games' = Worker /\ games'[v][j] = y
        /\ \A w \in Worker :
             /\ games'[w] \in Seq(GameOf(Boards(w))) /\ Len(games'[w]) = Len(games[w])
             /\ \A i \in 1..Len(games[w]) : Marked(games[w][i], games'[w][i])
      BY <2>5, <2>6, MarkOne DEF x
  <2>8. todo' = todo \ {target} /\ target' = <<>> /\ asked' = (todo' = {})
      BY <1>2 DEF AbortSearch, AbortNext
  <2>9. todo' \subseteq todo /\ AbortCalled' /\ asked' \in BOOLEAN
      BY <2>8 DEF AbortCalled
  <2> QED
      BY <2>1, <2>6, <2>7, <2>8, <2>9 DEF AbortEffect
<1> QED
    BY <1>1, <1>2 DEF AbortStep

\* What the owner does, apart from starting the threads, leaves the games alone.
ClientStep ==
  \/ Wait \/ Joined \/ Stop \/ Abort \/ Destroy \/ DestroyWait \/ UNCHANGED vars

ClientEffect ==
  /\ UNCHANGED <<games_count_, played, local>>
  /\ abort_' \in BOOLEAN /\ asked' \in BOOLEAN /\ (abort_ => abort_') /\ (AbortCalled => AbortCalled')
  /\ target' = target
  /\ \/ UNCHANGED <<todo, asked>>
     \/ todo = {} /\ todo' = AllGames /\ AbortCalled' /\ abort_'

\* The owner may stop or abort, and changes no game in doing so.
LEMMA ClientHasEffect ==
  ASSUME TypeOK, ClientStep
  PROVE  ClientEffect
<1>1. ASSUME AbortBegin PROVE ClientEffect
  <2>1. /\ UNCHANGED <<games_count_, played, local, target>>
        /\ todo = {} /\ abort_' = TRUE /\ todo' = AllGames /\ asked' = (AllGames = {})
      BY <1>1 DEF AbortBegin, MutexFree
  <2> QED
      BY <2>1 DEF ClientEffect, AbortCalled
<1>2. ASSUME Wait \/ Joined \/ Stop \/ DestroyWait \/ UNCHANGED vars PROVE ClientEffect
  <2>1. UNCHANGED <<games_count_, played, local, target, todo, asked>>
      BY <1>2 DEF Wait, Joined, Stop, DestroyWait, vars, client
  <2>2. abort_' = abort_ \/ abort_' = TRUE
      BY <1>2 DEF Wait, Joined, Stop, DestroyWait, vars
  <2> QED
      BY <2>1, <2>2 DEF ClientEffect, AbortCalled, TypeOK
<1> QED
    BY <1>1, <1>2 DEF ClientStep, Abort, Destroy

\* The kinds of steps.
LEMMA StepKinds ==
  [Next]_vars => \/ \E w \in Worker : \/ Claim(w) \/ CreateGame(w) \/ Report(w) \/ Tally(w)
                                      \/ Erase(w) \/ Play(w)
                 \/ AbortStep \/ StartAsync \/ ClientStep
BY DEF Next, WorkerStep, Play, ClientStep

\* What the other steps of a worker do to its games and its claim.
ClaimEffect(w) ==
  /\ pc[w] = "claim" /\ todo = {}
  /\ UNCHANGED <<games, results, reported, cut>>
  /\ \/ /\ abort_ \/ (games_count_ >= Cap /\ ~Endless)
        /\ pc' = [pc EXCEPT ![w] = "ended"]
        /\ UNCHANGED <<games_count_, claim, index>>
     \/ \E n \in Nat :
          /\ claim' = [claim EXCEPT ![w] = [id |-> games_count_, count |-> n]]
          /\ n > 0 /\ games_count_' = games_count_ + n /\ games_count_' <= Cap
          /\ IF mode.multi = 0 THEN n = 1 ELSE n % 2 = 0 /\ games_count_' % 2 = 0
          /\ index' = [index EXCEPT ![w] = 0]
          /\ pc' = [pc EXCEPT ![w] = "create"]

\* A claim takes games that nobody has.
LEMMA ClaimHasEffect ==
  ASSUME TypeOK, Claims, NEW w \in Worker, Claim(w)
  PROVE  ClaimEffect(w)
<1> DEFINE n == IF mode.multi = 0 THEN 1
                ELSE IF 2 * mode.multi < Cap - games_count_ THEN 2 * mode.multi
                ELSE Cap - games_count_
<1>1. /\ mode.multi \in Nat /\ Cap \in Nat /\ games_count_ \in Nat
      /\ mode.multi # 0 => Cap % 2 = 0 /\ games_count_ % 2 = 0
  <2>1. mode.multi \in Nat /\ Cap \in Nat /\ (mode.multi > 0 => Cap % 2 = 0)
      BY CapOf
  <2>2. games_count_ \in Nat
      BY DEF TypeOK
  <2>3. mode.multi > 0 => games_count_ % 2 = 0
      BY DEF Claims
  <2> QED
      BY <2>1, <2>2, <2>3
<1>2. ASSUME games_count_ < Cap
      PROVE  /\ n \in Nat /\ n > 0 /\ games_count_ + n <= Cap
             /\ IF mode.multi = 0 THEN n = 1
                ELSE n % 2 = 0 /\ (games_count_ + n) % 2 = 0
  <2>1. CASE mode.multi = 0
      BY <1>1, <1>2, <2>1
  <2>2. CASE mode.multi # 0 /\ 2 * mode.multi < Cap - games_count_
      BY <1>1, <1>2, <2>2
  <2>3. CASE mode.multi # 0 /\ ~(2 * mode.multi < Cap - games_count_)
      BY <1>1, <1>2, <2>3
  <2> QED
      BY <2>1, <2>2, <2>3
<1>3. /\ pc[w] = "claim" /\ todo = {} /\ UNCHANGED <<games, results, reported, cut>>
      /\ IF abort_ \/ (games_count_ >= Cap /\ ~Endless)
           THEN pc' = [pc EXCEPT ![w] = "ended"] /\ UNCHANGED <<games_count_, claim, index>>
           ELSE /\ games_count_ < Cap
                /\ claim' = [claim EXCEPT ![w] = [id |-> games_count_, count |-> n]]
                /\ games_count_' = games_count_ + n
                /\ index' = [index EXCEPT ![w] = 0]
                /\ pc' = [pc EXCEPT ![w] = "create"]
    BY DEF Claim, MutexFree, Goto, played
<1> HIDE DEF n
<1> QED
    BY <1>2, <1>3 DEF ClaimEffect

\* A list without elements is empty.
LEMMA EmptyList ==
  ASSUME NEW S, NEW s \in Seq(S)
  PROVE  Len(s) \in Nat /\ (Len(s) = 0 <=> s = <<>>)
OBVIOUS

CreateEffect(w) ==
  /\ pc[w] = "create" /\ todo = {}
  /\ UNCHANGED <<games_count_, results, reported, cut, claim, index>>
  /\ pc' = [pc EXCEPT ![w] = pc'[w]]
  /\ mode.multi = 0 => pc'[w] = "loop"
  /\ mode.multi > 0 => \/ pc'[w] = "round"
                       \/ pc'[w] = "create" /\ Len(games[w]) = 0 /\ abort_
                       \/ pc'[w] = "report" /\ Len(games[w]) = 1 /\ abort_
  /\ DOMAIN games' = Worker
  /\ games'[w] \in Seq(GameOf(Boards(w))) /\ Len(games'[w]) = Len(games[w]) + 1
  /\ \A i \in 1..Len(games[w]) : games'[w][i] = games[w][i]
  /\ games'[w][Len(games[w]) + 1] = NewGame(Boards(w))

\* A new game is last in the list.
LEMMA CreateHasEffect ==
  ASSUME TypeOK, Lists, Claims, NEW w \in Worker, CreateGame(w)
  PROVE  CreateEffect(w)
<1> DEFINE s == games[w]
           x == NewGame(Boards(w))
<1>1. /\ pc \in [Worker -> Places] /\ pc[w] = "create" /\ mode.multi \in Nat
      /\ s \in Seq(GameOf(Boards(w))) /\ DOMAIN games = Worker
    BY CapOf DEF TypeOK, CreateGame
<1>2. x \in GameOf(Boards(w))
    BY DEF NewGame, GameOf, GameResult
<1>3. /\ games' = [games EXCEPT ![w] = Append(s, x)] /\ todo = {}
      /\ pc' = [pc EXCEPT ![w] = IF mode.multi = 0 THEN "loop"
                                 ELSE IF ~abort_ THEN "round"
                                 ELSE IF s = <<>> THEN "create" ELSE "report"]
      /\ UNCHANGED <<games_count_, results, reported, cut, claim, index>>
    BY DEF CreateGame, MutexFree, Goto, Boards
<1>4. DOMAIN games' = Worker /\ games'[w] = Append(s, x)
    BY <1>1, <1>3
<1> HIDE DEF x
<1>5. /\ Append(s, x) \in Seq(GameOf(Boards(w))) /\ Len(Append(s, x)) = Len(s) + 1
      /\ \A i \in 1..Len(s) : Append(s, x)[i] = s[i]
      /\ Append(s, x)[Len(s) + 1] = x
    BY <1>1, <1>2
<1>6. mode.multi > 0 => \/ s = <<>> /\ Len(s) = 0
                        \/ s # <<>> /\ Len(s) = 1
  <2>1. mode.multi > 0 => Len(s) < 2
      BY <1>1 DEF Lists
  <2>2. Len(s) \in Nat /\ (Len(s) = 0 <=> s = <<>>)
      BY <1>1, EmptyList
  <2>3. \A k \in Nat : k < 2 => k = 0 \/ k = 1
      OBVIOUS
  <2>4. mode.multi > 0 => Len(s) = 0 \/ Len(s) = 1
      BY <2>1, <2>2, <2>3
  <2> QED
      BY <2>2, <2>4
<1>7. /\ pc' = [pc EXCEPT ![w] = pc'[w]]
      /\ pc'[w] = IF mode.multi = 0 THEN "loop"
                  ELSE IF ~abort_ THEN "round"
                  ELSE IF s = <<>> THEN "create" ELSE "report"
    BY <1>1, <1>3
<1> QED
    BY <1>1, <1>3, <1>4, <1>5, <1>6, <1>7 DEF CreateEffect, x

\* The game and the board that a worker reports are in its list.
LEMMA ReportedIsGame ==
  ASSUME TypeOK, Lists, Claims, NEW w \in Worker, pc[w] \in {"report", "tally"},
         index[w] < claim[w].count
  PROVE  /\ 1 + (index[w] % Len(games[w])) \in 1..Len(games[w])
         /\ 1 + (index[w] \div Len(games[w])) \in 1..Boards(w)
         /\ Len(games[w]) \in {1, 2}
         /\ ReportedResult(w) \in GameResult
         /\ GameId(w) \in Remaining(w) /\ GameId(w) \in Nat
         /\ Player1Black(w) \in BOOLEAN
         /\ mode.multi = 0 => index[w] = 0
<1> DEFINE i == index[w]
           n == claim[w].count
           len == Len(games[w])
           p == 1 + (i % len)
           b == 1 + (i \div len)
<1>1. /\ i \in Nat /\ n \in Nat /\ claim[w].id \in Nat /\ mode.multi \in Nat
      /\ games[w] \in Seq(GameOf(Boards(w))) /\ i < n
    BY CapOf DEF TypeOK
<1>2. Active(w)
    BY DEF Active
<1>3. \/ mode.multi = 0 /\ len = 1 /\ n = 1
      \/ mode.multi # 0 /\ len = 2 /\ n % 2 = 0
  <2>1. mode.multi = 0 => len = 1 /\ n = 1
      BY <1>2 DEF Lists, Claims
  <2>2. mode.multi > 0 => len = 2 /\ n % 2 = 0
      BY <1>2 DEF Lists, Claims
  <2> QED
      BY <1>1, <2>1, <2>2
<1>4. GameId(w) \in Remaining(w) /\ GameId(w) \in Nat
    BY <1>1 DEF GameId, Remaining
<1>5. p \in 1..len /\ b \in 1..Boards(w) /\ (mode.multi = 0 => i = 0)
  <2>1. CASE mode.multi = 0 /\ len = 1 /\ n = 1
    <3>1. i = 0
        BY <1>1, <2>1
    <3> HIDE DEF i
    <3>2. 0 % 1 = 0 /\ 0 \div 1 = 0
        OBVIOUS
    <3> QED
        BY <2>1, <3>1, <3>2 DEF Boards
  <2>2. CASE mode.multi # 0 /\ len = 2 /\ n % 2 = 0
    <3>1. Boards(w) = n \div 2
        BY <2>2 DEF Boards
    <3> HIDE DEF i, n
    <3>2. i % 2 \in 0..1 /\ i \div 2 \in Nat /\ i \div 2 < n \div 2 /\ n \div 2 \in Nat
        BY <1>1, <2>2
    <3>3. p = 1 + (i % 2) /\ b = 1 + (i \div 2)
        BY <2>2
    <3> QED
        BY <2>2, <3>1, <3>2, <3>3
  <2> QED
      BY <1>3, <2>1, <2>2
<1>6. ReportedResult(w) = games[w][p].results[b]
    BY DEF ReportedResult, ReportedGame
<1> HIDE DEF p, b
<1>7. games[w][p] \in GameOf(Boards(w))
    BY <1>1, <1>5
<1>8. ReportedResult(w) \in GameResult
    BY <1>5, <1>6, <1>7 DEF GameOf
<1> QED
    BY <1>3, <1>4, <1>5, <1>8 DEF Player1Black, p, b

ReportEffect(w) ==
  /\ pc[w] = "report" /\ index[w] < claim[w].count
  /\ UNCHANGED <<games_count_, games, results, cut, claim>>
  /\ \/ /\ ReportedResult(w) = Undecided
        /\ index' = [index EXCEPT ![w] = index[w] + 1]
        /\ UNCHANGED <<reported, pc>>
     \/ /\ ReportedResult(w) # Undecided
        /\ reported' = reported \cup {ReportOf(w)} /\ ReportOf(w) \in GameReport
        /\ pc' = [pc EXCEPT ![w] = "tally"]
        /\ UNCHANGED index

\* A game is reported, or passed over.
LEMMA ReportHasEffect ==
  ASSUME TypeOK, Lists, Claims, NEW w \in Worker, Report(w)
  PROVE  ReportEffect(w)
<1>1. /\ pc[w] = "report" /\ index[w] < claim[w].count
      /\ UNCHANGED <<games_count_, games, results, cut, claim>>
    BY DEF Report
<1>2. ReportedResult(w) # Undecided => ReportOf(w) \in GameReport
  <2>1. ReportedResult(w) \in GameResult /\ GameId(w) \in Nat /\ Player1Black(w) \in BOOLEAN
      BY <1>1, ReportedIsGame
  <2> QED
      BY <2>1 DEF ReportOf, GameReport, GameResult
<1> QED
    BY <1>1, <1>2 DEF Report, ReportEffect, ReportOf, Goto

\* What a worker does to the others and to the owner, and how the shapes are kept.
Alone(w) ==
  /\ UNCHANGED <<mode, first_game_black_, abort_, main, todo, target, asked, finished>>
  /\ \A v \in Worker : v # w =>
       pc'[v] = pc[v] /\ claim'[v] = claim[v] /\ index'[v] = index[v] /\ games'[v] = games[v]

\* The effects of the steps of a worker, given the invariant.
LEMMA WorkerEffects ==
  ASSUME TournamentInv, NEW w \in Worker
  PROVE  /\ Claim(w) => ClaimEffect(w) /\ Alone(w)
         /\ CreateGame(w) => CreateEffect(w) /\ Alone(w)
         /\ Report(w) => ReportEffect(w) /\ Alone(w)
         /\ Tally(w) => Alone(w)
         /\ Erase(w) => Alone(w)
         /\ Play(w) => Alone(w) /\ \E g \in GameOf(Boards(w)) : PlayEffect(w, g)
<1> USE DEF TournamentInv
<1>1. ASSUME WorkerStep(w) PROVE Alone(w)
  <2>1. mode' = mode /\ first_game_black_' = first_game_black_
      BY <1>1, ModeKept DEF Next
  <2> QED
      BY <1>1, <2>1, OthersKept DEF Alone, client
<1>2. Claim(w) \/ CreateGame(w) \/ Report(w) \/ Tally(w) \/ Erase(w) \/ Play(w) => WorkerStep(w)
    BY DEF WorkerStep, Play
<1> QED
    BY <1>1, <1>2, ClaimHasEffect, CreateHasEffect, ReportHasEffect, PlayHasEffect

\* Tally and Erase, as far as the games and the claims are concerned.
TallyEffect(w) ==
  /\ pc[w] = "tally" /\ todo = {}
  /\ UNCHANGED <<games_count_, games, reported, cut, claim>>
  /\ index' = [index EXCEPT ![w] = index[w] + 1] /\ pc' = [pc EXCEPT ![w] = "report"]
EraseEffect(w) ==
  /\ pc[w] = "report" /\ index[w] = claim[w].count /\ todo = {}
  /\ UNCHANGED <<games_count_, results, reported, cut, claim, index>>
  /\ games' = [games EXCEPT ![w] = <<>>] /\ pc' = [pc EXCEPT ![w] = "claim"]

\* Tally() has its effect.
LEMMA TallyHasEffect == \A w : Tally(w) => TallyEffect(w)
BY DEF Tally, TallyEffect, MutexFree, Goto

\* Erasing has its effect.
LEMMA EraseHasEffect == \A w : Erase(w) => EraseEffect(w)
BY DEF Erase, EraseEffect, MutexFree, Goto

\* The result of player 1 is between 0 and 2.
LEMMA ResultsAre ==
  ASSUME TypeOK, Lists, Claims, NEW w \in Worker, Tally(w)
  PROVE  results' \in [0..2 -> [0..1 -> Nat]]
<1> DEFINE result == CASE ReportedResult(w) = "WHITE_WON" -> 0
                       [] ReportedResult(w) = "DRAW" -> 1
                       [] OTHER -> 2
           row == IF Player1Black(w) THEN 2 - result ELSE result
           column == IF Player1Black(w) THEN 1 ELSE 0
<1>1. result \in 0..2
    OBVIOUS
<1>2. row \in 0..2 /\ column \in 0..1
  <2> HIDE DEF result
  <2> QED
      BY <1>1
<1>3. results' = [results EXCEPT ![row][column] = @ + 1]
    BY DEF Tally
<1> HIDE DEF row, column
<1>4. results \in [0..2 -> [0..1 -> Nat]]
    BY DEF TypeOK
<1> QED
    BY <1>2, <1>3, <1>4

\* A worker has as many boards as it claimed.
LEMMA BoardsKept ==
  ASSUME mode' = mode, NEW w, claim'[w] = claim[w]
  PROVE  Boards(w)' = Boards(w)
BY DEF Boards

\* The state keeps its type.
LEMMA TypeKept ==
  ASSUME TournamentInv, [Next]_vars
  PROVE  TypeOK'
<1> USE DEF TournamentInv
<1>1. /\ mode \in Modes /\ first_game_black_ \in BOOLEAN /\ abort_ \in BOOLEAN
      /\ games_count_ \in Nat /\ finished \in Nat /\ asked \in BOOLEAN
      /\ main \in {"new", "started", "wait", "returned", "destroy", "rejoin", "destroyed"}
      /\ results \in [0..2 -> [0..1 -> Nat]]
      /\ reported \subseteq GameReport /\ IsFiniteSet(reported) /\ cut \subseteq Nat
      /\ pc \in [Worker -> Places]
      /\ claim \in [Worker -> [id : Nat, count : Nat]] /\ index \in [Worker -> Nat]
      /\ DOMAIN games = Worker
      /\ \A w \in Worker : games[w] \in Seq(GameOf(Boards(w)))
    BY DEF TypeOK
<1>2. mode' = mode /\ first_game_black_' = first_game_black_
    BY ModeKept
<1> DEFINE Owned == /\ abort_' \in BOOLEAN /\ finished' \in Nat /\ asked' \in BOOLEAN
                    /\ main' \in {"new", "started", "wait", "returned", "destroy", "rejoin",
                                  "destroyed"}
           Placed == /\ pc' \in [Worker -> Places]
                     /\ claim' \in [Worker -> [id : Nat, count : Nat]]
                     /\ index' \in [Worker -> Nat] /\ games_count_' \in Nat
           Counts == /\ results' \in [0..2 -> [0..1 -> Nat]]
                     /\ reported' \subseteq GameReport /\ IsFiniteSet(reported')
                     /\ cut' \subseteq Nat
           Held == DOMAIN games' = Worker /\ \A w \in Worker : games'[w] \in Seq(GameOf(Boards(w)'))
<1>3. SUFFICES Owned /\ Placed /\ Counts /\ Held
    BY <1>1, <1>2 DEF TypeOK, GameOf, GameReport
<1>4. ASSUME NEW w \in Worker, Alone(w) PROVE Owned
    BY <1>1, <1>4 DEF Alone
<1>5. ASSUME NEW w \in Worker, Alone(w), claim' = claim, DOMAIN games' = Worker,
             games'[w] \in Seq(GameOf(Boards(w)))
      PROVE  Held
    BY <1>1, <1>2, <1>5, BoardsKept DEF Alone
<1>6. ASSUME NEW w \in Worker, Claim(w) PROVE Owned /\ Placed /\ Counts /\ Held
  <2>1. ClaimEffect(w) /\ Alone(w)
      BY <1>6, WorkerEffects
  <2>2. Placed
    <3>1. CASE pc' = [pc EXCEPT ![w] = "ended"] /\ UNCHANGED <<games_count_, claim, index>>
        BY <1>1, <3>1 DEF Places
    <3>2. ASSUME NEW n \in Nat, games_count_' = games_count_ + n,
                 claim' = [claim EXCEPT ![w] = [id |-> games_count_, count |-> n]],
                 index' = [index EXCEPT ![w] = 0], pc' = [pc EXCEPT ![w] = "create"]
          PROVE  Placed
      <4>1. games_count_ + n \in Nat
          BY <1>1
      <4>2. pc' \in [Worker -> Places] /\ index' \in [Worker -> Nat]
          BY <1>1, <3>2 DEF Places
      <4>3. claim' \in [Worker -> [id : Nat, count : Nat]]
          BY <1>1, <3>2
      <4> QED
          BY <3>2, <4>1, <4>2, <4>3
    <3> HIDE DEF Placed
    <3> QED
        BY <2>1, <3>1, <3>2 DEF ClaimEffect
  <2>3. games[w] = <<>> /\ games' = games
      BY <2>1 DEF ClaimEffect, Lists, Active
  <2>4. <<>> \in Seq(GameOf(Boards(w)'))
      OBVIOUS
  <2>5. \A v \in Worker : v # w => Boards(v)' = Boards(v)
      BY <1>2, <2>1, BoardsKept DEF Alone
  <2>6. Held
      BY <1>1, <2>3, <2>4, <2>5
  <2> QED
      BY <1>1, <1>4, <2>1, <2>2, <2>6 DEF ClaimEffect
<1>7. ASSUME NEW w \in Worker, CreateGame(w) PROVE Owned /\ Placed /\ Counts /\ Held
  <2>1. CreateEffect(w) /\ Alone(w) /\ mode.multi \in Nat
      BY <1>7, WorkerEffects, CapOf
  <2>2. pc'[w] \in Places
      BY <2>1 DEF CreateEffect, Places
  <2>3. Placed
      BY <1>1, <2>1, <2>2 DEF CreateEffect
  <2>4. Held
      BY <1>5, <2>1 DEF CreateEffect
  <2> QED
      BY <1>1, <1>4, <2>1, <2>3, <2>4 DEF CreateEffect
<1>8. ASSUME NEW w \in Worker, Report(w) PROVE Owned /\ Placed /\ Counts /\ Held
  <2>1. ReportEffect(w) /\ Alone(w)
      BY <1>8, WorkerEffects
  <2>2. index[w] + 1 \in Nat
      BY <1>1
  <2>3. Placed
      BY <1>1, <2>1, <2>2 DEF ReportEffect, Places
  <2>4. IsFiniteSet(reported \cup {ReportOf(w)})
      BY <1>1, FS_AddElement
  <2>5. Held
      BY <1>1, <1>5, <2>1 DEF ReportEffect
  <2> QED
      BY <1>1, <1>4, <2>1, <2>3, <2>4, <2>5 DEF ReportEffect
<1>9. ASSUME NEW w \in Worker, Tally(w) PROVE Owned /\ Placed /\ Counts /\ Held
  <2>1. TallyEffect(w) /\ Alone(w) /\ results' \in [0..2 -> [0..1 -> Nat]]
      BY <1>9, WorkerEffects, TallyHasEffect, ResultsAre
  <2>2. index[w] + 1 \in Nat
      BY <1>1
  <2>3. Placed
      BY <1>1, <2>1, <2>2 DEF TallyEffect, Places
  <2>4. Held
      BY <1>1, <1>5, <2>1 DEF TallyEffect
  <2> QED
      BY <1>1, <1>4, <2>1, <2>3, <2>4 DEF TallyEffect
<1>10. ASSUME NEW w \in Worker, Erase(w) PROVE Owned /\ Placed /\ Counts /\ Held
  <2>1. EraseEffect(w) /\ Alone(w)
      BY <1>10, WorkerEffects, EraseHasEffect
  <2>2. Placed
      BY <1>1, <2>1 DEF EraseEffect, Places
  <2>3. DOMAIN games' = Worker /\ games'[w] = <<>>
      BY <1>1, <2>1 DEF EraseEffect
  <2>4. <<>> \in Seq(GameOf(Boards(w)))
      OBVIOUS
  <2>5. Held
      BY <1>5, <2>1, <2>3, <2>4 DEF EraseEffect
  <2> QED
      BY <1>1, <1>4, <2>1, <2>2, <2>5 DEF EraseEffect
<1>11. ASSUME NEW w \in Worker, Play(w) PROVE Owned /\ Placed /\ Counts /\ Held
  <2>1. Alone(w) /\ mode.multi \in Nat
      BY <1>11, WorkerEffects, CapOf
  <2>2. PICK g \in GameOf(Boards(w)) : PlayEffect(w, g)
      BY <1>11, WorkerEffects
  <2>3. pc'[w] \in Places
      BY <2>1, <2>2 DEF PlayEffect, Places, Single
  <2>4. Placed
      BY <1>1, <2>2, <2>3 DEF PlayEffect
  <2>5. Held
      BY <1>5, <2>1, <2>2 DEF PlayEffect, Replaced
  <2>6. GameId(w) \in Nat
      BY <1>1 DEF GameId
  <2> QED
      BY <1>1, <1>4, <2>1, <2>2, <2>4, <2>5, <2>6 DEF PlayEffect
<1>12. ASSUME AbortStep PROVE Owned /\ Placed /\ Counts /\ Held
  <2>1. AbortEffect
      BY <1>12, AbortHasEffect
  <2>2. \A w \in Worker : Boards(w)' = Boards(w)
      BY <1>2, <2>1, BoardsKept DEF AbortEffect, local
  <2> QED
      BY <1>1, <2>1, <2>2 DEF AbortEffect, local
<1>13. ASSUME StartAsync PROVE Owned /\ Placed /\ Counts /\ Held
  <2>1. \A w \in Worker : Boards(w)' = Boards(w)
      BY <1>2, <1>13, BoardsKept DEF StartAsync
  <2> QED
      BY <1>1, <1>13, <2>1 DEF StartAsync, played, Places
<1>14. ASSUME ClientStep PROVE Owned /\ Placed /\ Counts /\ Held
  <2>1. ClientEffect
      BY <1>14, ClientHasEffect
  <2>2. \A w \in Worker : Boards(w)' = Boards(w)
      BY <1>2, <2>1, BoardsKept DEF ClientEffect, local
  <2>3. finished' \in Nat
      BY <1>1, <1>14 DEF ClientStep, Wait, Joined, Stop, Abort, AbortBegin, Destroy, DestroyWait,
                         vars, client
  <2>4. main' \in {"new", "started", "wait", "returned", "destroy", "rejoin", "destroyed"}
      BY <1>1, <1>14 DEF ClientStep, Wait, Joined, Stop, Abort, AbortBegin, Destroy, DestroyWait,
                         vars, client
  <2> QED
      BY <1>1, <2>1, <2>2, <2>3, <2>4 DEF ClientEffect, local, played
<1> HIDE DEF Owned, Placed, Counts, Held
<1> QED
    BY <1>6, <1>7, <1>8, <1>9, <1>10, <1>11, <1>12, <1>13, <1>14, StepKinds

ListsOf(w) ==
  /\ ~Active(w) => games[w] = <<>>
  /\ mode.multi = 0 => /\ pc[w] \notin {"round", "evaluate"}
                       /\ pc[w] = "create" => games[w] = <<>>
                       /\ pc[w] \in Single \cup {"report", "tally"} => Len(games[w]) = 1
  /\ mode.multi > 0 => /\ pc[w] \notin Single
                       /\ pc[w] = "create" => Len(games[w]) < 2
                       /\ pc[w] \in {"round", "evaluate"} => Len(games[w]) \in 1..2
                       /\ pc[w] \in {"report", "tally"} => Len(games[w]) = 2

\* Lists are as long as they should be: one game, or the two of a pair.
LEMMA ListsKept ==
  ASSUME TournamentInv, [Next]_vars
  PROVE  Lists'
<1>1. /\ pc \in [Worker -> Places] /\ DOMAIN games = Worker
      /\ \A w \in Worker : games[w] \in Seq(GameOf(Boards(w)))
      /\ mode.multi \in Nat /\ mode' = mode
    BY CapOf, ModeKept DEF TypeOK, TournamentInv
<1>2. \A w \in Worker : ListsOf(w)
    BY DEF TournamentInv, Lists, ListsOf
<1>3. SUFFICES ASSUME NEW v \in Worker PROVE ListsOf(v)'
    BY DEF Lists, ListsOf
<1>4. ASSUME pc'[v] = pc[v], games'[v] = games[v] PROVE ListsOf(v)'
    BY <1>1, <1>2, <1>4 DEF ListsOf, Active
<1>5. ASSUME NEW w \in Worker, Alone(w), w = v => ListsOf(w)' PROVE ListsOf(v)'
    BY <1>4, <1>5 DEF Alone
<1>6. ASSUME NEW w \in Worker, Claim(w) PROVE ListsOf(v)'
  <2>1. ClaimEffect(w) /\ Alone(w)
      BY <1>6, WorkerEffects
  <2>2. games'[w] = <<>> /\ pc'[w] \in {"create", "ended"}
      BY <1>1, <1>2, <2>1 DEF ClaimEffect, ListsOf, Active
  <2>3. Len(<<>>) < 2
      OBVIOUS
  <2>4. ListsOf(w)'
      BY <1>1, <2>2, <2>3 DEF ListsOf, Single
  <2> QED
      BY <1>5, <2>1, <2>4
<1>7. ASSUME NEW w \in Worker, CreateGame(w) PROVE ListsOf(v)'
  <2>1. CreateEffect(w) /\ Alone(w)
      BY <1>7, WorkerEffects
  <2>2. pc[w] = "create" /\ Len(games'[w]) = Len(games[w]) + 1 /\ Len(games[w]) \in Nat
      BY <1>1, <2>1 DEF CreateEffect
  <2>3. CASE mode.multi = 0
    <3>1. games[w] = <<>> /\ Len(games[w]) = 0
        BY <1>2, <2>2, <2>3 DEF ListsOf
    <3>2. Len(games'[w]) = 1
        BY <2>2, <3>1
    <3>3. ListsOf(w)'
        BY <1>1, <2>1, <2>3, <3>2 DEF CreateEffect, ListsOf, Single, Active
    <3> QED
        BY <1>5, <2>1, <3>3
  <2>4. CASE mode.multi > 0
    <3>1. Len(games[w]) = 0 \/ Len(games[w]) = 1
      <4>1. Len(games[w]) < 2
          BY <1>2, <2>2, <2>4 DEF ListsOf
      <4>2. \A k \in Nat : k < 2 => k = 0 \/ k = 1
          OBVIOUS
      <4> QED
          BY <2>2, <4>1, <4>2
    <3> DEFINE n == Len(games'[w])
    <3>2. /\ \/ n = 1 
             \/ n = 2
          /\ \/ pc'[w] = "round"
             \/ pc'[w] = "create" /\ n = 1
             \/ pc'[w] = "report" /\ n = 2
        BY <2>1, <2>2, <2>4, <3>1 DEF CreateEffect
    <3> HIDE DEF n
    <3>3. /\ pc'[w] \notin Single /\ Active(w)' /\ mode'.multi # 0
          /\ pc'[w] = "create" => n < 2
          /\ pc'[w] \in {"round", "evaluate"} => n \in 1..2
          /\ pc'[w] \in {"report", "tally"} => n = 2
        BY <1>1, <2>4, <3>2 DEF Single, Active
    <3>4. ListsOf(w)'
        BY <3>3 DEF ListsOf, n
    <3> QED
        BY <1>5, <2>1, <3>4
  <2> QED
      BY <1>1, <2>3, <2>4
<1>8. ASSUME NEW w \in Worker, Report(w) PROVE ListsOf(v)'
  <2>1. ReportEffect(w) /\ Alone(w)
      BY <1>8, WorkerEffects
  <2>2. games'[w] = games[w] /\ pc[w] = "report" /\ pc'[w] \in {"report", "tally"}
      BY <1>1, <2>1 DEF ReportEffect
  <2>3. ListsOf(w)'
      BY <1>1, <1>2, <2>2 DEF ListsOf, Single, Active
  <2> QED
      BY <1>5, <2>1, <2>3
<1>9. ASSUME NEW w \in Worker, Tally(w) PROVE ListsOf(v)'
  <2>1. TallyEffect(w) /\ Alone(w)
      BY <1>9, WorkerEffects, TallyHasEffect
  <2>2. games'[w] = games[w] /\ pc[w] = "tally" /\ pc'[w] = "report"
      BY <1>1, <2>1 DEF TallyEffect
  <2>3. ListsOf(w)'
      BY <1>1, <1>2, <2>2 DEF ListsOf, Single, Active
  <2> QED
      BY <1>5, <2>1, <2>3
<1>10. ASSUME NEW w \in Worker, Erase(w) PROVE ListsOf(v)'
  <2>1. EraseEffect(w) /\ Alone(w)
      BY <1>10, WorkerEffects, EraseHasEffect
  <2>2. games'[w] = <<>> /\ pc'[w] = "claim"
      BY <1>1, <2>1 DEF EraseEffect
  <2>3. ListsOf(w)'
      BY <1>1, <2>2 DEF ListsOf, Single
  <2> QED
      BY <1>5, <2>1, <2>3
<1>11. ASSUME NEW w \in Worker, Play(w) PROVE ListsOf(v)'
  <2>1. Alone(w)
      BY <1>11, WorkerEffects
  <2>2. PICK g \in GameOf(Boards(w)) : PlayEffect(w, g)
      BY <1>11, WorkerEffects
  <2> DEFINE n == Len(games'[w])
  <2>3. n = Len(games[w]) /\ pc[w] \in Single \cup {"round", "evaluate"}
      BY <2>2 DEF PlayEffect, Replaced, Playing
  <2>4. CASE mode.multi = 0
    <3>1. n = 1
        BY <1>2, <2>3, <2>4 DEF ListsOf
    <3>2. pc'[w] \in Single \cup {"report"}
        BY <2>2, <2>4 DEF PlayEffect
    <3>3. ListsOf(w)'
        BY <1>1, <2>4, <3>1, <3>2 DEF ListsOf, Single, Active
    <3> QED
        BY <1>5, <2>1, <3>3
  <2>5. CASE mode.multi > 0
    <3>1. n \in 1..2
        BY <1>2, <2>3, <2>5 DEF ListsOf
    <3>2. \/ pc'[w] \in {"round", "evaluate"}
          \/ pc'[w] = "create" /\ n = 1
          \/ pc'[w] = "report" /\ n = 2
        BY <2>2, <2>3, <2>5 DEF PlayEffect
    <3> HIDE DEF n
    <3>3. /\ pc'[w] \notin Single /\ Active(w)' /\ mode'.multi # 0
          /\ pc'[w] = "create" => n < 2
          /\ pc'[w] \in {"round", "evaluate"} => n \in 1..2
          /\ pc'[w] \in {"report", "tally"} => n = 2
        BY <1>1, <2>5, <3>1, <3>2 DEF Single, Active
    <3>4. ListsOf(w)'
        BY <3>3 DEF ListsOf, n
    <3> QED
        BY <1>5, <2>1, <3>4
  <2> QED
      BY <1>1, <2>4, <2>5
<1>12. ASSUME AbortStep PROVE ListsOf(v)'
  <2>1. pc' = pc /\ Len(games'[v]) = Len(games[v]) /\ games'[v] \in Seq(GameOf(Boards(v)))
      BY <1>12, AbortHasEffect DEF AbortEffect, local, TournamentInv
  <2>2. games[v] = <<>> => games'[v] = <<>>
      BY <1>1, <2>1, EmptyList
  <2> QED
      BY <1>1, <1>2, <2>1, <2>2 DEF ListsOf, Active
<1>13. ASSUME StartAsync PROVE ListsOf(v)'
  <2>1. pc[v] = "none" /\ pc'[v] = "claim" /\ games' = games
      BY <1>13 DEF StartAsync, Owner, played, TournamentInv
  <2> QED
      BY <1>1, <1>2, <2>1 DEF ListsOf, Active, Single
<1>14. ASSUME ClientStep PROVE ListsOf(v)'
    BY <1>4, <1>14, ClientHasEffect DEF ClientEffect, played, local, TournamentInv
<1> QED
    BY <1>6, <1>7, <1>8, <1>9, <1>10, <1>11, <1>12, <1>13, <1>14, StepKinds

\* What a worker knows of its claim, and that the claims of two workers are apart.
ClaimOf(w) ==
  /\ claim[w].id + claim[w].count <= games_count_
  /\ IF mode.multi = 0 THEN claim[w].count = 1
     ELSE claim[w].count > 0 /\ claim[w].count % 2 = 0
  /\ index[w] <= claim[w].count
  /\ pc[w] \notin {"report", "tally"} => index[w] = 0
  /\ pc[w] = "tally" => index[w] < claim[w].count
Apart(v, w) ==
  \/ claim[v].id + claim[v].count <= claim[w].id
  \/ claim[w].id + claim[w].count <= claim[v].id

\* Claims stay apart, since a new one begins where the games claimed end.
LEMMA ClaimsKept ==
  ASSUME TournamentInv, [Next]_vars
  PROVE  Claims'
<1>1. /\ pc \in [Worker -> Places] /\ mode.multi \in Nat
      /\ claim \in [Worker -> [id : Nat, count : Nat]] /\ index \in [Worker -> Nat]
      /\ mode' = mode /\ Cap' = Cap /\ games_count_ \in Nat
    BY CapOf, ModeKept DEF TypeOK, TournamentInv
<1>2. /\ games_count_ <= Cap /\ (mode.multi > 0 => games_count_ % 2 = 0)
      /\ \A w \in Worker : Active(w) => ClaimOf(w)
      /\ \A v, w \in Worker : v # w /\ Active(v) /\ Active(w) => Apart(v, w)
    BY DEF TournamentInv, Claims, ClaimOf, Apart
<1>3. ASSUME games_count_' <= Cap, mode.multi > 0 => games_count_' % 2 = 0,
             \A w \in Worker : Active(w)' => ClaimOf(w)',
             \A v, w \in Worker : v # w /\ Active(v)' /\ Active(w)' => Apart(v, w)'
      PROVE  Claims'
    BY <1>1, <1>3 DEF Claims, ClaimOf, Apart
\* Steps that leave the claims alone.
<1>4. ASSUME claim' = claim, games_count_' = games_count_,
             \A w \in Worker : Active(w)' => Active(w) /\ ClaimOf(w)'
      PROVE  Claims'
  <2>1. \A v, w \in Worker : v # w /\ Active(v)' /\ Active(w)' => Apart(v, w)'
      BY <1>2, <1>4 DEF Apart
  <2> QED
      BY <1>1, <1>2, <1>4, <2>1 DEF Claims, ClaimOf, Apart
<1>5. ASSUME NEW w \in Worker, claim' = claim, games_count_' = games_count_, Alone(w),
             Active(w)' => Active(w) /\ ClaimOf(w)'
      PROVE  Claims'
  <2>1. \A v \in Worker : v # w /\ Active(v)' => Active(v) /\ ClaimOf(v)'
      BY <1>1, <1>2, <1>5 DEF Alone, Active, ClaimOf
  <2> QED
      BY <1>4, <1>5, <2>1
<1>6. ASSUME NEW w \in Worker, Claim(w) PROVE Claims'
  <2>1. ClaimEffect(w) /\ Alone(w)
      BY <1>6, WorkerEffects
  <2>2. CASE pc' = [pc EXCEPT ![w] = "ended"] /\ UNCHANGED <<games_count_, claim, index>>
    <3>1. ~Active(w)'
        BY <1>1, <2>2 DEF Active
    <3> QED
        BY <1>5, <2>1, <2>2, <3>1
  <2>3. ASSUME NEW n \in Nat,
               claim' = [claim EXCEPT ![w] = [id |-> games_count_, count |-> n]],
               n > 0, games_count_' = games_count_ + n, games_count_' <= Cap,
               IF mode.multi = 0 THEN n = 1 ELSE n % 2 = 0 /\ games_count_' % 2 = 0,
               index' = [index EXCEPT ![w] = 0], pc' = [pc EXCEPT ![w] = "create"]
        PROVE  Claims'
    <3>1. /\ claim'[w].id = games_count_ /\ claim'[w].count = n /\ index'[w] = 0
          /\ pc'[w] = "create"
        BY <1>1, <2>3
    <3>2. ClaimOf(w)'
        BY <1>1, <2>3, <3>1 DEF ClaimOf
    <3>3. \A u \in Worker : /\ claim[u].id \in Nat /\ claim[u].count \in Nat
                            /\ index[u] \in Nat
        BY <1>1
    <3>4. ASSUME NEW u \in Worker, u # w, Active(u)' 
          PROVE  Active(u) /\ ClaimOf(u)' /\ claim'[u] = claim[u] /\ Apart(u, w)' /\ Apart(w, u)'
      <4>1. Active(u) /\ claim'[u] = claim[u] /\ index'[u] = index[u] /\ pc'[u] = pc[u]
          BY <2>1, <3>4 DEF Alone, Active
      <4>2. ClaimOf(u)
          BY <1>2, <4>1
      <4>3. claim[u].id + claim[u].count <= games_count_
          BY <4>2 DEF ClaimOf
      <4>4. claim[u].id + claim[u].count <= games_count_'
          BY <1>1, <2>3, <3>3, <4>3
      <4>5. ClaimOf(u)'
          BY <1>1, <4>1, <4>2, <4>4 DEF ClaimOf
      <4> QED
          BY <3>1, <4>1, <4>3, <4>5 DEF Apart
    <3>5. \A u, v \in Worker : u # v /\ Active(u)' /\ Active(v)' => Apart(u, v)'
      <4> SUFFICES ASSUME NEW u \in Worker, NEW v \in Worker, u # v, Active(u)', Active(v)'
                   PROVE  Apart(u, v)'
          OBVIOUS
      <4>1. CASE u # w /\ v # w
        <5>1. Apart(u, v) /\ claim'[u] = claim[u] /\ claim'[v] = claim[v]
            BY <1>2, <3>4, <4>1
        <5> QED
            BY <5>1 DEF Apart
      <4> QED
          BY <3>4, <4>1
    <3>6. mode.multi > 0 => games_count_' % 2 = 0
        BY <1>1, <2>3
    <3> QED
        BY <1>3, <2>3, <3>2, <3>4, <3>5, <3>6
  <2> QED
      BY <2>1, <2>2, <2>3 DEF ClaimEffect
<1>7. ASSUME NEW w \in Worker, CreateGame(w) PROVE Claims'
  <2>1. CreateEffect(w) /\ Alone(w)
      BY <1>7, WorkerEffects
  <2>2. Active(w) /\ claim' = claim /\ index' = index /\ games_count_' = games_count_
        /\ pc[w] = "create" /\ pc'[w] # "tally"
      BY <1>1, <2>1 DEF CreateEffect, Active
  <2>3. ClaimOf(w)'
      BY <1>1, <1>2, <2>2 DEF ClaimOf
  <2> QED
      BY <1>5, <2>1, <2>2, <2>3
<1>8. ASSUME NEW w \in Worker, Report(w) PROVE Claims'
  <2>1. ReportEffect(w) /\ Alone(w)
      BY <1>8, WorkerEffects
  <2>2. /\ Active(w) /\ claim' = claim /\ games_count_' = games_count_
        /\ pc'[w] \in {"report", "tally"} /\ index[w] < claim[w].count
        /\ \/ index'[w] = index[w] + 1 /\ pc'[w] = "report"
           \/ index'[w] = index[w]
      BY <1>1, <2>1 DEF ReportEffect, Active
  <2>3. claim[w].count \in Nat /\ index[w] \in Nat
      BY <1>1
  <2>4. index'[w] <= claim[w].count /\ (pc'[w] = "tally" => index'[w] < claim[w].count)
      BY <2>2, <2>3
  <2>5. ClaimOf(w)'
      BY <1>1, <1>2, <2>2, <2>4 DEF ClaimOf
  <2> QED
      BY <1>5, <2>1, <2>2, <2>5
<1>9. ASSUME NEW w \in Worker, Tally(w) PROVE Claims'
  <2>1. TallyEffect(w) /\ Alone(w)
      BY <1>9, WorkerEffects, TallyHasEffect
  <2>2. /\ Active(w) /\ claim' = claim /\ games_count_' = games_count_ /\ pc[w] = "tally"
        /\ pc'[w] = "report" /\ index'[w] = index[w] + 1
      BY <1>1, <2>1 DEF TallyEffect, Active
  <2>3. claim[w].count \in Nat /\ index[w] \in Nat /\ index[w] < claim[w].count
      BY <1>1, <1>2, <2>2 DEF ClaimOf
  <2>4. ClaimOf(w)'
      BY <1>1, <1>2, <2>2, <2>3 DEF ClaimOf
  <2> QED
      BY <1>5, <2>1, <2>2, <2>4
<1>10. ASSUME NEW w \in Worker, Erase(w) PROVE Claims'
  <2>1. EraseEffect(w) /\ Alone(w)
      BY <1>10, WorkerEffects, EraseHasEffect
  <2>2. ~Active(w)'
      BY <1>1, <2>1 DEF EraseEffect, Active
  <2> QED
      BY <1>5, <2>1, <2>2 DEF EraseEffect
<1>11. ASSUME NEW w \in Worker, Play(w) PROVE Claims'
  <2>1. Alone(w)
      BY <1>11, WorkerEffects
  <2>2. PICK g \in GameOf(Boards(w)) : PlayEffect(w, g)
      BY <1>11, WorkerEffects
  <2>3. Active(w) /\ claim' = claim /\ index' = index /\ games_count_' = games_count_
        /\ pc[w] \notin {"report", "tally"}
      BY <2>2 DEF PlayEffect, Active, Playing, Single
  <2>4. pc'[w] # "tally"
      BY <1>1, <2>2 DEF PlayEffect, Single
  <2>5. ClaimOf(w)'
      BY <1>1, <1>2, <2>3, <2>4 DEF ClaimOf
  <2> QED
      BY <1>5, <2>1, <2>3, <2>5
<1>12. ASSUME UNCHANGED <<games_count_, local>> PROVE Claims'
  <2>1. \A w \in Worker : Active(w)' => Active(w) /\ ClaimOf(w)'
      BY <1>1, <1>2, <1>12 DEF Active, ClaimOf, local
  <2> QED
      BY <1>4, <1>12, <2>1 DEF local
<1>13. ASSUME StartAsync PROVE Claims'
  <2>1. \A w \in Worker : ~Active(w)'
      BY <1>13 DEF StartAsync, Active
  <2> QED
      BY <1>4, <1>13, <2>1 DEF StartAsync
<1>14. ASSUME AbortStep \/ ClientStep PROVE Claims'
    BY <1>12, <1>14, AbortHasEffect, ClientHasEffect DEF AbortEffect, ClientEffect, TournamentInv
<1> QED
    BY <1>6, <1>7, <1>8, <1>9, <1>10, <1>11, <1>13, <1>14, StepKinds

\* The report of a worker depends on the results of its games and on its claim.
LEMMA ReportStays ==
  ASSUME TournamentInv, [Next]_vars, NEW w \in Worker, pc[w] = "tally",
         claim'[w] = claim[w], index'[w] = index[w], Len(games'[w]) = Len(games[w]),
         \A i \in 1..Len(games[w]) : games'[w][i].results = games[w][i].results
  PROVE  ReportOf(w)' = ReportOf(w) /\ GameId(w)' = GameId(w)
<1>1. Active(w)
    BY DEF Active
<1>2. index[w] < claim[w].count
    BY <1>1 DEF TournamentInv, Claims
<1> DEFINE i == 1 + (index[w] % Len(games[w]))
           b == 1 + (index[w] \div Len(games[w]))
<1>3. i \in 1..Len(games[w])
    BY <1>2, ReportedIsGame DEF TournamentInv
<1>4. /\ ReportedResult(w) = games[w][i].results[b]
      /\ ReportedResult(w)' = games'[w][i].results[b]
    BY DEF ReportedResult, ReportedGame
<1>5. GameId(w)' = GameId(w) /\ Player1Black(w)' = Player1Black(w)
    BY ModeKept DEF GameId, Player1Black
<1> HIDE DEF i, b
<1> QED
    BY <1>3, <1>4, <1>5 DEF ReportOf

\* The games claimed by two workers are different.
LEMMA RemainingApart ==
  ASSUME TypeOK, Claims, NEW v \in Worker, NEW w \in Worker, v # w, Active(v), Active(w),
         NEW id \in Remaining(v)
  PROVE  id \notin Remaining(w) /\ id < games_count_
<1>1. /\ claim[v].id \in Nat /\ claim[v].count \in Nat /\ index[v] \in Nat
      /\ claim[w].id \in Nat /\ claim[w].count \in Nat /\ index[w] \in Nat /\ games_count_ \in Nat
    BY DEF TypeOK
<1>2. \/ claim[v].id + claim[v].count <= claim[w].id
      \/ claim[w].id + claim[w].count <= claim[v].id
    BY DEF Claims
<1>3. claim[v].id + claim[v].count <= games_count_
    BY DEF Claims
<1>4. /\ id \in Int /\ claim[v].id + index[v] <= id /\ id <= claim[v].id + claim[v].count - 1
    BY <1>1 DEF Remaining
<1> QED
    BY <1>1, <1>2, <1>3, <1>4 DEF Remaining

Unreported(w, reports) ==
  \A g \in reports : g.id \in Remaining(w) => pc[w] = "tally" /\ g.id = GameId(w)

\* A game is reported once, as its worker goes on from it before it reports another.
LEMMA ReportsKept ==
  ASSUME TournamentInv, [Next]_vars
  PROVE  Reports'
<1> USE DEF TournamentInv
<1>1. /\ pc \in [Worker -> Places] /\ mode.multi \in Nat
      /\ claim \in [Worker -> [id : Nat, count : Nat]] /\ index \in [Worker -> Nat]
      /\ games_count_ \in Nat /\ reported \subseteq GameReport /\ cut \subseteq Nat
      /\ \A g \in reported : g.id \in Nat
      /\ \A w \in Worker : claim[w].id \in Nat /\ claim[w].count \in Nat /\ index[w] \in Nat
    BY CapOf DEF TypeOK, GameReport
<1>2. /\ \A g, h \in reported : g.id = h.id => g = h
      /\ \A g \in reported : g.id < games_count_
      /\ \A w \in Worker : Active(w) => Unreported(w, reported)
      /\ \A w \in Worker : pc[w] = "tally" => ReportOf(w) \in reported
      /\ \A id \in cut : id < games_count_
    BY DEF Reports, Unreported
<1>3. ASSUME /\ \A g, h \in reported' : g.id = h.id => g = h
             /\ \A g \in reported' : g.id < games_count_'
             /\ \A w \in Worker : Active(w)' => Unreported(w, reported)'
             /\ \A w \in Worker : pc'[w] = "tally" => ReportOf(w)' \in reported'
             /\ \A id \in cut' : id < games_count_'
      PROVE  Reports'
    BY <1>3 DEF Reports, Unreported
\* A worker leaves the reports of the others alone.
<1>4. ASSUME NEW w \in Worker, Alone(w), NEW v \in Worker, v # w
      PROVE  /\ Active(v)' = Active(v) /\ pc'[v] = pc[v]
             /\ Remaining(v)' = Remaining(v) /\ GameId(v)' = GameId(v)
             /\ pc[v] = "tally" => ReportOf(v)' = ReportOf(v)
  <2>1. pc'[v] = pc[v] /\ claim'[v] = claim[v] /\ index'[v] = index[v] /\ games'[v] = games[v]
      BY <1>4 DEF Alone
  <2>2. pc[v] = "tally" => ReportOf(v)' = ReportOf(v)
      BY <2>1, ReportStays
  <2> QED
      BY <2>1, <2>2 DEF Active, Remaining, GameId
<1>5. ASSUME NEW w \in Worker, Alone(w), reported' = reported,
             Active(w)' => Unreported(w, reported)', pc'[w] # "tally"
      PROVE  /\ \A g, h \in reported' : g.id = h.id => g = h
             /\ \A u \in Worker : Active(u)' => Unreported(u, reported)'
             /\ \A u \in Worker : pc'[u] = "tally" => ReportOf(u)' \in reported'
  <2>1. \A u \in Worker : Active(u)' => Unreported(u, reported)'
      BY <1>2, <1>4, <1>5 DEF Unreported
  <2>2. \A u \in Worker : pc'[u] = "tally" => ReportOf(u)' \in reported'
      BY <1>2, <1>4, <1>5
  <2> QED
      BY <1>2, <1>5, <2>1, <2>2
<1>6. ASSUME NEW w \in Worker, Claim(w) PROVE Reports'
  <2>1. ClaimEffect(w) /\ Alone(w)
      BY <1>6, WorkerEffects
  <2>2. reported' = reported /\ cut' = cut
      BY <2>1 DEF ClaimEffect
  <2>3. CASE pc' = [pc EXCEPT ![w] = "ended"] /\ UNCHANGED <<games_count_, claim, index>>
    <3>1. pc'[w] = "ended" /\ ~Active(w)'
        BY <1>1, <2>3 DEF Active
    <3> QED
        BY <1>2, <1>3, <1>5, <2>1, <2>2, <2>3, <3>1
  <2>4. ASSUME NEW n \in Nat,
               claim' = [claim EXCEPT ![w] = [id |-> games_count_, count |-> n]],
               games_count_' = games_count_ + n,
               index' = [index EXCEPT ![w] = 0], pc' = [pc EXCEPT ![w] = "create"]
        PROVE  Reports'
    <3>1. claim'[w].id = games_count_ /\ claim'[w].count = n /\ index'[w] = 0 /\ pc'[w] = "create"
        BY <1>1, <2>4
    <3>2. \A id \in Remaining(w)' : id >= games_count_
        BY <1>1, <3>1 DEF Remaining
    <3>3. \A k \in Nat : ~(k >= games_count_ /\ k < games_count_)
        BY <1>1
    <3>4. Unreported(w, reported)'
        BY <1>1, <1>2, <2>2, <3>2, <3>3 DEF Unreported
    <3>5. \A id \in Nat : id < games_count_ => id < games_count_'
        BY <1>1, <2>4
    <3>6. (\A g \in reported' : g.id < games_count_') /\ (\A id \in cut' : id < games_count_')
        BY <1>1, <1>2, <2>2, <3>5
    <3> QED
        BY <1>3, <1>5, <2>1, <2>2, <3>1, <3>4, <3>6
  <2> QED
      BY <2>1, <2>3, <2>4 DEF ClaimEffect
<1>7. ASSUME NEW w \in Worker, CreateGame(w) PROVE Reports'
  <2>1. CreateEffect(w) /\ Alone(w)
      BY <1>7, WorkerEffects
  <2>2. Active(w) /\ UNCHANGED <<claim, index, games_count_, reported, cut>>
        /\ pc[w] = "create" /\ pc'[w] # "tally"
      BY <1>1, <2>1 DEF CreateEffect, Active
  <2>3. Unreported(w, reported)'
      BY <1>2, <2>2 DEF Unreported, Remaining
  <2> QED
      BY <1>2, <1>3, <1>5, <2>1, <2>2, <2>3
<1>8. ASSUME NEW w \in Worker, Report(w) PROVE Reports'
  <2>1. ReportEffect(w) /\ Alone(w)
      BY <1>8, WorkerEffects
  <2>2. Active(w) /\ pc[w] = "report" /\ UNCHANGED <<claim, games_count_, cut>>
      BY <2>1 DEF ReportEffect, Active
  <2>3. \A g \in reported : g.id \notin Remaining(w)
      BY <1>2, <2>2 DEF Unreported
  <2>4. GameId(w) \in Remaining(w) /\ GameId(w) < games_count_
    <3>1. index[w] < claim[w].count /\ claim[w].id + claim[w].count <= games_count_
        BY <2>1, <2>2 DEF ReportEffect, Claims
    <3> QED
        BY <1>1, <3>1 DEF GameId, Remaining
  <2>5. CASE /\ index' = [index EXCEPT ![w] = index[w] + 1] /\ UNCHANGED <<reported, pc>>
    <3>1. index'[w] = index[w] + 1 /\ pc'[w] = "report"
        BY <1>1, <2>2, <2>5
    <3>2. Remaining(w)' \subseteq Remaining(w)
        BY <1>1, <2>2, <3>1 DEF Remaining
    <3>3. Unreported(w, reported)'
        BY <2>3, <2>5, <3>2 DEF Unreported
    <3> QED
        BY <1>2, <1>3, <1>5, <2>1, <2>2, <2>5, <3>1, <3>3
  <2>6. CASE /\ reported' = reported \cup {ReportOf(w)} /\ ReportOf(w) \in GameReport
             /\ pc' = [pc EXCEPT ![w] = "tally"] /\ UNCHANGED index
    <3> DEFINE r == ReportOf(w)
    <3>1. r.id = GameId(w) /\ pc'[w] = "tally" /\ reported' = reported \cup {r} /\ games' = games
        BY <1>1, <2>1, <2>6 DEF ReportOf, ReportEffect
    <3>2. ReportOf(w)' = r
        BY <2>2, <2>6, <3>1, ModeKept
        DEF ReportOf, GameId, Player1Black, ReportedResult, ReportedGame
    <3> HIDE DEF r
    <3>3. \A g \in reported : g.id # r.id
        BY <2>3, <2>4, <3>1
    <3>4. \A g, h \in reported' : g.id = h.id => g = h
        BY <1>2, <3>1, <3>3
    <3>5. (\A g \in reported' : g.id < games_count_') /\ (\A id \in cut' : id < games_count_')
        BY <1>2, <2>2, <2>4, <3>1
    <3>6. Remaining(w)' = Remaining(w) /\ GameId(w)' = GameId(w)
        BY <2>2, <2>6 DEF Remaining, GameId
    <3>7. Unreported(w, reported)'
        BY <2>3, <3>1, <3>6 DEF Unreported
    <3>8. ASSUME NEW v \in Worker, v # w, Active(v)' PROVE Unreported(v, reported)'
      <4>1. Active(v) /\ Remaining(v)' = Remaining(v) /\ GameId(v)' = GameId(v) /\ pc'[v] = pc[v]
          BY <1>4, <2>1, <3>8
      <4>2. r.id \notin Remaining(v)
          BY <2>2, <2>4, <3>1, <3>8, <4>1, RemainingApart
      <4> QED
          BY <1>2, <3>1, <4>1, <4>2 DEF Unreported
    <3>9. \A v \in Worker : pc'[v] = "tally" => ReportOf(v)' \in reported'
      <4> SUFFICES ASSUME NEW v \in Worker, pc'[v] = "tally" PROVE ReportOf(v)' \in reported'
          OBVIOUS
      <4>1. CASE v = w
          BY <3>1, <3>2, <4>1
      <4>2. CASE v # w
          BY <1>2, <1>4, <2>1, <3>1, <4>2
      <4> QED
          BY <4>1, <4>2
    <3>10. \A v \in Worker : Active(v)' => Unreported(v, reported)'
        BY <3>7, <3>8
    <3> QED
        BY <1>3, <3>4, <3>5, <3>9, <3>10
  <2> QED
      BY <2>1, <2>5, <2>6 DEF ReportEffect
<1>9. ASSUME NEW w \in Worker, Tally(w) PROVE Reports'
  <2>1. TallyEffect(w) /\ Alone(w)
      BY <1>9, WorkerEffects, TallyHasEffect
  <2>2. /\ Active(w) /\ UNCHANGED <<claim, games_count_, reported, cut>>
        /\ pc'[w] = "report" /\ index'[w] = index[w] + 1
      BY <1>1, <2>1 DEF TallyEffect, Active
  <2>3. Remaining(w)' \subseteq Remaining(w) \ {GameId(w)}
      BY <1>1, <2>2 DEF Remaining, GameId
  <2>4. Unreported(w, reported)'
      BY <1>2, <2>2, <2>3 DEF Unreported
  <2> QED
      BY <1>2, <1>3, <1>5, <2>1, <2>2, <2>4
<1>10. ASSUME NEW w \in Worker, Erase(w) PROVE Reports'
  <2>1. EraseEffect(w) /\ Alone(w)
      BY <1>10, WorkerEffects, EraseHasEffect
  <2>2. ~Active(w)' /\ pc'[w] # "tally" /\ UNCHANGED <<reported, cut, games_count_>>
      BY <1>1, <2>1 DEF EraseEffect, Active
  <2> QED
      BY <1>2, <1>3, <1>5, <2>1, <2>2
<1>11. ASSUME NEW w \in Worker, Play(w) PROVE Reports'
  <2>1. Alone(w)
      BY <1>11, WorkerEffects
  <2>2. PICK g \in GameOf(Boards(w)) : PlayEffect(w, g)
      BY <1>11, WorkerEffects
  <2>3. /\ Active(w) /\ UNCHANGED <<claim, index, games_count_, reported>>
        /\ pc[w] \notin {"report", "tally"}
        /\ cut' = cut \/ cut' = cut \cup {GameId(w)}
      BY <2>2 DEF PlayEffect, Active, Playing, Single
  <2>4. pc'[w] # "tally"
      BY <1>1, <2>2 DEF PlayEffect, Single
  <2>5. Unreported(w, reported)'
      BY <1>2, <2>3 DEF Unreported, Remaining
  <2>6. GameId(w) < games_count_
    <3>1. /\ index[w] = 0 /\ claim[w].count > 0 /\ claim[w].id + claim[w].count <= games_count_
        BY <1>1, <2>3 DEF Claims
    <3> QED
        BY <1>1, <3>1 DEF GameId
  <2> QED
      BY <1>2, <1>3, <1>5, <2>1, <2>3, <2>4, <2>5, <2>6
<1>12. ASSUME UNCHANGED <<games_count_, reported, cut, local>>,
              \A w \in Worker : /\ Len(games'[w]) = Len(games[w])
                                /\ \A i \in 1..Len(games[w]) :
                                     games'[w][i].results = games[w][i].results
       PROVE  Reports'
  <2>1. \A w \in Worker : Active(w)' => Unreported(w, reported)'
      BY <1>2, <1>12 DEF Active, Unreported, Remaining, GameId, local
  <2>2. \A w \in Worker : pc'[w] = "tally" => ReportOf(w)' \in reported'
      BY <1>2, <1>12, ReportStays DEF local
  <2> QED
      BY <1>2, <1>3, <1>12, <2>1, <2>2
<1>13. ASSUME StartAsync PROVE Reports'
  <2>1. \A w \in Worker : ~Active(w)' /\ pc'[w] # "tally"
      BY <1>13 DEF StartAsync, Active
  <2> QED
      BY <1>2, <1>3, <1>13, <2>1 DEF StartAsync, played
<1>14. ASSUME AbortStep PROVE Reports'
  <2>1. AbortEffect
      BY <1>14, AbortHasEffect
  <2> QED
      BY <1>12, <2>1 DEF AbortEffect, Marked
<1>15. ASSUME ClientStep PROVE Reports'
    BY <1>12, <1>15, ClientHasEffect DEF ClientEffect, played
<1> QED
    BY <1>6, <1>7, <1>8, <1>9, <1>10, <1>11, <1>13, <1>14, <1>15, StepKinds

\* The rows depend on the reports and on what is in hand.
LEMMA RowKept ==
  ASSUME reported' = reported, InHand' = InHand
  PROVE  \A row, column : Row(row, column)' = Row(row, column)
BY DEF Row, Score

\* What is in the hands of the workers but for one of them.
InOtherHands(w) == {GameId(v) : v \in {u \in Worker : u # w /\ pc[u] = "tally"}}

\* A step of a worker changes what it has in hand, and nothing else.
LEMMA OtherHandsKept ==
  ASSUME TournamentInv, NEW w \in Worker, Alone(w)
  PROVE  /\ InOtherHands(w)' = InOtherHands(w)
         /\ InHand = InOtherHands(w) \cup (IF pc[w] = "tally" THEN {GameId(w)} ELSE {})
         /\ InHand' = InOtherHands(w) \cup (IF pc'[w] = "tally" THEN {GameId(w)'} ELSE {})
<1>1. \A v \in Worker : v # w => pc'[v] = pc[v] /\ GameId(v)' = GameId(v)
    BY DEF Alone, GameId
<1>2. InOtherHands(w)' = InOtherHands(w)
    BY <1>1 DEF InOtherHands
<1>3. InHand = InOtherHands(w) \cup (IF pc[w] = "tally" THEN {GameId(w)} ELSE {})
    BY DEF InHand, InOtherHands
<1>4. InHand' = InOtherHands(w)' \cup (IF pc'[w] = "tally" THEN {GameId(w)'} ELSE {})
    BY DEF InHand, InOtherHands
<1> QED
    BY <1>2, <1>3, <1>4

\* The row and the column of the report that is added.
LEMMA TallyCounts ==
  ASSUME TournamentInv, NEW w \in Worker, Tally(w)
  PROVE  /\ ReportOf(w) \in reported /\ ReportOf(w).id = GameId(w)
         /\ results \in [0..2 -> [0..1 -> Nat]]
         /\ \E c \in 0..1 :
              /\ Score(ReportOf(w)) \in 0..2
              /\ results' = [results EXCEPT ![Score(ReportOf(w))][c] = @ + 1]
              /\ \A k \in 0..1 : ReportOf(w).black = (k = 1) <=> k = c
<1> DEFINE r == ReportOf(w)
           result == CASE ReportedResult(w) = "WHITE_WON" -> 0
                       [] ReportedResult(w) = "DRAW" -> 1
                       [] OTHER -> 2
           row == IF Player1Black(w) THEN 2 - result ELSE result
           c == IF Player1Black(w) THEN 1 ELSE 0
<1>1. r \in reported /\ results' = [results EXCEPT ![row][c] = @ + 1]
    BY DEF Tally, Reports, TournamentInv
<1>2. /\ r.id = GameId(w) /\ r.black = Player1Black(w) /\ r.result = ReportedResult(w)
    BY DEF ReportOf
<1>3. r.black \in BOOLEAN /\ r.result \in {"WHITE_WON", "DRAW", "BLACK_WON"}
    BY <1>1, TournamentAssumption DEF TournamentInv, TypeOK, GameReport
<1>4. row = Score(r) /\ row \in 0..2
  <2>1. CASE r.result = "WHITE_WON"
      BY <1>2, <1>3, <2>1 DEF Score
  <2>2. CASE r.result = "DRAW"
      BY <1>2, <1>3, <2>2 DEF Score
  <2>3. CASE r.result = "BLACK_WON"
      BY <1>2, <1>3, <2>3 DEF Score
  <2> QED
      BY <1>3, <2>1, <2>2, <2>3
<1>5. c \in 0..1 /\ \A k \in 0..1 : r.black = (k = 1) <=> k = c
  <2>1. CASE r.black = TRUE
    <3>1. c = 1
        BY <1>2, <2>1
    <3> HIDE DEF c, r
    <3>2. \A k \in 0..1 : (TRUE = (k = 1)) <=> k = 1
        OBVIOUS
    <3>3. \A k \in 0..1 : r.black = (k = 1) <=> k = 1
        BY <2>1, <3>2, Zenon
    <3>4. 1 \in 0..1
        OBVIOUS
    <3> QED
        BY <3>1, <3>3, <3>4
  <2>2. CASE r.black = FALSE
    <3>1. c = 0
        BY <1>2, <2>2
    <3> HIDE DEF c, r
    <3>2. \A k \in 0..1 : (FALSE = (k = 1)) <=> k = 0
        OBVIOUS
    <3>3. \A k \in 0..1 : r.black = (k = 1) <=> k = 0
        BY <2>2, <3>2, Zenon
    <3>4. 0 \in 0..1
        OBVIOUS
    <3> QED
        BY <3>1, <3>3, <3>4
  <2> QED
      BY <1>3, <2>1, <2>2
<1> HIDE DEF r, row, c
<1>6. results \in [0..2 -> [0..1 -> Nat]]
    BY DEF TournamentInv, TypeOK
<1>7. \E k \in 0..1 :
        /\ Score(r) \in 0..2 /\ results' = [results EXCEPT ![Score(r)][k] = @ + 1]
        /\ \A j \in 0..1 : r.black = (j = 1) <=> j = k
    BY <1>1, <1>4, <1>5
<1> QED
    BY <1>1, <1>2, <1>6, <1>7 DEF r

\* The table keeps up with the reports.
LEMMA TableKept ==
  ASSUME TournamentInv, [Next]_vars
  PROVE  Table'
<1>1. /\ pc \in [Worker -> Places] /\ reported \subseteq GameReport /\ IsFiniteSet(reported)
      /\ results \in [0..2 -> [0..1 -> Nat]]
      /\ \A row \in 0..2, column \in 0..1 : results[row][column] = Cardinality(Row(row, column))
    BY DEF TournamentInv, TypeOK, Table
<1>2. ASSUME results' = results, \A row, column : Row(row, column)' = Row(row, column)
      PROVE  Table'
    BY <1>1, <1>2 DEF Table
<1>3. ASSUME NEW w \in Worker, Alone(w), results' = results, reported' = reported,
             pc[w] # "tally", pc'[w] # "tally"
      PROVE  Table'
    BY <1>2, <1>3, OtherHandsKept, RowKept
<1>4. ASSUME NEW w \in Worker, Claim(w) PROVE Table'
  <2>1. ClaimEffect(w) /\ Alone(w)
      BY <1>4, WorkerEffects
  <2>2. pc[w] # "tally" /\ pc'[w] # "tally" /\ UNCHANGED <<results, reported>>
      BY <1>1, <2>1 DEF ClaimEffect
  <2> QED
      BY <1>3, <2>1, <2>2
<1>5. ASSUME NEW w \in Worker, CreateGame(w) PROVE Table'
  <2>1. CreateEffect(w) /\ Alone(w) /\ mode.multi \in Nat
      BY <1>5, WorkerEffects, CapOf DEF TournamentInv
  <2>2. pc[w] # "tally" /\ pc'[w] # "tally" /\ UNCHANGED <<results, reported>>
      BY <1>1, <2>1 DEF CreateEffect
  <2> QED
      BY <1>3, <2>1, <2>2
<1>6. ASSUME NEW w \in Worker, Erase(w) PROVE Table'
  <2>1. EraseEffect(w) /\ Alone(w)
      BY <1>6, WorkerEffects, EraseHasEffect
  <2>2. pc[w] # "tally" /\ pc'[w] # "tally" /\ UNCHANGED <<results, reported>>
      BY <1>1, <2>1 DEF EraseEffect
  <2> QED
      BY <1>3, <2>1, <2>2
<1>7. ASSUME NEW w \in Worker, Play(w) PROVE Table'
  <2>1. Alone(w) /\ mode.multi \in Nat
      BY <1>7, WorkerEffects, CapOf DEF TournamentInv
  <2>2. PICK g \in GameOf(Boards(w)) : PlayEffect(w, g)
      BY <1>7, WorkerEffects
  <2>3. pc[w] # "tally" /\ pc'[w] # "tally" /\ UNCHANGED <<results, reported>>
      BY <2>1, <2>2 DEF PlayEffect, Playing, Single
  <2> QED
      BY <1>3, <2>1, <2>3
\* A report that has just been made is still in hand.
<1>8. ASSUME NEW w \in Worker, Report(w) PROVE Table'
  <2>1. ReportEffect(w) /\ Alone(w) /\ pc[w] = "report" /\ results' = results
      BY <1>8, WorkerEffects DEF ReportEffect
  <2>2. CASE reported' = reported /\ pc' = pc
      BY <1>3, <2>1, <2>2
  <2>3. CASE /\ reported' = reported \cup {ReportOf(w)} /\ index' = index
             /\ pc' = [pc EXCEPT ![w] = "tally"]
    <3> DEFINE r == ReportOf(w)
               id == GameId(w)
    <3>1. pc'[w] = "tally" /\ GameId(w)' = id /\ r.id = id
        BY <1>1, <2>1, <2>3 DEF ReportEffect, GameId, ReportOf
    <3>2. InHand' = InHand \cup {id}
        BY <2>1, <3>1, OtherHandsKept
    <3>3. id \in Remaining(w) /\ Active(w)
      <4>1. index[w] < claim[w].count
          BY <2>1 DEF ReportEffect
      <4> QED
          BY <2>1, <4>1, ReportedIsGame DEF Active, TournamentInv
    <3>4. \A g \in reported : g.id # id
        BY <2>1, <3>3 DEF TournamentInv, Reports
    <3> HIDE DEF r, id
    <3>5. ASSUME NEW row, NEW column PROVE Row(row, column)' = Row(row, column)
        BY <2>3, <3>1, <3>2, <3>4 DEF Row, Score, r
    <3> QED
        BY <1>2, <2>1, <3>5
  <2> QED
      BY <2>1, <2>2, <2>3 DEF ReportEffect
\* The report in hand is added to its row, and to no other.
<1>9. ASSUME NEW w \in Worker, Tally(w) PROVE Table'
  <2>1. TallyEffect(w) /\ Alone(w)
      BY <1>9, WorkerEffects, TallyHasEffect
  <2>2. pc[w] = "tally" /\ pc'[w] = "report" /\ reported' = reported
      BY <1>1, <2>1 DEF TallyEffect
  <2> DEFINE r == ReportOf(w)
             s == Score(r)
             id == GameId(w)
  <2>3. PICK c \in 0..1 : /\ s \in 0..2
                          /\ results' = [results EXCEPT ![s][c] = @ + 1]
                          /\ \A k \in 0..1 : r.black = (k = 1) <=> k = c
      BY <1>9, TallyCounts
  <2>4. r \in reported /\ r.id = id
      BY <1>9, TallyCounts
  <2>5. id \notin InOtherHands(w)
    <3> SUFFICES ASSUME NEW v \in Worker, v # w, pc[v] = "tally", GameId(v) = id
                 PROVE  FALSE
        BY DEF InOtherHands
    <3>1. \A u \in {v, w} : Active(u) /\ GameId(u) \in Remaining(u)
      <4> SUFFICES ASSUME NEW u \in {v, w} PROVE Active(u) /\ GameId(u) \in Remaining(u)
          OBVIOUS
      <4>1. u \in Worker /\ pc[u] = "tally" /\ Active(u)
          BY <2>2 DEF Active
      <4>2. index[u] < claim[u].count
          BY <4>1 DEF TournamentInv, Claims
      <4> QED
          BY <4>1, <4>2, ReportedIsGame DEF TournamentInv
    <3>2. id \in Remaining(v) /\ id \in Remaining(w) /\ Active(v) /\ Active(w)
        BY <3>1
    <3> QED
        BY <3>2, RemainingApart DEF TournamentInv
  <2>6. InHand = InOtherHands(w) \cup {id} /\ InHand' = InOtherHands(w)
      BY <2>1, <2>2, OtherHandsKept
  <2>7. \A g \in reported : g.id = id => g = r
      BY <2>4 DEF TournamentInv, Reports
  <2> HIDE DEF r, s, id
  <2>8. ASSUME NEW row \in 0..2, NEW column \in 0..1
        PROVE  /\ row = s /\ column = c => /\ Row(row, column)' = Row(row, column) \cup {r}
                                           /\ r \notin Row(row, column)
               /\ ~(row = s /\ column = c) => Row(row, column)' = Row(row, column)
               /\ IsFiniteSet(Row(row, column))
    <3>1. Row(row, column)' = {g \in reported : /\ g.id \notin InOtherHands(w)
                                                /\ Score(g) = row
                                                /\ g.black = (column = 1)}
        BY <2>2, <2>6 DEF Row, Score
    <3>2. r \notin Row(row, column)
        BY <2>4, <2>6 DEF Row
    <3>3. (Score(r) = row /\ r.black = (column = 1)) <=> (row = s /\ column = c)
        BY <2>3 DEF s
    <3>4. IsFiniteSet(Row(row, column))
        BY <1>1, FS_Subset DEF Row
    <3> QED
        BY <2>4, <2>5, <2>6, <2>7, <3>1, <3>2, <3>3, <3>4 DEF Row
  <2>9. ASSUME NEW row \in 0..2, NEW column \in 0..1
        PROVE  results'[row][column] = Cardinality(Row(row, column)')
    <3>1. results[row][column] = Cardinality(Row(row, column)) /\ results[row][column] \in Nat
        BY <1>1
    <3>2. CASE row = s /\ column = c
      <4>1. results'[row][column] = results[row][column] + 1
          BY <1>1, <2>3, <3>2
      <4>2. Cardinality(Row(row, column) \cup {r}) = Cardinality(Row(row, column)) + 1
          BY <2>8, <3>2, FS_AddElement
      <4> QED
          BY <2>8, <3>1, <3>2, <4>1, <4>2
    <3>3. CASE ~(row = s /\ column = c)
      <4>1. results'[row][column] = results[row][column]
          BY <1>1, <2>3, <3>3
      <4> QED
          BY <2>8, <3>1, <3>3, <4>1
    <3> QED
        BY <3>2, <3>3
  <2> QED
      BY <2>9 DEF Table
<1>10. ASSUME UNCHANGED <<results, reported, local>> PROVE Table'
  <2>1. InHand' = InHand
      BY <1>10 DEF InHand, GameId, local
  <2> QED
      BY <1>2, <1>10, <2>1, RowKept
<1>11. ASSUME StartAsync PROVE Table'
  <2>1. InHand' = {} /\ UNCHANGED <<results, reported>>
      BY <1>11 DEF StartAsync, InHand, played
  <2>2. InHand = {}
      BY <1>11 DEF StartAsync, InHand, Owner, TournamentInv
  <2> QED
      BY <1>2, <2>1, <2>2, RowKept
<1>12. ASSUME AbortStep \/ ClientStep PROVE Table'
    BY <1>10, <1>12, AbortHasEffect, ClientHasEffect
    DEF AbortEffect, ClientEffect, played, TournamentInv
<1> QED
    BY <1>4, <1>5, <1>6, <1>7, <1>8, <1>9, <1>11, <1>12, StepKinds

\* The places in the lists are the same as long as no list grows or shrinks.
LEMMA PlacesKept ==
  ASSUME \A w \in Worker : Len(games'[w]) = Len(games[w])
  PROVE  AllGames' = AllGames
BY DEF AllGames

\* A place is a worker and a position in its list.
LEMMA PlaceOf ==
  ASSUME NEW g \in AllGames
  PROVE  g[1] \in Worker /\ g[2] \in 1..Len(games[g[1]])
<1>1. PICK v \in Worker : \E j \in 1..Len(games[v]) : g = <<v, j>>
    BY DEF AllGames
<1> PICK j \in 1..Len(games[v]) : g = <<v, j>>
    BY <1>1
<1> QED
    OBVIOUS

MarksOf(w) ==
  \A i \in 1..Len(games[w]) : /\ games[w][i].abort => AbortCalled
                              /\ games[w][i].search = "aborted" => games[w][i].abort

\* Abort() finds in the lists what it has still to visit, and what it visited is marked.
LEMMA AbortingKept ==
  ASSUME TournamentInv, [Next]_vars
  PROVE  Aborting'
<1>1. /\ AbortCalled => abort_
      /\ todo \subseteq AllGames
      /\ target # <<>> => target \in todo /\ games[target[1]][target[2]].abort
      /\ \A w \in Worker : MarksOf(w)
    BY DEF TournamentInv, Aborting, MarksOf
<1>2. ASSUME /\ AbortCalled' => abort_'
             /\ todo' \subseteq AllGames'
             /\ target' # <<>> => target' \in todo' /\ games'[target'[1]][target'[2]].abort
             /\ \A w \in Worker : MarksOf(w)'
      PROVE  Aborting'
    BY <1>2 DEF Aborting, MarksOf
\* Steps of a worker while Abort() is not on its way.
<1>3. ASSUME NEW w \in Worker, Alone(w), todo = {}, MarksOf(w)' PROVE Aborting'
  <2>1. /\ abort_' = abort_ /\ todo' = todo /\ target' = target /\ AbortCalled' = AbortCalled
        /\ \A v \in Worker : v # w => games'[v] = games[v]
      BY <1>3 DEF Alone, AbortCalled
  <2>2. target = <<>>
      BY <1>1, <1>3
  <2>3. \A v \in Worker : MarksOf(v)'
      BY <1>1, <1>3, <2>1 DEF MarksOf
  <2> QED
      BY <1>1, <1>2, <1>3, <2>1, <2>2, <2>3
<1>4. ASSUME UNCHANGED <<games, abort_, todo, target, asked>> PROVE Aborting'
    BY <1>1, <1>2, <1>4 DEF AbortCalled, AllGames, MarksOf
<1>5. ASSUME NEW w \in Worker, Claim(w) PROVE Aborting'
    BY <1>4, <1>5, WorkerEffects DEF ClaimEffect, Alone
<1>6. ASSUME NEW w \in Worker, Report(w) PROVE Aborting'
    BY <1>4, <1>6, WorkerEffects DEF ReportEffect, Alone
<1>7. ASSUME NEW w \in Worker, Tally(w) PROVE Aborting'
    BY <1>4, <1>7, WorkerEffects, TallyHasEffect DEF TallyEffect, Alone
<1>8. ASSUME NEW w \in Worker, CreateGame(w) PROVE Aborting'
  <2>1. CreateEffect(w) /\ Alone(w) /\ AbortCalled' = AbortCalled
      BY <1>8, WorkerEffects DEF Alone, AbortCalled
  <2> DEFINE n == Len(games[w])
  <2>2. /\ n \in Nat /\ Len(games'[w]) = n + 1 /\ \A i \in 1..n : games'[w][i] = games[w][i]
        /\ games'[w][n + 1].abort = FALSE /\ games'[w][n + 1].search = "none"
      BY <2>1 DEF CreateEffect, NewGame, TournamentInv, TypeOK
  <2> HIDE DEF n
  <2>3. \A i \in 1..(n + 1) : i \in 1..n \/ i = n + 1
      BY <2>2
  <2>4. \A i \in 1..n : /\ games[w][i].abort => AbortCalled
                        /\ games[w][i].search = "aborted" => games[w][i].abort
      BY <1>1 DEF MarksOf, n
  <2>5. MarksOf(w)'
    <3> SUFFICES ASSUME NEW i \in 1..Len(games'[w])
                 PROVE  /\ games'[w][i].abort => AbortCalled'
                        /\ games'[w][i].search = "aborted" => games'[w][i].abort
        BY DEF MarksOf
    <3>1. i \in 1..n \/ i = n + 1
        BY <2>2, <2>3
    <3>2. CASE i \in 1..n
      <4>1. games'[w][i] = games[w][i]
          BY <2>2, <3>2
      <4> QED
          BY <2>1, <2>4, <3>2, <4>1
    <3>3. CASE i = n + 1
        BY <2>2, <3>3
    <3> QED
        BY <3>1, <3>2, <3>3
  <2> QED
      BY <1>3, <2>1, <2>5 DEF CreateEffect
<1>9. ASSUME NEW w \in Worker, Erase(w) PROVE Aborting'
  <2>1. EraseEffect(w) /\ Alone(w)
      BY <1>9, WorkerEffects, EraseHasEffect
  <2>2. Len(games'[w]) = 0
      BY <2>1 DEF EraseEffect, TournamentInv, TypeOK
  <2>3. MarksOf(w)'
      BY <2>2 DEF MarksOf
  <2> QED
      BY <1>3, <2>1, <2>3 DEF EraseEffect
<1>10. ASSUME NEW w \in Worker, Play(w) PROVE Aborting'
  <2>1. Alone(w) /\ AbortCalled' = AbortCalled
      BY <1>10, WorkerEffects DEF Alone, AbortCalled
  <2>2. PICK g \in GameOf(Boards(w)) : PlayEffect(w, g)
      BY <1>10, WorkerEffects
  <2> DEFINE n == Len(games[w])
  <2>3. /\ Len(games'[w]) = n /\ n \in 1..n /\ games'[w][n] = g
        /\ \A i \in 1..n : i # n => games'[w][i] = games[w][i]
        /\ g.abort = games[w][n].abort /\ (g.search = "aborted" => games[w][n].search = "aborted")
      BY <2>2, GamePlayed DEF PlayEffect, Replaced, Game, TournamentInv
  <2>4. \A i \in 1..n : /\ games'[w][i].abort = games[w][i].abort
                        /\ games'[w][i].search = "aborted" => games[w][i].search = "aborted"
      BY <2>3
  <2>5. MarksOf(w)'
      BY <1>1, <2>1, <2>3, <2>4 DEF MarksOf
  <2>6. \A v \in Worker : v # w => games'[v] = games[v]
      BY <2>1 DEF Alone
  <2>7. AllGames' = AllGames
      BY <2>3, <2>6, PlacesKept
  <2>8. \A v \in Worker : MarksOf(v)'
      BY <1>1, <2>1, <2>5, <2>6 DEF MarksOf
  <2>9. target # <<>> => games'[target[1]][target[2]].abort
    <3> SUFFICES ASSUME target # <<>> PROVE games'[target[1]][target[2]].abort
        OBVIOUS
    <3>1. target[1] \in Worker /\ target[2] \in 1..Len(games[target[1]])
        BY <1>1, PlaceOf
    <3>2. CASE target[1] = w
        BY <1>1, <2>4, <3>1, <3>2
    <3>3. CASE target[1] # w
        BY <1>1, <2>6, <3>1, <3>3
    <3> QED
        BY <3>2, <3>3
  <2>10. abort_' = abort_ /\ todo' = todo /\ target' = target
      BY <2>1 DEF Alone
  <2> QED
      BY <1>1, <1>2, <2>1, <2>7, <2>8, <2>9, <2>10
<1>11. ASSUME AbortStep PROVE Aborting'
  <2>1. AbortEffect
      BY <1>11, AbortHasEffect DEF TournamentInv
  <2>2. AbortCalled /\ abort_' /\ AbortCalled'
      BY <1>1, <2>1 DEF AbortEffect, AbortCalled
  <2>3. AllGames' = AllGames
      BY <2>1, PlacesKept DEF AbortEffect
  <2>4. \A w \in Worker : MarksOf(w)'
    <3> SUFFICES ASSUME NEW w \in Worker, NEW i \in 1..Len(games[w])
                 PROVE  games'[w][i].search = "aborted" => games'[w][i].abort
        BY <2>1, <2>2 DEF MarksOf, AbortEffect
    <3>1. Marked(games[w][i], games'[w][i])
        BY <2>1 DEF AbortEffect
    <3>2. games[w][i].search = "aborted" => games[w][i].abort
        BY <1>1 DEF MarksOf
    <3> QED
        BY <3>1, <3>2 DEF Marked
  <2> QED
      BY <1>1, <1>2, <2>1, <2>2, <2>3, <2>4 DEF AbortEffect
<1>12. ASSUME StartAsync PROVE Aborting'
    BY <1>4, <1>12 DEF StartAsync, played
<1>13. ASSUME ClientStep PROVE Aborting'
  <2>1. ClientEffect
      BY <1>13, ClientHasEffect DEF TournamentInv
  <2>2. games' = games /\ target' = target /\ (AbortCalled => AbortCalled') /\ AllGames' = AllGames
      BY <2>1 DEF ClientEffect, played, AllGames
  <2>3. \A w \in Worker : MarksOf(w)'
      BY <1>1, <2>2 DEF MarksOf
  <2>4. CASE UNCHANGED <<todo, asked>>
    <3>1. AbortCalled' = AbortCalled /\ (abort_ => abort_')
        BY <2>1, <2>4 DEF ClientEffect, AbortCalled
    <3> QED
        BY <1>1, <1>2, <2>2, <2>3, <2>4, <3>1
  <2>5. CASE todo = {} /\ todo' = AllGames /\ abort_'
      BY <1>1, <1>2, <2>2, <2>3, <2>5
  <2> QED
      BY <2>1, <2>4, <2>5 DEF ClientEffect
<1> QED
    BY <1>5, <1>6, <1>7, <1>8, <1>9, <1>10, <1>11, <1>12, <1>13, StepKinds

SearchOf(w) ==
  /\ pc[w] = "searched" => Game(w).search \in {"done", "aborted"}
  /\ pc[w] = "search" => Game(w).search # "none"
  /\ pc[w] = "pick" => Game(w).search = "done"

\* Searches that were aborted are told from those that are done.
LEMMA SearchesKept ==
  ASSUME TournamentInv, [Next]_vars
  PROVE  Searches'
<1>1. /\ pc \in [Worker -> Places] /\ mode.multi \in Nat
      /\ \A w \in Worker : SearchOf(w)
    BY CapOf DEF TournamentInv, TypeOK, Searches, SearchOf
<1>2. SUFFICES ASSUME NEW v \in Worker PROVE SearchOf(v)'
    BY DEF Searches, SearchOf
<1>3. ASSUME pc'[v] = pc[v], games'[v] = games[v] PROVE SearchOf(v)'
    BY <1>1, <1>3 DEF SearchOf, Game
<1>4. ASSUME pc'[v] \notin {"searched", "search", "pick"} PROVE SearchOf(v)'
    BY <1>4 DEF SearchOf
<1>5. ASSUME NEW w \in Worker, Alone(w), w # v PROVE SearchOf(v)'
    BY <1>3, <1>5 DEF Alone
<1>6. ASSUME Claim(v) PROVE SearchOf(v)'
    BY <1>1, <1>4, <1>6, WorkerEffects DEF ClaimEffect
<1>7. ASSUME CreateGame(v) PROVE SearchOf(v)'
    BY <1>1, <1>4, <1>7, WorkerEffects DEF CreateEffect
<1>8. ASSUME Report(v) PROVE SearchOf(v)'
    BY <1>1, <1>4, <1>8, WorkerEffects DEF ReportEffect
<1>9. ASSUME Tally(v) \/ Erase(v) PROVE SearchOf(v)'
    BY <1>1, <1>4, <1>9, TallyHasEffect, EraseHasEffect DEF TallyEffect, EraseEffect
<1>10. ASSUME Play(v) PROVE SearchOf(v)'
  <2>1. PICK g \in GameOf(Boards(v)) : PlayEffect(v, g)
      BY <1>10, WorkerEffects
  <2>2. Game(v)' = g
      BY <2>1 DEF PlayEffect, Replaced, Game
  <2> QED
      BY <2>1, <2>2 DEF PlayEffect, SearchOf
<1>11. ASSUME NEW w \in Worker,
              Claim(w) \/ CreateGame(w) \/ Report(w) \/ Tally(w) \/ Erase(w) \/ Play(w)
       PROVE  SearchOf(v)'
  <2>1. Alone(w)
      BY <1>11, WorkerEffects
  <2> QED
      BY <1>5, <1>6, <1>7, <1>8, <1>9, <1>10, <1>11, <2>1
<1>12. ASSUME AbortStep PROVE SearchOf(v)'
  <2>1. AbortEffect
      BY <1>12, AbortHasEffect DEF TournamentInv
  <2>2. pc'[v] = pc[v]
      BY <2>1 DEF AbortEffect, local
  <2>3. CASE pc[v] \notin {"searched", "search", "pick"}
      BY <1>4, <2>2, <2>3
  <2>4. CASE pc[v] \in {"searched", "search", "pick"}
    <3>1. Len(games[v]) \in 1..Len(games[v]) /\ Game(v) = games[v][Len(games[v])]
        BY <2>4, GamePlayed DEF Playing, Single, TournamentInv
    <3>2. Marked(Game(v), games'[v][Len(games[v])]) /\ Len(games'[v]) = Len(games[v])
        BY <2>1, <3>1 DEF AbortEffect
    <3>3. Marked(Game(v), Game(v)')
        BY <3>2 DEF Game
    <3> QED
        BY <1>1, <2>2, <3>3 DEF SearchOf, Marked
  <2> QED
      BY <2>3, <2>4
<1>13. ASSUME StartAsync PROVE SearchOf(v)'
    BY <1>4, <1>13 DEF StartAsync
<1>14. ASSUME ClientStep PROVE SearchOf(v)'
    BY <1>3, <1>14, ClientHasEffect DEF ClientEffect, played, local, TournamentInv
<1> QED
    BY <1>11, <1>12, <1>13, <1>14, StepKinds

\* The reasons persist.
Grown ==
  /\ mode' = mode /\ cut \subseteq cut'
  /\ abort_ => abort_'
  /\ AbortCalled => AbortCalled'

\* Every step lets the reasons persist.
LEMMA ReasonsGrow ==
  ASSUME TournamentInv, [Next]_vars
  PROVE  Grown
<1>1. mode' = mode
    BY ModeKept
<1>2. ASSUME NEW w \in Worker, Alone(w), cut \subseteq cut' PROVE Grown
    BY <1>1, <1>2 DEF Alone, Grown, AbortCalled
<1>3. ASSUME NEW w \in Worker, Claim(w) \/ CreateGame(w) \/ Report(w) PROVE Grown
    BY <1>2, <1>3, WorkerEffects DEF ClaimEffect, CreateEffect, ReportEffect
<1>4. ASSUME NEW w \in Worker, Tally(w) \/ Erase(w) PROVE Grown
    BY <1>2, <1>4, WorkerEffects, TallyHasEffect, EraseHasEffect DEF TallyEffect, EraseEffect
<1>5. ASSUME NEW w \in Worker, Play(w) PROVE Grown
  <2>1. PICK g \in GameOf(Boards(w)) : PlayEffect(w, g)
      BY <1>5, WorkerEffects
  <2> QED
      BY <1>2, <1>5, <2>1, WorkerEffects DEF PlayEffect
<1>6. ASSUME AbortStep PROVE Grown
    BY <1>1, <1>6, AbortHasEffect DEF AbortEffect, Grown, TournamentInv
<1>7. ASSUME StartAsync PROVE Grown
    BY <1>1, <1>7 DEF StartAsync, Grown, AbortCalled, played
<1>8. ASSUME ClientStep PROVE Grown
    BY <1>1, <1>8, ClientHasEffect DEF ClientEffect, Grown, played, TournamentInv
<1> QED
    BY <1>3, <1>4, <1>5, <1>6, <1>7, <1>8, StepKinds

Open(w, i) == Over(w, i) /\ \E b \in 1..Boards(w) : games[w][i].results[b] = Undecided
SettledOf(w) == \A i \in 1..Len(games[w]) : Open(w, i) => Excused(w, i)

\* A game that is over stays decided or excused.
LEMMA SettledKept ==
  ASSUME TournamentInv, [Next]_vars
  PROVE  Settled'
<1>1. /\ pc \in [Worker -> Places] /\ mode.multi \in Nat /\ mode' = mode
      /\ \A w \in Worker : SettledOf(w) /\ games[w] \in Seq(GameOf(Boards(w)))
    BY CapOf, ModeKept DEF TournamentInv, TypeOK, Settled, SettledOf, Open
<1>2. Grown
    BY ReasonsGrow
<1>3. SUFFICES ASSUME NEW v \in Worker PROVE SettledOf(v)'
    BY DEF Settled, SettledOf, Open
<1>4. ASSUME NEW i, claim'[v] = claim[v], games'[v][i] = games[v][i], Excused(v, i)
      PROVE  Excused(v, i)'
    BY <1>2, <1>4 DEF Excused, Grown
<1>5. ASSUME games'[v] = games[v], claim'[v] = claim[v],
             pc'[v] \in {"create", "report", "tally"} => pc[v] \in {"create", "report", "tally"}
      PROVE  SettledOf(v)'
  <2>1. Boards(v)' = Boards(v)
      BY <1>1, <1>5, BoardsKept
  <2>2. \A i : Open(v, i)' => Open(v, i)
      BY <1>5, <2>1 DEF Open, Over
  <2> QED
      BY <1>1, <1>4, <1>5, <2>2 DEF SettledOf
<1>6. ASSUME AbortCalled' PROVE SettledOf(v)'
    BY <1>6 DEF SettledOf, Excused
<1>7. ASSUME Len(games'[v]) = 0 PROVE SettledOf(v)'
    BY <1>7 DEF SettledOf
<1>8. ASSUME NEW w \in Worker, Alone(w), w # v PROVE SettledOf(v)'
    BY <1>5, <1>8 DEF Alone
<1>9. ASSUME Claim(v) PROVE SettledOf(v)'
  <2>1. games'[v] = <<>>
      BY <1>9, WorkerEffects DEF ClaimEffect, TournamentInv, Lists, Active
  <2> QED
      BY <1>7, <2>1
<1>10. ASSUME CreateGame(v) PROVE SettledOf(v)'
  <2> DEFINE n == Len(games[v])
  <2>1. CreateEffect(v) /\ abort_' = abort_
      BY <1>10, WorkerEffects DEF Alone
  <2>2. /\ n \in Nat /\ Len(games'[v]) = n + 1 /\ \A i \in 1..n : games'[v][i] = games[v][i]
        /\ games'[v][n + 1].plies = 0 /\ pc[v] = "create" /\ claim' = claim
        /\ Boards(v)' = Boards(v)
      BY <1>1, <2>1, BoardsKept DEF CreateEffect, NewGame
  <2>3. pc'[v] \in {"create", "report", "tally"} => mode.multi > 0 /\ abort_
      BY <1>1, <2>1 DEF CreateEffect
  <2> HIDE DEF n
  <2>4. ASSUME NEW i \in 1..n, Open(v, i)' PROVE Excused(v, i)'
    <3>1. games'[v][i] = games[v][i] /\ i \in 1..Len(games[v])
        BY <2>2 DEF n
    <3>2. Open(v, i)
        BY <2>2, <2>4, <3>1 DEF Open, Over
    <3> QED
        BY <1>1, <1>4, <2>2, <3>1, <3>2 DEF SettledOf
  <2>5. ASSUME NEW i, i = n + 1, Open(v, i)' PROVE Excused(v, i)'
    <3>1. pc'[v] \in {"create", "report", "tally"}
        BY <2>2, <2>5 DEF Open, Over
    <3> QED
        BY <1>1, <2>1, <2>2, <2>3, <2>5, <3>1 DEF Excused
  <2>6. \A i \in 1..(n + 1) : i \in 1..n \/ i = n + 1
      BY <2>2
  <2> QED
      BY <2>2, <2>4, <2>5, <2>6 DEF SettledOf
<1>11. ASSUME Report(v) PROVE SettledOf(v)'
    BY <1>1, <1>5, <1>11, WorkerEffects DEF ReportEffect
<1>12. ASSUME Tally(v) PROVE SettledOf(v)'
    BY <1>1, <1>5, <1>12, TallyHasEffect DEF TallyEffect
<1>13. ASSUME Erase(v) PROVE SettledOf(v)'
  <2>1. games'[v] = <<>>
      BY <1>13, EraseHasEffect DEF EraseEffect, TournamentInv, TypeOK
  <2> QED
      BY <1>7, <2>1
<1>14. ASSUME Play(v) PROVE SettledOf(v)'
  <2> DEFINE n == Len(games[v])
  <2>1. PICK g \in GameOf(Boards(v)) : PlayEffect(v, g)
      BY <1>14, WorkerEffects
  <2>2. /\ Len(games'[v]) = n /\ n \in Nat /\ games'[v][n] = g /\ claim' = claim
        /\ \A i \in 1..n : i # n => games'[v][i] = games[v][i]
        /\ n \in 1..n /\ pc[v] \in Playing /\ index[v] = 0
        /\ Boards(v)' = Boards(v) /\ Game(v) = games[v][n]
    <3>1. pc[v] \in Playing /\ claim' = claim
        BY <2>1 DEF PlayEffect
    <3>2. index[v] = 0
        BY <3>1 DEF TournamentInv, Claims, Active, Playing, Single
    <3> QED
        BY <1>1, <2>1, <3>1, <3>2, GamePlayed, BoardsKept DEF PlayEffect, Replaced, TournamentInv
  <2> HIDE DEF n
  <2>3. ASSUME NEW i \in 1..n, i # n, Open(v, i)' PROVE Excused(v, i)'
    <3>1. games'[v][i] = games[v][i] /\ i < n
        BY <2>2, <2>3
    <3>2. Open(v, i)
        BY <2>2, <2>3, <3>1 DEF Open, Over, n
    <3> QED
        BY <1>1, <1>4, <2>2, <2>3, <3>1, <3>2 DEF SettledOf, n
  <2>4. ASSUME NEW i, i = n, Open(v, i)' PROVE Excused(v, i)'
    <3>1. pc'[v] \in {"create", "report", "tally"} /\ \E b \in 1..Boards(v) : g.results[b] = Undecided
        BY <2>2, <2>4 DEF Open, Over
    <3>2. pc'[v] # "tally"
        BY <1>1, <2>1 DEF PlayEffect, Single
    <3>3. g.abort \/ (mode.multi = 0 /\ GameId(v) \in cut')
        BY <2>1, <3>1, <3>2 DEF PlayEffect
    <3>4. CASE g.abort
      <4>1. games[v][n].abort
          BY <2>1, <2>2, <3>4 DEF PlayEffect
      <4>2. AbortCalled
          BY <2>2, <4>1 DEF TournamentInv, Aborting, n
      <4> QED
          BY <1>2, <4>2 DEF Grown, Excused
    <3>5. CASE mode.multi = 0 /\ GameId(v) \in cut'
      <4>1. claim[v].id \in Nat
          BY DEF TournamentInv, TypeOK
      <4>2. GameId(v) = claim[v].id
          BY <2>2, <4>1 DEF GameId
      <4> QED
          BY <1>1, <2>2, <3>5, <4>2 DEF Excused
    <3> QED
        BY <3>3, <3>4, <3>5
  <2> QED
      BY <2>2, <2>3, <2>4 DEF SettledOf
<1>15. ASSUME NEW w \in Worker,
              Claim(w) \/ CreateGame(w) \/ Report(w) \/ Tally(w) \/ Erase(w) \/ Play(w)
       PROVE  SettledOf(v)'
  <2>1. Alone(w)
      BY <1>15, WorkerEffects
  <2> QED
      BY <1>8, <1>9, <1>10, <1>11, <1>12, <1>13, <1>14, <1>15, <2>1
<1>16. ASSUME AbortStep PROVE SettledOf(v)'
    BY <1>6, <1>16, AbortHasEffect DEF AbortEffect, TournamentInv
<1>17. ASSUME StartAsync PROVE SettledOf(v)'
  <2>1. games'[v] = <<>>
      BY <1>17 DEF StartAsync, Owner, TournamentInv, Lists, Active, played
  <2> QED
      BY <1>7, <2>1
<1>18. ASSUME ClientStep PROVE SettledOf(v)'
    BY <1>5, <1>18, ClientHasEffect DEF ClientEffect, played, local, TournamentInv
<1> QED
    BY <1>15, <1>16, <1>17, <1>18, StepKinds

\* A game claimed is counted, or still to be looked at by its worker.
Found(id) == id \in Counted \/ \E w \in Worker : Active(w) /\ id \in Remaining(w)

\* No game is lost while nobody stops or aborts the tournament.
LEMMA CompleteKept ==
  ASSUME TournamentInv, [Next]_vars
  PROVE  Complete'
<1>1. /\ pc \in [Worker -> Places] /\ mode.multi \in Nat /\ games_count_ \in Nat
      /\ claim \in [Worker -> [id : Nat, count : Nat]] /\ index \in [Worker -> Nat]
      /\ \A w \in Worker : claim[w].id \in Nat /\ claim[w].count \in Nat /\ index[w] \in Nat
      /\ Cap' = Cap /\ Endless' = Endless
    BY CapOf, ModeKept DEF TournamentInv, TypeOK
<1>2. /\ ~abort_ => \A id \in 0..(games_count_ - 1) : Found(id)
      /\ ~abort_ => \A w \in Worker : pc[w] = "ended" => games_count_ >= Cap /\ ~Endless
    BY DEF TournamentInv, Complete, Found
<1>3. CASE abort_'
    BY <1>3 DEF Complete
<1>4. ASSUME ~abort_', ~abort_ PROVE Complete'
  <2>1. ASSUME \A id \in 0..(games_count_' - 1) : Found(id)',
               \A w \in Worker : pc'[w] = "ended" => games_count_' >= Cap /\ ~Endless
        PROVE  Complete'
      BY <1>1, <2>1 DEF Complete, Found
\* The workers whose games stay where they are.
  <2>2. ASSUME NEW id, NEW v \in Worker, Active(v), id \in Remaining(v),
               pc'[v] = pc[v], claim'[v] = claim[v], index'[v] = index[v]
        PROVE  Found(id)'
      BY <2>2 DEF Found, Active, Remaining
  <2>3. ASSUME NEW w \in Worker, Alone(w), Counted \subseteq Counted',
               games_count_' = games_count_, pc'[w] # "ended",
               ASSUME NEW id \in Remaining(w), Active(w) PROVE Found(id)'
        PROVE  Complete'
    <3>1. ASSUME NEW id \in 0..(games_count_ - 1) PROVE Found(id)'
      <4>1. CASE id \in Counted
          BY <2>3, <4>1 DEF Found
      <4>2. CASE Active(w) /\ id \in Remaining(w)
          BY <2>3, <4>2
      <4>3. ASSUME NEW v \in Worker, v # w, Active(v), id \in Remaining(v) PROVE Found(id)'
          BY <2>2, <2>3, <4>3 DEF Alone
      <4> QED
          BY <1>2, <1>4, <4>1, <4>2, <4>3 DEF Found
    <3>2. \A v \in Worker : pc'[v] = "ended" => games_count_' >= Cap /\ ~Endless
        BY <1>2, <1>4, <2>3 DEF Alone
    <3> QED
        BY <2>1, <2>3, <3>1, <3>2
  <2>4. ASSUME NEW w \in Worker, Claim(w) PROVE Complete'
    <3>1. ClaimEffect(w) /\ Alone(w)
        BY <2>4, WorkerEffects
    <3>2. Counted' = Counted
        BY <3>1 DEF ClaimEffect, Counted
    <3>3. ASSUME NEW id \in 0..(games_count_ - 1) PROVE Found(id)'
      <4>1. ~Active(w)
          BY <3>1 DEF ClaimEffect, Active
      <4>2. ASSUME NEW v \in Worker, Active(v), id \in Remaining(v) PROVE Found(id)'
          BY <2>2, <3>1, <4>1, <4>2 DEF Alone
      <4> QED
          BY <1>2, <1>4, <3>2, <4>2 DEF Found
    <3>4. CASE /\ games_count_ >= Cap /\ ~Endless
               /\ pc' = [pc EXCEPT ![w] = "ended"] /\ UNCHANGED <<games_count_, claim, index>>
      <4>1. \A v \in Worker : pc'[v] = "ended" => games_count_' >= Cap /\ ~Endless
          BY <3>4
      <4> QED
          BY <2>1, <3>3, <3>4, <4>1
    <3>5. ASSUME NEW n \in Nat,
                 claim' = [claim EXCEPT ![w] = [id |-> games_count_, count |-> n]],
                 games_count_' = games_count_ + n, games_count_' <= Cap,
                 index' = [index EXCEPT ![w] = 0], pc' = [pc EXCEPT ![w] = "create"]
          PROVE  Complete'
      <4>1. /\ claim'[w].id = games_count_ /\ claim'[w].count = n /\ index'[w] = 0
            /\ pc'[w] = "create"
          BY <1>1, <3>5
      <4>2. ASSUME NEW id \in 0..(games_count_' - 1), ~(id \in 0..(games_count_ - 1))
            PROVE  Found(id)'
        <5>1. id \in Remaining(w)'
            BY <1>1, <3>5, <4>1, <4>2 DEF Remaining
        <5>2. Active(w)'
            BY <4>1 DEF Active
        <5> QED
            BY <5>1, <5>2 DEF Found
      <4>3. ASSUME NEW v \in Worker, pc'[v] = "ended" PROVE games_count_' >= Cap /\ ~Endless
        <5>1. v # w /\ pc[v] = "ended"
            BY <1>1, <3>5, <4>1, <4>3
        <5>2. games_count_ >= Cap /\ ~Endless
            BY <1>2, <1>4, <5>1
        <5>3. Cap \in Nat
            BY CapOf DEF TournamentInv
        <5> QED
            BY <1>1, <3>5, <5>2, <5>3
      <4> QED
          BY <2>1, <3>3, <4>2, <4>3
    <3> QED
        BY <1>4, <3>1, <3>4, <3>5 DEF ClaimEffect
  <2>5. ASSUME NEW w \in Worker, CreateGame(w) PROVE Complete'
    <3>1. CreateEffect(w) /\ Alone(w)
        BY <2>5, WorkerEffects
    <3>2. /\ Counted' = Counted /\ Remaining(w)' = Remaining(w) /\ games_count_' = games_count_
          /\ Active(w)' /\ pc'[w] # "ended"
        BY <1>1, <3>1 DEF CreateEffect, Counted, Remaining, Active
    <3>3. ASSUME NEW id \in Remaining(w), Active(w) PROVE Found(id)'
        BY <3>2 DEF Found
    <3> QED
        BY <2>3, <3>1, <3>2, <3>3
  <2>6. ASSUME NEW w \in Worker, Report(w) PROVE Complete'
    <3>1. ReportEffect(w) /\ Alone(w)
        BY <2>6, WorkerEffects
    <3>2. /\ Counted \subseteq Counted' /\ pc'[w] \in {"report", "tally"} /\ Active(w)'
          /\ games_count_' = games_count_ /\ claim' = claim
        BY <1>1, <3>1 DEF ReportEffect, Counted, Active
    <3>3. CASE index' = index
      <4>1. Remaining(w)' = Remaining(w)
          BY <3>2, <3>3 DEF Remaining
      <4>2. ASSUME NEW id \in Remaining(w), Active(w) PROVE Found(id)'
          BY <3>2, <4>1 DEF Found
      <4> QED
          BY <2>3, <3>1, <3>2, <4>2
    <3>4. CASE ReportedResult(w) = Undecided /\ index' = [index EXCEPT ![w] = index[w] + 1]
      <4>1. pc[w] = "report" /\ index[w] < claim[w].count
          BY <3>1 DEF ReportEffect
      <4> DEFINE i == 1 + (index[w] % Len(games[w]))
                 b == 1 + (index[w] \div Len(games[w]))
      <4>2. /\ i \in 1..Len(games[w]) /\ b \in 1..Boards(w)
            /\ mode.multi = 0 => index[w] = 0
          BY <4>1, ReportedIsGame DEF TournamentInv
      <4>3. games[w][i].results[b] = Undecided
          BY <3>4 DEF ReportedResult, ReportedGame
      <4> HIDE DEF i, b
      <4>4. Excused(w, i)
          BY <4>1, <4>2, <4>3 DEF TournamentInv, Settled, Over
      <4>5. mode.multi = 0 /\ claim[w].id \in cut
          BY <1>4, <4>4 DEF Excused, TournamentInv, Aborting
      <4>6. GameId(w) \in Counted
          BY <1>1, <4>2, <4>5 DEF GameId, Counted
      <4>7. index'[w] = index[w] + 1
          BY <1>1, <3>4
      <4>8. ASSUME NEW id \in Remaining(w) PROVE id = GameId(w) \/ id \in Remaining(w)'
        <5>1. claim'[w] = claim[w] /\ claim[w].id \in Nat /\ claim[w].count \in Nat
              /\ index[w] \in Nat
            BY <1>1, <3>2
        <5> QED
            BY <4>7, <5>1 DEF Remaining, GameId
      <4>9. ASSUME NEW id \in Remaining(w), Active(w) PROVE Found(id)'
          BY <3>2, <4>6, <4>8 DEF Found
      <4> QED
          BY <2>3, <3>1, <3>2, <4>9
    <3> QED
        BY <3>1, <3>3, <3>4 DEF ReportEffect
  <2>7. ASSUME NEW w \in Worker, Tally(w) PROVE Complete'
    <3>1. TallyEffect(w) /\ Alone(w) /\ pc[w] = "tally"
        BY <2>7, WorkerEffects, TallyHasEffect DEF TallyEffect
    <3>2. /\ Counted' = Counted /\ pc'[w] = "report" /\ Active(w)' /\ games_count_' = games_count_
          /\ claim' = claim /\ index'[w] = index[w] + 1
        BY <1>1, <3>1 DEF TallyEffect, Counted, Active
    <3>3. GameId(w) \in Counted
      <4>1. ReportOf(w) \in reported /\ ReportOf(w).id = GameId(w)
          BY <3>1 DEF TournamentInv, Reports, ReportOf
      <4> QED
          BY <4>1 DEF Counted
    <3>4. ASSUME NEW id \in Remaining(w) PROVE id = GameId(w) \/ id \in Remaining(w)'
        BY <1>1, <3>2 DEF Remaining, GameId
    <3>5. ASSUME NEW id \in Remaining(w), Active(w) PROVE Found(id)'
        BY <3>2, <3>3, <3>4 DEF Found
    <3> QED
        BY <2>3, <3>1, <3>2, <3>5
  <2>8. ASSUME NEW w \in Worker, Erase(w) PROVE Complete'
    <3>1. EraseEffect(w) /\ Alone(w)
        BY <2>8, WorkerEffects, EraseHasEffect
    <3>2. Counted' = Counted /\ pc'[w] = "claim" /\ games_count_' = games_count_
        BY <1>1, <3>1 DEF EraseEffect, Counted
    <3>3. \A id : id \notin Remaining(w)
        BY <1>1, <3>1 DEF EraseEffect, Remaining
    <3>4. ASSUME NEW id \in Remaining(w), Active(w) PROVE Found(id)'
        BY <3>3
    <3> QED
        BY <2>3, <3>1, <3>2, <3>4
  <2>9. ASSUME NEW w \in Worker, Play(w) PROVE Complete'
    <3>1. Alone(w)
        BY <2>9, WorkerEffects
    <3>2. PICK g \in GameOf(Boards(w)) : PlayEffect(w, g)
        BY <2>9, WorkerEffects
    <3>3. /\ Counted \subseteq Counted' /\ Remaining(w)' = Remaining(w)
          /\ games_count_' = games_count_
        BY <3>2 DEF PlayEffect, Counted, Remaining
    <3>4. Active(w)' /\ pc'[w] # "ended"
        BY <1>1, <3>2 DEF PlayEffect, Active, Single
    <3>5. ASSUME NEW id \in Remaining(w), Active(w) PROVE Found(id)'
        BY <3>3, <3>4 DEF Found
    <3> QED
        BY <2>3, <3>1, <3>3, <3>4, <3>5
  <2>10. ASSUME UNCHANGED <<games_count_, reported, cut, local>> PROVE Complete'
    <3>1. Counted' = Counted
        BY <2>10 DEF Counted
    <3>2. \A id : Found(id) => Found(id)'
        BY <2>10, <3>1 DEF Found, Active, Remaining, local
    <3> QED
        BY <1>2, <1>4, <2>1, <2>10, <3>2 DEF local
  <2>11. ASSUME StartAsync PROVE Complete'
    <3>1. /\ \A w \in Worker : pc[w] = "none" /\ pc'[w] = "claim"
          /\ UNCHANGED <<games_count_, reported, cut>>
        BY <2>11 DEF StartAsync, TournamentInv, Owner, played
    <3>2. \A id : Found(id) => Found(id)'
        BY <3>1 DEF Found, Active, Counted
    <3> QED
        BY <1>2, <1>4, <2>1, <3>1, <3>2
  <2>12. ASSUME AbortStep \/ ClientStep PROVE Complete'
      BY <2>10, <2>12, AbortHasEffect, ClientHasEffect
      DEF AbortEffect, ClientEffect, played, TournamentInv
  <2> QED
      BY <2>4, <2>5, <2>6, <2>7, <2>8, <2>9, <2>11, <2>12, StepKinds
<1>5. abort_ => abort_'
    BY ReasonsGrow DEF Grown
<1> QED
    BY <1>3, <1>4, <1>5

\* The owner reports once, when every worker has ended and found nothing left.
LEMMA OwnerKept ==
  ASSUME TournamentInv, [Next]_vars
  PROVE  Owner'
<1>1. /\ main = "new" => \A w \in Worker : pc[w] = "none"
      /\ main \in {"new", "started", "wait"} => finished = 0
      /\ main \in {"destroy", "rejoin", "destroyed"} => abort_
      /\ finished <= 1 /\ finished \in Nat
      /\ finished = 1 => AllEnded /\ ~Endless /\ Counted = 0..(Cap - 1)
      /\ main \in {"new", "started", "wait", "returned", "destroy", "rejoin", "destroyed"}
    BY DEF TournamentInv, Owner, TypeOK
<1>2. Cap' = Cap /\ Endless' = Endless
    BY ModeKept
<1>3. ASSUME NEW w \in Worker,
             Claim(w) \/ CreateGame(w) \/ Report(w) \/ Tally(w) \/ Erase(w) \/ Play(w)
      PROVE  Owner'
  <2>1. Alone(w)
      BY <1>3, WorkerEffects
  <2>2. pc[w] \notin {"none", "ended"}
      BY <1>3 DEF Play, Claim, CreateGame, Report, Tally, Erase, Loop, StartSearch, RunBlocking,
                  Searched, MakeMove, RoundStart, Round
  <2>3. main # "new" /\ finished # 1
      BY <1>1, <2>2 DEF AllEnded
  <2> QED
      BY <1>1, <2>1, <2>3 DEF Owner, Alone
<1>4. ASSUME UNCHANGED <<pc, reported, cut, finished>>, main' # "new" \/ main' = main,
             main' \in {"new", "started", "wait"} => finished = 0,
             main' \in {"destroy", "rejoin", "destroyed"} => abort_'
      PROVE  Owner'
    BY <1>1, <1>2, <1>4 DEF Owner, AllEnded, Counted
<1>5. ASSUME AbortStep PROVE Owner'
    BY <1>1, <1>4, <1>5, AbortHasEffect DEF AbortEffect, local, TournamentInv
<1>6. ASSUME StartAsync PROVE Owner'
  <2>1. main' = "started" /\ finished' = finished /\ finished = 0
      BY <1>1, <1>6 DEF StartAsync
  <2> QED
      BY <2>1 DEF Owner
<1>7. ASSUME Joined PROVE Owner'
  <2>1. /\ main \in {"wait", "rejoin"} /\ AllEnded /\ UNCHANGED <<pc, reported, cut, abort_>>
        /\ main' = IF main = "wait" THEN "returned" ELSE "destroyed"
        /\ finished' = IF abort_ THEN finished ELSE finished + 1
      BY <1>7 DEF Joined, played, local
  <2>2. CASE abort_
    <3>1. main' \in {"returned", "destroyed"}
        BY <2>1
    <3> QED
        BY <1>4, <2>1, <2>2, <3>1
  <2>3. CASE ~abort_
    <3>1. main = "wait" /\ finished = 0 /\ main' = "returned" /\ finished' = 1
        BY <1>1, <2>1, <2>3
    <3>2. games_count_ \in Nat /\ Cap \in Nat /\ cut \subseteq Nat /\ reported \subseteq GameReport
        BY CapOf DEF TournamentInv, TypeOK
    <3>3. PICK u \in Worker : pc[u] = "ended"
        BY <2>1, TournamentAssumption DEF AllEnded
    <3>4. games_count_ >= Cap /\ ~Endless
        BY <2>3, <3>3 DEF TournamentInv, Complete
    <3>5. games_count_ = Cap
        BY <3>2, <3>4 DEF TournamentInv, Claims
    <3>6. \A w \in Worker : ~Active(w)
        BY <2>1 DEF AllEnded, Active
    <3>7. \A id \in 0..(Cap - 1) : id \in Counted
        BY <2>3, <3>5, <3>6 DEF TournamentInv, Complete
    <3>8. ASSUME NEW id \in Counted PROVE id \in 0..(Cap - 1)
      <4>1. id \in Nat /\ id < games_count_
          BY <3>2 DEF TournamentInv, Reports, Counted, GameReport
      <4> QED
          BY <3>2, <3>5, <4>1
    <3>9. Counted = 0..(Cap - 1)
        BY <3>7, <3>8
    <3>10. AllEnded' /\ Counted' = Counted
        BY <2>1 DEF AllEnded, Counted
    <3> QED
        BY <1>2, <3>1, <3>4, <3>9, <3>10 DEF Owner
  <2> QED
      BY <2>2, <2>3
<1>8. ASSUME Wait \/ Stop \/ Abort \/ Destroy \/ DestroyWait \/ UNCHANGED vars PROVE Owner'
  <2>1. UNCHANGED <<pc, reported, cut, finished>>
      BY <1>8 DEF Wait, Stop, Abort, Destroy, DestroyWait, AbortBegin, vars, client, played, local
  <2>2. \/ main = "started" /\ main' = "wait"
        \/ main' = main
        \/ main' = "destroy" /\ abort_'
        \/ main = "destroy" /\ main' = "rejoin" /\ abort_' = abort_
      BY <1>8 DEF Wait, Stop, Abort, Destroy, DestroyWait, AbortBegin, vars, client
  <2>3. abort_ => abort_'
      BY ReasonsGrow DEF Grown
  <2> QED
      BY <1>1, <1>4, <2>1, <2>2, <2>3
<1> QED
    BY <1>3, <1>5, <1>6, <1>7, <1>8, StepKinds DEF ClientStep

-----------------------------------------------------------------------------
(* Theorems.                                                               *)

\* Before the threads are started everything is empty.
LEMMA InitiallySo == Init => TournamentInv
<1> SUFFICES ASSUME Init PROVE TournamentInv
    OBVIOUS
<1>1. /\ mode \in Modes /\ first_game_black_ \in BOOLEAN /\ abort_ = FALSE /\ games_count_ = 0
      /\ games = [w \in Worker |-> <<>>] /\ results = [row \in 0..2 |-> [column \in 0..1 |-> 0]]
      /\ reported = {} /\ cut = {} /\ finished = 0 /\ pc = [w \in Worker |-> "none"]
      /\ claim = [w \in Worker |-> [id |-> 0, count |-> 0]] /\ index = [w \in Worker |-> 0]
      /\ main = "new" /\ todo = {} /\ target = <<>> /\ asked = FALSE
    BY DEF Init
<1>2. \A w \in Worker : pc[w] = "none" /\ games[w] = <<>> /\ Len(games[w]) = 0 /\ ~Active(w)
    BY <1>1 DEF Active
<1>3. TypeOK
  <2>1. \A w \in Worker : games[w] \in Seq(GameOf(Boards(w)))
      BY <1>1
  <2>2. pc \in [Worker -> Places] /\ DOMAIN games = Worker
      BY <1>1 DEF Places
  <2>3. IsFiniteSet(reported) /\ results \in [0..2 -> [0..1 -> Nat]]
      BY <1>1, FS_EmptySet
  <2> QED
      BY <1>1, <2>1, <2>2, <2>3 DEF TypeOK
<1>4. Lists
    BY <1>2 DEF Lists, Single
<1>5. Claims
  <2>1. Cap \in Nat
      BY <1>3, CapOf
  <2>2. 0 <= Cap /\ 0 % 2 = 0
      BY <2>1
  <2> QED
      BY <1>1, <1>2, <2>2 DEF Claims
<1>6. Reports
    BY <1>1, <1>2 DEF Reports
<1>7. Table
  <2>1. \A row, column : Row(row, column) = {}
      BY <1>1 DEF Row
  <2>2. \A row \in 0..2, column \in 0..1 : results[row][column] = 0
      BY <1>1
  <2> QED
      BY <2>1, <2>2, FS_EmptySet DEF Table
<1>8. Aborting
    BY <1>1, <1>2 DEF Aborting, AbortCalled
<1>9. Searches /\ Settled
    BY <1>2 DEF Searches, Settled
<1>10. Complete
    BY <1>1, <1>2 DEF Complete
<1>11. Owner
    BY <1>1, <1>2 DEF Owner
<1> QED
    BY <1>3, <1>4, <1>5, <1>6, <1>7, <1>8, <1>9, <1>10, <1>11 DEF TournamentInv

\* tournament.cc: the invariant of the tournament, of which the properties follow.
THEOREM TournamentInvariant == Spec => []TournamentInv
<1>1. TournamentInv /\ [Next]_vars => TournamentInv'
    BY TypeKept, ListsKept, ClaimsKept, ReportsKept, TableKept, AbortingKept, SearchesKept,
       SettledKept, CompleteKept, OwnerKept DEF TournamentInv
<1> QED
    BY InitiallySo, <1>1, PTL DEF Spec

\* tournament.cc:415: each reported game is in the table once, in its row and column, but
\* for those a worker still has in hand; whatever the number of workers and games.
THEOREM TableRight == Spec => []ResultsMatchReports
<1>1. TournamentInv => ResultsMatchReports
  <2> SUFFICES ASSUME TournamentInv PROVE ResultsMatchReports
      OBVIOUS
  <2>1. \A g, h \in reported : g.id = h.id => g = h
      BY DEF TournamentInv, Reports
  <2>2. \A row \in 0..2, column \in 0..1 : results[row][column] = Cardinality(Row(row, column))
      BY DEF TournamentInv, Table
  <2> QED
      BY <2>1, <2>2 DEF ResultsMatchReports, Row, Score, InHand
<1> QED
    BY TournamentInvariant, <1>1, PTL

\* tournament.cc:623: one final report at most, and it has every game of the tournament.
THEOREM FinalReportRight == Spec => []FinalReportComplete
<1>1. TournamentInv => FinalReportComplete
    BY DEF TournamentInv, Owner, FinalReportComplete, Counted
<1> QED
    BY TournamentInvariant, <1>1, PTL

\* tournament.h:65: Stop() lets the games in progress come to their end.
THEOREM StopPlaysOn == Spec => []OnlyAbortLeavesUndecided
<1>1. TournamentInv => OnlyAbortLeavesUndecided
  <2> SUFFICES ASSUME TournamentInv, NEW w \in Worker, NEW i \in DOMAIN games[w],
                      pc[w] \in {"report", "tally"},
                      NEW b \in DOMAIN games[w][i].results, games[w][i].results[b] = Undecided
               PROVE  Excused(w, i)
      BY DEF OnlyAbortLeavesUndecided, Excused, AbortCalled
  <2>1. games[w] \in Seq(GameOf(Boards(w)))
      BY DEF TournamentInv, TypeOK
  <2>2. i \in 1..Len(games[w]) /\ games[w][i] \in GameOf(Boards(w))
      BY <2>1
  <2>3. b \in 1..Boards(w)
      BY <2>2 DEF GameOf
  <2> QED
      BY <2>2, <2>3 DEF TournamentInv, Settled, Over
<1> QED
    BY TournamentInvariant, <1>1, PTL

\* game.cc:166: no move is picked from a search that Abort() cut short.
THEOREM MovesRight == Spec => MovesOfFinishedSearches
<1>1. TournamentInv /\ [Next]_vars
        => [\A w \in Worker : pc[w] = "pick" /\ pc'[w] # "pick" => Game(w).search = "done"]_vars
    BY DEF TournamentInv, Searches
<1> QED
    BY TournamentInvariant, <1>1, PTL DEF Spec, MovesOfFinishedSearches
===============================================================================
