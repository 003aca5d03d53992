------------------------- MODULE SearchControlProofs -------------------------
(* Theorems about SearchControl for every value of its constants.          *)
EXTENDS SearchControl, FiniteSetTheorems, TLAPS

-----------------------------------------------------------------------------
(* Lemmas about the operators.                                             *)

\* A snapshot is a record of Stats, and counts the visits and playouts exactly.
LEMMA StatsNowType ==
  ASSUME total_playouts \in Nat, initial_visits \in Nat
  PROVE  /\ StatsNow \subseteq Stats
         /\ \A s \in StatsNow : s.nodes = RootVisits /\ s.playouts = total_playouts
BY SearchAssumption DEF StatsNow, Stats, RootVisits

\* The statistics before the first iteration.
LEMMA NoStatsType == NoStats \in Stats
BY DEF NoStats, Stats

\* Whatever the stoppers conclude has a name, and "visits" is concluded only when
\* the snapshot reached the limit.
LEMMA ShouldStopType ==
  ASSUME NEW s \in Stats
  PROVE  /\ ShouldStop(s) \subseteq StopReason
         /\ "visits" \in ShouldStop(s) => s.nodes >= VisitLimit
BY DEF ShouldStop, StopReason

\* The best move becomes known as soon as the root has been visited.
LEMMA EnsureBestMoveKnownType ==
  ASSUME NEW sent \in BOOLEAN, final_bestmove \in Move \cup {NoMove}
  PROVE  /\ EnsureBestMoveKnown(sent) \subseteq Move \cup {NoMove}
         /\ ~sent /\ RootVisits # 0 /\ RootMoves # 0 => EnsureBestMoveKnown(sent) = Move
BY DEF EnsureBestMoveKnown

\* A worker picks a natural number of visits.
LEMMA PicksType ==
  ASSUME NEW w \in Worker, TypeOK
  PROVE  Picks(w) \subseteq Nat
BY SearchAssumption DEF Picks, TypeOK

-----------------------------------------------------------------------------
(* Type correctness.                                                       *)

\* Initial values have their types.
LEMMA TypeInit == Init => TypeOK
<1> SUFFICES ASSUME Init PROVE TypeOK
    OBVIOUS
<1> USE DEF Init
<1>1. pc \in [Thread -> Label]
    BY DEF Label
<1>2. /\ fresh \in [Worker -> Nat] /\ batch \in [Worker -> Nat]
      /\ stats \in [Thread -> Stats]
    BY NoStatsType
<1>3. pending_searchers \in Nat /\ initial_visits \in Nat /\ total_playouts \in Nat
    BY SearchAssumption
<1>4. bestmoves \in Seq(Move \cup {NoMove})
    OBVIOUS
<1> QED
    BY <1>1, <1>2, <1>3, <1>4 DEF TypeOK, StopReason

\* Every step keeps the types.
LEMMA TypeStep == TypeOK /\ [Next]_vars => TypeOK'
<1> SUFFICES ASSUME TypeOK, [Next]_vars PROVE TypeOK'
    OBVIOUS
<1> USE DEF TypeOK, control, output, work, clientVars, Goto, Label
<1>1. ASSUME NEW w \in Worker, Gate(w) PROVE TypeOK'
    BY <1>1 DEF Gate
<1>2. ASSUME NEW w \in Worker, ClaimPermit(w) PROVE TypeOK'
  <2>1. pending_searchers' \in Nat
      BY <1>2 DEF ClaimPermit
  <2>2. pc' \in [Thread -> Label]
      BY <1>2 DEF ClaimPermit
  <2> QED
      BY <1>2, <2>1, <2>2 DEF ClaimPermit
<1>3. ASSUME NEW w \in Worker, PickNodesToExtend(w) PROVE TypeOK'
  <2>1. initial_visits' \in Nat
      BY <1>3 DEF PickNodesToExtend, TakenBack
  <2>2. pc' \in [Thread -> Label] /\ fresh' \in [Worker -> Nat]
      BY <1>3, PicksType DEF PickNodesToExtend
  <2> QED
      BY <1>3, <2>1, <2>2 DEF PickNodesToExtend
<1>4. ASSUME NEW w \in Worker, ProcessPicked(w) PROVE TypeOK'
  <2>1. PICK ooo \in 0..fresh[w] :
           BackUp(ooo) /\ batch' = [batch EXCEPT ![w] = batch[w] + (fresh[w] - ooo)]
      BY <1>4 DEF ProcessPicked
  <2>2. /\ total_playouts' \in Nat /\ current_best_edge' \in BOOLEAN
        /\ batch' \in [Worker -> Nat]
      BY <2>1 DEF BackUp
  <2>3. pc' \in [Thread -> Label] /\ fresh' \in [Worker -> Nat]
      BY <1>4 DEF ProcessPicked
  <2> QED
      BY <1>4, <2>2, <2>3 DEF ProcessPicked
<1>5. ASSUME NEW w \in Worker, ReleasePermit(w) PROVE TypeOK'
  <2>1. pending_searchers' \in Nat
      BY <1>5 DEF ReleasePermit
  <2>2. pc' \in [Thread -> Label]
      BY <1>5 DEF ReleasePermit
  <2> QED
      BY <1>5, <2>1, <2>2 DEF ReleasePermit
<1>6. ASSUME NEW w \in Worker, ComputeAndBackUp(w) PROVE TypeOK'
  <2>1. total_playouts' \in Nat /\ current_best_edge' \in BOOLEAN
      BY <1>6 DEF ComputeAndBackUp, BackUp
  <2>2. pc' \in [Thread -> Label] /\ batch' \in [Worker -> Nat]
      BY <1>6 DEF ComputeAndBackUp
  <2> QED
      BY <1>6, <2>1, <2>2 DEF ComputeAndBackUp
<1>7. ASSUME NEW w \in Worker, WorkerCheck(w) PROVE TypeOK'
    BY <1>7 DEF WorkerCheck
<1>8. ASSUME NEW t \in Thread, PopulateCommonIterationStats(t) PROVE TypeOK'
    BY <1>8, StatsNowType DEF PopulateCommonIterationStats
<1>9. ASSUME NEW t \in Thread, MaybeTriggerStop(t) PROVE TypeOK'
  <2>1. pc' \in [Thread -> Label] /\ stats' \in [Thread -> Stats]
      BY <1>9, NoStatsType DEF MaybeTriggerStop
  <2>2. CASE UNCHANGED <<stop, ok_to_respond, bestmove_is_sent, final_bestmove,
                         stop_reason, bestmoves, last_output, current_best_edge>>
      BY <1>9, <2>1, <2>2 DEF MaybeTriggerStop
  <2>3. ASSUME NEW verdict \in IF stop THEN {stop_reason} ELSE ShouldStop(stats[t]),
               stop' = (verdict # "none"), stop_reason' = verdict,
               UNCHANGED ok_to_respond,
               RespondBestmove \/ UNCHANGED <<bestmove_is_sent, final_bestmove,
                                              output, current_best_edge>>
        PROVE  TypeOK'
    <3>1. stop_reason' \in StopReason /\ stop' \in BOOLEAN
        BY <2>3, <1>9, ShouldStopType
    <3>2. CASE RespondBestmove
      <4>1. PICK m \in EnsureBestMoveKnown(bestmove_is_sent) :
              final_bestmove' = m /\ bestmoves' = Append(bestmoves, m)
          BY <3>2 DEF RespondBestmove
      <4>2. m \in Move \cup {NoMove}
          BY EnsureBestMoveKnownType
      <4>3. bestmoves' \in Seq(Move \cup {NoMove})
          BY <4>1, <4>2
      <4> QED
          BY <1>9, <2>1, <2>3, <3>1, <3>2, <4>1, <4>2, <4>3
          DEF MaybeTriggerStop, RespondBestmove
    <3>3. CASE UNCHANGED <<bestmove_is_sent, final_bestmove, output, current_best_edge>>
        BY <1>9, <2>1, <2>3, <3>1, <3>3 DEF MaybeTriggerStop
    <3> QED
        BY <2>3, <3>2, <3>3
  <2> QED
      BY <1>9, <2>2, <2>3 DEF MaybeTriggerStop
<1>10. ASSUME NEW t \in Thread, MaybeOutputInfo(t) PROVE TypeOK'
    BY <1>10 DEF MaybeOutputInfo
<1>11. CASE WatchdogCheck
    BY <1>11 DEF WatchdogCheck
<1>12. CASE WatchdogWake
    BY <1>12 DEF WatchdogWake
<1>13. CASE Stop
    BY <1>13 DEF Stop, StopReason
<1>14. CASE Abort
    BY <1>14, ZenonT(60) DEF Abort, StopReason
<1>15. CASE Wait \/ Joined
    BY <1>15 DEF Wait, Joined
<1>16. CASE GetBestMove
    BY <1>16, EnsureBestMoveKnownType DEF GetBestMove
<1>19. CASE ResetBestMove
  <2>1. redraws' \in {0, 1}
      BY <1>19 DEF ResetBestMove
  <2> QED
      BY <1>19, <2>1, EnsureBestMoveKnownType DEF ResetBestMove
<1>17. CASE UNCHANGED vars
    BY <1>17 DEF vars
<1>18. Worker \subseteq Thread /\ Watchdog \in Thread
    BY DEF Thread
<1> QED
    BY <1>1, <1>2, <1>3, <1>4, <1>5, <1>6, <1>7, <1>8, <1>9, <1>10, <1>11, <1>12,
       <1>13, <1>14, <1>15, <1>16, <1>17, <1>18, <1>19
    DEF Next, WorkerStep, WatchdogStep, ClientStep, UpdateCounters

\* Every variable keeps to its type, in searches of any size.
THEOREM TypeCorrect == Spec => []TypeOK
BY TypeInit, TypeStep, PTL DEF Spec

-----------------------------------------------------------------------------
(* One bestmove, and nothing after it.                                     *)

\* What makes BestmoveOnceAndLast inductive: stop_ is never reset, a search that
\* counts as answered has stopped, and only such a search has sent a move.
AnswerInv ==
  /\ stop <=> stop_reason # "none"
  /\ bestmove_is_sent => stop
  /\ bestmoves # <<>> => /\ bestmove_is_sent
                         /\ Len(bestmoves) = 1
                         /\ last_output = "bestmove"
  /\ BestmoveIsAMove

\* Sending bestmove keeps AnswerInv where the search has stopped and not answered.
LEMMA RespondKeepsAnswerInv ==
  ASSUME TypeOK, AnswerInv, ~bestmove_is_sent, RootVisits # 0,
         RespondBestmove, stop', stop_reason' # "none"
  PROVE  AnswerInv'
<1>1. bestmoves = <<>>
    BY DEF AnswerInv, TypeOK
<1>2. PICK m \in EnsureBestMoveKnown(bestmove_is_sent) :
        bestmoves' = Append(bestmoves, m)
    BY DEF RespondBestmove
<1>3. m \in Move \cup {NoMove} /\ (RootMoves > 0 => m \in Move)
    BY EnsureBestMoveKnownType, SearchAssumption DEF TypeOK
<1>4. bestmoves' = <<m>>
    BY <1>1, <1>2, <1>3
<1>5. Len(bestmoves') = 1 /\ (RootMoves > 0 => \A i \in DOMAIN bestmoves' : bestmoves'[i] \in Move)
    BY <1>3, <1>4
<1> QED
    BY <1>5 DEF AnswerInv, RespondBestmove, BestmoveIsAMove

\* No answer was sent before the start.
LEMMA AnswerInit == Init => AnswerInv
BY DEF Init, AnswerInv, BestmoveIsAMove

\* Every step keeps the invariant of the answer.
LEMMA AnswerStep == TypeOK /\ AnswerInv /\ [Next]_vars => AnswerInv'
<1> SUFFICES ASSUME TypeOK, AnswerInv, [Next]_vars PROVE AnswerInv'
    OBVIOUS
<1> USE DEF control, output, work
<1>1. CASE UNCHANGED <<stop, stop_reason, bestmove_is_sent, bestmoves, last_output>>
    BY <1>1 DEF AnswerInv, BestmoveIsAMove
<1>2. ASSUME NEW t \in Thread, MaybeTriggerStop(t) PROVE AnswerInv'
  <2>1. CASE bestmove_is_sent \/ RootVisits = 0
      BY <1>1, <1>2, <2>1 DEF MaybeTriggerStop, AnswerInv
  <2>2. CASE ~bestmove_is_sent /\ RootVisits > 0
    <3>1. PICK verdict \in IF stop THEN {stop_reason} ELSE ShouldStop(stats[t]) :
            /\ stop' = (verdict # "none")
            /\ stop_reason' = verdict
            /\ IF verdict # "none" /\ ok_to_respond THEN RespondBestmove
               ELSE UNCHANGED <<bestmove_is_sent, final_bestmove, output,
                                current_best_edge>>
        BY <1>2, <2>2 DEF MaybeTriggerStop
    <3>2. CASE verdict # "none" /\ ok_to_respond
      <4>1. RespondBestmove /\ stop' /\ stop_reason' # "none"
          BY <3>1, <3>2
      <4>2. RootVisits # 0
          BY <2>2
      <4> QED
          BY <2>2, <4>1, <4>2, RespondKeepsAnswerInv
    <3>3. CASE ~(verdict # "none" /\ ok_to_respond)
        BY <2>2, <3>1, <3>3 DEF AnswerInv, BestmoveIsAMove
    <3> QED
        BY <3>2, <3>3
  <2> QED
      BY <2>1, <2>2, SearchAssumption DEF RootVisits, TypeOK
<1>3. ASSUME NEW t \in Thread, MaybeOutputInfo(t) PROVE AnswerInv'
    BY <1>3 DEF MaybeOutputInfo, AnswerInv, BestmoveIsAMove
<1>4. CASE Stop
    BY <1>4 DEF Stop, AnswerInv, BestmoveIsAMove
<1>5. CASE Abort
    BY <1>5 DEF Abort, AnswerInv, BestmoveIsAMove
<1>6. ASSUME NEW w \in Worker,
             Gate(w) \/ ClaimPermit(w) \/ PickNodesToExtend(w) \/ ProcessPicked(w)
             \/ ReleasePermit(w) \/ ComputeAndBackUp(w) \/ WorkerCheck(w)
      PROVE  AnswerInv'
    BY <1>1, <1>6 DEF Gate, ClaimPermit, PickNodesToExtend, ProcessPicked,
       ReleasePermit, ComputeAndBackUp, WorkerCheck
<1>7. ASSUME NEW t \in Thread, PopulateCommonIterationStats(t) PROVE AnswerInv'
    BY <1>1, <1>7 DEF PopulateCommonIterationStats
<1>8. CASE WatchdogCheck \/ WatchdogWake \/ Wait \/ Joined \/ GetBestMove \/ ResetBestMove
    BY <1>1, <1>8 DEF WatchdogCheck, WatchdogWake, Wait, Joined, GetBestMove,
       ResetBestMove
<1>9. CASE UNCHANGED vars
    BY <1>1, <1>9 DEF vars
<1>10. Worker \subseteq Thread /\ Watchdog \in Thread
    BY DEF Thread
<1> QED
    BY <1>2, <1>3, <1>4, <1>5, <1>6, <1>7, <1>8, <1>9, <1>10
    DEF Next, WorkerStep, WatchdogStep, ClientStep, UpdateCounters

\* search.cc: the invariant of the answer, which BestmoveOnce rests on.
THEOREM AnswerInvariant == Spec => []AnswerInv
BY AnswerInit, AnswerStep, TypeCorrect, PTL DEF Spec

\* Any number of workers and a watchdog race to send bestmove; one sends it, and no
\* thread prints anything after it.
THEOREM BestmoveOnce == Spec => []BestmoveOnceAndLast
<1>1. TypeOK /\ AnswerInv => BestmoveOnceAndLast
  <2>1. bestmoves = <<>> => Len(bestmoves) = 0
      OBVIOUS
  <2> QED
      BY <2>1 DEF AnswerInv, BestmoveOnceAndLast
<1> QED
    BY <1>1, TypeCorrect, AnswerInvariant, PTL

\* However early a search is stopped, the move it answers with is a legal one.
THEOREM BestmoveLegal == Spec => []BestmoveIsAMove
<1>1. AnswerInv => BestmoveIsAMove
    BY DEF AnswerInv
<1> QED
    BY <1>1, AnswerInvariant, PTL

-----------------------------------------------------------------------------
(* The search implements its promise.                                      *)

\* A new search is an open one.
LEMMA PromiseInit == Init => Promise!Init
BY DEF Init, Promise!Init

\* Every step of the threads and the client is a step of the promise or none.
LEMMA PromiseStep ==
  TypeOK /\ AnswerInv /\ AnswerInv' /\ [Next]_vars => [Promise!Next]_(Promise!vars)
<1> SUFFICES ASSUME TypeOK, AnswerInv, AnswerInv', [Next]_vars
             PROVE  [Promise!Next]_(Promise!vars)
    OBVIOUS
<1> USE DEF control, output, work
<1>1. CASE UNCHANGED <<stop, ok_to_respond, bestmove_is_sent, bestmoves>>
    BY <1>1 DEF Promise!vars
<1>2. ASSUME NEW t \in Thread, MaybeTriggerStop(t)
      PROVE  [Promise!Next]_(Promise!vars)
  <2>1. CASE bestmove_is_sent \/ RootVisits = 0
      BY <1>1, <1>2, <2>1, SearchAssumption DEF MaybeTriggerStop, RootVisits, TypeOK
  <2>2. CASE ~bestmove_is_sent /\ RootVisits > 0
    <3>1. PICK verdict \in IF stop THEN {stop_reason} ELSE ShouldStop(stats[t]) :
            /\ stop' = (verdict # "none")
            /\ stop_reason' = verdict
            /\ ok_to_respond' = ok_to_respond
            /\ IF verdict # "none" /\ ok_to_respond THEN RespondBestmove
               ELSE UNCHANGED <<bestmove_is_sent, final_bestmove, output,
                                current_best_edge>>
        BY <1>2, <2>2 DEF MaybeTriggerStop
    <3>2. CASE verdict # "none" /\ ok_to_respond
      <4>1. bestmoves = <<>>
          BY <2>2 DEF AnswerInv, TypeOK
      <4>2. PICK m \in EnsureBestMoveKnown(bestmove_is_sent) :
              bestmoves' = Append(bestmoves, m)
          BY <3>1, <3>2 DEF RespondBestmove
      <4>3. m \in Move \cup {NoMove}
          BY EnsureBestMoveKnownType DEF TypeOK
      <4>4. bestmoves' = <<m>> /\ bestmove_is_sent'
          BY <3>1, <3>2, <4>1, <4>2, <4>3 DEF RespondBestmove
      <4>5. bestmoves' # <<>> /\ bestmoves'[1] = m
          BY <4>4
      <4>6. Promise!Answer
          BY <2>2, <4>3, <4>4, <4>5 DEF Promise!Answer
      <4> QED
          BY <4>6 DEF Promise!Next
    <3>3. CASE ~(verdict # "none" /\ ok_to_respond)
        BY <2>2, <3>1, <3>3 DEF AnswerInv, Promise!vars
    <3> QED
        BY <3>2, <3>3
  <2> QED
      BY <2>1, <2>2, SearchAssumption DEF RootVisits, TypeOK
<1>3. CASE Stop
    BY <1>3 DEF Stop, AnswerInv, Promise!Next, Promise!Commit, Promise!vars
<1>4. CASE Abort
    BY <1>4 DEF Abort, AnswerInv, Promise!Next, Promise!Silence, Promise!vars
<1>5. ASSUME NEW w \in Worker,
             Gate(w) \/ ClaimPermit(w) \/ PickNodesToExtend(w) \/ ProcessPicked(w)
             \/ ReleasePermit(w) \/ ComputeAndBackUp(w) \/ WorkerCheck(w)
      PROVE  [Promise!Next]_(Promise!vars)
    BY <1>1, <1>5 DEF Gate, ClaimPermit, PickNodesToExtend, ProcessPicked,
       ReleasePermit, ComputeAndBackUp, WorkerCheck
<1>6. ASSUME NEW t \in Thread, PopulateCommonIterationStats(t) \/ MaybeOutputInfo(t)
      PROVE  [Promise!Next]_(Promise!vars)
    BY <1>1, <1>6 DEF PopulateCommonIterationStats, MaybeOutputInfo
<1>7. CASE WatchdogCheck \/ WatchdogWake \/ Wait \/ Joined \/ GetBestMove \/ ResetBestMove
    BY <1>1, <1>7 DEF WatchdogCheck, WatchdogWake, Wait, Joined, GetBestMove,
       ResetBestMove
<1>8. CASE UNCHANGED vars
    BY <1>1, <1>8 DEF vars
<1>9. Worker \subseteq Thread /\ Watchdog \in Thread
    BY DEF Thread
<1> QED
    BY <1>2, <1>3, <1>4, <1>5, <1>6, <1>7, <1>8, <1>9
    DEF Next, WorkerStep, WatchdogStep, ClientStep, UpdateCounters

\* Safety half of KeepsPromise, for any number of workers: nobody revokes a due
\* answer, nobody answers a silenced search, nobody answers twice.
THEOREM ImplementsPromise == Spec => Promise!Init /\ [][Promise!Next]_(Promise!vars)
BY PromiseInit, PromiseStep, TypeCorrect, AnswerInvariant, PTL DEF Spec

-----------------------------------------------------------------------------
(* A stale snapshot stops a search short of its visits limit only by the visits   *)
(* taken back since.                                                              *)

\* Playouts only grow, and the visits of earlier searches only get fewer: no thread
\* that decides remembers more of the first than there are, or less of the second.
SnapshotInv ==
  /\ \A t \in Thread : stats[t].playouts <= total_playouts
  /\ \A t \in Thread : pc[t] = "trigger" =>
        stats[t].nodes - stats[t].playouts >= initial_visits

\* The first snapshots are empty.
LEMMA SnapshotInit == Init => SnapshotInv
BY SearchAssumption DEF Init, SnapshotInv, NoStats

\* Every step of the threads and the client keeps it.
LEMMA SnapshotStep == TypeOK /\ SnapshotInv /\ [Next]_vars => SnapshotInv'
<1> SUFFICES ASSUME TypeOK, SnapshotInv, [Next]_vars PROVE SnapshotInv'
    OBVIOUS
<1> USE DEF control, output, work, clientVars
<1>t. /\ total_playouts \in Nat /\ initial_visits \in Nat
      /\ stats \in [Thread -> Stats] /\ pc \in [Thread -> Label]
      /\ \A t \in Thread : stats[t].nodes \in Nat /\ stats[t].playouts \in Nat
    BY DEF TypeOK, Stats
<1>w. Worker \subseteq Thread /\ Watchdog \in Thread
    BY DEF Thread
<1>1. ASSUME NEW t \in Thread, NEW label, label # "trigger", Goto(t, label),
             UNCHANGED stats,
             total_playouts' \in Nat, total_playouts' >= total_playouts,
             initial_visits' \in Nat, initial_visits' <= initial_visits
      PROVE  SnapshotInv'
  <2>1. \A u \in Thread : pc'[u] = "trigger" => pc[u] = "trigger"
      BY <1>t, <1>1 DEF Goto
  <2> QED
      BY <1>t, <1>1, <2>1 DEF SnapshotInv
<1>2. ASSUME NEW w \in Worker,
             \/ Gate(w) \/ ClaimPermit(w) \/ ReleasePermit(w) \/ WorkerCheck(w)
      PROVE  SnapshotInv'
    BY <1>t, <1>w, <1>1, <1>2 DEF Gate, ClaimPermit, ReleasePermit, WorkerCheck
<1>3. ASSUME NEW w \in Worker, PickNodesToExtend(w) PROVE SnapshotInv'
  <2>1. PICK taken \in TakenBack : initial_visits' = initial_visits - taken
      BY <1>3 DEF PickNodesToExtend
  <2>2. initial_visits' \in Nat /\ initial_visits' <= initial_visits
      BY <1>t, <2>1 DEF TakenBack
  <2> QED
      BY <1>t, <1>w, <1>1, <1>3, <2>2 DEF PickNodesToExtend
<1>4. ASSUME NEW w \in Worker, ProcessPicked(w) PROVE SnapshotInv'
  <2>1. PICK ooo \in 0..fresh[w] : BackUp(ooo)
      BY <1>4 DEF ProcessPicked
  <2>2. total_playouts' \in Nat /\ total_playouts' >= total_playouts
      BY <1>t, <2>1 DEF BackUp, TypeOK
  <2> QED
      BY <1>t, <1>w, <1>1, <1>4, <2>2 DEF ProcessPicked
<1>5. ASSUME NEW w \in Worker, ComputeAndBackUp(w) PROVE SnapshotInv'
  <2>1. total_playouts' \in Nat /\ total_playouts' >= total_playouts
      BY <1>t, <1>5 DEF ComputeAndBackUp, BackUp, TypeOK
  <2> QED
      BY <1>t, <1>w, <1>1, <1>5, <2>1 DEF ComputeAndBackUp
<1>6. ASSUME NEW t \in Thread, PopulateCommonIterationStats(t) PROVE SnapshotInv'
  <2>1. PICK s \in StatsNow : stats' = [stats EXCEPT ![t] = s]
      BY <1>6 DEF PopulateCommonIterationStats
  <2>2. s.playouts = total_playouts /\ s.nodes - s.playouts = initial_visits
      BY <1>t, <2>1, StatsNowType DEF RootVisits
  <2>3. \A u \in Thread : u # t => stats'[u] = stats[u] /\ pc'[u] = pc[u]
      BY <1>t, <1>6, <2>1 DEF PopulateCommonIterationStats, Goto
  <2>4. stats'[t] = s
      BY <1>t, <2>1
  <2> QED
      BY <1>t, <1>6, <2>2, <2>3, <2>4 DEF PopulateCommonIterationStats, SnapshotInv
<1>7. ASSUME NEW t \in Thread, MaybeTriggerStop(t) PROVE SnapshotInv'
  <2>1. /\ UNCHANGED <<total_playouts, initial_visits>>
        /\ stats' = [stats EXCEPT ![t] = NoStats]
        /\ pc' = [pc EXCEPT ![t] = "info"]
      BY <1>7 DEF MaybeTriggerStop, Goto
  <2>2. \A u \in Thread : u # t => stats'[u] = stats[u] /\ pc'[u] = pc[u]
      BY <1>t, <2>1
  <2>3. stats'[t].playouts = 0 /\ pc'[t] = "info"
      BY <1>t, <2>1 DEF NoStats
  <2> QED
      BY <1>t, <2>1, <2>2, <2>3 DEF SnapshotInv
<1>8. ASSUME NEW t \in Thread, MaybeOutputInfo(t) PROVE SnapshotInv'
    BY <1>t, <1>1, <1>8 DEF MaybeOutputInfo
<1>9. CASE WatchdogCheck \/ WatchdogWake
    BY <1>t, <1>w, <1>1, <1>9 DEF WatchdogCheck, WatchdogWake
<1>10. CASE UNCHANGED <<stats, pc, total_playouts, initial_visits>>
    BY <1>10 DEF SnapshotInv
<1>11. CASE ClientStep
    BY <1>10, <1>11 DEF ClientStep, Stop, Abort, Wait, Joined, GetBestMove, ResetBestMove
<1>12. CASE UNCHANGED vars
    BY <1>10, <1>12 DEF vars
<1> QED
    BY <1>w, <1>2, <1>3, <1>4, <1>5, <1>6, <1>7, <1>8, <1>9, <1>11, <1>12
    DEF Next, WorkerStep, WatchdogStep, UpdateCounters

\* Only a decision can name the visits limit as the reason of a stop, and it judges
\* a snapshot that reached the limit.
LEMMA VisitStop ==
  ASSUME TypeOK, [Next]_vars, stop_reason' = "visits", stop_reason # "visits"
  PROVE  \E t \in Thread : /\ pc[t] = "trigger" /\ pc'[t] # "trigger"
                           /\ stats[t].nodes >= VisitLimit
<1> USE DEF control, output, work, clientVars
<1>1. ASSUME NEW t \in Thread, MaybeTriggerStop(t)
      PROVE  /\ pc[t] = "trigger" /\ pc'[t] # "trigger"
             /\ stats[t].nodes >= VisitLimit
  <2>1. stats[t] \in Stats /\ pc[t] = "trigger" /\ pc'[t] = "info"
      BY <1>1 DEF MaybeTriggerStop, Goto, TypeOK
  <2>2. stop_reason' = stop_reason \/ stop_reason' \in ShouldStop(stats[t])
      BY <1>1 DEF MaybeTriggerStop
  <2> QED
      BY <2>1, <2>2, ShouldStopType
<1>2. ASSUME NEW w \in Worker,
             \/ Gate(w) \/ ClaimPermit(w) \/ PickNodesToExtend(w) \/ ProcessPicked(w)
             \/ ReleasePermit(w) \/ ComputeAndBackUp(w) \/ WorkerCheck(w)
      PROVE  FALSE
    BY <1>2 DEF Gate, ClaimPermit, PickNodesToExtend, ProcessPicked, ReleasePermit,
       ComputeAndBackUp, WorkerCheck
<1>3. ASSUME NEW t \in Thread, PopulateCommonIterationStats(t) \/ MaybeOutputInfo(t)
      PROVE  FALSE
    BY <1>3 DEF PopulateCommonIterationStats, MaybeOutputInfo
<1>4. CASE WatchdogCheck \/ WatchdogWake \/ ClientStep
    BY <1>4 DEF WatchdogCheck, WatchdogWake, ClientStep, Stop, Abort, Wait, Joined,
       GetBestMove, ResetBestMove
<1>5. CASE UNCHANGED vars
    BY <1>5 DEF vars
<1>6. Worker \subseteq Thread /\ Watchdog \in Thread
    BY DEF Thread
<1> QED
    BY <1>1, <1>2, <1>3, <1>4, <1>5, <1>6
    DEF Next, WorkerStep, WatchdogStep, UpdateCounters

\* A search that stops for its visits limit lacks no visit, although the decision was
\* taken on statistics read under an earlier lock - but for those visits of earlier
\* searches that were taken back since.
THEOREM VisitLimitHonoured == Spec => VisitLimitReached
<1>1. TypeOK /\ SnapshotInv /\ [Next]_vars =>
      [stop_reason' = "visits" /\ stop_reason # "visits" =>
         \E t \in Thread : /\ pc[t] = "trigger" /\ pc'[t] # "trigger"
                           /\ RootVisits + TakenSince(t) >= VisitLimit]_vars
  <2> SUFFICES ASSUME TypeOK, SnapshotInv, [Next]_vars,
                      stop_reason' = "visits", stop_reason # "visits"
               PROVE  \E t \in Thread : /\ pc[t] = "trigger" /\ pc'[t] # "trigger"
                                        /\ RootVisits + TakenSince(t) >= VisitLimit
      OBVIOUS
  <2>1. PICK t \in Thread : /\ pc[t] = "trigger" /\ pc'[t] # "trigger"
                            /\ stats[t].nodes >= VisitLimit
      BY VisitStop
  <2>2. /\ stats[t].nodes \in Nat /\ stats[t].playouts \in Nat
        /\ stats[t].playouts <= total_playouts
        /\ total_playouts \in Nat /\ initial_visits \in Nat /\ VisitLimit \in Nat
      BY SearchAssumption DEF TypeOK, Stats, SnapshotInv
  <2>3. RootVisits + TakenSince(t) >= VisitLimit
      BY <2>1, <2>2 DEF RootVisits, TakenSince
  <2> QED
      BY <2>1, <2>3
<1> QED
    BY <1>1, SnapshotInit, SnapshotStep, TypeCorrect, PTL DEF Spec, VisitLimitReached

-----------------------------------------------------------------------------
(* Permits to gather.                                                      *)

\* All permits are free at the start.
LEMMA PermitInit == Init => PermitsConserved
<1> SUFFICES ASSUME Init PROVE PermitsConserved
    OBVIOUS
<1>1. Gathering = {}
    BY SearchAssumption DEF Init, Gathering, Thread
<1>2. Cardinality(Gathering) = 0
    BY <1>1, FS_EmptySet
<1> QED
    BY <1>2, SearchAssumption DEF Init, PermitsConserved

\* A thread that neither enters nor leaves the gathering steps changes no permit.
LEMMA SamePermits ==
  ASSUME TypeOK, PermitsConserved, NEW t \in Thread, NEW label, Goto(t, label),
         UNCHANGED pending_searchers,
         t \in Worker => (label \in {"gather", "process", "release"}
                          <=> pc[t] \in {"gather", "process", "release"})
  PROVE  PermitsConserved'
<1>1. Gathering' = Gathering
    BY DEF Gathering, Goto, TypeOK, Thread
<1> QED
    BY <1>1 DEF PermitsConserved

\* Taking and giving back keeps the number of permits.
LEMMA PermitStep == TypeOK /\ PermitsConserved /\ [Next]_vars => PermitsConserved'
<1> SUFFICES ASSUME TypeOK, PermitsConserved, [Next]_vars PROVE PermitsConserved'
    OBVIOUS
<1>w. Worker \subseteq Thread /\ Watchdog \in Thread /\ Watchdog \notin Worker
    BY SearchAssumption DEF Thread
<1>f. /\ IsFiniteSet(Gathering)
      /\ Cardinality(Gathering) \in Nat
      /\ pending_searchers \in Nat /\ MaxConcurrentSearchers \in Nat
    BY SearchAssumption, FS_Subset, FS_CardinalityType DEF Gathering, TypeOK
<1>1. ASSUME NEW w \in Worker, Gate(w) PROVE PermitsConserved'
  <2>1. CASE MaxConcurrentSearchers = 0
      BY <2>1 DEF PermitsConserved
  <2>2. CASE MaxConcurrentSearchers # 0
      BY <1>1, <1>w, <2>2, SamePermits DEF Gate
  <2> QED
      BY <2>1, <2>2
<1>2. ASSUME NEW w \in Worker, ClaimPermit(w) PROVE PermitsConserved'
  <2>1. CASE pending_searchers > 0
    <3>1. Gathering' = Gathering \cup {w} /\ w \notin Gathering
        BY <1>2, <1>w, <2>1 DEF ClaimPermit, Goto, Gathering, TypeOK
    <3>2. Cardinality(Gathering') = Cardinality(Gathering) + 1
        BY <1>f, <3>1, FS_AddElement
    <3> QED
        BY <1>2, <1>f, <2>1, <3>2 DEF ClaimPermit, PermitsConserved
  <2>2. CASE ~(pending_searchers > 0)
      BY <1>2, <1>w, <2>2, SamePermits DEF ClaimPermit
  <2> QED
      BY <2>1, <2>2
<1>3. ASSUME NEW w \in Worker, PickNodesToExtend(w) PROVE PermitsConserved'
    BY <1>3, <1>w, SamePermits DEF PickNodesToExtend
<1>4. ASSUME NEW w \in Worker, ProcessPicked(w) PROVE PermitsConserved'
    BY <1>4, <1>w, SamePermits DEF ProcessPicked
<1>5. ASSUME NEW w \in Worker, ReleasePermit(w) PROVE PermitsConserved'
  <2>1. Gathering' = Gathering \ {w} /\ w \in Gathering
      BY <1>5, <1>w DEF ReleasePermit, Goto, Gathering, TypeOK
  <2>2. Cardinality(Gathering') = Cardinality(Gathering) - 1
      BY <1>f, <2>1, FS_RemoveElement
  <2> QED
      BY <1>5, <1>f, <2>2 DEF ReleasePermit, PermitsConserved
<1>6. ASSUME NEW w \in Worker, ComputeAndBackUp(w) \/ WorkerCheck(w)
      PROVE  PermitsConserved'
    BY <1>6, <1>w, SamePermits DEF ComputeAndBackUp, WorkerCheck
<1>7. ASSUME NEW t \in Thread, UpdateCounters(t) PROVE PermitsConserved'
    BY <1>7, SamePermits DEF UpdateCounters, PopulateCommonIterationStats,
       MaybeTriggerStop, MaybeOutputInfo
<1>8. CASE WatchdogCheck \/ WatchdogWake
    BY <1>8, <1>w, SamePermits DEF WatchdogCheck, WatchdogWake
<1>9. CASE UNCHANGED <<pending_searchers, pc>>
    BY <1>9 DEF PermitsConserved, Gathering
<1>10. CASE ClientStep
    BY <1>9, <1>10 DEF ClientStep, Stop, Abort, Wait, Joined, GetBestMove, ResetBestMove
<1>11. CASE UNCHANGED vars
    BY <1>9, <1>11 DEF vars
<1> QED
    BY <1>1, <1>2, <1>3, <1>4, <1>5, <1>6, <1>7, <1>8, <1>10, <1>11, <1>w
    DEF Next, WorkerStep, WatchdogStep

\* No early return, stop or abort loses or doubles a permit, for any number of
\* workers and permits: hence at most max-concurrent-searchers workers gather.
THEOREM PermitsKept == Spec => []PermitsConserved
BY PermitInit, PermitStep, TypeCorrect, PTL DEF Spec

-----------------------------------------------------------------------------
\* Once bestmove is sent, or the search silenced, no thread and no GetBestMove()
\* changes the stored best move: only a call of ResetBestMove() does.
THEOREM BestMoveKept == Spec => BestMoveIsStable
<1> USE DEF control, output, work
<1>1. TypeOK /\ [Next]_vars =>
      [bestmove_is_sent /\ UNCHANGED redraws => UNCHANGED final_bestmove]_vars
  <2> SUFFICES ASSUME TypeOK, [Next]_vars, bestmove_is_sent, UNCHANGED redraws
               PROVE  UNCHANGED final_bestmove
      OBVIOUS
  <2>1. ASSUME NEW w \in Worker, WorkerStep(w) PROVE UNCHANGED final_bestmove
      BY <2>1 DEF WorkerStep, Gate, ClaimPermit, PickNodesToExtend, ProcessPicked,
         ReleasePermit, ComputeAndBackUp, WorkerCheck, UpdateCounters,
         PopulateCommonIterationStats, MaybeTriggerStop, MaybeOutputInfo
  <2>2. CASE WatchdogStep
      BY <2>2 DEF WatchdogStep, WatchdogCheck, WatchdogWake, UpdateCounters,
         PopulateCommonIterationStats, MaybeTriggerStop, MaybeOutputInfo
  <2>3. CASE ClientStep
    <3>1. CASE ResetBestMove
        BY <3>1 DEF ResetBestMove, TypeOK
    <3>2. CASE GetBestMove
        BY <3>2 DEF GetBestMove, EnsureBestMoveKnown
    <3> QED
        BY <2>3, <3>1, <3>2 DEF ClientStep, Stop, Abort, Wait, Joined
  <2>4. CASE UNCHANGED vars
      BY <2>4 DEF vars
  <2> QED
      BY <2>1, <2>2, <2>3, <2>4 DEF Next
<1> QED
    BY <1>1, TypeCorrect, PTL DEF Spec, BestMoveIsStable
==============================================================================
