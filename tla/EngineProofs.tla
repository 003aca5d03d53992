----------------------------- MODULE EngineProofs -----------------------------
(***************************************************************************)
(* Safety of the engine that a GUI which keeps to the UCI protocol drives: *)
(* for any set of positions, resources and settings.                       *)
(***************************************************************************)
EXTENDS Engine, TLAPS

-----------------------------------------------------------------------------
(* The inductive invariant.                                                *)

\* What is given to the next search is what is loaded; with a position at hand all of
\* it is loaded.
Given ==
  /\ given = loaded
  /\ last_position # None => loaded \in Loadable

\* Before the first position nothing can have been searched.
NothingYet ==
  last_position = None => ~threads /\ last_go = None /\ pc \notin {"start", "launch", "ponderhit"}

\* A search without threads is decided: it was aborted, or it has answered. Nobody is
\* disturbed then.
Decided == ~threads => phase \in {"answered", "silenced"} /\ ~disturbed

\* A GUI that waits for nothing may have sent `position` while a search went on; the
\* threads that run otherwise are those of a search that has answered.
Idle == gui = "idle" /\ threads => phase = "answered" \/ pc \in {"position", "newgame"}

\* A position accepted since the last `go` has nothing running on it. One that was not
\* refused is in the tree already unless the search gets it with `go`.
PositionIsFresh ==
  /\ positioned = "new" => ~threads /\ pc \notin {"start", "launch", "ponderhit"}
  /\ positioned # "refused" /\ last_position # None => ponder_enabled \/ head = last_position

\* What StartSearch() will start with; of another search only threads may be left.
ReadyToStart ==
  pc \in {"start", "launch"} =>
    /\ threads => phase = "answered"
    /\ positioned = "old" /\ answers = 0 /\ gui \in {"waiting", "pondering"}
    /\ params \in Kind /\ params = last_go
    /\ head \in Position /\ head = Searched(last_position, params = "ponder")
    /\ params = "ponder" => last_position # <<>>

\* A search that is not decided is the one asked for, and nobody was answered yet.
Running ==
  threads /\ phase \in {"open", "committed"} =>
    /\ answers = 0
    /\ last_go = search.kind
    /\ search.root = Searched(last_position, search.kind = "ponder")
    /\ search.kind = "ponder" => last_position # <<>>

\* A search that ponders for the GUI is not going to answer, nor one hit already.
Pondering ==
  /\ gui \in {"waiting", "pondering"} =>
       positioned = "old" /\ pc \notin {"position", "newgame", "quit", "gone"}
  /\ gui = "pondering" \/ pc = "ponderhit" =>
       /\ answers = 0 /\ positioned = "old"
       /\ last_go = "ponder"
       /\ phase # "committed"
       /\ pc = "ponderhit" => phase # "open" /\ gui = "waiting"

Arguments == pc = "position" => argument \in Position \cup {None}

EngineInv ==
  /\ TypeOK /\ Arguments
  /\ Given /\ NothingYet /\ Decided /\ Idle /\ PositionIsFresh /\ ReadyToStart
  /\ Running /\ Pondering
  /\ ResourcesOutliveSearch /\ TreeIsQuiet /\ AnsweredOnce

-----------------------------------------------------------------------------
(* Lemmas about the operators.                                             *)

\* A search that ponders has the position one move behind as its root.
LEMMA SearchedType ==
  ASSUME NEW p \in Position, NEW for_ponder \in BOOLEAN, for_ponder => p # <<>>
  PROVE  Searched(p, for_ponder) \in Position
BY EngineAssumption DEF Searched

\* All that was not loaded, or loaded for other options, is loaded now.
LEMMA LoadResourcesType ==
  ASSUME TypeOK, given = loaded, LoadResources
  PROVE  /\ given' = loaded'
         /\ loaded' \in Loadable
         /\ backend_name' \in {s.name : s \in Setting} \cup {None}
<1>1. setting \in Setting /\ BackendOf(setting) \in {BackendOf(s) : s \in Setting}
    BY DEF TypeOK, ResourcesType
<1>2. KeepsBackend => loaded.backend \in {BackendOf(s) : s \in Setting}
    BY DEF KeepsBackend, TypeOK, ResourcesType, Loadable
<1>3. backend_name' = setting.name
    BY DEF LoadResources
<1>4. given' = loaded'
    BY DEF LoadResources
<1>5. loaded' = [backend |-> IF KeepsBackend THEN loaded.backend ELSE BackendOf(setting),
                 tablebases |-> setting.paths]
    BY DEF LoadResources
<1>6. loaded' \in Loadable
    BY <1>1, <1>2, <1>5 DEF Loadable
<1> QED
    BY <1>1, <1>3, <1>4, <1>6

\* A backend that cannot be created leaves everything but its name.
LEMMA LoadingThrowsType ==
  ASSUME TypeOK, LoadingThrows
  PROVE  /\ given' = given /\ loaded' = loaded
         /\ backend_name' \in {s.name : s \in Setting} \cup {None}
BY DEF LoadingThrows, TypeOK, ResourcesType

\* A tree is only changed under threads that run.
LEMMA MaybeTrimTreeType ==
  ASSUME FlagsType, Decided, MaybeTrimTree
  PROVE  /\ head' = head
         /\ stale' \in BOOLEAN /\ disturbed' \in BOOLEAN
         /\ disturbed' => threads
<1>1. head' = head /\ stale \in BOOLEAN /\ disturbed \in BOOLEAN /\ (disturbed => threads)
    BY DEF MaybeTrimTree, FlagsType, Decided
<1>2. CASE UNCHANGED <<stale, disturbed>>
    BY <1>1, <1>2
<1>3. CASE ChangeTree(TRUE)
  <2>1. stale' \in BOOLEAN /\ disturbed' \in BOOLEAN
      BY <1>3, ZenonT(30) DEF ChangeTree
  <2>2. disturbed' => threads
      BY <1>1, <1>3 DEF ChangeTree
  <2> QED
      BY <1>1, <2>1, <2>2
<1> QED
    BY <1>2, <1>3 DEF MaybeTrimTree

-----------------------------------------------------------------------------
\* The invariant holds before the first command.
LEMMA EngineInit == Init => EngineInv
<1> SUFFICES ASSUME Init PROVE EngineInv
    OBVIOUS
<1>1. loaded \in Loadable \cup {[backend |-> None, tablebases |-> None]}
    BY DEF Init, Loadable
<1>2. TypeOK
    BY <1>1 DEF Init, TypeOK, ResourcesType, FlagsType, SearchType, Kind
<1>3. Given /\ NothingYet /\ Decided /\ Idle /\ PositionIsFresh /\ ReadyToStart /\ Running
    BY DEF Init, Given, NothingYet, Decided, Idle, PositionIsFresh, ReadyToStart, Running
<1>4. Arguments /\ Pondering /\ ResourcesOutliveSearch /\ TreeIsQuiet /\ AnsweredOnce
    BY DEF Init, Arguments, Pondering, ResourcesOutliveSearch, TreeIsQuiet, AnsweredOnce
<1> QED
    BY <1>2, <1>3, <1>4 DEF EngineInv

\* The threads of a search: a limit, the answer, and the end.
LEMMA SearchKeeps ==
  ASSUME EngineInv, SearchStep
  PROVE  EngineInv'
<1> USE DEF EngineInv, TypeOK, ResourcesType, FlagsType, SearchType, Arguments, Kind,
        Given, NothingYet, Decided, Idle, PositionIsFresh, ReadyToStart, Running, Pondering,
        ResourcesOutliveSearch, TreeIsQuiet, AnsweredOnce,
        option, resources, remembered, tree, command, outside
<1>1. CASE ReachLimit
    BY <1>1 DEF ReachLimit, Promise!Commit
<1>2. CASE Respond
    BY <1>2 DEF Respond, Promise!Answer
<1>3. CASE ThreadsExit
  <2>1. /\ threads' = FALSE /\ disturbed' = FALSE /\ collisions' \in BOOLEAN /\ phase' = phase
        /\ phase \in {"answered", "silenced"} /\ answer' = answer
      BY <1>3 DEF ThreadsExit
  <2>2. UNCHANGED <<option, resources, remembered, last_go, clock_started, head, stale,
                    command, outside>>
      BY <1>3 DEF ThreadsExit
  <2>3. TypeOK' /\ Arguments'
    <3>1. ResourcesType'
        BY <2>1, <2>2
    <3>2. FlagsType'
        BY <2>1, <2>2
    <3>3. SearchType' /\ Arguments'
        BY <2>1, <2>2
    <3> QED
        BY <3>1, <3>2, <3>3
  <2>4. Given' /\ NothingYet' /\ Decided' /\ Idle' /\ PositionIsFresh' /\ ReadyToStart'
        /\ Running'
      BY <2>1, <2>2
  <2>5. Pondering' /\ ResourcesOutliveSearch' /\ TreeIsQuiet' /\ AnsweredOnce'
      BY <2>1, <2>2
  <2> QED
      BY <2>3, <2>4, <2>5
<1> QED
    BY <1>1, <1>2, <1>3 DEF SearchStep

\* Commands as they arrive.
LEMMA ReceiveKeeps ==
  ASSUME EngineInv, Receive, Obedient
  PROVE  EngineInv'
<1> USE DEF EngineInv, TypeOK, ResourcesType, FlagsType, SearchType, Arguments, Kind,
        Given, NothingYet, Decided, Idle, PositionIsFresh, ReadyToStart, Running, Pondering,
        ResourcesOutliveSearch, TreeIsQuiet, AnsweredOnce
<1>1. CASE SetOption
  <2>1. setting' \in Setting /\ ponder' \in BOOLEAN /\ strict_timing' \in BOOLEAN
      BY <1>1 DEF SetOption
  <2> QED
      BY <1>1, <2>1 DEF SetOption, resources, remembered, tree, searching, command, outside
<1>2. CASE Stop
    BY <1>2 DEF Stop, StopSearch, Promise!Commit, option, resources, remembered, tree,
       command
<1>3. CASE ReceiveNewGame
    BY <1>3 DEF ReceiveNewGame, EnsureSearchStopped, AbortSearch, Promise!Silence, Goto,
       Replaced, option, resources, remembered, tree
<1>4. CASE ReceivePonderHit
  <2> USE DEF ReceivePonderHit, EnsureSearchStopped, AbortSearch, Promise!Silence, Goto,
          option, resources, remembered, tree
  <2>1. TypeOK' /\ Arguments'
    <3>1. ResourcesType'
        BY <1>4
    <3>2. FlagsType'
        BY <1>4
    <3>3. SearchType' /\ Arguments'
        BY <1>4
    <3> QED
        BY <3>1, <3>2, <3>3
  <2>2. gui = "pondering" /\ last_position # None
      BY <1>4, EngineAssumption
  <2>3. Given' /\ NothingYet' /\ Decided' /\ Idle' /\ PositionIsFresh' /\ ReadyToStart'
        /\ Running'
      BY <1>4, <2>2
  <2>4. Pondering'
      BY <1>4, <2>2
  <2>5. ResourcesOutliveSearch' /\ TreeIsQuiet' /\ AnsweredOnce'
      BY <1>4
  <2> QED
      BY <2>1, <2>3, <2>4, <2>5
<1>5. CASE Quit
    BY <1>5 DEF Quit, EnsureSearchStopped, AbortSearch, Promise!Silence, Goto,
       option, resources, remembered, tree
<1>6. ASSUME NEW p \in Position \cup {None}, ReceivePosition(p) PROVE EngineInv'
    BY <1>6 DEF ReceivePosition, EnsureSearchStopped, AbortSearch, Promise!Silence, Goto,
       Replaced, option, resources, remembered, tree
<1>7. ASSUME NEW kind \in Kind, FirstGo(kind) PROVE EngineInv'
  <2> USE DEF FirstGo, MayGo, Prepare, Refuse, Accept, NewTree, Goto, option, command,
          outside
  <2>1. /\ last_position = None /\ ~threads /\ pc = "ready"
        /\ <<>> \in Position /\ <<>> # None
      BY <1>7, EngineAssumption
  <2>2. CASE LoadResources /\ last_position' = <<>> /\ ponder /\ Refuse /\ NewTree(None)
    <3>1. given' = loaded' /\ loaded' \in Loadable
          /\ backend_name' \in {s.name : s \in Setting} \cup {None}
        BY <2>2, LoadResourcesType
    <3>2. TypeOK' /\ Arguments'
      <4>1. ResourcesType'
          BY <1>7, <2>1, <2>2, <3>1
      <4>2. FlagsType'
          BY <1>7, <2>1, <2>2, <3>1
      <4>3. SearchType' /\ Arguments'
          BY <1>7, <2>1, <2>2, <3>1
      <4> QED
          BY <4>1, <4>2, <4>3
    <3>3. Given' /\ NothingYet' /\ Decided' /\ Idle' /\ PositionIsFresh' /\ ReadyToStart'
          /\ Running'
        BY <1>7, <2>1, <2>2, <3>1
    <3>4. Pondering' /\ ResourcesOutliveSearch' /\ TreeIsQuiet' /\ AnsweredOnce'
        BY <1>7, <2>1, <2>2, <3>1
    <3> QED
        BY <3>2, <3>3, <3>4
  <2>3. CASE /\ LoadResources /\ last_position' = <<>>
             /\ ~(ponder /\ kind = "ponder") /\ Accept(kind) /\ NewTree(<<>>)
    <3>1. given' = loaded' /\ loaded' \in Loadable
          /\ backend_name' \in {s.name : s \in Setting} \cup {None}
        BY <2>3, LoadResourcesType
    <3>2. kind # "ponder"
        BY <1>7, <2>3
    <3>3. TypeOK' /\ Arguments'
      <4>1. ResourcesType'
          BY <1>7, <2>1, <2>3, <3>1
      <4>2. FlagsType'
          BY <1>7, <2>1, <2>3, <3>1
      <4>3. SearchType' /\ Arguments'
          BY <1>7, <2>1, <2>3, <3>1
      <4> QED
          BY <4>1, <4>2, <4>3
    <3>4. Given' /\ NothingYet' /\ Decided' /\ Idle' /\ PositionIsFresh' /\ Running'
        BY <1>7, <2>1, <2>3, <3>1
    <3>5. ReadyToStart'
        BY <1>7, <2>1, <2>3, <3>2 DEF Searched
    <3>6. Pondering' /\ ResourcesOutliveSearch' /\ TreeIsQuiet' /\ AnsweredOnce'
        BY <1>7, <2>1, <2>3, <3>1, <3>2
    <3> QED
        BY <3>3, <3>4, <3>5, <3>6
  <2>4. CASE LoadingThrows /\ UNCHANGED last_position /\ Refuse /\ NewTree(None)
    <3>1. given' = given /\ loaded' = loaded
          /\ backend_name' \in {s.name : s \in Setting} \cup {None}
        BY <2>4, LoadingThrowsType
    <3>2. TypeOK' /\ Arguments'
      <4>1. ResourcesType'
          BY <1>7, <2>1, <2>4, <3>1
      <4>2. FlagsType'
          BY <1>7, <2>1, <2>4, <3>1
      <4>3. SearchType' /\ Arguments'
          BY <1>7, <2>1, <2>4, <3>1
      <4> QED
          BY <4>1, <4>2, <4>3
    <3>3. Given' /\ NothingYet' /\ Decided' /\ Idle' /\ PositionIsFresh' /\ ReadyToStart'
          /\ Running'
        BY <1>7, <2>1, <2>4, <3>1
    <3>4. Pondering' /\ ResourcesOutliveSearch' /\ TreeIsQuiet' /\ AnsweredOnce'
        BY <1>7, <2>1, <2>4, <3>1
    <3> QED
        BY <3>2, <3>3, <3>4
  <2> QED
      BY <1>7, <2>2, <2>3, <2>4
<1>8. ASSUME NEW kind \in Kind, Go(kind) PROVE EngineInv'
  <2> USE DEF Go, MayGo, Refuse, Accept, Goto, option, resources, remembered,
          searching, command, outside
  <2>1. /\ last_position \in Position /\ positioned # "refused" /\ pc = "ready"
        /\ threads => phase = "answered"
      BY <1>8
  <2>2. CASE Refuse /\ UNCHANGED tree
      BY <1>8, <2>1, <2>2 DEF tree
  <2>3. CASE /\ kind = "ponder" => last_position # <<>>
             /\ Accept(kind)
             /\ IF ponder_enabled THEN ResetTree(Searched(last_position, kind = "ponder"))
                ELSE UNCHANGED tree
    <3> USE DEF ResetTree, ChangeTree
    <3>1. head' = Searched(last_position, kind = "ponder") /\ head' \in Position
      <4>1. CASE ponder_enabled
          BY <1>8, <2>1, <2>3, <4>1, SearchedType
      <4>2. CASE ~ponder_enabled
        <5>1. kind # "ponder" /\ head' = last_position
            BY <1>8, <2>1, <2>3, <4>2 DEF tree
        <5> QED
            BY <2>1, <5>1 DEF Searched
      <4> QED
          BY <4>1, <4>2
    <3>2. stale' \in BOOLEAN /\ disturbed' \in BOOLEAN /\ (disturbed' => threads)
        BY <2>1, <2>3 DEF tree
    <3>3. TypeOK' /\ Arguments'
      <4>1. ResourcesType'
          BY <1>8, <2>1, <2>3, <3>1, <3>2
      <4>2. FlagsType'
          BY <1>8, <2>1, <2>3, <3>1, <3>2
      <4>3. SearchType' /\ Arguments'
          BY <1>8, <2>1, <2>3, <3>1, <3>2
      <4> QED
          BY <4>1, <4>2, <4>3
    <3>4. Given' /\ NothingYet' /\ Decided' /\ Idle' /\ Running'
        BY <1>8, <2>1, <2>3, <3>2
    <3>5. PositionIsFresh'
        BY <1>8, <2>1, <2>3 DEF tree
    <3>6. ReadyToStart'
        BY <1>8, <2>1, <2>3, <3>1
    <3>7. Pondering' /\ ResourcesOutliveSearch' /\ TreeIsQuiet' /\ AnsweredOnce'
        BY <1>8, <2>1, <2>3, <3>2
    <3> QED
        BY <3>3, <3>4, <3>5, <3>6, <3>7
  <2> QED
      BY <1>8, <2>2, <2>3
<1> QED
    BY <1>1, <1>2, <1>3, <1>4, <1>5, <1>6, <1>7, <1>8 DEF Receive

\* A position or a new game, which come to a search without threads, accepted or not.
LEMMA PositionKeeps ==
  ASSUME EngineInv, SetPosition \/ NewGame
  PROVE  EngineInv'
<1> USE DEF EngineInv, TypeOK, ResourcesType, FlagsType, SearchType, Arguments, Kind,
        Given, NothingYet, Decided, Idle, PositionIsFresh, ReadyToStart, Running, Pondering,
        ResourcesOutliveSearch, TreeIsQuiet, AnsweredOnce, SetPosition,
        NewGame, Stopped, Prepare, ResetTree, ChangeTree, NewTree, Goto, option, searching
<1>1. /\ ~threads /\ ~disturbed /\ pc \in {"position", "newgame"}
      /\ <<>> \in Position /\ <<>> # None /\ last_position' \in Position \cup {None}
    BY EngineAssumption
<1>2. /\ given' = loaded' /\ backend_name' \in {s.name : s \in Setting} \cup {None}
      /\ loaded' \in Loadable \/ (loaded' = loaded /\ last_position' = last_position)
    BY LoadResourcesType, LoadingThrowsType
<1>3. head' \in Position \cup {None} /\ stale' \in BOOLEAN /\ disturbed' = FALSE
    BY <1>1 DEF tree
<1>4. TypeOK' /\ Arguments'
  <2>1. ResourcesType'
      BY <1>2
  <2>2. FlagsType'
      BY <1>1, <1>3
  <2>3. /\ phase' = phase /\ answer' = answer /\ threads' = threads /\ last_go' = last_go
        /\ pc' = "ready" /\ gui' = gui /\ answers' = answers
        /\ positioned' \in {"new", "refused"}
      OBVIOUS
  <2>4. SearchType' /\ Arguments'
      BY <1>1, <1>3, <2>3
  <2> QED
      BY <2>1, <2>2, <2>4
<1>5. Given' /\ NothingYet' /\ Decided' /\ Idle' /\ ReadyToStart' /\ Running'
    BY <1>1, <1>2, <1>3
<1>6. PositionIsFresh'
    BY <1>1
<1>7. Pondering' /\ ResourcesOutliveSearch' /\ TreeIsQuiet' /\ AnsweredOnce'
    BY <1>1, <1>3
<1> QED
    BY <1>4, <1>5, <1>6, <1>7

\* Commands that had to wait for the threads of a search.
LEMMA ContinueKeeps ==
  ASSUME EngineInv, Continue
  PROVE  EngineInv'
<1> USE DEF EngineInv, TypeOK, ResourcesType, FlagsType, SearchType, Arguments, Kind,
        Given, NothingYet, Decided, Idle, PositionIsFresh, ReadyToStart, Running, Pondering,
        ResourcesOutliveSearch, TreeIsQuiet, AnsweredOnce
<1>1. CASE SetPosition \/ NewGame
    BY <1>1, PositionKeeps
<1>2. CASE PonderHit
  <2> USE DEF PonderHit, Stopped, ResetTree, ChangeTree, Goto, option, resources,
          remembered, searching, outside
  <2>1. ~threads /\ last_position \in Position /\ last_go' = "normal" /\ last_go' # None
      BY <1>2, EngineAssumption
  <2>2. head' = Searched(last_position, FALSE) /\ head' = last_position
        /\ disturbed' = FALSE
      BY <1>2, <2>1 DEF Searched
  <2>3. TypeOK' /\ Arguments'
    <3>1. ResourcesType'
        BY <1>2, <2>1, <2>2
    <3>2. FlagsType'
        BY <1>2, <2>1, <2>2
    <3>3. SearchType' /\ Arguments'
        BY <1>2, <2>1, <2>2
    <3> QED
        BY <3>1, <3>2, <3>3
  <2>4. Given' /\ NothingYet' /\ Decided' /\ Idle' /\ PositionIsFresh' /\ Running'
      BY <1>2, <2>1, <2>2
  <2>5. ReadyToStart'
      BY <1>2, <2>1, <2>2
  <2>6. Pondering' /\ ResourcesOutliveSearch' /\ TreeIsQuiet' /\ AnsweredOnce'
      BY <1>2, <2>1, <2>2
  <2> QED
      BY <2>3, <2>4, <2>5, <2>6
<1>3. CASE Destroy
    BY <1>3 DEF Destroy, Stopped, Goto, option, resources, remembered, tree, searching, outside
<1>4. CASE StartSearchRefused
  <2> USE DEF StartSearchRefused, Goto, option, resources,
          remembered, searching
  <2>1. /\ positioned = "old"
        /\ threads => phase = "answered"
        /\ head' = head /\ stale' \in BOOLEAN /\ disturbed' \in BOOLEAN
        /\ disturbed' => threads
      BY <1>4, MaybeTrimTreeType
  <2>2. UNCHANGED <<option, resources, remembered, last_go, clock_started, searching,
                    positioned, answers>> /\ gui' = "idle" /\ pc' = "ready"
      BY <1>4
  <2> HIDE DEF StartSearchRefused, Goto
  <2>3. TypeOK' /\ Arguments'
    <3>1. ResourcesType'
        BY <2>1, <2>2
    <3>2. FlagsType'
        BY <2>1, <2>2
    <3>3. SearchType' /\ Arguments'
        BY <2>1, <2>2
    <3> QED
        BY <3>1, <3>2, <3>3
  <2>4. Given' /\ NothingYet' /\ Decided' /\ Idle' /\ PositionIsFresh' /\ ReadyToStart'
        /\ Running'
      BY <2>1, <2>2
  <2>5. Pondering' /\ ResourcesOutliveSearch' /\ TreeIsQuiet' /\ AnsweredOnce'
      BY <2>1, <2>2
  <2> QED
      BY <2>3, <2>4, <2>5
<1>5. CASE ReplaceSearch
  <2> USE DEF ReplaceSearch, AbortSearch, Promise!Silence, Goto,
          option, resources, remembered, outside
  <2>1. /\ positioned = "old"
        /\ threads => phase = "answered"
        /\ head' = head /\ stale' \in BOOLEAN /\ disturbed' \in BOOLEAN
        /\ disturbed' => threads
      BY <1>5, MaybeTrimTreeType
  <2>2. phase' = phase /\ answer' = answer
      BY <1>5
  <2>3. UNCHANGED <<option, resources, remembered, last_go, clock_started, search, threads,
                    collisions, outside>> /\ pc = "start" /\ pc' = "launch" /\ params' = params
      BY <1>5
  <2> HIDE DEF ReplaceSearch, AbortSearch, Promise!Silence, Goto
  <2>4. TypeOK' /\ Arguments'
    <3>1. ResourcesType'
        BY <2>1, <2>2, <2>3
    <3>2. FlagsType'
        BY <2>1, <2>2, <2>3
    <3>3. SearchType' /\ Arguments'
        BY <2>1, <2>2, <2>3
    <3> QED
        BY <3>1, <3>2, <3>3
  <2>5. Given' /\ NothingYet' /\ Decided' /\ Idle' /\ PositionIsFresh' /\ ReadyToStart'
        /\ Running'
      BY <2>1, <2>2, <2>3
  <2>6. Pondering' /\ ResourcesOutliveSearch' /\ TreeIsQuiet' /\ AnsweredOnce'
      BY <2>1, <2>2, <2>3
  <2> QED
      BY <2>4, <2>5, <2>6
<1>6. CASE StartThreads
  <2> USE DEF StartThreads, Stopped, Goto, option, resources, remembered, outside
  <2>1. /\ ~threads /\ ~disturbed /\ last_position # None /\ head \in Position
        /\ given = loaded /\ loaded \in Loadable /\ params \in Kind /\ positioned = "old"
      BY <1>6
  <2>2. /\ search'.root = head /\ search'.kind = params /\ search'.uses = given
        /\ phase' = "open" /\ answer' = None /\ pc' = "ready"
        /\ collisions' = FALSE /\ stale' = FALSE
      BY <1>6
  <2>3. UNCHANGED <<option, resources, remembered, last_go, clock_started, head, disturbed,
                    outside>>
      BY <1>6
  <2>4. /\ params = last_go /\ head = Searched(last_position, params = "ponder")
        /\ params = "ponder" => last_position # <<>>
        /\ answers = 0
      BY <1>6
  <2> HIDE DEF StartThreads
  <2>5. TypeOK' /\ Arguments'
    <3>1. ResourcesType'
        BY <2>1, <2>2, <2>3
    <3>2. FlagsType'
        BY <2>1, <2>2, <2>3
    <3>3. SearchType' /\ Arguments'
        BY <2>1, <2>2, <2>3
    <3> QED
        BY <3>1, <3>2, <3>3
  <2>6. Given' /\ NothingYet' /\ Decided' /\ Idle' /\ PositionIsFresh' /\ ReadyToStart'
    <3>1. threads'
        BY <1>6 DEF StartThreads
    <3>2. gui' # "idle"
        BY <1>6 DEF StartThreads
    <3> QED
        BY <2>1, <2>2, <2>3, <3>1, <3>2
  <2>7. Running'
      BY <2>1, <2>2, <2>3, <2>4
  <2>8. Pondering' /\ ResourcesOutliveSearch' /\ TreeIsQuiet' /\ AnsweredOnce'
      BY <1>6, <2>1, <2>2, <2>3 DEF StartThreads
  <2> QED
      BY <2>5, <2>6, <2>7, <2>8
<1> QED
    BY <1>1, <1>2, <1>3, <1>4, <1>5, <1>6 DEF Continue

\* An obedient GUI keeps the invariant.
LEMMA EngineStep == Obedient /\ EngineInv /\ [Next]_vars => EngineInv'
<1> SUFFICES ASSUME Obedient, EngineInv, [Next]_vars PROVE EngineInv'
    OBVIOUS
<1>1. CASE SearchStep
    BY <1>1, SearchKeeps
<1>2. CASE Receive
    BY <1>2, ReceiveKeeps
<1>3. CASE Continue
    BY <1>3, ContinueKeeps
<1>4. CASE UNCHANGED vars
    BY <1>4 DEF EngineInv, TypeOK, ResourcesType, FlagsType, SearchType, Arguments,
       Given, NothingYet, Decided, Idle, PositionIsFresh, ReadyToStart, Running, Pondering,
       ResourcesOutliveSearch, TreeIsQuiet, AnsweredOnce, vars,
       option, resources, remembered, tree, searching, command, outside
<1> QED
    BY <1>1, <1>2, <1>3, <1>4 DEF Next

\* The strengthening is an invariant of the engine.
THEOREM EngineInvariant == ASSUME Obedient PROVE Spec => []EngineInv
<1>1. EngineInv /\ [Next]_vars => EngineInv'
    BY EngineStep
<1> QED
    BY <1>1, EngineInit, PTL DEF Spec

-----------------------------------------------------------------------------
(* What follows, for a GUI that keeps to the protocol.                     *)

\* Every variable keeps its type; that a search never starts on a tree that is not
\* there is part of it.
THEOREM TypeCorrect == ASSUME Obedient PROVE Spec => []TypeOK
<1>1. EngineInv => TypeOK
    BY DEF EngineInv
<1> QED
    BY <1>1, EngineInvariant, PTL

\* No thread of a search uses a backend or tablebases which a change of options has
\* replaced, whenever that change takes effect.
THEOREM ResourcesAlive == ASSUME Obedient PROVE Spec => []ResourcesOutliveSearch
<1>1. EngineInv => ResourcesOutliveSearch
    BY DEF EngineInv
<1> QED
    BY <1>1, EngineInvariant, PTL

\* No command changes the tree while a search goes on in it: only a `go` for a position
\* searched before may, under those threads of the last search that outlive its answer.
THEOREM TreeLeftAlone == ASSUME Obedient PROVE Spec => []TreeIsQuiet
<1>1. EngineInv => TreeIsQuiet
    BY DEF EngineInv
<1> QED
    BY <1>1, EngineInvariant, PTL

\* A search that goes on examines the position asked for, or while pondering the one
\* a move behind, although options that decide who passes it on may change between
\* any two commands.
THEOREM RightPosition == ASSUME Obedient PROVE Spec => []SearchesWhatWasAsked
<1>1. EngineInv => SearchesWhatWasAsked
    BY DEF EngineInv, Running, SearchesWhatWasAsked
<1> QED
    BY <1>1, EngineInvariant, PTL

\* What the responder reads without a lock in threads of a search is about that
\* search, and there is a move to ponder on if it ponders.
THEOREM RightReport == ASSUME Obedient PROVE Spec => []ReportsOwnSearch
<1>1. EngineInv => ReportsOwnSearch
    BY DEF EngineInv, Running, NothingYet, ReportsOwnSearch
<1> QED
    BY <1>1, EngineInvariant, PTL

\* One answer to a `go`, also if the search that answers is not the one that `go`
\* started but its replacement on `ponderhit`.
THEOREM OneAnswer == ASSUME Obedient PROVE Spec => []AnsweredOnce
<1>1. EngineInv => AnsweredOnce
    BY DEF EngineInv
<1> QED
    BY <1>1, EngineInvariant, PTL

-----------------------------------------------------------------------------
(* The tree and the clock that a search needs.                             *)

\* Whenever a step leaves threads, collisions, or a search that is to start behind,
\* there is a tree for them.
LEMMA TreeStep ==
  ASSUME EngineInv, EngineInv', TreeOutlivesSearch, [Next]_vars
  PROVE  TreeOutlivesSearch'
<1> USE DEF TreeOutlivesSearch
<1>1. None \notin Position /\ (pc' \in {"start", "launch"} => head' \in Position)
    BY EngineAssumption DEF EngineInv, ReadyToStart
<1>2. CASE UNCHANGED <<head, threads, collisions>>
    BY <1>1, <1>2
<1>3. CASE ThreadsExit
    BY <1>1, <1>3 DEF ThreadsExit
<1>4. CASE (SetPosition \/ PonderHit \/ \E kind \in Kind : Go(kind))
           /\ head' # head
  <2>1. head' # None
    <3>1. CASE SetPosition
        BY <1>1, <1>4, <3>1 DEF SetPosition, ResetTree, tree, EngineInv, Arguments
    <3>2. CASE ~SetPosition
        BY <1>1, <1>4, <3>2 DEF PonderHit, Go, Refuse, Accept, Goto, tree, command
    <3> QED
        BY <3>1, <3>2
  <2> QED
      BY <2>1
<1>5. CASE (NewGame \/ \E kind \in Kind : FirstGo(kind))
  <2>1. ~threads' /\ ~collisions'
      BY <1>5 DEF NewGame, FirstGo, NewTree, Stopped, EngineInv, NothingYet
  <2> QED
      BY <1>1, <2>1
<1>6. CASE StartThreads
    BY <1>1, <1>6 DEF StartThreads, EngineInv, ReadyToStart
<1> QED
  <2>1. [Next]_vars => \/ UNCHANGED <<head, threads, collisions>>
                       \/ ThreadsExit \/ SetPosition \/ PonderHit \/ NewGame
                       \/ \E kind \in Kind : Go(kind) \/ FirstGo(kind)
                       \/ StartThreads
      BY DEF Next, SearchStep, Receive, Continue, ReachLimit, Respond, SetOption,
         ReceiveNewGame, Stop, ReceivePonderHit, Quit, ReceivePosition,
         EnsureSearchStopped, Destroy, StartSearchRefused, ReplaceSearch,
         MaybeTrimTree, vars, tree, searching
  <2>2. SetPosition \/ PonderHit \/ (\E kind \in Kind : Go(kind)) =>
          UNCHANGED <<threads, collisions>>
      BY DEF SetPosition, PonderHit, Go, searching
  <2> QED
      BY <1>2, <1>3, <1>4, <1>5, <1>6, <2>1, <2>2

\* No search is started without a tree, and none loses its tree while threads of it or
\* its destructor have to go there, whatever failed before.
THEOREM TreeForEverySearch == ASSUME Obedient PROVE Spec => []TreeOutlivesSearch
<1>1. Init => TreeOutlivesSearch
    BY DEF Init, TreeOutlivesSearch
<1>2. EngineInv /\ EngineInv' /\ TreeOutlivesSearch /\ [Next]_vars => TreeOutlivesSearch'
    BY TreeStep
<1> QED
    BY <1>1, <1>2, EngineInvariant, PTL DEF Spec

\* With a position at hand, a clock that was not started is started by `go`.
ClockComes == ~clock_started => strict_enabled \/ last_position = None

\* What has started the clock, or will.
LEMMA ClockStep ==
  ASSUME EngineInv, ClockComes, ClockRuns, [Next]_vars
  PROVE  ClockComes' /\ ClockRuns'
<1> USE DEF ClockComes, ClockRuns
<1>1. CASE /\ UNCHANGED <<clock_started, strict_enabled, last_position>>
           /\ pc' = "start" => pc = "start"
    BY <1>1
<1>2. CASE SetPosition \/ NewGame
  <2>1. pc' = "ready" /\ Prepare(clock_started)
      BY <1>2 DEF SetPosition, NewGame, Goto
  <2>2. clock_started' \/ strict_enabled'
      BY <2>1, Zenon DEF Prepare
  <2> QED
      BY <2>1, <2>2
<1>3. CASE PonderHit
    BY <1>3 DEF PonderHit
<1>4. ASSUME NEW kind \in Kind, FirstGo(kind) PROVE ClockComes' /\ ClockRuns'
    BY <1>4 DEF FirstGo, MayGo, Prepare, Refuse, Accept, Goto, command
<1>5. ASSUME NEW kind \in Kind, Go(kind) PROVE ClockComes' /\ ClockRuns'
    BY <1>5 DEF Go, MayGo, remembered
<1> QED
  <2>1. [Next]_vars => \/ /\ UNCHANGED <<clock_started, strict_enabled, last_position>>
                          /\ pc' = "start" => pc = "start"
                       \/ SetPosition \/ NewGame \/ PonderHit
                       \/ \E kind \in Kind : Go(kind) \/ FirstGo(kind)
      BY DEF Next, SearchStep, Receive, Continue, ReachLimit, Respond, ThreadsExit,
         SetOption, ReceiveNewGame, Stop, ReceivePonderHit, Quit, ReceivePosition,
         EnsureSearchStopped, Destroy, StartSearchRefused, ReplaceSearch, StartThreads,
         Goto, vars, remembered, command
  <2> QED
      BY <1>1, <1>2, <1>3, <1>4, <1>5, <2>1

\* The clock of a search runs when it starts, although the option that says which
\* command starts it may change between those commands; but for the first `go` of all.
THEOREM ClockStarted == ASSUME Obedient PROVE Spec => []ClockRuns
<1>1. Init => ClockComes /\ ClockRuns
    BY DEF Init, ClockComes, ClockRuns
<1>2. EngineInv /\ ClockComes /\ ClockRuns /\ [Next]_vars => ClockComes' /\ ClockRuns'
    BY ClockStep
<1> QED
    BY <1>1, <1>2, EngineInvariant, PTL DEF Spec
==============================================================================
