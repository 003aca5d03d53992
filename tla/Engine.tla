-------------------------------- MODULE Engine --------------------------------
(***************************************************************************)
(* The engine behind the UCI loop (src/src/engine.cc, chess/uciloop.cc)    *)
(* with the classic search it drives (search/classic/wrapper.cc): commands *)
(* come one after the other from a GUI, threads of a search run meanwhile. *)
(* A search is what SearchPromise says of it, and its threads go on for a  *)
(* while after that is decided.                                            *)
(*                                                                         *)
(* A command is one step, or several if it waits for the threads of a      *)
(* search in between. Positions are sequences of moves from one start.     *)
(***************************************************************************)
EXTENDS Naturals, Sequences, SequencesExt

CONSTANTS
  Position,   \* sequences of moves, closed under Front
  Setting,    \* options of the backend and the tablebases: records of the
              \* name and the config of the one, and the paths of the other
  None,       \* no position, backend, tablebases, or answer
  Obedient    \* whether the GUI keeps to the UCI protocol

ASSUME EngineAssumption ==
  /\ <<>> \in Position
  /\ \A p \in Position : p # <<>> => Front(p) \in Position
  /\ None \notin Position \cup {"normal", "infinite", "ponder"}
  /\ \A s \in Setting : None # s.name /\ None # [name |-> s.name, config |-> s.config]
  /\ Obedient \in BOOLEAN

VARIABLES
  setting, ponder, strict_timing,  \* options_: of the resources, Ponder, StrictTiming
  backend_name,    \* backend_name_
  loaded,          \* backend_ and syzygy_tb_, by what they were loaded with
  given,           \* those given to the search: SetBackend() etc.
  ponder_enabled,  \* ponder_enabled_
  strict_enabled,  \* strict_uci_timing_
  last_position,   \* last_position_
  last_go,         \* last_go_params_: "normal", "infinite", "ponder" or None
  clock_started,   \* whether move_start_time_ has a value
  head,            \* head of the search tree, or None without a tree
  phase, answer,   \* of the current search, see SearchPromise
  search,          \* the root, kind and resources its threads know while they run
  threads,         \* whether threads of the search run
  collisions,      \* whether they have left nodes in shared_collisions_
  stale,           \* whether nodes of the tree went away since the search was built
  pc,              \* what the command in progress waits to do, or "ready"
  argument,        \* the position that command brought, or None
  params,          \* the kind of search it starts, or None
  gui,             \* what the GUI waits for
  positioned,      \* its last position: "new" (accepted), "refused", or "old" (searched)
  answers,         \* history: answers given to the last `go`
  disturbed        \* history: the tree was changed under the threads that run

option == <<setting, ponder, strict_timing>>
resources == <<backend_name, loaded, given>>
remembered == <<ponder_enabled, strict_enabled, last_position>>
tree == <<head, stale, disturbed>>
searching == <<phase, answer, search, threads, collisions>>
command == <<pc, argument, params>>
outside == <<gui, positioned, answers>>
vars == <<option, resources, remembered, last_go, clock_started, tree, searching,
          command, outside>>

Kind == {"normal", "infinite", "ponder"}

Promise == INSTANCE SearchPromise WITH Move <- Position, NoMove <- None

-----------------------------------------------------------------------------
(* The search.                                                             *)

NoSearch == [root |-> None, kind |-> None, uses |-> None]

\* Limits end a search that was not told to wait for the GUI.
ReachLimit ==
  /\ threads /\ search.kind = "normal"
  /\ Promise!Commit
  /\ UNCHANGED <<option, resources, remembered, last_go, clock_started, tree, search,
                 threads, collisions, command, outside>>

\* bestmove, for which the GUI waits.
Respond ==
  /\ threads /\ phase = "committed"
  /\ Promise!Answer /\ answer' = search.root
  /\ answers' = answers + 1
  /\ gui' = IF gui = "gone" THEN gui ELSE "idle"
  /\ UNCHANGED <<option, resources, remembered, last_go, clock_started, tree, search,
                 threads, collisions, command, positioned>>

\* The last thread leaves; until then they use the tree and the resources. A worker
\* without work of its own leaves its collisions to the destructor.
ThreadsExit ==
  /\ threads /\ phase \in {"answered", "silenced"}
  /\ threads' = FALSE /\ search' = NoSearch /\ disturbed' = FALSE
  /\ collisions' \in BOOLEAN
  /\ UNCHANGED <<option, resources, remembered, last_go, clock_started, head, stale,
                 phase, answer, command, outside>>

AbortSearch == IF phase = "open" THEN Promise!Silence ELSE UNCHANGED <<phase, answer>>

StopSearch == IF phase = "open" THEN Promise!Commit ELSE UNCHANGED <<phase, answer>>

\* Mutant of Stopped: it is enough that the search was aborted or has answered.
StoppedEarly == phase \notin {"open", "committed"}

\* WaitSearch() returns.
Stopped == ~threads

\* Nodes go away, and the history of threads that run.
ChangeTree(nodes_go) ==
  /\ stale' = (stale \/ (nodes_go /\ (threads \/ collisions)))
  /\ disturbed' = (disturbed \/ threads)

\* SetPosition() of the search: ResetToPosition() of its tree.
ResetTree(p) == head' = p /\ ChangeTree(p # head)

\* Button ClearTree: TrimTreeAtHead(), if it was pushed.
MaybeTrimTree ==
  /\ UNCHANGED head
  /\ ChangeTree(TRUE) \/ UNCHANGED <<stale, disturbed>>

\* NewGame() of the search: it is destroyed, then its tree; a new one leads to p.
NewTree(p) ==
  /\ head' = p
  /\ collisions' = FALSE /\ stale' = FALSE
  /\ disturbed' = (disturbed \/ threads)
  /\ UNCHANGED <<phase, answer, search, threads>>

-----------------------------------------------------------------------------
(* Parts of the commands.                                                  *)

Goto(label, p, kind) == pc' = label /\ argument' = p /\ params' = kind

BackendOf(s) == [name |-> s.name, config |-> s.config]

\* The name is compared with the one remembered, the rest by the backend itself.
KeepsBackend ==
  /\ loaded.backend # None
  /\ setting.name = backend_name
  /\ setting.config = loaded.backend.config

\* Mutant of LoadResources: the search keeps what it was given.
LoadResourcesSilently ==
  /\ backend_name' = setting.name
  /\ loaded' = [backend |-> IF KeepsBackend THEN loaded.backend ELSE BackendOf(setting),
                tablebases |-> setting.paths]
  /\ given' = [given EXCEPT !.backend = IF @ = None THEN BackendOf(setting) ELSE @]

\* UpdateBackendConfig() and EnsureSyzygyTablebasesLoaded() load what changed.
LoadResources ==
  /\ backend_name' = setting.name
  /\ loaded' = [backend |-> IF KeepsBackend THEN loaded.backend ELSE BackendOf(setting),
                tablebases |-> setting.paths]
  /\ given' = [backend |-> IF KeepsBackend THEN given.backend ELSE BackendOf(setting),
               tablebases |-> IF loaded.tablebases = setting.paths THEN given.tablebases
                              ELSE setting.paths]

\* The backend cannot be created: that throws after its name was noted.
LoadingThrows ==
  /\ ~KeepsBackend
  /\ backend_name' = setting.name
  /\ UNCHANGED <<loaded, given>>

\* The position a search examines: it ponders one move behind.
Searched(p, for_ponder) == IF for_ponder THEN Front(p) ELSE p

\* SetPosition() up to where resources are loaded; started says whether the clock was
\* started before.
Prepare(started) ==
  /\ ponder_enabled' = ponder
  /\ strict_enabled' = strict_timing
  /\ clock_started' = (started \/ ~strict_timing)

-----------------------------------------------------------------------------
(* Commands. The GUI may take it that no answer comes to a search which it *)
(* replaces, unless it told it to stop before.                             *)

SetOption ==
  /\ pc = "ready"
  /\ \/ setting' \in Setting /\ UNCHANGED <<ponder, strict_timing>>
     \/ ponder' = ~ponder /\ UNCHANGED <<setting, strict_timing>>
     \/ strict_timing' = ~strict_timing /\ UNCHANGED <<setting, ponder>>
  /\ UNCHANGED <<resources, remembered, last_go, clock_started, tree, searching,
                 command, outside>>

\* The GUI's view of a search that it replaces.
Replaced == IF gui = "stopping" THEN gui ELSE "idle"

\* Mutant of EnsureSearchStopped: the search is only waited for.
EnsureSearchEnded(label, p) ==
  /\ pc = "ready"
  /\ Goto(label, p, None)
  /\ UNCHANGED <<option, resources, remembered, last_go, clock_started, tree, searching>>

\* Commands that need the search stopped abort it, and wait at label.
EnsureSearchStopped(label, p) ==
  /\ pc = "ready"
  /\ AbortSearch
  /\ Goto(label, p, None)
  /\ UNCHANGED <<option, resources, remembered, last_go, clock_started, tree, search,
                 threads, collisions>>

\* A position that does not parse is None.
ReceivePosition(p) ==
  /\ EnsureSearchStopped("position", p)
  /\ gui' = Replaced
  /\ UNCHANGED <<positioned, answers>>

\* Whatever throws, the backend or a position that does not parse, leaves the old
\* position in place, but the options of the new command.
SetPosition ==
  /\ pc = "position" /\ Stopped
  /\ Prepare(clock_started)
  /\ \/ /\ LoadResources /\ argument # None
        /\ last_position' = argument
        /\ IF ponder THEN UNCHANGED tree ELSE ResetTree(argument)
        /\ positioned' = "new"
     \/ /\ LoadingThrows \/ (LoadResources /\ argument = None)
        /\ UNCHANGED <<last_position, tree>>
        /\ positioned' = "refused"
  /\ Goto("ready", None, None)
  /\ UNCHANGED <<option, last_go, searching, gui, answers>>

ReceiveNewGame ==
  /\ EnsureSearchStopped("newgame", None)
  /\ gui' = Replaced
  /\ UNCHANGED <<positioned, answers>>

\* The search and its tree are deleted, then the start position is set.
NewGame ==
  /\ pc = "newgame" /\ Stopped
  /\ Prepare(clock_started)
  /\ \/ /\ LoadResources
        /\ last_position' = <<>>
        /\ NewTree(IF ponder THEN None ELSE <<>>)
        /\ positioned' = "new"
     \/ /\ LoadingThrows
        /\ UNCHANGED last_position
        /\ NewTree(None)
        /\ positioned' = "refused"
  /\ Goto("ready", None, None)
  /\ UNCHANGED <<option, last_go, gui, answers>>

\* Go() got as far as starting the search.
Accept(kind) ==
  /\ last_go' = kind
  /\ Goto("start", None, kind)
  /\ gui' = IF kind = "ponder" THEN "pondering" ELSE "waiting"
  /\ positioned' = "old" /\ answers' = 0

\* An exception ended a command.
Refuse == UNCHANGED <<last_go, command, outside>>

\* An obedient GUI sends `go` for a position that was accepted, as often as it likes.
MayGo(kind) ==
  /\ pc = "ready"
  /\ Obedient => /\ gui = "idle"
                 /\ positioned # "refused" \/ last_position = None
                 /\ kind = "ponder" => ponder

\* Go() without any position begins a new game, which has no move to ponder behind.
FirstGo(kind) ==
  /\ MayGo(kind) /\ last_position = None
  /\ kind = "ponder" => ponder_enabled
  /\ Prepare(clock_started \/ strict_enabled)
  /\ \/ /\ LoadResources
        /\ last_position' = <<>>
        /\ IF ponder /\ kind = "ponder" THEN Refuse /\ NewTree(None)
           ELSE Accept(kind) /\ NewTree(<<>>)
     \/ /\ LoadingThrows
        /\ UNCHANGED last_position
        /\ Refuse /\ NewTree(None)
  /\ UNCHANGED option

\* Mutant of Go: the search is not told the position that pondering left out.
GoWithoutPosition(kind) ==
  /\ MayGo(kind) /\ last_position # None
  /\ kind = "ponder" => ponder_enabled
  /\ clock_started' = (clock_started \/ strict_enabled)
  /\ IF kind = "ponder" /\ last_position = <<>> THEN Refuse /\ UNCHANGED tree
     ELSE /\ Accept(kind)
          /\ IF kind = "ponder" THEN ResetTree(Searched(last_position, TRUE))
             ELSE UNCHANGED tree
  /\ UNCHANGED <<option, resources, remembered, searching>>

\* Go(): with pondering the position is passed to the search only now.
Go(kind) ==
  /\ MayGo(kind) /\ last_position # None
  /\ kind = "ponder" => ponder_enabled
  /\ clock_started' = (clock_started \/ strict_enabled)
  /\ IF kind = "ponder" /\ last_position = <<>> THEN Refuse /\ UNCHANGED tree
     ELSE /\ Accept(kind)
          /\ IF ponder_enabled THEN ResetTree(Searched(last_position, kind = "ponder"))
             ELSE UNCHANGED tree
  /\ UNCHANGED <<option, resources, remembered, searching>>

\* StartSearch() without a legal move among `searchmoves`.
StartSearchRefused ==
  /\ pc = "start"
  /\ MaybeTrimTree
  /\ gui' = "idle"
  /\ Goto("ready", None, None)
  /\ UNCHANGED <<option, resources, remembered, last_go, clock_started, searching,
                 positioned, answers>>

\* StartSearch() builds a new search while the last one is still there: only the
\* assignment of the new one destroys it, which aborts it, waits for its threads ...
ReplaceSearch ==
  /\ pc = "start"
  /\ MaybeTrimTree
  /\ AbortSearch
  /\ Goto("launch", None, params)
  /\ UNCHANGED <<option, resources, remembered, last_go, clock_started, search,
                 threads, collisions, outside>>

\* ... and cancels its collisions, in the tree as it is by now.
StartThreads ==
  /\ pc = "launch" /\ Stopped
  /\ search' = [root |-> head, kind |-> params, uses |-> given]
  /\ phase' = "open" /\ answer' = None /\ threads' = TRUE
  /\ collisions' = FALSE /\ stale' = FALSE
  /\ Goto("ready", None, None)
  /\ UNCHANGED <<option, resources, remembered, last_go, clock_started, head, disturbed,
                 outside>>

Stop ==
  /\ pc = "ready"
  /\ StopSearch
  /\ gui' = IF gui \in {"waiting", "pondering"} THEN "stopping" ELSE gui
  /\ UNCHANGED <<option, resources, remembered, last_go, clock_started, tree, search,
                 threads, collisions, command, positioned, answers>>

\* Mutant of ReceivePonderHit: the search is told to stop, and answers.
ReceivePonderHitStopping ==
  /\ pc = "ready" /\ last_go = "ponder"
  /\ Obedient => gui = "pondering"
  /\ StopSearch
  /\ Goto("ponderhit", None, None)
  /\ gui' = "waiting"
  /\ UNCHANGED <<option, resources, remembered, last_go, clock_started, tree, search,
                 threads, collisions, positioned, answers>>

\* PonderHit(): the search for the ponder move is given up for a normal one.
ReceivePonderHit ==
  /\ last_go = "ponder"
  /\ Obedient => gui = "pondering"
  /\ EnsureSearchStopped("ponderhit", None)
  /\ gui' = "waiting"
  /\ UNCHANGED <<positioned, answers>>

PonderHit ==
  /\ pc = "ponderhit" /\ Stopped
  /\ clock_started' = TRUE
  /\ last_go' = "normal"
  /\ ResetTree(Searched(last_position, FALSE))
  /\ Goto("start", None, "normal")
  /\ UNCHANGED <<option, resources, remembered, searching, outside>>

\* quit: the responder is unregistered, then the engine is destroyed.
Quit ==
  /\ EnsureSearchStopped("quit", None)
  /\ gui' = "gone"
  /\ UNCHANGED <<positioned, answers>>

Destroy ==
  /\ pc = "quit" /\ Stopped
  /\ Goto("gone", None, None)
  /\ UNCHANGED <<option, resources, remembered, last_go, clock_started, tree, searching,
                 outside>>

-----------------------------------------------------------------------------
\* With option Preload the resources are loaded at once.
Init ==
  /\ setting \in Setting /\ ponder \in BOOLEAN /\ strict_timing \in BOOLEAN
  /\ \/ backend_name = None /\ loaded = [backend |-> None, tablebases |-> None]
     \/ /\ backend_name = setting.name
        /\ loaded = [backend |-> BackendOf(setting), tablebases |-> setting.paths]
  /\ given = loaded
  /\ ponder_enabled = FALSE /\ strict_enabled = FALSE
  /\ last_position = None /\ last_go = None /\ head = None
  /\ clock_started = FALSE
  /\ phase = "silenced" /\ answer = None /\ threads = FALSE
  /\ search = NoSearch
  /\ collisions = FALSE /\ stale = FALSE /\ disturbed = FALSE
  /\ pc = "ready" /\ argument = None /\ params = None
  /\ gui = "idle" /\ positioned = "old" /\ answers = 0

SearchStep == ReachLimit \/ Respond \/ ThreadsExit

Receive ==
  \/ SetOption \/ ReceiveNewGame \/ Stop \/ ReceivePonderHit \/ Quit
  \/ \E p \in Position \cup {None} : ReceivePosition(p)
  \/ \E kind \in Kind : FirstGo(kind) \/ Go(kind)

Continue ==
  \/ SetPosition \/ NewGame \/ PonderHit \/ Destroy
  \/ StartSearchRefused \/ ReplaceSearch \/ StartThreads

Next == SearchStep \/ Receive \/ Continue

\* What SearchControl shows of a search: it answers when it must, and its threads
\* leave once it was decided. The main thread runs; no limit need be reached.
Fairness ==
  /\ WF_vars(Respond) /\ WF_vars(ThreadsExit)
  /\ WF_vars(Continue)

Spec == Init /\ [][Next]_vars /\ Fairness

-----------------------------------------------------------------------------
(* Invariants.                                                             *)

Loadable == [backend : {BackendOf(s) : s \in Setting},
             tablebases : {s.paths : s \in Setting}]

ResourcesType ==
  /\ setting \in Setting
  /\ backend_name \in {s.name : s \in Setting} \cup {None}
  /\ loaded \in Loadable \cup {[backend |-> None, tablebases |-> None]}
  /\ given \in Loadable \cup {[backend |-> None, tablebases |-> None]}

FlagsType ==
  /\ ponder \in BOOLEAN /\ strict_timing \in BOOLEAN
  /\ ponder_enabled \in BOOLEAN /\ strict_enabled \in BOOLEAN
  /\ clock_started \in BOOLEAN
  /\ stale \in BOOLEAN /\ disturbed \in BOOLEAN /\ collisions \in BOOLEAN

SearchType ==
  /\ last_position \in Position \cup {None} /\ head \in Position \cup {None}
  /\ last_go \in Kind \cup {None}
  /\ phase \in {"open", "committed", "answered", "silenced"}
  /\ answer \in Position \cup {None}
  /\ threads => /\ search.root \in Position /\ search.kind \in Kind
                /\ search.uses \in Loadable
  /\ pc \in {"ready", "position", "newgame", "start", "launch", "ponderhit", "quit", "gone"}
  /\ gui \in {"idle", "waiting", "pondering", "stopping", "gone"}
  /\ positioned \in {"new", "old", "refused"} /\ answers \in Nat

TypeOK == ResourcesType /\ FlagsType /\ SearchType

\* A search that goes on examines what the GUI asked for, or the position before it
\* while pondering, whenever options changed and whatever was refused in between.
SearchesWhatWasAsked ==
  threads /\ phase \in {"open", "committed"} /\ pc = "ready" =>
    search.root = Searched(last_position, search.kind = "ponder")

\* search.h:52: backend and tablebases only change while the search is stopped:
\* its threads never use what was replaced and destroyed.
ResourcesOutliveSearch == threads => search.uses = loaded

\* game.cc:298: the tree is left alone while threads of a search run, even threads of
\* a search that has answered. Only `go` for a position that was searched already
\* does not wait for them; see TreeLeftToThreads.
TreeIsQuiet == disturbed => phase = "answered" /\ positioned = "old"

\* engine.cc:94: threads that report read last_go_params_ and last_position_ without
\* a lock: those are of their own search, and a move to ponder on exists.
ReportsOwnSearch ==
  threads /\ phase \in {"open", "committed"} =>
    /\ last_go = search.kind
    /\ search.kind = "ponder" => last_position # <<>>

\* The GUI gets one answer to a `go` at most, ponderhit or not.
AnsweredOnce == answers <= 1

\* wrapper.cc:92-96: a search has nodes in its tree as long as it lives, and is gone
\* before the tree is; none is started without a tree, whatever failed before.
TreeOutlivesSearch == threads \/ collisions \/ pc \in {"start", "launch"} => head # None

\* search.h:66, the clock is started "before SetPosition()" or "before StartSearch()",
\* by an option that may change in between: it runs when a search starts. Not so in the
\* first `go` if no position came before it, and StrictTiming is on.
ClockRuns == pc = "start" /\ ~clock_started => last_position = <<>> /\ strict_enabled

-----------------------------------------------------------------------------
(* Liveness.                                                               *)

\* No command waits for ever for the threads of a search.
CommandsReturn == pc # "ready" ~> pc \in {"ready", "gone"}

-----------------------------------------------------------------------------
(* Statements of comments that the code does not keep.                     *)

\* game.cc:298, "Must reset the search before mutating the tree.": no command changes
\* the tree while threads of a search are in it.
TreeLeftToThreads == ~disturbed

\* game.cc:298 again: a search that is destroyed finds the nodes of its shared
\* collisions where they were.
CollisionsInTheirTree == pc = "launch" /\ ~threads /\ collisions => ~stale

\* engine.h:75, "UCI parameters cache to be consistent between `position` and `go`.":
\* a tree that `go` will not set up anew is that of the position it is for.
PositionAndGoConsistent ==
  pc = "ready" /\ last_position # None /\ head # None /\ ~ponder_enabled =>
    head = last_position

\* engine.h:68, "Remember the backend name to track changes.": a position is accepted
\* with the backend that the options name.
BackendTracked ==
  [][positioned' = "new" /\ pc \in {"position", "newgame"} =>
       loaded'.backend.name = setting.name]_vars
==============================================================================
