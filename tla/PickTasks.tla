------------------------------ MODULE PickTasks ------------------------------
(***************************************************************************)
(* How one SearchWorker shares the gathering of a minibatch with its task  *)
(* workers (src/src/search/classic/search.cc: RunTasks, ResetTasks,        *)
(* WaitForTasks, PickNodesToExtend, GatherMinibatch). All of it is done    *)
(* with four atomic counters, a spin lock and a condition variable; each   *)
(* load and store is a step of its own wherever another thread could act   *)
(* between two of them.                                                    *)
(***************************************************************************)
EXTENDS Integers, Sequences, FiniteSets

CONSTANTS
  TaskWorker,  \* task_threads_ of this SearchWorker
  RunsOnCpu,   \* backend_attributes_.runs_on_cpu
  MAX_TASKS,   \* capacity reserved for picking_tasks_
  MaxSections  \* bound of the model: number of calls of ResetTasks()

ASSUME PickTasksAssumption ==
  /\ IsFiniteSet(TaskWorker) /\ TaskWorker # {}
  /\ RunsOnCpu \in BOOLEAN
  /\ MAX_TASKS \in Nat \ {0} /\ MaxSections \in Nat

VARIABLES
  task_count,          \* -1 while there is nothing to share
  tasks_taken,
  completed_tasks,
  task_taking_started, \* spin lock around the taking of a task
  picking_tasks,       \* the vector: kind of each task, how often it was run, complete
  mutex,               \* holder of picking_tasks_mutex_, or "free"
  waiting,             \* task workers asleep on task_added_
  exiting,
  main,                \* where the search worker's own thread is
  section,             \* what it shares: "pick" (under nodes_mutex_) or "process"
  completed,           \* its local variable of WaitForTasks()
  to_add,              \* processing tasks it still has to add
  pc, nta, id,         \* where each task worker is, and its local variables
  sections             \* calls of ResetTasks() so far

counters == <<task_count, tasks_taken, completed_tasks>>
mainVars == <<main, section, completed, to_add, sections>>
workerVars == <<pc, nta, id>>
vars == <<counters, task_taking_started, picking_tasks, mutex, waiting, exiting,
          mainVars, workerVars>>

NewTask(kind) == [kind |-> kind, runs |-> 0, complete |-> FALSE]

\* emplace_back and fetch_add: a task exists for others once it is counted.
AddTask(kind) ==
  /\ picking_tasks' = Append(picking_tasks, NewTask(kind))
  /\ task_count' = task_count + 1

\* PickNodesToExtendTask() splits off a subtree, in whichever thread it runs.
SplitOff ==
  /\ mutex = "free"
  /\ Len(picking_tasks) < MAX_TASKS
  /\ AddTask("pick")
  /\ waiting' = {}

-----------------------------------------------------------------------------
(* The search worker's thread: GatherMinibatch().                          *)

Enter(label) == main' = label

\* ResetTasks(), store by store, the count first.
ResetCount ==
  /\ main = "gather"
  /\ sections' = sections + 1
  /\ task_count' = 0
  /\ Enter("reset taken")
  /\ UNCHANGED <<tasks_taken, completed_tasks, task_taking_started, picking_tasks,
                 mutex, waiting, exiting, section, completed, to_add, workerVars>>

ResetTaken ==
  /\ main = "reset taken"
  /\ tasks_taken' = 0
  /\ Enter("reset completed")
  /\ UNCHANGED <<task_count, completed_tasks, task_taking_started, picking_tasks,
                 mutex, waiting, exiting, section, completed, to_add, sections,
                 workerVars>>

ResetCompleted ==
  /\ main = "reset completed"
  /\ completed_tasks' = 0
  /\ picking_tasks' = <<>>
  /\ Enter(IF section = "pick" THEN "wake" ELSE "share")
  /\ UNCHANGED <<task_count, tasks_taken, task_taking_started, mutex, waiting,
                 exiting, section, completed, to_add, sections, workerVars>>

\* Mutant of WakeTaskWorkers: the test of the backend is the wrong way round.
WakeTaskWorkersOnCpuOnly ==
  /\ main = "wake"
  /\ ~RunsOnCpu \/ mutex = "free"
  /\ waiting' = IF RunsOnCpu THEN {} ELSE waiting
  /\ Enter("share")
  /\ UNCHANGED <<counters, task_taking_started, picking_tasks, mutex, exiting,
                 section, completed, to_add, sections, workerVars>>

\* PickNodesToExtend() wakes the task workers first, except for CPU backends.
WakeTaskWorkers ==
  /\ main = "wake"
  /\ RunsOnCpu \/ mutex = "free"
  /\ waiting' = IF RunsOnCpu THEN waiting ELSE {}
  /\ Enter("share")
  /\ UNCHANGED <<counters, task_taking_started, picking_tasks, mutex, exiting,
                 section, completed, to_add, sections, workerVars>>

\* Its own traversal of the tree splits off tasks ...
SharePicking ==
  /\ main = "share" /\ section = "pick"
  /\ SplitOff
  /\ UNCHANGED <<tasks_taken, completed_tasks, task_taking_started, mutex, exiting,
                 mainVars, workerVars>>

\* ... and what was picked is divided among the task workers, without a lock.
ShareProcessing ==
  /\ main = "share" /\ section = "process" /\ to_add > 0
  /\ AddTask("process")
  /\ to_add' = to_add - 1
  /\ UNCHANGED <<tasks_taken, completed_tasks, task_taking_started, mutex, waiting,
                 exiting, main, section, completed, sections, workerVars>>

\* Its own part of the work is done.
OwnWorkDone ==
  /\ main = "share" /\ to_add = 0
  /\ Enter("load completed")
  /\ UNCHANGED <<counters, task_taking_started, picking_tasks, mutex, waiting,
                 exiting, section, completed, to_add, sections, workerVars>>

\* WaitForTasks(): completed_tasks_ is read before task_count_.
LoadCompleted ==
  /\ main = "load completed"
  /\ completed' = completed_tasks
  /\ Enter("load count")
  /\ UNCHANGED <<counters, task_taking_started, picking_tasks, mutex, waiting,
                 exiting, section, to_add, sections, workerVars>>

\* Mutant of LoadCount: it waits until all tasks are taken, not complete.
LoadCountTaken ==
  /\ main = "load count"
  /\ Enter(IF task_count = tasks_taken THEN "collect" ELSE "load completed")
  /\ UNCHANGED <<counters, task_taking_started, picking_tasks, mutex, waiting,
                 exiting, section, completed, to_add, sections, workerVars>>

LoadCount ==
  /\ main = "load count"
  /\ Enter(IF task_count = completed THEN "collect" ELSE "load completed")
  /\ UNCHANGED <<counters, task_taking_started, picking_tasks, mutex, waiting,
                 exiting, section, completed, to_add, sections, workerVars>>

\* The results are in. A big harvest is processed in up to task_workers_ tasks,
\* beside the thread's own share; otherwise gather again, or leave the loop.
ProcessInTasks ==
  /\ main = "collect" /\ section = "pick" /\ sections < MaxSections
  /\ section' = "process"
  /\ to_add' \in 1..Cardinality(TaskWorker)
  /\ Enter("gather")
  /\ UNCHANGED <<counters, task_taking_started, picking_tasks, mutex, waiting,
                 exiting, completed, sections, workerVars>>

GatherAgain ==
  /\ main = "collect" /\ sections < MaxSections
  /\ section' = "pick"
  /\ Enter("gather")
  /\ UNCHANGED <<counters, task_taking_started, picking_tasks, mutex, waiting,
                 exiting, completed, to_add, sections, workerVars>>

\* The minibatch is complete: nothing to share until the next iteration.
FinishMinibatch ==
  /\ main = "collect"
  /\ task_count' = -1
  /\ section' = "pick"
  /\ Enter("idle")
  /\ UNCHANGED <<tasks_taken, completed_tasks, task_taking_started, picking_tasks,
                 mutex, waiting, exiting, completed, to_add, sections, workerVars>>

\* The network is asked, results are backed up, and the next iteration begins.
NextIteration ==
  /\ main = "idle" /\ sections < MaxSections
  /\ Enter("gather")
  /\ UNCHANGED <<counters, task_taking_started, picking_tasks, mutex, waiting,
                 exiting, section, completed, to_add, sections, workerVars>>

\* ~SearchWorker() stores the count, then takes the mutex, ...
Destroy ==
  /\ main = "idle"
  /\ task_count' = -1
  /\ Enter("destroy")
  /\ UNCHANGED <<tasks_taken, completed_tasks, task_taking_started, picking_tasks,
                 mutex, waiting, exiting, section, completed, to_add, sections,
                 workerVars>>

AnnounceExit ==
  /\ main = "destroy" /\ mutex = "free"
  /\ exiting' = TRUE
  /\ waiting' = {}
  /\ Enter("join")
  /\ UNCHANGED <<counters, task_taking_started, picking_tasks, mutex, section,
                 completed, to_add, sections, workerVars>>

\* ... and joins the task workers.
JoinTaskWorkers ==
  /\ main = "join"
  /\ \A h \in TaskWorker : pc[h] = "exited"
  /\ Enter("gone")
  /\ UNCHANGED <<counters, task_taking_started, picking_tasks, mutex, waiting,
                 exiting, section, completed, to_add, sections, workerVars>>

-----------------------------------------------------------------------------
(* The task workers: RunTasks().                                           *)

Goto(h, label) == pc' = [pc EXCEPT ![h] = label]

LoadTaken(h) ==
  /\ pc[h] = "look"
  /\ nta' = [nta EXCEPT ![h] = tasks_taken]
  /\ Goto(h, "compare")
  /\ UNCHANGED <<counters, task_taking_started, picking_tasks, mutex, waiting,
                 exiting, mainVars, id>>

\* Work to take, work about to come (spin), or nothing (sleep).
Compare(h) ==
  /\ pc[h] = "compare"
  /\ Goto(h, IF nta[h] < task_count THEN "grab"
             ELSE IF task_count # -1 THEN "look" ELSE "lock")
  /\ UNCHANGED <<counters, task_taking_started, picking_tasks, mutex, waiting,
                 exiting, mainVars, nta, id>>

GrabSpinLock(h) ==
  /\ pc[h] = "grab"
  /\ Goto(h, IF task_taking_started THEN "look" ELSE "reload taken")
  /\ task_taking_started' = TRUE
  /\ UNCHANGED <<counters, picking_tasks, mutex, waiting, exiting, mainVars, nta, id>>

\* With the spin lock, look again before taking.
ReloadTaken(h) ==
  /\ pc[h] = "reload taken"
  /\ nta' = [nta EXCEPT ![h] = tasks_taken]
  /\ Goto(h, "reload count")
  /\ UNCHANGED <<counters, task_taking_started, picking_tasks, mutex, waiting,
                 exiting, mainVars, id>>

\* Mutant of ReloadCount: no second look under the spin lock.
ReloadCountBlind(h) ==
  /\ pc[h] = "reload count"
  /\ Goto(h, "take")
  /\ UNCHANGED <<counters, task_taking_started, picking_tasks, mutex, waiting, exiting,
                 mainVars, nta, id>>

ReloadCount(h) ==
  /\ pc[h] = "reload count"
  /\ Goto(h, IF nta[h] < task_count THEN "take" ELSE "look")
  /\ task_taking_started' = (nta[h] < task_count)
  /\ UNCHANGED <<counters, picking_tasks, mutex, waiting, exiting, mainVars, nta, id>>

\* Indices of picking_tasks start with 1 here. A task taken that is not there
\* (an index past the end) leaves the vector alone, and id remembers it.
TakeTask(h) ==
  /\ pc[h] = "take"
  /\ tasks_taken' = tasks_taken + 1
  /\ id' = [id EXCEPT ![h] = tasks_taken + 1]
  /\ picking_tasks' = [i \in DOMAIN picking_tasks |->
       IF i = tasks_taken + 1 THEN [picking_tasks[i] EXCEPT !.runs = @ + 1]
       ELSE picking_tasks[i]]
  /\ task_taking_started' = FALSE
  /\ Goto(h, "run")
  /\ UNCHANGED <<task_count, completed_tasks, mutex, waiting, exiting, mainVars, nta>>

\* A gathering task may split off further tasks.
SplitTask(h) ==
  /\ pc[h] = "run"
  /\ id[h] \in DOMAIN picking_tasks /\ picking_tasks[id[h]].kind = "pick"
  /\ SplitOff
  /\ UNCHANGED <<tasks_taken, completed_tasks, task_taking_started, mutex, exiting,
                 mainVars, workerVars>>

CompleteTask(h) ==
  /\ pc[h] = "run"
  /\ picking_tasks' = [i \in DOMAIN picking_tasks |->
       IF i = id[h] THEN [picking_tasks[i] EXCEPT !.complete = TRUE]
       ELSE picking_tasks[i]]
  /\ completed_tasks' = completed_tasks + 1
  /\ id' = [id EXCEPT ![h] = 0]
  /\ Goto(h, "look")
  /\ UNCHANGED <<task_count, tasks_taken, task_taking_started, mutex, waiting,
                 exiting, mainVars, nta>>

LockMutex(h) ==
  /\ pc[h] = "lock" /\ mutex = "free"
  /\ mutex' = h
  /\ Goto(h, "recheck")
  /\ UNCHANGED <<counters, task_taking_started, picking_tasks, waiting, exiting,
                 mainVars, nta, id>>

\* Under the mutex: work after all, the end, or a decision to wait.
Recheck(h) ==
  /\ pc[h] = "recheck"
  /\ \/ task_count # -1 /\ Goto(h, "look") /\ mutex' = "free"
     \/ task_count = -1 /\ exiting /\ Goto(h, "exited") /\ mutex' = "free"
     \/ task_count = -1 /\ ~exiting /\ Goto(h, "wait") /\ UNCHANGED mutex
  /\ UNCHANGED <<counters, task_taking_started, picking_tasks, waiting, exiting,
                 mainVars, nta, id>>

\* task_added_.wait() goes to sleep and frees the mutex in one step.
StartWait(h) ==
  /\ pc[h] = "wait"
  /\ mutex' = "free"
  /\ waiting' = waiting \cup {h}
  /\ Goto(h, "asleep")
  /\ UNCHANGED <<counters, task_taking_started, picking_tasks, exiting, mainVars,
                 nta, id>>

\* Notified: wait() takes the mutex back, and the loop goes on or ends.
WakeUp(h) ==
  /\ pc[h] = "asleep" /\ h \notin waiting /\ mutex = "free"
  /\ Goto(h, IF tasks_taken >= task_count /\ exiting THEN "exited" ELSE "look")
  /\ UNCHANGED <<counters, task_taking_started, picking_tasks, mutex, waiting,
                 exiting, mainVars, nta, id>>

\* A condition variable may wake up for no reason. Nothing may rely on that.
SpuriousWakeUp(h) ==
  /\ h \in waiting
  /\ waiting' = waiting \ {h}
  /\ UNCHANGED <<counters, task_taking_started, picking_tasks, mutex, exiting,
                 mainVars, workerVars>>

-----------------------------------------------------------------------------
Init ==
  /\ task_count = -1 /\ tasks_taken = 0 /\ completed_tasks = 0
  /\ task_taking_started = FALSE
  /\ picking_tasks = <<>>
  /\ mutex = "free" /\ waiting = {} /\ exiting = FALSE
  /\ main = "idle" /\ section = "pick" /\ completed = 0 /\ to_add = 0
  /\ sections = 0
  /\ pc = [h \in TaskWorker |-> "look"]
  /\ nta = [h \in TaskWorker |-> 0]
  /\ id = [h \in TaskWorker |-> 0]

MainStep ==
  \/ ResetCount \/ ResetTaken \/ ResetCompleted \/ WakeTaskWorkers
  \/ SharePicking \/ ShareProcessing \/ OwnWorkDone \/ LoadCompleted \/ LoadCount
  \/ ProcessInTasks \/ GatherAgain \/ FinishMinibatch \/ NextIteration
  \/ Destroy \/ AnnounceExit \/ JoinTaskWorkers

TaskWorkerStep(h) ==
  \/ LoadTaken(h) \/ Compare(h) \/ GrabSpinLock(h) \/ ReloadTaken(h)
  \/ ReloadCount(h) \/ TakeTask(h) \/ SplitTask(h) \/ CompleteTask(h)
  \/ LockMutex(h) \/ Recheck(h) \/ StartWait(h) \/ WakeUp(h)

\* The worker is gone for good; the only state in which nothing may happen.
Terminated == main = "gone" /\ UNCHANGED vars

Next == \/ MainStep
        \/ \E h \in TaskWorker : TaskWorkerStep(h) \/ SpuriousWakeUp(h)
        \/ Terminated

\* Every thread runs, and a thread that tries to lock the mutex gets it if it is
\* free again and again; no wake-up comes for free.
Spec == /\ Init /\ [][Next]_vars
        /\ WF_vars(MainStep) /\ SF_vars(WakeTaskWorkers) /\ SF_vars(AnnounceExit)
        /\ \A h \in TaskWorker : WF_vars(TaskWorkerStep(h))

-----------------------------------------------------------------------------
(* Invariants.                                                             *)

Tasks == Seq([kind : {"pick", "process"}, runs : Nat, complete : BOOLEAN])

CountersOK ==
  /\ task_count \in Int /\ task_count >= -1
  /\ tasks_taken \in Nat /\ completed_tasks \in Nat
  /\ completed \in Nat /\ to_add \in Nat /\ sections \in Nat
  /\ nta \in [TaskWorker -> Nat] /\ id \in [TaskWorker -> Nat]

LocksOK ==
  /\ task_taking_started \in BOOLEAN /\ exiting \in BOOLEAN
  /\ mutex \in TaskWorker \cup {"free"} /\ waiting \subseteq TaskWorker

PlacesOK ==
  /\ main \in {"gather", "reset taken", "reset completed", "wake", "share",
               "load completed", "load count", "collect", "idle", "destroy",
               "join", "gone"}
  /\ section \in {"pick", "process"}
  /\ pc \in [TaskWorker -> {"look", "compare", "grab", "reload taken", "reload count",
                            "take", "run", "lock", "recheck", "wait", "asleep",
                            "exited"}]

TypeOK == picking_tasks \in Tasks /\ CountersOK /\ LocksOK /\ PlacesOK

\* No task is run twice, none that is not there, and WaitForTasks() returns only
\* when every task, those split off by other tasks included, is complete.
TasksRunOnce ==
  /\ \A i \in DOMAIN picking_tasks : picking_tasks[i].runs <= 1
  /\ \A h \in TaskWorker : pc[h] = "run" => id[h] \in DOMAIN picking_tasks
  /\ main = "collect" => \A i \in DOMAIN picking_tasks : picking_tasks[i].complete

\* search.cc:1507: the tasks of PickNodesToExtend() work on the tree under a lock
\* which this thread holds for them; so none may run once it let go, and a
\* processing task, which takes the lock itself, none while it is held.
WorkUnderLock ==
  \A h \in TaskWorker : pc[h] = "run" /\ id[h] \in DOMAIN picking_tasks =>
    /\ main \in {"share", "load completed", "load count"}
    /\ picking_tasks[id[h]].kind = section

-----------------------------------------------------------------------------
(* Liveness.                                                               *)

\* search.cc:1488: "Spin lock, other tasks should be done soon.": no task worker
\* sleeps through the work the spinning thread waits for.
TasksDone == main \in {"load completed", "load count"} ~> main = "collect"

==============================================================================
