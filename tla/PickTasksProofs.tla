---------------------------- MODULE PickTasksProofs ----------------------------
(***************************************************************************)
(* Task workers run each task once and under the lock that covers it, for  *)
(* any number of them, any capacity and any number of sections.            *)
(***************************************************************************)
EXTENDS PickTasks, FiniteSetTheorems, TLAPS

Task == [kind : {"pick", "process"}, runs : Nat, complete : BOOLEAN]

Running == {h \in TaskWorker : pc[h] = "run"}
Holding == {h \in TaskWorker : pc[h] \in {"reload taken", "reload count", "take"}}

\* The counters describe the tasks between ResetTasks() and WaitForTasks().
Active == main \in {"wake", "share", "load completed", "load count"}

\* The spin lock has one holder, and what it has read under the lock is no older than
\* what decides: a task it is about to take is there, and not taken.
SpinLocked ==
  /\ \A g, h \in Holding : g = h
  /\ Holding # {} => task_taking_started
  /\ \A h \in Holding :
       /\ pc[h] = "reload count" => nta[h] >= tasks_taken
       /\ pc[h] = "take" => tasks_taken < task_count

\* While tasks are shared: tasks are taken in their order, and those taken are complete
\* or run by someone.
Counted ==
  Active =>
    /\ task_count = Len(picking_tasks) /\ tasks_taken <= task_count
    /\ completed_tasks + Cardinality(Running) = tasks_taken
    /\ \A h \in Running : id[h] \in 1..tasks_taken
    /\ \A i \in 1..Len(picking_tasks) :
         /\ picking_tasks[i].kind = section
         /\ i > tasks_taken => picking_tasks[i].runs = 0
         /\ i <= tasks_taken =>
              picking_tasks[i].complete \/ \E h \in Running : id[h] = i
    /\ main = "wake" => Len(picking_tasks) = 0
    /\ main = "load count" => completed <= completed_tasks

\* Otherwise nobody runs a task, and the counters show none to take, also when they are
\* half reset.
Quiet ==
  ~Active =>
    /\ Running = {} /\ task_count <= tasks_taken
    /\ main \in {"reset taken", "reset completed"} => task_count = 0
    /\ main = "reset completed" => tasks_taken = 0
    /\ main = "collect" => \A i \in 1..Len(picking_tasks) : picking_tasks[i].complete

PickInv ==
  /\ TypeOK /\ SpinLocked /\ Counted /\ Quiet
  /\ \A i \in 1..Len(picking_tasks) : picking_tasks[i].runs <= 1

-----------------------------------------------------------------------------
\* A sequence given entry by entry.
LEMMA Entries ==
  ASSUME NEW s \in Seq(Task), NEW f, f \in [DOMAIN s -> Task]
  PROVE  f \in Seq(Task) /\ Len(f) = Len(s)
<1>1. Len(s) \in Nat /\ DOMAIN s = 1..Len(s)
    OBVIOUS
<1>2. f \in [1..Len(s) -> Task]
    BY <1>1
<1> QED
    BY <1>1, <1>2

LEMMA Appended ==
  ASSUME NEW s \in Seq(Task), NEW t \in Task
  PROVE  /\ Append(s, t) \in Seq(Task) /\ Len(Append(s, t)) = Len(s) + 1
         /\ \A i \in 1..Len(s) : Append(s, t)[i] = s[i]
         /\ Append(s, t)[Len(s) + 1] = t
OBVIOUS

LEMMA Vector ==
  ASSUME TypeOK
  PROVE  /\ picking_tasks \in Seq(Task) /\ Len(picking_tasks) \in Nat
         /\ DOMAIN picking_tasks = 1..Len(picking_tasks)
         /\ \A i \in 1..Len(picking_tasks) : picking_tasks[i] \in Task
<1>1. picking_tasks \in Seq(Task)
    BY DEF TypeOK, Tasks, Task
<1>2. \A s \in Seq(Task) : /\ Len(s) \in Nat /\ DOMAIN s = 1..Len(s)
                           /\ \A i \in 1..Len(s) : s[i] \in Task
    OBVIOUS
<1> QED
    BY <1>1, <1>2

\* Task workers are finitely many, so those that run a task can be counted.
LEMMA RunningFinite == IsFiniteSet(Running) /\ Cardinality(Running) \in Nat
<1>1. Running \subseteq TaskWorker
    BY DEF Running
<1> QED
    BY <1>1, PickTasksAssumption, FS_Subset, FS_CardinalityType

-----------------------------------------------------------------------------
\* The invariant holds before the first section.
LEMMA InitInv == Init => PickInv
<1> SUFFICES ASSUME Init PROVE PickInv
    OBVIOUS
<1>1. picking_tasks \in Seq(Task) /\ Len(picking_tasks) = 0
    BY DEF Init
<1>2. TypeOK
  <2>1. picking_tasks \in Tasks
      BY <1>1 DEF Tasks, Task
  <2>2. CountersOK
      BY DEF Init, CountersOK
  <2>3. LocksOK /\ PlacesOK
      BY DEF Init, LocksOK, PlacesOK
  <2> QED
      BY <2>1, <2>2, <2>3 DEF TypeOK
<1>3. Running = {} /\ Holding = {}
    BY DEF Init, Running, Holding
<1> QED
    BY <1>1, <1>2, <1>3 DEF Init, PickInv, SpinLocked, Counted, Quiet, Active

-----------------------------------------------------------------------------
(* Types.                                                                  *)

\* picking_tasks_ stays a vector of tasks.
LEMMA TasksKept == TypeOK /\ [Next]_vars => picking_tasks' \in Tasks
<1> SUFFICES ASSUME TypeOK, [Next]_vars, picking_tasks' # picking_tasks
             PROVE  picking_tasks' \in Seq(Task)
    BY DEF TypeOK, Tasks, Task
<1>1. ASSUME NEW kind \in {"pick", "process"}, AddTask(kind)
      PROVE  picking_tasks' \in Seq(Task)
  <2>1. NewTask(kind) \in Task
      BY DEF NewTask, Task
  <2> QED
      BY <1>1, <2>1, Vector, Appended DEF AddTask
<1>2. CASE SharePicking \/ ShareProcessing \/ \E h \in TaskWorker : SplitTask(h)
    BY <1>1, <1>2 DEF SharePicking, ShareProcessing, SplitTask, SplitOff
<1>3. CASE ResetCompleted
  <2>1. picking_tasks' = <<>>
      BY <1>3 DEF ResetCompleted
  <2> QED
      BY <2>1
<1>4. CASE \E h \in TaskWorker : TakeTask(h) \/ CompleteTask(h)
  <2>1. PICK h \in TaskWorker : TakeTask(h) \/ CompleteTask(h)
      BY <1>4
  <2>2. \A t \in Task : /\ [t EXCEPT !.runs = @ + 1] \in Task
                        /\ [t EXCEPT !.complete = TRUE] \in Task
    <3>1. ASSUME NEW t \in Task PROVE [t EXCEPT !.runs = @ + 1] \in Task
        BY DEF Task
    <3>2. ASSUME NEW t \in Task PROVE [t EXCEPT !.complete = TRUE] \in Task
        BY DEF Task
    <3> QED
        BY <3>1, <3>2
  <2>3. CASE TakeTask(h)
    <3>1. picking_tasks' = [i \in DOMAIN picking_tasks |->
            IF i = tasks_taken + 1 THEN [picking_tasks[i] EXCEPT !.runs = @ + 1]
            ELSE picking_tasks[i]]
        BY <2>3 DEF TakeTask
    <3> QED
        BY <3>1, <2>2, Vector, Entries
  <2>4. CASE CompleteTask(h)
    <3>1. picking_tasks' = [i \in DOMAIN picking_tasks |->
            IF i = id[h] THEN [picking_tasks[i] EXCEPT !.complete = TRUE]
            ELSE picking_tasks[i]]
        BY <2>4 DEF CompleteTask
    <3> QED
        BY <3>1, <2>2, Vector, Entries
  <2> QED
      BY <2>1, <2>3, <2>4
<1>5. CASE ResetCount \/ ResetTaken \/ WakeTaskWorkers \/ OwnWorkDone \/ LoadCompleted
           \/ LoadCount \/ ProcessInTasks \/ GatherAgain \/ FinishMinibatch
           \/ NextIteration \/ Destroy \/ AnnounceExit \/ JoinTaskWorkers
    BY <1>5 DEF ResetCount, ResetTaken, WakeTaskWorkers, OwnWorkDone, LoadCompleted,
       LoadCount, ProcessInTasks, GatherAgain, FinishMinibatch, NextIteration, Destroy,
       AnnounceExit, JoinTaskWorkers
<1>6. ASSUME NEW h \in TaskWorker,
             LoadTaken(h) \/ Compare(h) \/ GrabSpinLock(h) \/ ReloadTaken(h)
             \/ ReloadCount(h) \/ LockMutex(h) \/ Recheck(h) \/ StartWait(h) \/ WakeUp(h)
             \/ SpuriousWakeUp(h)
      PROVE  picking_tasks' = picking_tasks
    BY <1>6 DEF LoadTaken, Compare, GrabSpinLock, ReloadTaken, ReloadCount, LockMutex,
       Recheck, StartWait, WakeUp, SpuriousWakeUp
<1> QED
    BY <1>2, <1>3, <1>4, <1>5, <1>6 DEF Next, MainStep, TaskWorkerStep, Terminated, vars

\* The counters keep their types.
LEMMA CountersKept == TypeOK /\ [Next]_vars => CountersOK'
<1> SUFFICES ASSUME CountersOK, [Next]_vars PROVE CountersOK'
    BY DEF TypeOK
<1> USE DEF counters, mainVars, workerVars, CountersOK
<1>1. CASE ResetCount
  <2>1. task_count' = 0 /\ sections' = sections + 1
      BY <1>1 DEF ResetCount
  <2>2. UNCHANGED <<tasks_taken, completed_tasks, completed, to_add, nta, id>>
      BY <1>1 DEF ResetCount
  <2> QED
      BY <2>1, <2>2
<1>2. CASE ResetTaken
    BY <1>2 DEF ResetTaken
<1>3. CASE ResetCompleted
    BY <1>3 DEF ResetCompleted
<1>4. CASE WakeTaskWorkers \/ OwnWorkDone \/ LoadCompleted \/ LoadCount
    BY <1>4 DEF WakeTaskWorkers, OwnWorkDone, LoadCompleted, LoadCount
<1>5. CASE SharePicking \/ ShareProcessing
    BY <1>5 DEF SharePicking, ShareProcessing, SplitOff, AddTask
<1>6. CASE ProcessInTasks
  <2>1. Cardinality(TaskWorker) \in Nat
      BY PickTasksAssumption, FS_CardinalityType
  <2> QED
      BY <1>6, <2>1 DEF ProcessInTasks
<1>7. CASE GatherAgain \/ FinishMinibatch \/ NextIteration \/ Destroy \/ AnnounceExit
           \/ JoinTaskWorkers
    BY <1>7 DEF GatherAgain, FinishMinibatch, NextIteration, Destroy, AnnounceExit,
       JoinTaskWorkers
<1>8. ASSUME NEW h \in TaskWorker,
             LoadTaken(h) \/ Compare(h) \/ GrabSpinLock(h) \/ ReloadTaken(h)
             \/ ReloadCount(h)
      PROVE  CountersOK'
    BY <1>8 DEF LoadTaken, Compare, GrabSpinLock, ReloadTaken, ReloadCount
<1>9. ASSUME NEW h \in TaskWorker, TakeTask(h) PROVE CountersOK'
    BY <1>9 DEF TakeTask
<1>10. ASSUME NEW h \in TaskWorker, SplitTask(h) PROVE CountersOK'
    BY <1>10 DEF SplitTask, SplitOff, AddTask
<1>11. ASSUME NEW h \in TaskWorker, CompleteTask(h) PROVE CountersOK'
    BY <1>11 DEF CompleteTask
<1>12. ASSUME NEW h \in TaskWorker,
             LockMutex(h) \/ Recheck(h) \/ StartWait(h) \/ WakeUp(h) \/ SpuriousWakeUp(h)
      PROVE  CountersOK'
    BY <1>12 DEF LockMutex, Recheck, StartWait, WakeUp, SpuriousWakeUp
<1>13. CASE UNCHANGED vars
    BY <1>13 DEF vars
<1> QED
    BY <1>1, <1>2, <1>3, <1>4, <1>5, <1>6, <1>7, <1>8, <1>9, <1>10, <1>11,
       <1>12, <1>13
    DEF Next, MainStep, TaskWorkerStep, Terminated

\* The locks and conditions keep their types.
LEMMA LocksKept == TypeOK /\ [Next]_vars => LocksOK'
<1> SUFFICES ASSUME LocksOK, [Next]_vars PROVE LocksOK'
    BY DEF TypeOK
<1> USE DEF LocksOK
<1>1. CASE ResetCount \/ ResetTaken \/ ResetCompleted \/ WakeTaskWorkers
           \/ SharePicking \/ ShareProcessing \/ OwnWorkDone \/ LoadCompleted \/ LoadCount
           \/ ProcessInTasks
    BY <1>1 DEF ResetCount, ResetTaken, ResetCompleted, WakeTaskWorkers, SharePicking,
       SplitOff, ShareProcessing, OwnWorkDone, LoadCompleted, LoadCount, ProcessInTasks
<1>2. CASE GatherAgain \/ FinishMinibatch \/ NextIteration \/ Destroy \/ AnnounceExit
           \/ JoinTaskWorkers
    BY <1>2 DEF GatherAgain, FinishMinibatch, NextIteration, Destroy, AnnounceExit,
       JoinTaskWorkers
<1>3. ASSUME NEW h \in TaskWorker,
             LoadTaken(h) \/ Compare(h) \/ GrabSpinLock(h) \/ ReloadTaken(h)
      PROVE  LocksOK'
    BY <1>3 DEF LoadTaken, Compare, GrabSpinLock, ReloadTaken
<1>4. ASSUME NEW h \in TaskWorker, ReloadCount(h) PROVE LocksOK'
  <2>1. task_taking_started' = (nta[h] < task_count)
      BY <1>4 DEF ReloadCount
  <2>2. UNCHANGED <<exiting, mutex, waiting>>
      BY <1>4 DEF ReloadCount
  <2>3. task_taking_started' \in BOOLEAN
      BY ONLY <2>1
  <2> QED
      BY <2>2, <2>3
<1>5. ASSUME NEW h \in TaskWorker, TakeTask(h) \/ SplitTask(h) \/ CompleteTask(h)
      PROVE  LocksOK'
    BY <1>5 DEF TakeTask, SplitTask, SplitOff, CompleteTask
<1>6. ASSUME NEW h \in TaskWorker,
             LockMutex(h) \/ Recheck(h) \/ StartWait(h) \/ WakeUp(h) \/ SpuriousWakeUp(h)
      PROVE  LocksOK'
    BY <1>6 DEF LockMutex, Recheck, StartWait, WakeUp, SpuriousWakeUp
<1>7. CASE UNCHANGED vars
    BY <1>7 DEF vars
<1> QED
    BY <1>1, <1>2, <1>3, <1>4, <1>5, <1>6, <1>7
    DEF Next, MainStep, TaskWorkerStep, Terminated

\* The places of the threads keep their types.
LEMMA PlacesKept == TypeOK /\ [Next]_vars => PlacesOK'
<1> SUFFICES ASSUME PlacesOK, [Next]_vars PROVE PlacesOK'
    BY DEF TypeOK
<1> USE DEF PlacesOK, mainVars, workerVars, Enter, Goto
<1>1. CASE ResetCount \/ ResetTaken \/ ResetCompleted \/ WakeTaskWorkers
           \/ SharePicking \/ ShareProcessing \/ OwnWorkDone \/ LoadCompleted \/ LoadCount
           \/ ProcessInTasks
    BY <1>1 DEF ResetCount, ResetTaken, ResetCompleted, WakeTaskWorkers, SharePicking,
       ShareProcessing, OwnWorkDone, LoadCompleted, LoadCount, ProcessInTasks
<1>2. CASE GatherAgain \/ FinishMinibatch \/ NextIteration \/ Destroy \/ AnnounceExit
           \/ JoinTaskWorkers
    BY <1>2 DEF GatherAgain, FinishMinibatch, NextIteration, Destroy, AnnounceExit,
       JoinTaskWorkers
<1>3. ASSUME NEW h \in TaskWorker,
             LoadTaken(h) \/ Compare(h) \/ GrabSpinLock(h) \/ ReloadTaken(h)
             \/ ReloadCount(h)
      PROVE  PlacesOK'
    BY <1>3 DEF LoadTaken, Compare, GrabSpinLock, ReloadTaken, ReloadCount
<1>4. ASSUME NEW h \in TaskWorker, TakeTask(h) \/ SplitTask(h) \/ CompleteTask(h)
      PROVE  PlacesOK'
    BY <1>4 DEF TakeTask, SplitTask, CompleteTask
<1>5. ASSUME NEW h \in TaskWorker,
             LockMutex(h) \/ Recheck(h) \/ StartWait(h) \/ WakeUp(h) \/ SpuriousWakeUp(h)
      PROVE  PlacesOK'
    BY <1>5 DEF LockMutex, Recheck, StartWait, WakeUp, SpuriousWakeUp
<1>6. CASE UNCHANGED vars
    BY <1>6 DEF vars
<1> QED
    BY <1>1, <1>2, <1>3, <1>4, <1>5, <1>6
    DEF Next, MainStep, TaskWorkerStep, Terminated

\* A task worker moves on, the others stay where they are.
LEMMA GoneTo ==
  ASSUME PickInv, NEW h \in TaskWorker, NEW label, Goto(h, label)
  PROVE  pc'[h] = label /\ \A g \in TaskWorker : g # h => pc'[g] = pc[g]
<1>1. DOMAIN pc = TaskWorker
    BY DEF PickInv, TypeOK, PlacesOK
<1> QED
    BY <1>1 DEF Goto

-----------------------------------------------------------------------------
(* The spin lock.                                                          *)

\* The main thread leaves the spin lock alone; it changes the counters that a task
\* worker has read under it only when there is nothing to take.
LEMMA SpinMain == PickInv /\ MainStep => SpinLocked'
<1> SUFFICES ASSUME PickInv, MainStep PROVE SpinLocked'
    OBVIOUS
<1> USE DEF counters, mainVars, workerVars
<1>1. /\ UNCHANGED <<pc, nta, task_taking_started>>
      /\ \/ UNCHANGED <<tasks_taken, task_count>>
         \/ ~Active
         \/ Active /\ tasks_taken' = tasks_taken /\ task_count' = task_count + 1
  <2>1. CASE ResetCount \/ ResetTaken \/ FinishMinibatch \/ Destroy
      BY <2>1 DEF ResetCount, ResetTaken, FinishMinibatch, Destroy, Active
  <2>2. CASE SharePicking \/ ShareProcessing
      BY <2>2 DEF SharePicking, ShareProcessing, SplitOff, AddTask, Active
  <2>3. CASE ResetCompleted \/ WakeTaskWorkers \/ OwnWorkDone \/ LoadCompleted
             \/ LoadCount \/ ProcessInTasks
      BY <2>3 DEF ResetCompleted, WakeTaskWorkers, OwnWorkDone, LoadCompleted, LoadCount,
         ProcessInTasks
  <2>4. CASE GatherAgain \/ NextIteration \/ AnnounceExit \/ JoinTaskWorkers
      BY <2>4 DEF GatherAgain, NextIteration, AnnounceExit, JoinTaskWorkers
  <2> QED
      BY <2>1, <2>2, <2>3, <2>4 DEF MainStep
<1>2. /\ task_count \in Int /\ tasks_taken \in Nat /\ nta \in [TaskWorker -> Nat]
      BY DEF PickInv, TypeOK, CountersOK
<1>3. Holding' = Holding
    BY <1>1 DEF Holding
<1>4. ASSUME NEW h \in Holding, pc[h] = "take" PROVE tasks_taken' < task_count'
  <2>1. tasks_taken < task_count
      BY <1>4 DEF PickInv, SpinLocked
  <2>2. ~Active => task_count <= tasks_taken
      BY Zenon DEF PickInv, Quiet
  <2> QED
      BY <1>1, <1>2, <2>1, <2>2
<1>5. ASSUME NEW h \in Holding, pc[h] = "reload count" PROVE nta[h] >= tasks_taken'
  <2>1. nta[h] >= tasks_taken /\ nta[h] \in Nat
      BY <1>2, <1>5 DEF PickInv, SpinLocked, Holding
  <2>2. tasks_taken' = tasks_taken \/ tasks_taken' = 0
    <3>1. CASE ResetTaken
        BY <3>1 DEF ResetTaken
    <3>2. CASE ~ResetTaken
      <4>1. CASE ResetCount \/ FinishMinibatch \/ Destroy \/ SharePicking \/ ShareProcessing
          BY <4>1 DEF ResetCount, FinishMinibatch, Destroy, SharePicking, ShareProcessing
      <4>2. CASE ResetCompleted \/ WakeTaskWorkers \/ OwnWorkDone \/ LoadCompleted
                 \/ LoadCount \/ ProcessInTasks
          BY <4>2 DEF ResetCompleted, WakeTaskWorkers, OwnWorkDone, LoadCompleted, LoadCount,
             ProcessInTasks
      <4>3. CASE GatherAgain \/ NextIteration \/ AnnounceExit \/ JoinTaskWorkers
          BY <4>3 DEF GatherAgain, NextIteration, AnnounceExit, JoinTaskWorkers
      <4> QED
          BY <3>2, <4>1, <4>2, <4>3 DEF MainStep
    <3> QED
        BY <3>1, <3>2
  <2> QED
      BY <1>2, <2>1, <2>2
<1> QED
    BY <1>1, <1>3, <1>4, <1>5 DEF PickInv, SpinLocked

\* Steps of a task worker that do not concern the spin lock.
LEMMA SpinApart ==
  ASSUME PickInv, NEW h \in TaskWorker, h \notin Holding, h \notin Holding',
         \A g \in TaskWorker : g # h => pc'[g] = pc[g] /\ nta'[g] = nta[g],
         UNCHANGED <<task_taking_started, tasks_taken>>,
         task_count' = task_count \/ task_count' = task_count + 1
  PROVE  SpinLocked'
<1>1. Holding' = Holding
    BY DEF Holding
<1>2. task_count \in Int /\ tasks_taken \in Nat /\ SpinLocked
    BY DEF PickInv, TypeOK, CountersOK
<1>3. \A g \in Holding : g # h /\ pc'[g] = pc[g] /\ nta'[g] = nta[g]
    BY DEF Holding
<1>4. ASSUME NEW g \in Holding, pc[g] = "take" PROVE tasks_taken' < task_count'
  <2>1. tasks_taken < task_count
      BY <1>2, <1>4 DEF SpinLocked
  <2> QED
      BY <1>2, <2>1
<1> QED
    BY <1>1, <1>2, <1>3, <1>4 DEF SpinLocked

LEMMA SpinWorker ==
  ASSUME PickInv, NEW h \in TaskWorker, TaskWorkerStep(h)
  PROVE  SpinLocked'
<1> USE DEF counters, Goto
<1>1. /\ task_count \in Int /\ tasks_taken \in Nat
      /\ nta \in [TaskWorker -> Nat] /\ pc = [g \in TaskWorker |-> pc[g]]
      /\ SpinLocked
    BY DEF PickInv, TypeOK, CountersOK, PlacesOK
<1>2. CASE LoadTaken(h) \/ Compare(h)
    BY <1>1, <1>2, SpinApart DEF LoadTaken, Compare, Holding
<1>3. CASE SplitTask(h)
    BY <1>1, <1>3, SpinApart DEF SplitTask, SplitOff, AddTask, Holding, workerVars
<1>4. CASE CompleteTask(h)
    BY <1>1, <1>4, SpinApart DEF CompleteTask, Holding
<1>5. CASE LockMutex(h) \/ Recheck(h) \/ StartWait(h) \/ WakeUp(h)
    BY <1>1, <1>5, SpinApart DEF LockMutex, Recheck, StartWait, WakeUp, Holding
<1>6. CASE GrabSpinLock(h)
  <2>1. CASE task_taking_started
      BY <1>1, <1>6, <2>1, SpinApart DEF GrabSpinLock, Holding
  <2>2. CASE ~task_taking_started
    <3>1. Holding = {} /\ Holding' = {h} /\ pc'[h] = "reload taken"
        BY <1>1, <1>6, <2>2 DEF GrabSpinLock, Holding, SpinLocked
    <3> QED
        BY <1>6, <3>1 DEF GrabSpinLock, SpinLocked
  <2> QED
      BY <2>1, <2>2
<1>7. ASSUME h \in Holding PROVE Holding = {h}
    BY <1>1, <1>7 DEF SpinLocked
<1>8. CASE ReloadTaken(h)
  <2>1. Holding' = {h} /\ pc'[h] = "reload count" /\ nta'[h] = tasks_taken
      BY <1>1, <1>7, <1>8 DEF ReloadTaken, Holding
  <2>2. tasks_taken' = tasks_taken /\ task_taking_started' = task_taking_started
      BY <1>8 DEF ReloadTaken
  <2>3. h \in Holding
      BY <1>8 DEF ReloadTaken, Holding
  <2>4. task_taking_started'
      BY <1>1, <2>2, <2>3 DEF SpinLocked
  <2>5. tasks_taken \in Nat
      BY <1>1
  <2>6. nta'[h] >= tasks_taken'
    <3>1. nta'[h] = tasks_taken'
        BY Zenon, <2>1, <2>2
    <3>2. tasks_taken' \in Nat
        BY <2>2, <2>5
    <3> QED
        BY <3>1, <3>2
  <2>7. pc'[h] # "take"
      BY <2>1
  <2> QED
      BY <2>1, <2>4, <2>6, <2>7 DEF SpinLocked
<1>9. CASE ReloadCount(h)
  <2>1. CASE nta[h] < task_count
    <3>1. Holding = {h} /\ Holding' = {h} /\ pc'[h] = "take" /\ nta[h] >= tasks_taken
        BY <1>1, <1>7, <1>9, <2>1 DEF ReloadCount, Holding, SpinLocked
    <3>2. task_taking_started' /\ UNCHANGED <<task_count, tasks_taken>>
        BY <1>9, <2>1 DEF ReloadCount
    <3>3. tasks_taken < task_count
        BY <1>1, <2>1, <3>1
    <3> QED
        BY <3>1, <3>2, <3>3 DEF SpinLocked
  <2>2. CASE ~(nta[h] < task_count)
    <3>1. Holding' = {}
        BY <1>1, <1>7, <1>9, <2>2 DEF ReloadCount, Holding
    <3> QED
        BY <3>1 DEF SpinLocked
  <2> QED
      BY <2>1, <2>2
<1>10. CASE TakeTask(h)
  <2>1. Holding' = {}
      BY <1>1, <1>7, <1>10 DEF TakeTask, Holding
  <2> QED
      BY <2>1 DEF SpinLocked
<1> QED
    BY <1>2, <1>3, <1>4, <1>5, <1>6, <1>8, <1>9, <1>10 DEF TaskWorkerStep

-----------------------------------------------------------------------------
(* Counters and tasks.                                                     *)

\* What the invariant says of the tasks, when those who run one stay the same.
LEMMA SameTasks ==
  ASSUME PickInv, Running' = Running,
         UNCHANGED <<main, section, counters, completed, picking_tasks>>,
         \A h \in Running : id'[h] = id[h]
  PROVE  Counted' /\ Quiet'
BY DEF PickInv, Counted, Quiet, Active, counters

\* No task is run twice.
RunsOnce == \A i \in 1..Len(picking_tasks) : picking_tasks[i].runs <= 1

LEMMA WorkersApart ==
  ASSUME PickInv, NEW h \in TaskWorker,
         \/ LoadTaken(h) \/ Compare(h) \/ GrabSpinLock(h) \/ ReloadTaken(h)
         \/ ReloadCount(h) \/ LockMutex(h) \/ Recheck(h) \/ StartWait(h) \/ WakeUp(h)
  PROVE  Counted' /\ Quiet' /\ RunsOnce'
<1>1. /\ UNCHANGED <<main, section, counters, completed, picking_tasks, id>>
      /\ pc[h] # "run" /\ pc'[h] # "run"
      /\ \A g \in TaskWorker : g # h => pc'[g] = pc[g]
  <2>1. /\ UNCHANGED <<main, section, counters, completed, picking_tasks, id>>
        /\ pc[h] # "run"
      BY DEF LoadTaken, Compare, GrabSpinLock, ReloadTaken, ReloadCount, LockMutex,
         Recheck, StartWait, WakeUp, mainVars
  <2>2. PICK label : label # "run" /\ Goto(h, label)
    <3>1. CASE LoadTaken(h) \/ GrabSpinLock(h) \/ ReloadTaken(h)
        BY <3>1 DEF LoadTaken, GrabSpinLock, ReloadTaken
    <3>2. CASE Compare(h)
        BY <3>2 DEF Compare
    <3>3. CASE ReloadCount(h)
        BY <3>3 DEF ReloadCount
    <3>4. CASE LockMutex(h) \/ Recheck(h) \/ StartWait(h) \/ WakeUp(h)
        BY <3>4 DEF LockMutex, Recheck, StartWait, WakeUp
    <3> QED
        BY <3>1, <3>2, <3>3, <3>4
  <2> QED
      BY <2>1, <2>2, GoneTo
<1>2. Running' = Running
    BY <1>1 DEF Running
<1> QED
    BY <1>1, <1>2, SameTasks DEF PickInv, RunsOnce

\* The types that the steps below compute with.
LEMMA Numbers ==
  ASSUME PickInv
  PROVE  /\ task_count \in Int /\ tasks_taken \in Nat /\ completed_tasks \in Nat
         /\ completed \in Nat /\ Len(picking_tasks) \in Nat
         /\ \A h \in TaskWorker : id[h] \in Nat
BY Vector DEF PickInv, TypeOK, CountersOK

\* A task is added.
LEMMA Added ==
  ASSUME PickInv, AddTask(section), Active, main # "wake",
         UNCHANGED <<main, section, tasks_taken, completed_tasks, completed, pc, id>>
  PROVE  Counted' /\ Quiet' /\ RunsOnce'
<1> DEFINE n == Len(picking_tasks)
<1>1. /\ Len(picking_tasks') = n + 1 /\ \A i \in 1..n : picking_tasks'[i] = picking_tasks[i]
      /\ picking_tasks'[n + 1] = NewTask(section)
  <2>1. NewTask(section) \in Task /\ picking_tasks \in Seq(Task)
      BY Vector DEF PickInv, TypeOK, PlacesOK, NewTask, Task
  <2> QED
      BY <2>1, Appended DEF AddTask
<1>2. /\ NewTask(section).kind = section /\ NewTask(section).runs = 0
    BY DEF NewTask
<1>3. Active' /\ Running' = Running
    BY DEF Active, Running
<1>4. /\ task_count = n /\ tasks_taken <= task_count
      /\ completed_tasks + Cardinality(Running) = tasks_taken
      /\ \A h \in Running : id[h] \in 1..tasks_taken
      /\ \A i \in 1..n :
           /\ picking_tasks[i].kind = section
           /\ i > tasks_taken => picking_tasks[i].runs = 0
           /\ i <= tasks_taken => picking_tasks[i].complete \/ \E h \in Running : id[h] = i
      /\ main = "load count" => completed <= completed_tasks
    BY DEF PickInv, Counted
<1>5. n \in Nat /\ tasks_taken \in Nat
    BY Numbers
<1>6. ASSUME NEW i \in 1..Len(picking_tasks')
      PROVE  /\ picking_tasks'[i].kind = section /\ picking_tasks'[i].runs <= 1
             /\ i > tasks_taken => picking_tasks'[i].runs = 0
             /\ i <= tasks_taken =>
                  picking_tasks'[i].complete \/ \E h \in Running : id[h] = i
  <2>1. CASE i = n + 1
    <3>1. tasks_taken <= n
        BY <1>4
    <3>2. picking_tasks'[i] = NewTask(section) /\ ~(i <= tasks_taken)
        BY <1>1, <1>5, <2>1, <3>1
    <3> QED
        BY <1>2, <3>2
  <2>2. CASE i \in 1..n
      BY <1>1, <1>4, <2>2 DEF PickInv
  <2> QED
      BY <1>1, <1>5, <1>6, <2>1, <2>2
<1>7. task_count' = Len(picking_tasks') /\ tasks_taken <= task_count'
  <2>1. task_count' = n + 1 /\ tasks_taken <= n
      BY <1>4 DEF AddTask
  <2> QED
      BY <1>1, <1>5, <2>1
<1>8. Counted'
    BY <1>3, <1>4, <1>6, <1>7 DEF Counted
<1> QED
    BY <1>3, <1>6, <1>8 DEF Quiet, RunsOnce

\* Tasks can be added only between ResetTasks() and the end of WaitForTasks(), and they
\* are of the section's kind.
LEMMA AddingApart ==
  ASSUME PickInv, SharePicking \/ ShareProcessing \/ \E h \in TaskWorker : SplitTask(h)
  PROVE  Counted' /\ Quiet' /\ RunsOnce'
<1>1. CASE SharePicking \/ ShareProcessing
    BY <1>1, Added DEF SharePicking, ShareProcessing, SplitOff, Active, mainVars, workerVars
<1>2. ASSUME NEW h \in TaskWorker, SplitTask(h) PROVE Counted' /\ Quiet' /\ RunsOnce'
  <2>1. h \in Running
      BY <1>2 DEF SplitTask, Running
  <2>2. Active
      BY <2>1, Zenon DEF PickInv, Quiet
  <2>3. /\ id[h] \in 1..tasks_taken /\ tasks_taken <= Len(picking_tasks)
        /\ \A i \in 1..Len(picking_tasks) : picking_tasks[i].kind = section
        /\ main = "wake" => Len(picking_tasks) = 0
      BY <2>1, <2>2 DEF PickInv, Counted
  <2>4. section = "pick" /\ main # "wake"
      BY <1>2, <2>3, Vector, Numbers DEF SplitTask, PickInv
  <2> QED
      BY <1>2, <2>2, <2>4, Added DEF SplitTask, SplitOff, mainVars, workerVars
<1> QED
    BY <1>1, <1>2

LEMMA TakenTask ==
  ASSUME PickInv, NEW h \in TaskWorker, TakeTask(h)
  PROVE  /\ Len(picking_tasks') = Len(picking_tasks)
         /\ \A i \in 1..Len(picking_tasks) :
              /\ picking_tasks'[i].kind = picking_tasks[i].kind
              /\ picking_tasks'[i].complete = picking_tasks[i].complete
              /\ picking_tasks'[i].runs =
                   IF i = tasks_taken + 1 THEN picking_tasks[i].runs + 1
                   ELSE picking_tasks[i].runs
<1>1. picking_tasks' = [i \in 1..Len(picking_tasks) |->
        IF i = tasks_taken + 1 THEN [picking_tasks[i] EXCEPT !.runs = @ + 1]
        ELSE picking_tasks[i]]
    BY Vector DEF TakeTask, PickInv
<1>2. \A i \in 1..Len(picking_tasks) : picking_tasks[i] \in Task
    BY Vector DEF PickInv
<1>3. Len(picking_tasks) \in Nat
    BY Numbers
<1>4. ASSUME NEW t \in Task, NEW u, u = [t EXCEPT !.runs = @ + 1]
      PROVE  u.kind = t.kind /\ u.complete = t.complete /\ u.runs = t.runs + 1
    BY <1>4 DEF Task
<1>5. ASSUME NEW i \in 1..Len(picking_tasks)
      PROVE  /\ picking_tasks'[i].kind = picking_tasks[i].kind
             /\ picking_tasks'[i].complete = picking_tasks[i].complete
             /\ picking_tasks'[i].runs =
                  IF i = tasks_taken + 1 THEN picking_tasks[i].runs + 1
                  ELSE picking_tasks[i].runs
  <2>1. CASE i = tasks_taken + 1
    <3>1. picking_tasks'[i] = [picking_tasks[i] EXCEPT !.runs = @ + 1]
        BY <1>1, <2>1
    <3> QED
        BY <1>2, <1>4, <2>1, <3>1
  <2>2. CASE i # tasks_taken + 1
      BY <1>1, <2>2
  <2> QED
      BY <2>1, <2>2
<1>6. Len(picking_tasks') = Len(picking_tasks)
    BY <1>1, <1>3
<1> QED
    BY <1>5, <1>6

\* A task is taken by the holder of the spin lock, and is the next one.
LEMMA Taken ==
  ASSUME PickInv, NEW h \in TaskWorker, TakeTask(h)
  PROVE  Counted' /\ Quiet' /\ RunsOnce'
<1> DEFINE n == Len(picking_tasks)
<1>1. /\ task_count \in Int /\ tasks_taken \in Nat /\ completed_tasks \in Nat
      /\ n \in Nat /\ Cardinality(Running) \in Nat
    BY Numbers, RunningFinite
<1>2. tasks_taken < task_count
    BY DEF TakeTask, PickInv, SpinLocked, Holding
<1>3. Active
  <2>1. ~Active => task_count <= tasks_taken
      BY Zenon DEF PickInv, Quiet
  <2> QED
      BY <1>1, <1>2, <2>1
<1>4. /\ task_count = n
      /\ completed_tasks + Cardinality(Running) = tasks_taken
      /\ \A g \in Running : id[g] \in 1..tasks_taken
      /\ \A i \in 1..n :
           /\ picking_tasks[i].kind = section
           /\ i > tasks_taken => picking_tasks[i].runs = 0
           /\ i <= tasks_taken => picking_tasks[i].complete \/ \E g \in Running : id[g] = i
      /\ main = "wake" => n = 0
      /\ main = "load count" => completed <= completed_tasks
    BY <1>3 DEF PickInv, Counted
<1>5. /\ UNCHANGED <<main, section, task_count, completed_tasks, completed>>
      /\ tasks_taken' = tasks_taken + 1
    BY DEF TakeTask, mainVars
<1>6. Active'
    BY <1>3, <1>5 DEF Active
<1>7. pc[h] = "take" /\ pc'[h] = "run" /\ \A g \in TaskWorker : g # h => pc'[g] = pc[g]
    BY GoneTo DEF TakeTask
<1>8. h \notin Running /\ Running' = Running \cup {h}
    BY <1>7 DEF Running
<1>9. Cardinality(Running') = Cardinality(Running) + 1
    BY <1>8, RunningFinite, FS_AddElement
<1>10. id'[h] = tasks_taken + 1 /\ \A g \in Running : id'[g] = id[g]
  <2>1. id \in [TaskWorker -> Nat]
      BY DEF PickInv, TypeOK, CountersOK
  <2> QED
      BY <1>8, <2>1 DEF TakeTask, Running
<1>11. /\ Len(picking_tasks') = n
       /\ \A i \in 1..n :
            /\ picking_tasks'[i].kind = picking_tasks[i].kind
            /\ picking_tasks'[i].complete = picking_tasks[i].complete
            /\ picking_tasks'[i].runs =
                 IF i = tasks_taken + 1 THEN picking_tasks[i].runs + 1 ELSE picking_tasks[i].runs
    BY TakenTask
<1>12. ASSUME NEW i \in 1..n
       PROVE  /\ picking_tasks'[i].kind = section
              /\ i > tasks_taken' => picking_tasks'[i].runs = 0
              /\ i <= tasks_taken' =>
                   picking_tasks'[i].complete \/ \E g \in Running' : id'[g] = i
  <2>1. picking_tasks'[i].kind = section
      BY <1>4, <1>11
  <2>2. ASSUME i > tasks_taken' PROVE picking_tasks'[i].runs = 0
    <3>1. i > tasks_taken /\ i # tasks_taken + 1
        BY <1>1, <1>5, <2>2
    <3>2. picking_tasks[i].runs = 0
        BY <1>4, <3>1
    <3> QED
        BY <1>11, <3>1, <3>2
  <2>3. ASSUME i <= tasks_taken', i # tasks_taken + 1
        PROVE  picking_tasks'[i].complete \/ \E g \in Running' : id'[g] = i
    <3>1. i <= tasks_taken
        BY <1>1, <1>5, <2>3
    <3>2. picking_tasks[i].complete \/ \E g \in Running : id[g] = i
        BY <1>4, <3>1
    <3> QED
        BY <1>8, <1>10, <1>11, <3>2
  <2>4. ASSUME i = tasks_taken + 1 PROVE \E g \in Running' : id'[g] = i
      BY <1>8, <1>10, <2>4
  <2> QED
      BY <2>1, <2>2, <2>3, <2>4
<1>13. ASSUME NEW i \in 1..n PROVE picking_tasks'[i].runs <= 1
  <2>1. picking_tasks[i].runs <= 1
      BY DEF PickInv
  <2>2. CASE i = tasks_taken + 1
    <3>1. i > tasks_taken
        BY <1>1, <2>2
    <3>2. picking_tasks[i].runs = 0
        BY <1>4, <3>1
    <3> QED
        BY <1>11, <2>2, <3>2
  <2>3. CASE i # tasks_taken + 1
      BY <1>11, <2>1, <2>3
  <2> QED
      BY <2>2, <2>3
<1>14. ASSUME NEW g \in Running' PROVE id'[g] \in 1..tasks_taken'
  <2>1. CASE g = h
      BY <1>1, <1>5, <1>10, <2>1
  <2>2. CASE g \in Running
    <3>1. id[g] \in 1..tasks_taken
        BY <1>4, <2>2
    <3> QED
        BY <1>1, <1>5, <1>10, <2>2, <3>1
  <2> QED
      BY <1>8, <2>1, <2>2
<1>15. /\ task_count' = Len(picking_tasks') /\ tasks_taken' <= task_count'
       /\ completed_tasks' + Cardinality(Running') = tasks_taken'
       /\ main' = "wake" => Len(picking_tasks') = 0
       /\ main' = "load count" => completed' <= completed_tasks'
  <2>1. task_count = n /\ completed_tasks + Cardinality(Running) = tasks_taken
      BY <1>4
  <2>2. completed_tasks + (Cardinality(Running) + 1) = tasks_taken + 1
      BY <1>1, <2>1
  <2>3. tasks_taken + 1 <= task_count
      BY <1>1, <1>2
  <2>4. main' = "wake" => Len(picking_tasks') = 0
      BY <1>4, <1>5, <1>11
  <2>5. main' = "load count" => completed' <= completed_tasks'
      BY <1>4, <1>5
  <2> QED
      BY <1>5, <1>9, <1>11, <2>1, <2>2, <2>3, <2>4, <2>5
<1>16. Counted'
    BY <1>11, <1>12, <1>14, <1>15, <1>5 DEF Counted
<1>17. RunsOnce'
    BY <1>11, <1>13 DEF RunsOnce
<1> QED
    BY <1>6, <1>16, <1>17 DEF Quiet

LEMMA CompletedTask ==
  ASSUME PickInv, NEW h \in TaskWorker, CompleteTask(h)
  PROVE  /\ Len(picking_tasks') = Len(picking_tasks)
         /\ \A i \in 1..Len(picking_tasks) :
              /\ picking_tasks'[i].kind = picking_tasks[i].kind
              /\ picking_tasks'[i].runs = picking_tasks[i].runs
              /\ picking_tasks[i].complete => picking_tasks'[i].complete
              /\ i = id[h] => picking_tasks'[i].complete
<1>1. picking_tasks' = [i \in 1..Len(picking_tasks) |->
        IF i = id[h] THEN [picking_tasks[i] EXCEPT !.complete = TRUE] ELSE picking_tasks[i]]
    BY Vector DEF CompleteTask, PickInv
<1>2. \A i \in 1..Len(picking_tasks) : picking_tasks[i] \in Task
    BY Vector DEF PickInv
<1>3. Len(picking_tasks) \in Nat
    BY Numbers
<1>4. ASSUME NEW t \in Task, NEW u, u = [t EXCEPT !.complete = TRUE]
      PROVE  u.kind = t.kind /\ u.complete /\ u.runs = t.runs
    BY <1>4 DEF Task
<1>5. ASSUME NEW i \in 1..Len(picking_tasks)
      PROVE  /\ picking_tasks'[i].kind = picking_tasks[i].kind
             /\ picking_tasks'[i].runs = picking_tasks[i].runs
             /\ picking_tasks[i].complete => picking_tasks'[i].complete
             /\ i = id[h] => picking_tasks'[i].complete
  <2>1. CASE i = id[h]
    <3>1. picking_tasks'[i] = [picking_tasks[i] EXCEPT !.complete = TRUE]
        BY <1>1, <2>1
    <3> QED
        BY <1>2, <1>4, <3>1
  <2>2. CASE i # id[h]
      BY <1>1, <2>2
  <2> QED
      BY <2>1, <2>2
<1>6. Len(picking_tasks') = Len(picking_tasks)
    BY <1>1, <1>3
<1> QED
    BY <1>5, <1>6

\* A task is complete: one runner less, one task more that nobody need run.
LEMMA Completed ==
  ASSUME PickInv, NEW h \in TaskWorker, CompleteTask(h)
  PROVE  Counted' /\ Quiet' /\ RunsOnce'
<1> DEFINE n == Len(picking_tasks)
<1>1. /\ tasks_taken \in Nat /\ completed_tasks \in Nat /\ completed \in Nat
      /\ Cardinality(Running) \in Nat
    BY Numbers, RunningFinite
<1>2. h \in Running
    BY DEF CompleteTask, Running
<1>3. Active
    BY <1>2, Zenon DEF PickInv, Quiet
<1>4. /\ task_count = n /\ tasks_taken <= task_count
      /\ completed_tasks + Cardinality(Running) = tasks_taken
      /\ \A g \in Running : id[g] \in 1..tasks_taken
      /\ \A i \in 1..n :
           /\ picking_tasks[i].kind = section
           /\ i > tasks_taken => picking_tasks[i].runs = 0
           /\ i <= tasks_taken => picking_tasks[i].complete \/ \E g \in Running : id[g] = i
      /\ main = "wake" => n = 0
      /\ main = "load count" => completed <= completed_tasks
    BY <1>3 DEF PickInv, Counted
<1>5. /\ UNCHANGED <<main, section, task_count, tasks_taken, completed>>
      /\ completed_tasks' = completed_tasks + 1
    BY DEF CompleteTask, mainVars
<1>6. Active'
    BY <1>3, <1>5 DEF Active
<1>7. pc'[h] = "look" /\ \A g \in TaskWorker : g # h => pc'[g] = pc[g]
    BY GoneTo DEF CompleteTask
<1>8. Running' = Running \ {h}
    BY <1>7 DEF Running
<1>9. Cardinality(Running') = Cardinality(Running) - 1
    BY <1>2, <1>8, RunningFinite, FS_RemoveElement
<1>10. \A g \in Running' : id'[g] = id[g] /\ g \in Running
  <2>1. id \in [TaskWorker -> Nat]
      BY DEF PickInv, TypeOK, CountersOK
  <2> QED
      BY <1>8, <2>1 DEF CompleteTask, Running
<1>11. /\ Len(picking_tasks') = n
       /\ \A i \in 1..n :
            /\ picking_tasks'[i].kind = picking_tasks[i].kind
            /\ picking_tasks'[i].runs = picking_tasks[i].runs
            /\ picking_tasks[i].complete => picking_tasks'[i].complete
            /\ i = id[h] => picking_tasks'[i].complete
    BY CompletedTask
<1>12. ASSUME NEW i \in 1..n, i <= tasks_taken
       PROVE  picking_tasks'[i].complete \/ \E g \in Running' : id'[g] = i
  <2>1. CASE picking_tasks[i].complete \/ i = id[h]
      BY <1>11, <2>1
  <2>2. CASE ~picking_tasks[i].complete /\ i # id[h]
    <3>1. PICK g \in Running : id[g] = i
        BY <1>4, <1>12, <2>2
    <3>2. g \in Running'
        BY <1>8, <2>2, <3>1
    <3> QED
        BY <1>10, <3>1, <3>2
  <2> QED
      BY <2>1, <2>2
<1>13. /\ completed_tasks' + Cardinality(Running') = tasks_taken'
       /\ main' = "load count" => completed' <= completed_tasks'
  <2>1. completed_tasks + Cardinality(Running) = tasks_taken
      BY <1>4
  <2>2. (completed_tasks + 1) + (Cardinality(Running) - 1) = tasks_taken
      BY <1>1, <2>1
  <2>3. ASSUME main = "load count" PROVE completed <= completed_tasks + 1
    <3>1. completed <= completed_tasks
        BY <1>4, <2>3
    <3> QED
        BY <1>1, <3>1
  <2> QED
      BY <1>5, <1>9, <2>2, <2>3
<1>14. \A g \in Running' : id'[g] \in 1..tasks_taken'
    BY <1>4, <1>5, <1>10
<1>15. /\ task_count' = Len(picking_tasks') /\ tasks_taken' <= task_count'
       /\ main' = "wake" => Len(picking_tasks') = 0
    BY <1>4, <1>5, <1>11
<1>16. \A i \in 1..Len(picking_tasks') :
         /\ picking_tasks'[i].kind = section'
         /\ i > tasks_taken' => picking_tasks'[i].runs = 0
    BY <1>4, <1>5, <1>11
<1>17. Counted'
    BY <1>5, <1>11, <1>12, <1>13, <1>14, <1>15, <1>16 DEF Counted
<1>18. RunsOnce'
    BY <1>11 DEF RunsOnce, PickInv
<1> QED
    BY <1>6, <1>17, <1>18 DEF Quiet

\* A fact about numbers that the provers take as a step of its own.
LEMMA Below == \A n \in Nat : \A i \in 1..n : i <= n
OBVIOUS

LEMMA Squeezed ==
  ASSUME NEW done \in Nat, NEW run \in Nat, NEW taken \in Nat, NEW n \in Nat,
         done + run = taken, taken <= n, n <= done
  PROVE  run = 0 /\ taken = n
OBVIOUS

\* WaitForTasks() ends: the count it compares with is no smaller than the number of tasks
\* taken, so there are no others and nobody runs one.
LEMMA Waited ==
  ASSUME PickInv, main = "load count", task_count = completed
  PROVE  /\ Running = {} /\ task_count <= tasks_taken
         /\ \A i \in 1..Len(picking_tasks) : picking_tasks[i].complete
<1> DEFINE n == Len(picking_tasks)
<1>1. /\ tasks_taken \in Nat /\ completed_tasks \in Nat /\ completed \in Nat
      /\ Cardinality(Running) \in Nat /\ n \in Nat
    BY Numbers, RunningFinite
<1>2. Active
    BY DEF Active
<1>3. /\ task_count = n /\ tasks_taken <= task_count
      /\ completed_tasks + Cardinality(Running) = tasks_taken
    BY <1>2 DEF PickInv, Counted
<1>4. completed <= completed_tasks
    BY <1>2 DEF PickInv, Counted
<1>5. \A i \in 1..n : i <= tasks_taken =>
        picking_tasks[i].complete \/ \E g \in Running : id[g] = i
    BY <1>2 DEF PickInv, Counted
<1>6. Cardinality(Running) = 0 /\ tasks_taken = n
  <2>1. tasks_taken <= n /\ n <= completed_tasks
      BY <1>3, <1>4
  <2>2. completed_tasks + Cardinality(Running) = tasks_taken
      BY <1>3
  <2> HIDE DEF n
  <2> QED
      BY <1>1, <2>1, <2>2, Squeezed
<1>7. Running = {}
    BY <1>6, RunningFinite, FS_EmptySet
<1>8. ASSUME NEW i \in 1..n PROVE picking_tasks[i].complete
  <2>1. i <= n
    <3>1. n \in Nat
        BY <1>1
    <3> QED
        BY Zenon, <3>1, Below
  <2>2. i <= tasks_taken
      BY <1>6, <2>1
  <2> QED
      BY <1>5, <1>7, <2>2
<1>9. task_count <= tasks_taken
    BY <1>1, <1>3, <1>6
<1> QED
    BY <1>7, <1>8, <1>9

LEMMA MainKept ==
  ASSUME PickInv, MainStep
  PROVE  Counted' /\ Quiet' /\ RunsOnce'
<1> USE DEF counters, mainVars, workerVars, Enter
<1>1. CASE SharePicking \/ ShareProcessing
    BY <1>1, AddingApart
<1>2. CASE ResetCompleted
  <2>1. ~Active /\ main = "reset completed"
      BY <1>2 DEF ResetCompleted, Active
  <2>2. Running = {} /\ task_count = 0 /\ tasks_taken = 0
      BY <2>1, Zenon DEF PickInv, Quiet
  <2>3. Running' = {} /\ Len(picking_tasks') = 0 /\ task_count' = 0 /\ tasks_taken' = 0
        /\ completed_tasks' = 0 /\ Active' /\ main' # "load count"
      BY <1>2, <2>2 DEF ResetCompleted, Running, Active
  <2>4. Cardinality(Running') = 0
      BY <2>3, FS_EmptySet
  <2>5. /\ tasks_taken' <= task_count'
        /\ completed_tasks' + Cardinality(Running') = tasks_taken'
        /\ task_count' = Len(picking_tasks')
    <3>1. 0 <= 0 /\ 0 + 0 = 0
        OBVIOUS
    <3> QED
        BY Zenon, <2>3, <2>4, <3>1
  <2>6. 1..Len(picking_tasks') = {}
    <3>1. 1..0 = {}
        OBVIOUS
    <3> QED
        BY <2>3, <3>1
  <2>7. Counted'
      BY <2>3, <2>5, <2>6 DEF Counted
  <2>8. Quiet' /\ RunsOnce'
      BY <2>3, <2>6 DEF Quiet, RunsOnce
  <2> QED
      BY <2>7, <2>8
<1>3. CASE WakeTaskWorkers \/ OwnWorkDone \/ LoadCompleted
  <2>1. /\ UNCHANGED <<counters, picking_tasks, section, pc, id>> /\ Active /\ Active'
        /\ main' # "wake"
        /\ main' = "load count" => completed' = completed_tasks
      BY <1>3 DEF WakeTaskWorkers, OwnWorkDone, LoadCompleted, Active
  <2>2. Running' = Running /\ completed_tasks \in Nat
      BY <2>1, Numbers DEF Running
  <2>3. ASSUME main' = "load count" PROVE completed' <= completed_tasks'
    <3>1. completed' = completed_tasks /\ completed_tasks' = completed_tasks
        BY <2>1, <2>3
    <3> QED
        BY <2>2, <3>1
  <2>4. Counted'
      BY <2>1, <2>2, <2>3 DEF PickInv, Counted
  <2> QED
      BY <2>1, <2>4 DEF PickInv, Quiet, RunsOnce
<1>4. CASE LoadCount
  <2>1. /\ UNCHANGED <<counters, picking_tasks, section, completed, pc, id>> /\ Active
        /\ main = "load count"
        /\ main' = IF task_count = completed THEN "collect" ELSE "load completed"
      BY <1>4 DEF LoadCount, Active
  <2>2. Running' = Running
      BY <2>1 DEF Running
  <2>3. CASE task_count = completed
    <3>1. ~Active' /\ main' = "collect"
        BY <2>1, <2>3 DEF Active
    <3> QED
        BY <2>1, <2>2, <2>3, <3>1, Waited DEF PickInv, Counted, Quiet, RunsOnce
  <2>4. CASE task_count # completed
    <3>1. Active' /\ main' = "load completed"
        BY <2>1, <2>4 DEF Active
    <3> QED
        BY <2>1, <2>2, <3>1 DEF PickInv, Counted, Quiet, RunsOnce
  <2> QED
      BY <2>3, <2>4
<1>5. CASE ResetCount \/ ResetTaken \/ ProcessInTasks \/ GatherAgain \/ FinishMinibatch
           \/ NextIteration \/ Destroy \/ AnnounceExit \/ JoinTaskWorkers
  <2>1. /\ UNCHANGED <<picking_tasks, pc>> /\ ~Active /\ ~Active' /\ main' # "collect"
    <3>1. CASE ResetCount \/ ResetTaken \/ FinishMinibatch
        BY <3>1 DEF ResetCount, ResetTaken, FinishMinibatch, Active
    <3>2. CASE ProcessInTasks \/ GatherAgain \/ NextIteration
        BY <3>2 DEF ProcessInTasks, GatherAgain, NextIteration, Active
    <3>3. CASE Destroy \/ AnnounceExit \/ JoinTaskWorkers
        BY <3>3 DEF Destroy, AnnounceExit, JoinTaskWorkers, Active
    <3> QED
        BY <1>5, <3>1, <3>2, <3>3
  <2>2. Running = {} /\ Running' = {}
      BY <2>1, Zenon DEF PickInv, Quiet, Running
  <2>3. /\ task_count \in Int /\ tasks_taken \in Nat /\ task_count <= tasks_taken
        /\ main = "reset taken" => task_count = 0
      BY <2>1, Numbers DEF PickInv, Quiet
  <2>4. /\ task_count' <= tasks_taken'
        /\ main' \in {"reset taken", "reset completed"} => task_count' = 0
        /\ main' = "reset completed" => tasks_taken' = 0
    <3>1. CASE ResetCount
      <4>1. task_count' = 0 /\ tasks_taken' = tasks_taken /\ main' = "reset taken"
          BY <3>1 DEF ResetCount
      <4>2. \A t \in Nat : 0 <= t
          OBVIOUS
      <4> QED
          BY Zenon, <2>3, <4>1, <4>2
    <3>2. CASE ResetTaken
      <4>1. task_count' = 0 /\ tasks_taken' = 0
          BY <2>3, <3>2 DEF ResetTaken
      <4> QED
          BY <4>1
    <3>3. CASE FinishMinibatch \/ Destroy
      <4>1. /\ task_count' = -1 /\ tasks_taken' = tasks_taken
            /\ main' \notin {"reset taken", "reset completed"}
          BY <3>3 DEF FinishMinibatch, Destroy
      <4>2. \A t \in Nat : -1 <= t
          OBVIOUS
      <4> QED
          BY Zenon, <2>3, <4>1, <4>2
    <3>4. CASE ProcessInTasks \/ GatherAgain \/ NextIteration
        BY <2>3, <3>4 DEF ProcessInTasks, GatherAgain, NextIteration
    <3>5. CASE AnnounceExit \/ JoinTaskWorkers
        BY <2>3, <3>5 DEF AnnounceExit, JoinTaskWorkers
    <3> QED
        BY <1>5, <3>1, <3>2, <3>3, <3>4, <3>5
  <2> QED
      BY <2>1, <2>2, <2>4 DEF PickInv, Counted, Quiet, RunsOnce
<1> QED
    BY <1>1, <1>2, <1>3, <1>4, <1>5 DEF MainStep

-----------------------------------------------------------------------------
(* The theorems.                                                           *)

\* The invariant holds in every state.
THEOREM PickInvariant == Spec => []PickInv
<1>1. PickInv /\ [Next]_vars => PickInv'
  <2> SUFFICES ASSUME PickInv, [Next]_vars PROVE PickInv'
      OBVIOUS
  <2>1. TypeOK'
      BY TasksKept, CountersKept, LocksKept, PlacesKept DEF PickInv, TypeOK
  <2>2. SpinLocked' /\ Counted' /\ Quiet' /\ RunsOnce'
    <3>1. CASE MainStep
        BY <3>1, SpinMain, MainKept
    <3>2. ASSUME NEW h \in TaskWorker, TaskWorkerStep(h)
          PROVE  SpinLocked' /\ Counted' /\ Quiet' /\ RunsOnce'
        BY <3>2, SpinWorker, WorkersApart, AddingApart, Taken, Completed DEF TaskWorkerStep
    <3>3. CASE UNCHANGED vars \/ \E h \in TaskWorker : SpuriousWakeUp(h)
      <4>1. /\ UNCHANGED <<main, section, counters, completed, picking_tasks>>
            /\ UNCHANGED <<pc, nta, id, task_taking_started>>
          BY <3>3 DEF vars, mainVars, workerVars, SpuriousWakeUp
      <4>2. Running' = Running /\ Holding' = Holding
          BY <4>1 DEF Running, Holding
      <4>3. Counted' /\ Quiet'
          BY <4>1, <4>2, SameTasks
      <4>4. SpinLocked'
          BY <4>1, <4>2 DEF PickInv, SpinLocked, counters
      <4> QED
          BY <4>1, <4>3, <4>4 DEF PickInv, RunsOnce
    <3> QED
        BY <3>1, <3>2, <3>3 DEF Next, Terminated
  <2> QED
      BY <2>1, <2>2 DEF PickInv, RunsOnce
<1> QED
    BY InitInv, <1>1, PTL DEF Spec

\* Every variable has its type.
THEOREM TypeCorrect == Spec => []TypeOK
<1>1. PickInv => TypeOK
    BY DEF PickInv
<1> QED
    BY <1>1, PickInvariant, PTL

\* search.cc:1454: a task is taken by one task worker, and is there; when WaitForTasks()
\* returns all are complete, those included that tasks split off.
THEOREM TasksOnce == Spec => []TasksRunOnce
<1>1. PickInv => TasksRunOnce
  <2> SUFFICES ASSUME PickInv PROVE TasksRunOnce
      OBVIOUS
  <2>1. DOMAIN picking_tasks = 1..Len(picking_tasks)
      BY Vector DEF PickInv
  <2>2. \A i \in DOMAIN picking_tasks : picking_tasks[i].runs <= 1
      BY <2>1 DEF PickInv
  <2>3. ASSUME NEW h \in TaskWorker, pc[h] = "run" PROVE id[h] \in DOMAIN picking_tasks
    <3>1. h \in Running
        BY <2>3 DEF Running
    <3>2. Active
        BY <3>1, Zenon DEF PickInv, Quiet
    <3>3. id[h] \in 1..tasks_taken /\ tasks_taken <= Len(picking_tasks)
        BY <3>1, <3>2 DEF PickInv, Counted
    <3> QED
        BY <2>1, <3>3, Numbers
  <2>4. main = "collect" => \A i \in DOMAIN picking_tasks : picking_tasks[i].complete
      BY <2>1 DEF PickInv, Quiet, Active
  <2> QED
      BY <2>2, <2>3, <2>4 DEF TasksRunOnce
<1> QED
    BY <1>1, PickInvariant, PTL

\* search.cc:1507: picking tasks run while PickNodesToExtend() holds nodes_mutex_ for
\* them, processing tasks when it does not.
THEOREM UnderLock == Spec => []WorkUnderLock
<1>1. PickInv => WorkUnderLock
  <2> SUFFICES ASSUME PickInv, NEW h \in TaskWorker, pc[h] = "run",
                      id[h] \in DOMAIN picking_tasks
               PROVE  /\ main \in {"share", "load completed", "load count"}
                      /\ picking_tasks[id[h]].kind = section
      BY DEF WorkUnderLock
  <2>1. id[h] \in 1..Len(picking_tasks)
      BY Vector DEF PickInv
  <2>2. h \in Running
      BY DEF Running
  <2>3. Active
      BY <2>2, Zenon DEF PickInv, Quiet
  <2>4. picking_tasks[id[h]].kind = section /\ (main = "wake" => Len(picking_tasks) = 0)
      BY <2>1, <2>3 DEF PickInv, Counted
  <2>5. main # "wake"
    <3>1. Len(picking_tasks) \in Nat
        BY Numbers
    <3> QED
        BY <2>1, <2>4, <3>1
  <2> QED
      BY <2>3, <2>4, <2>5 DEF Active
<1> QED
    BY <1>1, PickInvariant, PTL
==============================================================================
