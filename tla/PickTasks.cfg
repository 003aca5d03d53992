SPECIFICATION Spec
CONSTANTS
  TaskWorker = {t1, t2}
  RunsOnCpu = FALSE
  MAX_TASKS = 2
  MaxSections = 4
INVARIANTS
  TasksRunOnce
  WorkUnderLock
PROPERTIES
  TasksDone
