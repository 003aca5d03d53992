\* Networks are destroyed at last.
SPECIFICATION Spec
CONSTANTS
  c1 = c1
  c2 = c2
  c3 = c3
  Computation = {c1, c2, c3}
  Size <- MCSize
  Worker = {w1, w2}
  MaxBatch <- MCMaxBatch
  DemuxWorker = {v1, v2}
  MinimumSplitSize = 2
  None = none
CHECK_DEADLOCK FALSE
INVARIANTS
  AnsweredWithOwn
  ChildrenStillWait
  ResultsAreOwn
  PartsStillWanted
PROPERTIES
  CallersReturn
  DestructorReturns
