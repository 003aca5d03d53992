SPECIFICATION Spec
CONSTANTS
  Worker = {w1, w2}
  Watchdog = wd
  MaxConcurrentSearchers = 1
  InitialVisits = {0, 2}
  RootMoves = 2
  LosingMoves = 0
  Move = {m1, m2}
  NoMove = none
  VisitLimit = 2
  MaxBatch = 2
  MaxPlayouts = 2
SYMMETRY MCSymmetry
INVARIANTS
  BestmoveOnceAndLast
  BestmoveIsAMove
PROPERTIES
  VisitLimitReached
