SPECIFICATION Spec
CONSTANTS
  Worker = {w1, w2}
  Watchdog = wd
  MaxConcurrentSearchers = 1
  InitialVisits = {0}
  RootMoves = 2
  LosingMoves = 0
  Move = {m1}
  NoMove = none
  VisitLimit = 2
  MaxBatch = 1
  MaxPlayouts = 2
PROPERTIES
  KeepsPromise
  WaitReturns
