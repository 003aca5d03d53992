SPECIFICATION Spec
CONSTANTS
  Worker = {w1, w2}
  Watchdog = wd
  MaxConcurrentSearchers = 0
  InitialVisits = {0}
  RootMoves = 3
  LosingMoves = 0
  Move = {m1}
  NoMove = none
  VisitLimit = 9
  MaxBatch = 1
  MaxPlayouts = 2
INVARIANT PruningJustified
