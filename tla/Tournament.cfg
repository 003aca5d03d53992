\* A tournament ends when it is destroyed.
SPECIFICATION Spec
CONSTANTS
  Worker = {w1, w2}
  Modes <- MCModes
  Openings = 2
  Mirrored = TRUE
  Outcome = {"WHITE_WON"}
  MaxPlies = 1
  MaxGames = 2
CHECK_DEADLOCK FALSE
INVARIANTS
  ResultsMatchReports
  FinalReportComplete
  OnlyAbortLeavesUndecided
PROPERTIES
  MovesOfFinishedSearches
  WaitReturns
