SPECIFICATION Spec
CONSTANTS
  Board <- MCBoard
  Move <- MCMove
  After <- MCAfter
  Zeroing <- MCZeroing
  Black <- MCBlack
  Stage <- MCStage
  GameState <- MCGameState
  Address = {1, 2, 3, 4, 5, 6, 7, 8, 9, 10, 11, 12}
  MaxVisits = 5
  MaxGarbage = 1
  SolidTreeThreshold = 3
  TwoFoldDraws = TRUE
  Rule50 = 7
  None = None
  StickyEndgames = TRUE
  Mated <- MCMated
VIEW MCView
CHECK_DEADLOCK FALSE
INVARIANTS OwnedOnce ParentsRight HeadIsPosition HistoryCounts VisitsAddUp BoundsJustified
PROPERTIES RepeatedInSearch
