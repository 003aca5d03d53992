\* A batch is played to its end.
SPECIFICATION Spec
CONSTANTS
  OpeningPly <- MCOpeningPly
  MaxPly = 5
CHECK_DEADLOCK FALSE
PROPERTY MovesOfOwnPosition
