SPECIFICATION Spec
CONSTANTS
  Worker = {w1, w2}
  r = r
  a = a
  b = b
  c = c
  d = d
  Node <- MCNode
  Root = r
  Parent <- MCParent
  MaxCollisions = 2
  MaxVisits = 6
  SolidTreeThreshold = 2
  OutOfOrderEval = TRUE
SYMMETRY MCSymmetry
INVARIANTS
  FlightConserved
  ExtendedByOne
  VisitsAddUp
PROPERTIES
  SolidMovesNoHeldNode
