SPECIFICATION HashSpec
CONSTANTS
  Thread = {t1, t2}
  Key = {3, 5, 7, 8, 11}
  Value = {v1, v2, v3, v4, v5, v6}
  Capacities = {0, 1, 2, 3}
  None = none
SYMMETRY MCSymmetry
INVARIANTS
  ProbingEnds
PROPERTIES
  ImplementsPinnedCache
