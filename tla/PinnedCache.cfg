SPECIFICATION Spec
CONSTANTS
  Thread = {t1, t2}
  Key = {k1, k2, k3, k4}
  Value = {v1, v2, v3, v4, v5, v6}
  Capacities = {0, 1, 3}
  None = none
SYMMETRY MCSymmetry
INVARIANTS
  HeldIsAlive
  OrderMatchesTable
  AllocatedExact
