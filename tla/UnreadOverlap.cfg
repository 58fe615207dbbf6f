SPECIFICATION Spec
CONSTANTS
  Users = {u1, u2}
  Requests = {r1, r2, r3}
  MaxTime = 3
  Ahead = 1
SYMMETRY MCSymmetry
INVARIANTS
  NeverTooMany
  ExactInSeries
PROPERTY ReadReconciles
CHECK_DEADLOCK FALSE
