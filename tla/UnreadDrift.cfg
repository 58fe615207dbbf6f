SPECIFICATION Spec
CONSTANTS
  Users = {u1, u2}
  Requests = {r1, r2}
  MaxTime = 3
  Ahead = 1
SYMMETRY MCSymmetry
INVARIANT Exact
CHECK_DEADLOCK FALSE
