SPECIFICATION Spec
CONSTANTS
  Comments = {c1, c2, c3}
  Requests = {p1}
  Users = {u1}
  Contents = {k1}
  Admin = admin
  None = None
  MaxAdmin = 4
SYMMETRY Symmetry
CHECK_DEADLOCK FALSE
INVARIANT RestoredCountersExact
