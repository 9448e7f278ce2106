SPECIFICATION Spec
CONSTANTS
  Comments = {c1, c2, c3}
  Requests = {p1, p2}
  Users = {u1}
  Contents = {k1}
  Admin = admin
  None = None
  MaxAdmin = 3
SYMMETRY Symmetry
CHECK_DEADLOCK FALSE
INVARIANTS Threaded CountersExact
PROPERTY RepliesSurvive
