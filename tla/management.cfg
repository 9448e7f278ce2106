SPECIFICATION ManagementSpec
CONSTANTS
  Users = {u1}
  Contents = {k1}
  Admin = admin
  None = None
  Requests = {q1, q2}
  MaxAdmin = 2
  MaxChange = 2
  MaxLogin = 2
  Agents = {a1, a2}
  MaxModel = 2
  MaxVersion = 2
  MaxAssign = 2
  Scales = {1, 3}
  Offsets = {4}
  MaxClock = 2
  MaxStarts = 2
  MaxChanges = 1
  MaxMishaps = 1
CHECK_DEADLOCK FALSE
SYMMETRY Symmetry
INVARIANTS ProjectionAgrees NoFutureRecords SuperAdminRemains PermissionsComeFromSupers
           ModelsSettled
