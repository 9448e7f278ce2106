SPECIFICATION RegistrySpec
CONSTANTS
  Users = {u1}
  Contents = {k1}
  Admin = admin
  None = None
  Requests = {q1, q2}
  Names = {n1, n2}
  MaxAgent = 2
  MaxPlatform = 2
CHECK_DEADLOCK FALSE
SYMMETRY Symmetry
INVARIANTS NamesAgree MemoriesGoWithAgent SchedulerFollows
