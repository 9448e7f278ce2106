SPECIFICATION SafetySpec
CONSTANTS
  Contents = {c1, c2}
  MaxEvent = 2
  Categories = {"publish", "account"}
  Content = "publish"
  Account = "account"
  Reviews = {r1}
  Admin = admin
  None = None
  PermanentAt = 2
  Author = author
  Users = {u1}
  MaxReport = 2
  MaxEscalation = 2
  Requests = {t1, t2}
  EscalationLimit = 2
CHECK_DEADLOCK FALSE
SYMMETRY Symmetry
INVARIANTS CountsExact RightedIsReversed ReportsCounted
PROPERTY DecidedOnce
