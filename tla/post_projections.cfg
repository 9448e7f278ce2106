SPECIFICATION Spec
CONSTANTS
  Posts = {p1}
  Topics = {t1}
  Requests = {q1, q2}
  Users = {u1}
  Contents = {k1}
  Admin = admin
  None = None
CHECK_DEADLOCK FALSE
INVARIANTS SearchAgrees TopicPagesExact
PROPERTY CountsCatchUp
