SPECIFICATION EngagementSpec
CONSTANTS
  Requests = {q1, q2}
  None = None
  Users = {u1, u2}
  Reader = reader
  Others = {u3}
  Admin = admin
  Contents = {k1}
  Options = {o1, o2}
  MaxPost = 3
  CommentIds = {d1}
  MaxUnread = 2
  MaxVersion = 2
CHECK_DEADLOCK FALSE
SYMMETRY Symmetry
INVARIANTS MarksExact BadgeCurrent RepostsExact
