SPECIFICATION AccessSpec
CONSTANTS
  Users = {u1}
  Contents = {k1}
  Admin = admin
  None = None
  Requests = {q1, q2}
  Clients = {"desktop"}
  MaxAttempts = 1
  DailyLimit = 2
  MaxCode = 3
  MaxSession = 2
  MaxAccount = 2
  MaxToken = 1
  MaxTopic = 3
  MaxGeneration = 1
  MaxRounds = 1
  MaxItem = 4
  PageSize = 2
  FirstCount = 1
  MaxCount = 3
  Pool = 3
  Weight = 2
  MaxActs = 1
  MaxMoves = 1
  MaxFile = 2
  MaxText = 1
CHECK_DEADLOCK FALSE
SYMMETRY Symmetry
INVARIANTS CodesLimited SessionsFollowPassword InvitationAccounted TopicsInOrder
           ToldRight AvatarsKept
PROPERTY EndedForGood
