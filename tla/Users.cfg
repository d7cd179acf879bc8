SPECIFICATION UsersSpec
CONSTANTS
  r1 = r1
  r2 = r2
  v1 = v1
  v2 = v2
  f1 = f1
  f2 = f2
  u1 = u1
  u2 = u2
  u3 = u3
  x1 = x1
  x2 = x2
  x3 = x3
  q1 = q1
  q2 = q2
  m1 = m1
  m2 = m2
  b1 = b1
  w1 = w1
  k1 = k1
  gone = gone
  n1 = n1
  n2 = n2
  n3 = n3
  ga = ga
  gb = gb
  gc = gc
  j1 = j1
  j2 = j2
  d1 = d1
  d2 = d2
  d3 = d3
  d4 = d4
  sa = sa
  sb = sb
  sc = sc
  MaxUserID = 3
  User = {1, 2, 3}
  Request = {r1, r2}
  None = None
  MaxOutgoing = 1
  UserRequest = {v1, v2}
  GoalId = {1, 2, 3, 4}
  GroupId = {1, 2}
  FilterId = {1, 2}
  TokenId = {1, 2}
  Fav = {f1, f2}
  FilterValue = {"new"}
  NoGroup = 0
  Transfer <- MCTransfer
  MaxGoals = 3
  MaxGroups = 2
  MaxFilters = 1
  MaxTokens = 1
  MaxFavorites = 1
  MaxRows = 4
  UserId = {u1, u2, u3}
  Uid = {x1, x2, x3}
  Role = {"admin", "player"}
  Admin = "admin"
  Player = "player"
  NoUid = NoUid
  NoUser = NoUser
  Caller = {q1, q2}
  FirstUsers <- MCFirstUsers
  MaxCalls = 4
  Chart = {m1, m2, b1, w1}
  Worldsend = {w1}
  HasHistory = {m1, m2, w1}
  Course = {k1}
  Body <- MCBody
  CollectTime = {4, 5, 8, 12}
  TicksPerSecond = 4
  SlotLimit <- MCLimit
  MaxHistory = 1
  MaxMetrics = 1
  MaxUpdates = 2
  Absent = Absent
  Deletable = {m1}
  NoFile = NoFile
  MaxFiles = 2
  Registrant = {"player 1", "player 2"}
  HonorBody <- MCHonorBody
  HonorEdit <- MCHonorEdit
  NoImage = NoImage
  Stored = Stored
  MaxHonors = 3
  MaxBodies = 2
  Ranked = {1, 2, 3}
  RankedChart = {j1, j2}
  WorldsendChart = {j2}
  RankedScore = {0, 1}
  AdminLimit = 2
  MaxRankingSteps = 4
  ViewChart = {d1, d2, d3, d4}
  Catalog <- MCCatalog
  Registered <- MCRegistered
  CollectedAt = {1, 2, 3}
  MaxViewSteps = 2
  PercentScale = 10
  ApiLimit <- MCApiLimit
  LimitOf <- MCLimitOf
  RateWindow = 1
  MaxClock = 2
  MaxRequests = 2
  MaxGateChanges = 1
INVARIANTS UsersTypeOK Mutual LimitHolds NoDeadlock ResourcesSound AdminRemains LoginKept
   ReadyForNext  TransferSound RankingsHold  GateHolds
SYMMETRY MCSymmetry
CHECK_DEADLOCK FALSE
