SPECIFICATION Spec
CONSTANTS
  User = {u1, u2}
  Song = {s1}
  Request = {r1}
  b0 = b0
  b1 = b1
  b2 = b2
  Body = {b1}
  Scores <- MCScores
  Slots <- MCSlots
  Rating <- MCRating
  LastPlayed <- MCLastPlayed
  None = None
  TicksPerSecond = 5
  PageSize = 1
  UpdateLimit = 2
  MaxScore = 2
  Time = {5}
  MaxPlayers = 2
  MaxVersion = 2
SYMMETRY Symmetry
PROPERTY BatchMissesNobody
CHECK_DEADLOCK FALSE
