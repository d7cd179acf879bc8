SPECIFICATION Spec
CONSTANTS
  User = {u1}
  Song = {s1}
  Request = {r1, r2}
  b0 = b0
  b1 = b1
  b2 = b2
  Body = {b0, b2}
  Scores <- MCScores
  Slots <- MCSlots
  Rating <- MCRating
  LastPlayed <- MCLastPlayed
  None = None
  TicksPerSecond = 5
  PageSize = 1
  UpdateLimit = 2
  MaxScore = 2
  Time = {5, 6, 7, 8, 10}
  MaxPlayers = 2
  MaxVersion = 2
SYMMETRY Symmetry
INVARIANTS TypeOK FingerprintSound ShownAndLinked
PROPERTIES CollectedNeverGoesBack
CHECK_DEADLOCK FALSE
