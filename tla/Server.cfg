SPECIFICATION Spec
CONSTANTS
  i1 = i1
  i2 = i2
  mas = mas
  ult = ult
  t1 = t1
  t2 = t2
  dA = dA
  dB = dB
  c1 = c1
  c2 = c2
  p1 = p1
  p2 = p2
  e1 = e1
  e2 = e2
  Idx = {i1, i2}
  Diff = {mas, ult}
  Title = {t1, t2}
  Designer = {dA, dB}
  None = None
  SmallTable = 2
  ManyMoves = 10
  MovePercent = 20
  Feed <- MCFeed
  Date = {1, 2}
  Today <- MCToday
  SongEdit <- MCSongEdit
  ChartEdit <- MCChartEdit
  WorldsendEdit <- MCWorldsendEdit
  Keep = Keep
  MaxRuns = 2
  MaxEdits = 2
  Client = {c1, c2}
  Nobody = Nobody
  Notice = {"off", "on"}
  Off = "off"
  MaxCommits = 2
  Runner = {p1, p2}
  Exporter = {e1}
  NoRunner = NoRunner
  NoBound = NoBound
  MaxChanges = 2
  PercentScale = 10
  RatedChart <- MCRatedChart
  ReleasedAt <- MCReleasedAt
  Unreleased = Unreleased
  OperationalDay = 2
  VersionDay = {2, 3}
  RatedPlay <- MCRatedPlay
  RatedConst = {130, 148}
  BestMax = 1
  NewMax = 1
  CandidateMax = 1
  Unranked = Unranked
  MaxRatingSteps = 1
  GoalChart <- MCGoalChart
  SongDay <- MCSongDay
  NoDay = NoDay
  FirstConst <- MCFirstConst
  EditedChart <- MCEdited
  EditedConst = {130, 131}
  GameVersion = {"first", "second", "third"}
  GameDay = {1, 3, 5}
  FirstVersions <- MCFirstVersions
  VersionId = {1, 2, 3, 4}
  GoalInput <- MCGoalInput
  NoGoal = NoGoal
  MaxGoalEdits = 2
  SlotChart <- MCSlotChart
  Players = {1, 2}
  PageLimit = {1, 2}
  MaxPublished = 1
  MaxShelved = 1
  Run = {e1, e2}
  NoRun = NoRun
  StatsLevel = {mas}
  MaxAttempts = 2
  MaxTableEdits = 1
  MaxFetches = 1
  Source = {"official", "additional", "mainframe", "st1027"}
  Attempts = 2
  f1 = f1
  f2 = f2
  CourseIdx = {1, 2}
  CourseName = {"a", "b"}
  CourseSheet <- MCCourseSheet
  CourseEditor = {f1, f2}
  NoCourse = NoCourse
  MaxCourseSecond = 2
  MaxCourseTxs = 3
INVARIANTS SongBatchHolds CachesSound StatsHold RatingsHold GoalFilesHold PagesHold ExportHolds
PROPERTIES ManualKept RatingNeverFalls GoalsAttainable
CHECK_DEADLOCK FALSE
