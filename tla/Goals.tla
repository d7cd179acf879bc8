-------------------------------- MODULE Goals --------------------------------
(***************************************************************************)
(* What a goal says: the charts it is about, what is to be reached on      *)
(* them, how that is checked against the master, and how a goal is taken   *)
(* along in a file.  Its place in lists and the limit of goals are in      *)
(* UserResources; here is one goal of one user.                            *)
(*                                                                         *)
(* Numbers are in the smallest unit that is accepted: tenths of a          *)
(* constant, hundredths of a rating, thousandths of OVER POWER and of a    *)
(* percent.  A difficulty stands for a genre too, which is written the     *)
(* same way; name folders, titles and lamps have no content.  Goals that   *)
(* count ranks or lamps are bounded like those that count scores.          *)
(***************************************************************************)
EXTENDS Rating, FiniteSets, Sequences
LOCAL INSTANCE Functions
LOCAL INSTANCE FiniteSetsExt
LOCAL INSTANCE SequencesExt

CONSTANTS
  GoalChart,       \* <<song, difficulty's id>>
  SongDay,         \* [song -> day of its release, NoDay without one]
  NoDay,
  FirstConst,      \* [chart -> its constant at the beginning]
  EditedChart,     \* charts that are edited
  EditedConst,     \* the constants they get
  GameVersion, GameDay,  \* names and days of versions
  FirstVersions,   \* [id -> [name, at]] at the beginning
  VersionId,
  GoalInput,       \* what clients send
  NoGoal,
  MaxGoalEdits     \* bound: edits of the master

GoalSong == {c[1] : c \in GoalChart}
Difficulty == 1 .. 5
ChartConstMin == 10
ChartConstMax == 160
GoalType == {"score_count", "rating_count", "rainbow_count", "avg_score", "total_score",
             "overpower_value", "overpower_percent"}

ASSUME GoalsAssumption ==
  /\ GoalChart \subseteq GoalSong \X Difficulty
  /\ \A c \in GoalChart : FirstConst[c] \in ChartConstMin .. ChartConstMax
  /\ EditedChart \subseteq GoalChart /\ EditedConst \subseteq ChartConstMin .. ChartConstMax
  /\ GameDay \subseteq Nat /\ VersionId \subseteq Nat /\ DOMAIN FirstVersions \subseteq VersionId
  /\ MaxGoalEdits \in Nat

VARIABLES
  goal,        \* the row, NoGoal without one
  checked,     \* a goal that is checked and not yet written
  goalFile,    \* the goal in the user's last file
  goalMaster,  \* charts, deleted songs, versions and their next id
  goalEdits

goalsVars == <<goal, checked, goalFile, goalMaster, goalEdits>>

GoalsTypeOK ==
  /\ goal # NoGoal => goal.type \in GoalType
  /\ goalMaster.consts \in [GoalChart -> [const : Nat, unknown : BOOLEAN]]
  /\ goalMaster.shut \subseteq GoalSong
  /\ DOMAIN goalMaster.versions \subseteq VersionId
  /\ \A x \in DOMAIN goalMaster.versions :
       goalMaster.versions[x] \in [name : GameVersion, at : GameDay]

GoalsInit ==
  /\ goal = NoGoal /\ checked = NoGoal /\ goalFile = NoGoal /\ goalEdits = 0
  /\ goalMaster = [consts |-> [c \in GoalChart |-> [const |-> FirstConst[c], unknown |-> FALSE]],
                   shut |-> {}, versions |-> FirstVersions,
                   nextId |-> Max(DOMAIN FirstVersions \cup {0}) + 1]
-----------------------------------------------------------------------------
\* The charts of a goal

Versions == goalMaster.versions
ConstOf(c) == goalMaster.consts[c].const

\* findNextVersionReleasedAt: a version lasts until the next one.
InVersion(c, x) ==
  LET later == {Versions[y].at : y \in DOMAIN Versions} \cap {d \in GameDay : d > Versions[x].at}
  IN /\ SongDay[c[1]] # NoDay /\ SongDay[c[1]] >= Versions[x].at
     /\ later # {} => SongDay[c[1]] < Min(later)

\* Mutant: of charts with the same constant, none is above the other.
Above_ByConst(d, c) == d[1] = c[1] /\ ConstOf(d) > ConstOf(c)

Above(d, c) ==
  /\ d[1] = c[1]
  /\ \/ ConstOf(d) > ConstOf(c)
     \/ ConstOf(d) = ConstOf(c) /\ d[2] > c[2]

\* The charts that can have a rating, at the theoretical score.
Reaches(c, rating) == ~goalMaster.consts[c].unknown /\ ConstOf(c) * 10 + 215 >= rating

\* buildGoalTargetStatsQuery
Targets(g) ==
  LET a == g.attributes
      has(key) == key \in DOMAIN a
  IN {c \in GoalChart :
        /\ c[1] \notin goalMaster.shut
        /\ has("diff") => c[2] \in Range(a.diff.ids)
        /\ has("ver") => \E x \in Range(a.ver.ids) : InVersion(c, x)
        /\ has("const") => a.const.min <= ConstOf(c) /\ ConstOf(c) <= a.const.max
        /\ g.type = "rating_count" => Reaches(c, g.params.rating)
        /\ has("op") => ~ \E d \in GoalChart : Above(d, c)}

\* Of their songs, those that have a chart of each difficulty up to MASTER.
RainbowSongs(charts) ==
  {s \in {c[1] : c \in charts} :
     Cardinality({d \in GoalChart : d[1] = s /\ d[2] <= 4}) = 4}

TotalConst(charts) == MapThenSumSet(ConstOf, charts)
-----------------------------------------------------------------------------
\* Validation

\* validateAttributes
ValidAttributes(type, a) ==
  LET has(key) == key \in DOMAIN a
  IN /\ type = "rainbow_count" => ~has("diff") /\ ~has("const") /\ ~has("op")
     /\ has("op") => ~has("diff")
     /\ has("diff") => a.diff.ids # <<>> /\ Range(a.diff.ids) \subseteq Difficulty
     /\ has("ver") => a.ver.ids # <<>> /\ Range(a.ver.ids) \subseteq DOMAIN Versions
     /\ has("const") => /\ ChartConstMin <= a.const.min /\ a.const.max <= ChartConstMax
                        /\ a.const.min <= a.const.max

\* parseIntOrIntSlice, normalizeIntOrSlice: in order, each once, and one without an array.
Normal(given) ==
  LET ids == SetToSortSeq(Range(given.ids), <)
  IN [array |-> Len(ids) # 1, ids |-> ids]

NormalAttributes(a) ==
  [key \in DOMAIN a |-> IF key \in {"diff", "ver"} THEN Normal(a[key]) ELSE a[key]]

\* At most one way to say how much is to be reached.
ValidAmount(p, ways) ==
  /\ Cardinality(DOMAIN p \cap ways) <= 1
  /\ "count" \in DOMAIN p => p.count >= 1
  /\ "remaining" \in DOMAIN p => p.remaining >= 0
  /\ "percent" \in DOMAIN p => 0 <= p.percent /\ p.percent <= 100000

\* validateAchievementParams
ValidParams(type, p) ==
  LET keys == CASE type = "score_count" -> {"score", "count", "remaining", "percent"}
                [] type = "rating_count" -> {"rating", "count", "remaining", "percent"}
                [] type = "rainbow_count" -> {"count", "remaining", "percent"}
                [] type = "avg_score" -> {"score"}
                [] type = "overpower_percent" -> {"total"}
                [] OTHER -> {"total", "remaining", "percent"}
      needed == CASE type \in {"score_count", "avg_score"} -> {"score"}
                  [] type = "rating_count" -> {"rating"}
                  [] type = "overpower_percent" -> {"total"}
                  [] OTHER -> {}
  IN /\ needed \subseteq DOMAIN p /\ DOMAIN p \subseteq keys
     /\ ValidAmount(p, keys \ needed)
     /\ "score" \in DOMAIN p => 0 <= p.score /\ p.score <= TheoreticalScore
     /\ "rating" \in DOMAIN p => p.rating >= 1
     /\ "total" \in DOMAIN p => p.total >= 0
     /\ type = "overpower_percent" => p.total <= 100000

\* validateGaugeStart
ValidGauge(g) ==
  /\ g.gauge >= 0
  /\ g.type = "overpower_percent" => g.gauge <= 100000
  /\ g.type = "avg_score" => g.gauge <= TheoreticalScore

\* validateInputStatic
StaticallyValid(g) ==
  /\ g.type \in GoalType /\ ValidAttributes(g.type, g.attributes)
  /\ ValidParams(g.type, g.params) /\ ValidGauge(g)

Normalized(g) ==
  [g EXCEPT !.attributes = NormalAttributes(g.attributes),
            !.apply = g.apply /\ g.gauge > 0 /\ g.type # "avg_score"]

\* What the amount of a goal is at most, in its unit.
AmountBound(g) ==
  LET n == Cardinality(Targets(g))
  IN CASE g.type = "rainbow_count" -> Cardinality(RainbowSongs(Targets(g)))
       [] g.type = "total_score" -> n * TheoreticalScore
       [] g.type = "overpower_value" -> (TotalConst(Targets(g)) + 20 * n) * 500 + 5000 * n
       [] OTHER -> n

\* validateDynamicUpperBoundWithStats
WithinBounds(g) ==
  g.type \notin {"avg_score", "overpower_percent"} =>
    /\ \A key \in DOMAIN g.params \cap {"count", "remaining", "total"} :
         g.params[key] <= AmountBound(g)
    /\ g.type = "rating_count" => Targets(g) # {}

Accepted(g) == StaticallyValid(g) /\ WithinBounds(g)
-----------------------------------------------------------------------------
\* Create and Update: the check comes before the transaction.
CheckGoal(input) ==
  /\ checked = NoGoal /\ Accepted(input)
  /\ checked' = Normalized(input)
  /\ UNCHANGED <<goal, goalFile, goalMaster, goalEdits>>

SaveGoal ==
  /\ checked # NoGoal
  /\ goal' = checked /\ checked' = NoGoal
  /\ UNCHANGED <<goalFile, goalMaster, goalEdits>>

RemoveGoal ==
  /\ goal # NoGoal
  /\ goal' = NoGoal
  /\ UNCHANGED <<checked, goalFile, goalMaster, goalEdits>>
-----------------------------------------------------------------------------
\* Files name versions, rows hold their ids.

\* An id that is gone has no name.
Exportable(g) ==
  "ver" \in DOMAIN g.attributes => Range(g.attributes.ver.ids) \subseteq DOMAIN Versions

\* externalizeGoalAttributes
Externalized(g) ==
  IF "ver" \notin DOMAIN g.attributes THEN g
  ELSE LET given == g.attributes.ver
       IN [g EXCEPT !.attributes.ver.ids =
             [k \in DOMAIN given.ids |-> Versions[given.ids[k]].name]]

IdOf(name) == CHOOSE x \in DOMAIN Versions : Versions[x].name = name
Named == {Versions[x].name : x \in DOMAIN Versions}

\* Mutant: only the first name of an array is looked up.
Internalized_First(f) ==
  IF "ver" \notin DOMAIN f.attributes THEN f
  ELSE [f EXCEPT !.attributes.ver = [array |-> FALSE, ids |-> <<IdOf(f.attributes.ver.ids[1])>>]]

\* internalizeGoalAttributes, internalizeTransferredGoalAttributes
Internalized(f) ==
  IF "ver" \notin DOMAIN f.attributes THEN f
  ELSE LET given == f.attributes.ver
       IN [f EXCEPT !.attributes.ver.ids = [k \in DOMAIN given.ids |-> IdOf(given.ids[k])]]

\* ValidateTransferredGoals
Importable(f) ==
  /\ "ver" \in DOMAIN f.attributes => Range(f.attributes.ver.ids) \subseteq Named
  /\ Accepted(Internalized(f))

\* Export
ExportGoal ==
  /\ goal # NoGoal /\ Exportable(goal)
  /\ goalFile' = Externalized(goal)
  /\ UNCHANGED <<goal, checked, goalMaster, goalEdits>>

\* Import, into a user without goals: the file's goal is written as it is.
ImportGoal ==
  /\ goalFile # NoGoal /\ goal = NoGoal /\ Importable(goalFile)
  /\ goal' = Internalized(goalFile)
  /\ UNCHANGED <<checked, goalFile, goalMaster, goalEdits>>
-----------------------------------------------------------------------------
\* What administrators and batches do to the master

EditsMaster(master) ==
  /\ goalEdits < MaxGoalEdits /\ goalEdits' = goalEdits + 1
  /\ goalMaster' = master
  /\ UNCHANGED <<goal, checked, goalFile>>

EditConst ==
  \E c \in EditedChart, k \in EditedConst, unknown \in BOOLEAN :
    EditsMaster([goalMaster EXCEPT !.consts[c] = [const |-> k, unknown |-> unknown]])

SetSongShut ==
  \E s \in GoalSong :
    EditsMaster([goalMaster EXCEPT
      !.shut = IF s \in goalMaster.shut THEN goalMaster.shut \ {s} ELSE goalMaster.shut \cup {s}])

\* versionUsecaseImpl.Create: a new id, and a day that no version has.
AddVersion ==
  \E name \in GameVersion \ Named, day \in GameDay :
    LET id == goalMaster.nextId
    IN /\ \A x \in DOMAIN Versions : Versions[x].at # day
       /\ id \in VersionId
       /\ EditsMaster([goalMaster EXCEPT
            !.nextId = id + 1,
            !.versions = [x \in DOMAIN Versions \cup {id} |->
                            IF x = id THEN [name |-> name, at |-> day] ELSE Versions[x]]])

\* Rename
RenameVersion ==
  \E x \in DOMAIN Versions, name \in GameVersion \ Named :
    EditsMaster([goalMaster EXCEPT !.versions[x].name = name])

\* Delete: the latest, when no song is of it.  Goals are not looked at.
DropVersion ==
  \E x \in DOMAIN Versions :
    /\ \A y \in DOMAIN Versions : Versions[y].at <= Versions[x].at
    /\ \A s \in GoalSong : SongDay[s] = NoDay \/ SongDay[s] < Versions[x].at
    /\ EditsMaster([goalMaster EXCEPT !.versions = Restrict(Versions, DOMAIN Versions \ {x})])

GoalsNext ==
  \/ \E input \in GoalInput : CheckGoal(input)
  \/ SaveGoal \/ RemoveGoal \/ ExportGoal \/ ImportGoal
  \/ EditConst \/ SetSongShut \/ AddVersion \/ RenameVersion \/ DropVersion

GoalsSpec == GoalsInit /\ [][GoalsNext]_goalsVars
-----------------------------------------------------------------------------
\* The most that the charts of a goal can give, by the rating service's own formulas.
Best(g) ==
  LET charts == Targets(g)
  IN CASE g.type = "total_score" -> MapThenSumSet(LAMBDA c : TheoreticalScore, charts)
       [] g.type = "overpower_value" -> MapThenSumSet(LAMBDA c : CalcSongMaxOP(ConstOf(c)), charts)
       [] g.type = "rating_count" ->
            Cardinality({c \in charts :
              CalcSingleRating(TheoreticalScore, ConstOf(c)) >= g.params.rating})
       [] g.type = "rainbow_count" ->
            Cardinality({s \in GoalSong :
              /\ \E c \in charts : c[1] = s
              /\ \A k \in 1 .. 4 : <<s, k>> \in GoalChart})
       [] OTHER -> Cardinality(charts)

\* When a goal is accepted, it can be reached: the bounds that the query computes agree
\* with what the rating service gives for the theoretical score, and the OP target of a
\* song is one chart, with the song's maximum (validateDynamicUpperBoundWithStats,
\* CalcTheoreticalOverpowerTotal, buildGoalTargetStatsQuery).
GoalsAttainable ==
  [][checked' # checked /\ checked' # NoGoal =>
       /\ \A key \in DOMAIN checked'.params \cap {"count", "total", "remaining"} :
            checked'.type \notin {"avg_score", "overpower_percent"} =>
              checked'.params[key] <= Best(checked')
       /\ "op" \in DOMAIN checked'.attributes =>
            \A c, d \in GoalChart :
              c[1] = d[1] /\ c \in Targets(checked') =>
                /\ CalcSongMaxOP(ConstOf(d)) <= CalcSongMaxOP(ConstOf(c))
                /\ d \in Targets(checked') => c = d]_goalsVars

\* Whatever has happened to the master, a goal is valid as it is stored and can be taken
\* along, unless a version that it names is gone; and the file says the same: it is
\* accepted where the goal itself would be, is about the same charts, and gives the same
\* file again (externalizeGoalAttributes, ValidateTransferredGoals, importSnapshot).
GoalFilesSound ==
  goal # NoGoal /\ Exportable(goal) =>
    LET f == Externalized(goal)
        back == Internalized(f)
    IN /\ StaticallyValid(goal)
       /\ Importable(f) = WithinBounds(goal)
       /\ Targets(back) = Targets(goal) /\ AmountBound(back) = AmountBound(goal)
       /\ Externalized(back) = f
=============================================================================
