---------------------------- MODULE Registration ----------------------------
(***************************************************************************)
(* What a registration writes for its player: the records of charts with   *)
(* their slots, the history of each chart, the results of courses and the  *)
(* history of the official metrics.  PlayerData models how registrations   *)
(* and other writers interleave; here a registration is one step, as it    *)
(* holds the user's row from its first statement to its commit, and the    *)
(* subject is what a sequence of bodies leaves behind.                     *)
(*                                                                         *)
(* Times in bodies are ticks; the columns collected, at and the keys of    *)
(* both histories hold whole seconds.  The charts of WORLD'S END have      *)
(* tables of their own that are written the same way: they are charts      *)
(* that have a history and no slot.  The honors are in Honors.             *)
(***************************************************************************)
EXTENDS Integers, Sequences, FiniteSets, Functions

CONSTANTS
  Chart, Worldsend,    \* charts; those of WORLD'S END
  HasHistory,          \* charts of a difficulty with a history
  Course,
  Body,                \* bodies that clients send
  CollectTime,         \* their updated_at, in ticks
  TicksPerSecond,
  SlotLimit,           \* how many records a slot holds
  MaxHistory,          \* MaxScoreHistoryEntriesPerChart
  MaxMetrics,          \* MaxMetricHistoryEntriesPerPlayer
  MaxUpdates,          \* info.PlayerUpdateHistoryLimit
  Absent

Slot == {"none", "best", "new", "best_candidate", "new_candidate"}

ASSUME RegistrationAssumption ==
  /\ Worldsend \subseteq HasHistory /\ HasHistory \subseteq Chart
  /\ TicksPerSecond \in Nat \ {0} /\ CollectTime \subseteq Nat \ {0}
  /\ {MaxHistory, MaxMetrics, MaxUpdates} \subseteq Nat \ {0}
  /\ \A slot \in Slot \ {"none"} : SlotLimit[slot] \in Nat
  /\ Absent \notin Slot /\ Absent \notin 1 .. 3
  /\ \A b \in Body : \A list \in {b.standard, b.worldsend, b.course} : list \in Seq(Range(list))

VARIABLES
  player,      \* the player's row, Playerless without one
  records,     \* player_records and player_worldsend_records, by chart
  histories,   \* what a chart's record was, by chart
  courses,     \* player_course_records
  liveCourses, \* courses that are not deleted
  sent,        \* history: the last states of each chart, as they were sent
  crowded      \* history: two bodies were accepted for the same second

registrationVars == <<player, records, histories, courses, liveCourses, sent, crowded>>

Lamp == {"failed", "clear", "hard", "brave", "absolute", "catastrophy"}
Seconds == {(t + TicksPerSecond \div 2) \div TicksPerSecond : t \in CollectTime}
PlayScore == 0 .. 1010000
State == [score : PlayScore, clear : Lamp, combo : 1 .. 3, chain : 1 .. 3]

\* A user without a player.
Playerless == [collected |-> -1, metrics |-> Absent, past |-> {}, updates |-> {}]

RegistrationTypeOK ==
  /\ player = Playerless \/ player.collected \in Seconds
  /\ DOMAIN records \subseteq Chart /\ DOMAIN histories \subseteq HasHistory
  /\ \A c \in DOMAIN records :
       /\ records[c].state \in State /\ records[c].at \in Seconds
       /\ records[c].slot \in Slot
  /\ \A c \in DOMAIN histories :
       /\ c \in DOMAIN records /\ Cardinality(histories[c]) <= MaxHistory
       /\ \A h \in histories[c] : h.state \in State /\ h.at \in Seconds
  /\ Cardinality(player.updates) <= MaxUpdates /\ Cardinality(player.past) <= MaxMetrics
  /\ DOMAIN courses \subseteq Course /\ liveCourses \subseteq Course
  /\ crowded \in BOOLEAN

NoPlayer == player = Playerless /\ records = <<>> /\ histories = <<>> /\ courses = <<>>

RegistrationInit ==
  /\ NoPlayer /\ sent = <<>> /\ crowded = FALSE
  /\ liveCourses = Course
-----------------------------------------------------------------------------
\* What is checked before the transaction (validatePlayerDataPayload)

\* A metric is given in thousandths and has two decimals.
ValidMetric(m, max) == m # Absent /\ 0 <= m /\ m <= max /\ m % 10 = 0

ValidScore(e) ==
  /\ e.combo = 3 => e.score >= 1000000
  /\ e.score = 1010000 => e.combo = 3
  /\ e.chain \in {2, 3} => e.combo \in {2, 3}

ValidCourse(e) ==
  /\ 0 <= e.score /\ e.score <= 3030000 /\ e.combo \in 1 .. 3
  /\ e.score = 3030000 => e.combo = 3
  /\ e.combo = 3 => e.score >= 3000000
  /\ e.clear => e.score # 0

InMainSlot(slot) == slot \in {"best", "new"}
MainSlots(entries, places) == Cardinality({k \in places : InMainSlot(entries[k].slot)})

Valid(b) ==
  /\ ValidMetric(b.rating, 99990) /\ ValidMetric(b.overpower, 999999990)
  /\ ValidMetric(b.percent, 100000)
  /\ \A e \in Range(b.standard) \cup Range(b.worldsend) : ValidScore(e)
  /\ \A e \in Range(b.course) : ValidCourse(e)
  /\ b.standard # <<>> => MainSlots(b.standard, DOMAIN b.standard) > 0
-----------------------------------------------------------------------------
\* What the entries of a body become (applyFullScores, applyWorldsendScores)

Default(value, default) == IF value = Absent THEN default ELSE value

StateOf(e) ==
  [score |-> e.score, clear |-> Default(e.clear, "failed"), combo |-> Default(e.combo, 1),
   chain |-> Default(e.chain, 1)]

\* An entry that does not resolve is skipped.
Resolves(e) ==
  /\ e.chart \in Chart /\ StateOf(e) \in State /\ Default(e.slot, "none") \in Slot

Resolved(entries) == {k \in DOMAIN entries : Resolves(entries[k])}

\* normalizeFullRecordsForUpsert: of the entries at these places, for one chart the last.
LastOfEach(entries, places) ==
  LET last(c) == CHOOSE k \in places :
                   /\ entries[k].chart = c
                   /\ \A j \in places : j > k => entries[j].chart # c
  IN [c \in {entries[k].chart : k \in places} |-> entries[last(c)]]

\* Entries of WORLD'S END have charts of their own, and no slot.
Entries(b) == b.standard \o b.worldsend
Upserts(b) == LastOfEach(Entries(b), Resolved(Entries(b)))

\* applyCourseScores, normalizeCourseRecordsForUpsert
Results(b) ==
  LET last == LastOfEach(b.course, {k \in DOMAIN b.course : b.course[k].chart \in liveCourses})
  IN [c \in DOMAIN last |->
        [score |-> last[c].score, clear |-> last[c].clear, combo |-> last[c].combo]]

\* validateMainSlotRecordsResolved: no main slot is lost because its entry is skipped.
MainSlotsResolved(b) ==
  MainSlots(b.standard, Resolved(b.standard)) = MainSlots(b.standard, DOMAIN b.standard)

InSlot(rows, slot) == {c \in DOMAIN rows : Default(rows[c].slot, "none") = slot}

\* validateFullRecordSlots
ValidSlots(rows) ==
  /\ \A c \in InSlot(rows, "none") : rows[c].order = Absent
  /\ \A slot \in Slot \ {"none"} :
       LET cs == InSlot(rows, slot)
       IN /\ Cardinality(cs) <= SlotLimit[slot]
          /\ \A c \in cs : rows[c].order # Absent /\ rows[c].order \in 1 .. SlotLimit[slot]
          /\ \A c, d \in cs : rows[c].order = rows[d].order => c = d
          /\ InMainSlot(slot) => {rows[c].order : c \in cs} = 1 .. Cardinality(cs)

Acceptable(b) == Valid(b) /\ MainSlotsResolved(b) /\ ValidSlots(Upserts(b))
-----------------------------------------------------------------------------
\* When a body comes: ensurePlayer, validatePlayerDataIdentity

RoundedSecond(t) == (t + TicksPerSecond \div 2) \div TicksPerSecond
Metrics(b) == [rating |-> b.rating, overpower |-> b.overpower, percent |-> b.percent]

\* ChangeOfficialMetrics, in the first call and, on what it has stored, in the second.
CollectedInOrder(b, t) ==
  /\ player.collected * TicksPerSecond <= t
  /\ player.collected * TicksPerSecond = t => player.metrics = Metrics(b)
  /\ RoundedSecond(t) * TicksPerSecond <= t

\* The newest update, and any other of the same time, must have the same body.
SameBody(b, t) == \A u \in player.updates : u.at = t => u.body = b

MetricsChange(b) == player # Playerless /\ player.metrics # Metrics(b)

\* Mutant: a record that moves to another slot counts as changed.
Differs_BySlot(row, e) == row.state # StateOf(e) \/ row.slot # Default(e.slot, "none")

\* playerRecordMeaningfullyChanged
Differs(row, e) == row.state # StateOf(e)

\* Charts whose record goes into its history.
Overwritten(b) ==
  {c \in DOMAIN Upserts(b) \cap DOMAIN records \cap HasHistory :
     Differs(records[c], Upserts(b)[c])}

History(c) == IF c \in DOMAIN histories THEN histories[c] ELSE {}

\* Both histories are keyed by second: a second entry for it is refused.
HistoryConflict(b) ==
  \/ MetricsChange(b) /\ \E m \in player.past : m.at = player.collected
  \/ \E c \in Overwritten(b) : \E h \in History(c) : h.at = records[c].at
-----------------------------------------------------------------------------
\* What is written

\* The newest n of rows that are told apart by a time.
Newest(rows, n) == {r \in rows : Cardinality({q \in rows : q.at > r.at}) < n}

\* computeRecordChanges: of the states that come, those that are new or others.
News(rows, states) ==
  LET before(c) == IF c \in DOMAIN rows THEN rows[c].state ELSE Absent
  IN [c \in {d \in DOMAIN states : before(d) # states[d]} |->
        [before |-> before(c), after |-> states[c]]]

\* The result that the client is told, and told again.
Result(b) ==
  [charts |-> News(records, [c \in DOMAIN Upserts(b) |-> StateOf(Upserts(b)[c])]),
   courses |-> News(courses, Results(b))]

\* SaveLatestUpdate: the first result for a time is kept.
Kept(updates, update) ==
  IF \E u \in updates : u.at = update.at THEN updates
  ELSE Newest(updates \cup {update}, MaxUpdates)

NewPlayer(b, t) ==
  LET update == [at |-> t, body |-> b, result |-> Result(b)]
  IN [collected |-> RoundedSecond(t), metrics |-> Metrics(b),
      past |-> IF MetricsChange(b)
               THEN Newest(player.past \cup {[metrics |-> player.metrics, at |-> player.collected]},
                           MaxMetrics)
               ELSE player.past,
      updates |-> Kept(player.updates, update)]

\* Mutant: records that the body does not name keep their slots.
Unslotted_Never(rows) == rows

\* ClearRankedSlots
Unslotted(rows) ==
  [c \in DOMAIN rows |-> [rows[c] EXCEPT !.slot = "none", !.order = Absent]]

\* updated_at moves when the record changes, and only then.
WrittenAt(c, e, t) ==
  IF c \in DOMAIN records /\ ~Differs(records[c], e) THEN records[c].at ELSE RoundedSecond(t)

\* SavePlayerData
Saved(rows, upserts, t) ==
  [c \in DOMAIN rows \cup DOMAIN upserts |->
     IF c \notin DOMAIN upserts THEN rows[c]
     ELSE LET e == upserts[c]
          IN [state |-> StateOf(e), slot |-> Default(e.slot, "none"), order |-> e.order,
              at |-> WrittenAt(c, e, t)]]

\* BulkInsertStandard, BulkInsertWorldsend and the prunes
HistoriesAfter(b) ==
  [c \in DOMAIN histories \cup Overwritten(b) |->
     IF c \in Overwritten(b)
     THEN Newest(History(c) \cup {[state |-> records[c].state, at |-> records[c].at]}, MaxHistory)
     ELSE histories[c]]

\* UpsertRecords
CoursesAfter(b, t) ==
  [c \in DOMAIN courses \cup DOMAIN Results(b) |->
     IF c \notin DOMAIN Results(b) THEN courses[c]
     ELSE [state |-> Results(b)[c],
           at |-> IF c \in DOMAIN courses /\ courses[c].state = Results(b)[c]
                  THEN courses[c].at ELSE RoundedSecond(t)]]

\* Appended to sent: a state of a chart that is not its last one is another one.
Sent(c, state) ==
  LET before == IF c \in DOMAIN sent THEN sent[c] ELSE <<>>
      all == IF before # <<>> /\ before[Len(before)] = state THEN before
             ELSE Append(before, state)
  IN IF Len(all) > MaxHistory + 1 THEN Tail(all) ELSE all

\* Register
Register(b, t) ==
  /\ Acceptable(b) /\ CollectedInOrder(b, t) /\ SameBody(b, t) /\ ~HistoryConflict(b)
  /\ player' = NewPlayer(b, t)
  /\ records' = Saved(Unslotted(records), Upserts(b), t)
  /\ histories' = HistoriesAfter(b)
  /\ courses' = CoursesAfter(b, t)
  /\ sent' = [c \in DOMAIN sent \cup DOMAIN Upserts(b) |->
                IF c \in DOMAIN Upserts(b) THEN Sent(c, StateOf(Upserts(b)[c])) ELSE sent[c]]
  /\ crowded' = \/ crowded
                \/ player.collected = RoundedSecond(t) /\ \A u \in player.updates : u.at # t
  /\ UNCHANGED liveCourses

\* Delete: the rows of the player go with it.
Unregister ==
  /\ player # Playerless
  /\ player' = Playerless /\ records' = <<>> /\ histories' = <<>> /\ courses' = <<>>
  /\ sent' = <<>> /\ crowded' = FALSE
  /\ UNCHANGED liveCourses

\* An administrator deletes or restores a course; its results stay.
SetCourseDeleted ==
  /\ \E k \in Course :
       liveCourses' = IF k \in liveCourses THEN liveCourses \ {k} ELSE liveCourses \cup {k}
  /\ UNCHANGED <<player, records, histories, courses, sent, crowded>>

RegistrationNext ==
  \/ \E b \in Body, t \in CollectTime : Register(b, t)
  \/ Unregister
  \/ SetCourseDeleted

RegistrationSpec == RegistrationInit /\ [][RegistrationNext]_registrationVars
-----------------------------------------------------------------------------
\* FindStandardTimeline, FindWorldsendTimeline, oldest first: the chart's history, then
\* its record.
Timeline(c) ==
  LET past == History(c)
      rank(h) == Cardinality({g \in past : g.at < h.at}) + 1
      place(k) == CHOOSE h \in past : rank(h) = k
  IN Append([k \in 1 .. Cardinality(past) |-> place(k).state], records[c].state)

\* The timeline of a chart tells all the states that were sent for it, each once and in
\* order, as far back as the history goes: whatever bodies named the chart in between
\* without news, moved it between slots or did not name it (buildStandardHistories,
\* pruneHistories, and the upsert's rule for updated_at).
HistoryTellsAll ==
  /\ DOMAIN sent = DOMAIN records
  /\ \A c \in DOMAIN records :
       IF c \in HasHistory THEN Timeline(c) = sent[c]
       ELSE /\ c \notin DOMAIN histories
            /\ records[c].state = sent[c][Len(sent[c])]

\* After any bodies, the best and the new slot are ranked from 1 without a gap and within
\* their limits: a body's ranks never meet those of an earlier one.  A player that was
\* imported and has no updates may have gaps, where songs were deleted before the export
\* (ClearRankedSlots, validateFullRecordSlots, exportRecords).
SlotsRanked ==
  \A slot \in {"best", "new"} :
    LET cs == InSlot(records, slot)
        ranks == {records[c].order : c \in cs}
    IN /\ Cardinality(cs) <= SlotLimit[slot]
       /\ Cardinality(ranks) = Cardinality(cs) /\ ranks \subseteq 1 .. SlotLimit[slot]
       /\ cs # {} /\ player.updates # {} => ranks = 1 .. Cardinality(cs)

\* The stored results add up: what one says a chart was before is what the one before
\* it, that names it too, made of it, and the last is what it is; a body that is sent
\* again does not take its own result away.  Two bodies in one second may be stored out
\* of order, and a course that was deleted when its body first came is written when the
\* body is sent again, and not told (computeRecordChanges, SaveLatestUpdate).
ResultsAddUp ==
  ~crowded =>
    LET naming(c) == {u \in player.updates : c \in DOMAIN u.result.charts}
        later(c, u) == {v \in naming(c) : v.at > u.at}
    IN \A c \in DOMAIN records : \A u \in naming(c) :
         \/ later(c, u) = {} /\ records[c].state = u.result.charts[c].after
         \/ \E v \in later(c, u) :
              /\ v.result.charts[c].before = u.result.charts[c].after
              /\ \A w \in later(c, u) : v.at <= w.at

\* Timeline and results, each by itself, tell the same history.
\* (buildStandardHistories, computeRecordChanges)
ToldTruly == HistoryTellsAll /\ ResultsAddUp

\* A body collected in a later second than all before it is not refused for a conflict,
\* unless some second had two bodies: then the histories' keys are used up
\* (ErrScoreHistoryTimestampConflict, ErrPlayerMetricHistoryTimestampConflict).
LaterIsAccepted ==
  player # Playerless /\ ~crowded =>
    \A b \in Body : Acceptable(b) => ~HistoryConflict(b)

\* What a body leaves behind is in order, and lets the next one in (SaveRecordsFull).
ReadyForNext == SlotsRanked /\ LaterIsAccepted
=============================================================================
