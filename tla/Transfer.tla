------------------------------ MODULE Transfer ------------------------------
(***************************************************************************)
(* A player taken along in a file: exported by one user and imported by    *)
(* another, or by the same one after deleting the player.  The rows and    *)
(* what registrations do to them are in Registration; goals, filters and   *)
(* favorites of the file are in UserResources and Goals.                   *)
(*                                                                         *)
(* An export reads one snapshot of the database; an import holds the       *)
(* user's row, as a registration does.  Each is one step.  Tables have     *)
(* rows by key; a file has lists of entries that name their charts.  What  *)
(* belongs to deleted songs and courses is not exported, but names of      *)
(* deleted ones are still resolved.  Signature, compression, size and     *)
(* the JSON are left out: a file is the snapshot that it was made of.      *)
(***************************************************************************)
EXTENDS Registration

CONSTANTS
  Deletable,   \* charts whose songs are deleted and restored
  NoFile,
  MaxFiles     \* bound on the exports

ASSUME TransferAssumption == Deletable \subseteq Chart /\ MaxFiles \in Nat

VARIABLES
  deleted,     \* charts of deleted songs
  file,        \* the last file, NoFile without one
  files,       \* number of exports
  origin       \* history: the file that the player was imported from, if no body came since

transferVars == <<deleted, file, files, origin>>

TransferInit ==
  RegistrationInit /\ deleted = {} /\ file = NoFile /\ files = 0 /\ origin = NoFile

TransferTypeOK ==
  /\ RegistrationTypeOK
  /\ deleted \subseteq Deletable /\ files \in 0 .. MaxFiles
  /\ \A f \in {file, origin} : f # NoFile => f.collected \in Seconds
-----------------------------------------------------------------------------
\* What a file has

\* exportRecords, exportWorldsendRecords: the second half of each.
HistoryEntries ==
  UNION {{[chart |-> c, state |-> h.state, at |-> h.at] : h \in histories[c]} :
         c \in DOMAIN histories \ deleted}

\* exportRecords, exportWorldsendRecords: the first half of each.
RecordEntries ==
  {[chart |-> c, state |-> records[c].state, slot |-> records[c].slot,
    order |-> records[c].order, at |-> records[c].at] : c \in DOMAIN records \ deleted}

CourseEntries ==
  {[course |-> k, state |-> courses[k].state, at |-> courses[k].at] :
   k \in DOMAIN courses \cap liveCourses}

\* exportSnapshot.  What the file is about is remembered with it: sent and crowded.
Snapshot ==
  [collected |-> player.collected, metrics |-> player.metrics, past |-> player.past,
   records |-> RecordEntries, histories |-> HistoryEntries, courses |-> CourseEntries,
   about |-> [sent |-> [c \in DOMAIN sent \ deleted |-> sent[c]], crowded |-> crowded]]
-----------------------------------------------------------------------------
\* Validate

\* validateScoreAndLampNames
ValidState(state) ==
  /\ state.combo = 3 => state.score >= 1000000
  /\ state.score = 1010000 => state.combo = 3
  /\ state.chain # 1 => state.combo \in {2, 3}

ChartsOnce(entries) == \A e, f \in entries : e.chart = f.chart => e = f
AtOnce(entries) == \A e, f \in entries : e.at = f.at => e = f

\* Mutant: the ranks of the main slots must have no gap, as in a body.
ValidRanks_Contiguous(entries, slot) ==
  InMainSlot(slot) => {e.order : e \in entries} = 1 .. Cardinality(entries)

\* Ranks may have gaps: the charts of deleted songs have left them.
ValidRanks(entries, slot) ==
  /\ Cardinality(entries) <= SlotLimit[slot]
  /\ \A e \in entries : e.order # Absent /\ e.order \in 1 .. SlotLimit[slot]
  /\ \A e, f \in entries : e.order = f.order => e = f

\* validateUserDataTransferRecords, validateUserDataTransferWorldsendRecords
ValidRecords(entries) ==
  /\ ChartsOnce(entries)
  /\ \A e \in entries : ValidState(e.state) /\ (e.slot = "none" => e.order = Absent)
  /\ \A slot \in Slot \ {"none"} : ValidRanks({e \in entries : e.slot = slot}, slot)

\* validateUserDataTransferRecordHistories, validateUserDataTransferWorldsendRecordHistories
ValidHistories(entries) ==
  /\ \A e \in entries : ValidState(e.state)
  /\ \A c \in {e.chart : e \in entries} :
       LET past == {e \in entries : e.chart = c}
       IN Cardinality(past) <= MaxHistory /\ AtOnce(past)

\* validateUserDataTransferMetricHistories
ValidPast(past, collected) ==
  /\ Cardinality(past) <= MaxMetrics /\ AtOnce(past)
  /\ \A m \in past : m.at < collected

\* validateUserDataTransferCourseRecords
ValidResults(entries) ==
  /\ \A e, f \in entries : e.course = f.course => e = f
  /\ \A e \in entries : ValidCourse(e.state)

\* validOfficialMetric, for each of the three.
ValidMetrics(m) ==
  /\ ValidMetric(m.rating, 99990) /\ ValidMetric(m.overpower, 999999990)
  /\ ValidMetric(m.percent, 100000)

\* UserDataTransferSnapshot.Validate
ValidSnapshot(s) ==
  /\ ValidMetrics(s.metrics) /\ \A m \in s.past : ValidMetrics(m.metrics)
  /\ ValidRecords(s.records) /\ ValidHistories(s.histories)
  /\ ValidPast(s.past, s.collected) /\ ValidResults(s.courses)

\* toSnapshot, toEntity: scores are parsed into their types.
Parses(s) ==
  /\ \A e \in s.records \cup s.histories : e.state.score \in PlayScore
  /\ \A e \in s.courses : e.state.score \in 0 .. 3030000

\* Encode, Decode: both refuse what is not valid.
Encoded(s) == IF ValidSnapshot(s) THEN s ELSE NoFile
Decoded(f) == IF f # NoFile /\ Parses(f) /\ ValidSnapshot(f) THEN f ELSE NoFile
-----------------------------------------------------------------------------
\* Export
Export ==
  /\ files < MaxFiles /\ player # Playerless /\ Encoded(Snapshot) # NoFile
  /\ file' = Encoded(Snapshot) /\ files' = files + 1
  /\ UNCHANGED <<deleted, origin, registrationVars>>

\* findTransferUnresolvedReferences: every name of the file has a row, deleted or not.
Resolvable(s) ==
  /\ {e.chart : e \in s.records \cup s.histories} \subseteq Chart
  /\ {e.course : e \in s.courses} \subseteq Course

Where(entries, c) == CHOOSE e \in entries : e.chart = c

\* saveTransferRecords: rows of the file, with the times that they have in it.
RecordRows(s) ==
  [c \in {e.chart : e \in s.records} |->
     LET e == Where(s.records, c)
     IN [state |-> e.state, slot |-> e.slot, order |-> e.order, at |-> e.at]]

HistoryRows(s) ==
  [c \in {e.chart : e \in s.histories} |->
     {[state |-> e.state, at |-> e.at] : e \in {f \in s.histories : f.chart = c}}]

CourseRows(s) ==
  [k \in {e.course : e \in s.courses} |->
     LET e == CHOOSE f \in s.courses : f.course = k IN [state |-> e.state, at |-> e.at]]

\* INSERT INTO players, player_metric_histories; the latest updates are not in a file.
ImportedPlayer(s) ==
  [collected |-> s.collected, metrics |-> s.metrics, past |-> s.past, updates |-> {}]

\* Import into a user without a player.
Import ==
  /\ player = Playerless /\ Decoded(file) # NoFile /\ Resolvable(Decoded(file))
  /\ LET s == Decoded(file)
     IN /\ player' = ImportedPlayer(s)
        /\ records' = RecordRows(s) /\ histories' = HistoryRows(s) /\ courses' = CourseRows(s)
        /\ sent' = s.about.sent /\ crowded' = s.about.crowded
  /\ origin' = file
  /\ UNCHANGED <<liveCourses, deleted, file, files>>

\* DeleteSong, RestoreSong: registrations go on with charts of deleted songs.
SetSongDeleted ==
  /\ \E c \in Deletable :
       deleted' = IF c \in deleted THEN deleted \ {c} ELSE deleted \cup {c}
  /\ UNCHANGED <<file, files, origin, registrationVars>>

\* The player is as it was imported: a body leaves an update.
Imported == player # Playerless /\ player.updates = {}

\* Bound: between its export and its import the file alone matters, and it is forgotten
\* when the first body after it comes.
RegisterNext ==
  /\ file # NoFile => Imported
  /\ \E b \in Body, t \in CollectTime : Register(b, t)
  /\ file' = NoFile /\ origin' = NoFile /\ UNCHANGED <<deleted, files>>

TransferNext ==
  \/ RegisterNext
  \/ Unregister /\ origin' = NoFile /\ UNCHANGED <<deleted, file, files>>
  \/ SetCourseDeleted /\ UNCHANGED transferVars
  \/ Export \/ Import \/ SetSongDeleted

TransferSpec == TransferInit /\ [][TransferNext]_<<registrationVars, transferVars>>
-----------------------------------------------------------------------------
\* Of a file, what an export can still tell today.
Still(s) ==
  [s EXCEPT !.records = {e \in @ : e.chart \notin deleted},
            !.histories = {e \in @ : e.chart \notin deleted},
            !.courses = {e \in @ : e.course \in liveCourses},
            !.about.sent = [c \in DOMAIN @ \ deleted |-> @[c]]]

\* What registrations leave behind can be exported, unless some second had two bodies,
\* whatever has been deleted since and leaves gaps in the ranks; and an import loses
\* nothing: exported again before the next body, it is the file that it came from, without
\* what has been deleted meanwhile (Validate in Export, importSnapshot).
TransferSound ==
  player # Playerless =>
    /\ ~crowded => ValidSnapshot(Snapshot)
    /\ Imported => Snapshot = Still(origin)
=============================================================================
