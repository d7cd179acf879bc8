------------------------------ MODULE SongMaster ------------------------------
(***************************************************************************)
(* The master tables of songs and charts, their two writers - the          *)
(* administrators of the API and the song batch - and the deletion of a    *)
(* version, which must not leave songs without one.                        *)
(*                                                                         *)
(* An edit of an administrator is one transaction that locks the song or   *)
(* writes it without having read it: one step.  The batch reads all tables *)
(* when its transaction begins and writes later; once it writes, it has    *)
(* locked the rows, so its writes and its commit are one step.  Deleting a *)
(* version checks first and deletes later, under a mutex of the process    *)
(* that edits with a release date take too.  The batch does not.           *)
(***************************************************************************)
EXTENDS SongMerge

CONSTANTS
  Feed,        \* what the sources may hold when they are downloaded
  Today,       \* dates of a run, and None if it fills in no release dates
  SongEdit,    \* values an administrator gives a song
  ChartEdit,   \* and a chart
  WorldsendEdit,
  Keep,        \* "leave this field as it is"
  MaxRuns,     \* bound on the runs of the batch
  MaxEdits     \* bound on the edits of administrators

ASSUME MasterAssumption ==
  /\ Date \subseteq Nat /\ Today \subseteq ReleaseDate
  /\ \E d \in Date : \A e \in Date : d <= e
  /\ MaxRuns \in Nat /\ MaxEdits \in Nat /\ Keep # None
ASSUME FeedAssumption == Feed \subseteq Feeds

VARIABLES
  songs, charts, worldsend,   \* the tables
  versions,                   \* release dates of the versions
  deleting,                   \* version whose deletion has passed its checks
  batch,                      \* the song batch
  runs, edits,                \* numbers of runs and of edits so far
  strays                      \* history: songs the batch has dated meanwhile

masterVars == <<songs, charts, worldsend, versions, deleting, batch, runs, edits, strays>>

Idle == [pc |-> "idle"]

SongRow ==
  [title : Title, isNew : BOOLEAN, we : BOOLEAN, bpm : Number, released : ReleaseDate,
   wiki : Text, unlock : {0, 1}, deleted : BOOLEAN]

\* An administrator gives the values of a row, or leaves some as they are.
ASSUME EditAssumption ==
  /\ SongEdit \subseteq [title : Title, isNew : BOOLEAN, bpm : Number, released : ReleaseDate,
                          wiki : Text \cup {Keep}, unlock : {0, 1, Keep}]
  /\ ChartEdit \subseteq ChartRow
  /\ WorldsendEdit \subseteq WorldsendRow
ASSUME NoneIsNoRow ==
  None \notin SongRow \cup SongUpsert \cup ChartRow \cup WorldsendRow

MasterTypeOK ==
  /\ songs \in [Idx -> SongRow \cup {None}]
  /\ charts \in [Idx -> [Diff -> ChartRow \cup {None}]]
  /\ worldsend \in [Idx -> WorldsendRow \cup {None}]
  /\ \A i \in Idx : songs[i] = None => charts[i] = NoCharts /\ worldsend[i] = None
  /\ versions \subseteq Date /\ deleting \in versions \cup {None}
  /\ batch.pc \in {"idle", "built", "syncing"}
  /\ runs \in 0 .. MaxRuns /\ edits \in 0 .. MaxEdits /\ strays \subseteq Idx

MasterInit ==
  /\ songs = [i \in Idx |-> None]
  /\ charts = [i \in Idx |-> NoCharts]
  /\ worldsend = [i \in Idx |-> None]
  /\ versions = {CHOOSE d \in Date : \A e \in Date : d <= e}
  /\ deleting = None
  /\ batch = Idle
  /\ runs = 0 /\ edits = 0
  /\ strays = {}
-----------------------------------------------------------------------------
\* The song batch.

Tables == [songs |-> songs, charts |-> charts, worldsend |-> worldsend]

\* Execute up to the transaction: download, import, build.  A required source that
\* is missing, or a source that contradicts another, ends the run here.
BuildBatch ==
  /\ batch.pc = "idle" /\ runs < MaxRuns /\ runs' = runs + 1
  /\ \E feed \in Feed, mode \in Mode, today \in Today :
       /\ AllPresent(feed, mode) /\ Builds(feed, mode, songs)
       /\ batch' = [pc |-> "built", mode |-> mode, today |-> today,
                    ws |-> Workspace(feed, mode)]
  /\ UNCHANGED <<songs, charts, worldsend, versions, deleting, edits, strays>>

\* The transaction begins: its first SELECTs make its snapshot.
BeginSync ==
  /\ batch.pc = "built"
  /\ batch' = [pc |-> "syncing", mode |-> batch.mode, today |-> batch.today,
               ws |-> batch.ws, seen |-> Tables]
  /\ UNCHANGED <<songs, charts, worldsend, versions, deleting, runs, edits, strays>>

\* Songs to insert.  One that has been created meanwhile is a duplicate key.
Fresh(b) == {i \in Listed(b.ws) : b.seen.songs[i] = None}

\* The songs a commit gives a release date.
Dated == {i \in Idx : /\ songs'[i] # None /\ songs'[i].released # None
                      /\ songs[i] = None \/ songs[i].released = None}

\* SyncToMySQL, COMMIT
CommitSync ==
  /\ batch.pc = "syncing"
  /\ \A i \in Fresh(batch) : songs[i] = None
  /\ songs' = SyncedSongs(songs, batch.seen, batch.ws, batch.today)
  /\ charts' = SyncedCharts(charts, batch.seen, batch.ws, batch.mode)
  /\ worldsend' = SyncedWorldsend(worldsend, batch.seen, batch.ws)
  /\ strays' = IF deleting # None THEN strays \cup Dated ELSE strays
  /\ batch' = Idle
  /\ UNCHANGED <<versions, deleting, runs, edits>>

\* An error, a crash, ROLLBACK.
AbortBatch ==
  /\ batch.pc # "idle"
  /\ batch' = Idle
  /\ UNCHANGED <<songs, charts, worldsend, versions, deleting, runs, edits, strays>>
-----------------------------------------------------------------------------
\* Administrators.  Edits that may set a release date hold versionRangeMutationMu.

RangeMutexFree == deleting = None

Edit(takesRangeMutex) ==
  /\ edits < MaxEdits /\ edits' = edits + 1
  /\ takesRangeMutex => RangeMutexFree
  /\ UNCHANGED <<versions, deleting, batch, runs, strays>>

Given(value, old) == IF value = Keep THEN old ELSE value

\* bulkUpdateSongs: every field as given; wiki title and unlock flag only if given.
Edited(song, e) ==
  [song EXCEPT !.title = e.title, !.isNew = e.isNew, !.bpm = e.bpm,
               !.released = e.released, !.wiki = Given(e.wiki, @),
               !.unlock = Given(e.unlock, @)]

\* The row of a created song.
NewSong(e, we) ==
  [title |-> e.title, isNew |-> e.isNew, we |-> we, bpm |-> e.bpm,
   released |-> e.released, wiki |-> Given(e.wiki, None),
   unlock |-> Given(e.unlock, 0), deleted |-> FALSE]

\* bulkUpdateCharts: all fields of charts that the song has.
EditChart(i) ==
  \E d \in Diff, c \in ChartEdit :
    charts[i][d] # None /\ charts' = [charts EXCEPT ![i][d] = c]

\* The same for the one chart of a song of WORLD'S END, if it is given.
EditWorldsendChart(i) ==
  \E c \in WorldsendEdit \cup {Keep} :
    worldsend' = [worldsend EXCEPT ![i] = Given(c, @)]

\* UpdateSongs of one normal song, deleted or not, with at most one chart.
UpdateSongs(i) ==
  /\ Edit(TRUE)
  /\ songs[i] # None /\ ~songs[i].we
  /\ \E e \in SongEdit : songs' = [songs EXCEPT ![i] = Edited(@, e)]
  /\ UNCHANGED charts \/ EditChart(i)
  /\ UNCHANGED worldsend

\* UpdateChartConstant locks the song and its charts and makes the constant known.
UpdateChartConstant(i, d) ==
  /\ Edit(FALSE)
  /\ songs[i] # None /\ ~songs[i].we /\ charts[i][d] # None
  /\ \E c \in ChartEdit :
       charts' = [charts EXCEPT ![i][d].const = c.const, ![i][d].unknown = FALSE]
  /\ UNCHANGED <<songs, worldsend>>

\* CreateSong with its charts; an index that is taken is refused.
CreateSong(i) ==
  /\ Edit(TRUE)
  /\ songs[i] = None
  /\ \E e \in SongEdit, ds \in SUBSET Diff, c \in ChartEdit :
       /\ songs' = [songs EXCEPT ![i] = NewSong(e, FALSE)]
       /\ charts' = [charts EXCEPT ![i] = [d \in Diff |-> IF d \in ds THEN c ELSE None]]
  /\ UNCHANGED worldsend

\* DeleteSong and RestoreSong write back the row they have locked.  What the
\* deletion removes for players is in PlayerData.
SetDeleted(i, flag) ==
  /\ Edit(FALSE)
  /\ songs[i] # None /\ songs' = [songs EXCEPT ![i].deleted = flag]
  /\ UNCHANGED <<charts, worldsend>>

DeleteSong(i) == songs[i] # None /\ ~songs[i].we /\ SetDeleted(i, TRUE)
RestoreSong(i) == songs[i] # None /\ ~songs[i].we /\ SetDeleted(i, FALSE)

\* The same for songs of WORLD'S END, whose queries join the one chart.
IsWorldsend(i) == songs[i] # None /\ songs[i].we /\ worldsend[i] # None

DeleteWorldsendSong(i) == IsWorldsend(i) /\ SetDeleted(i, TRUE)
RestoreWorldsendSong(i) == IsWorldsend(i) /\ SetDeleted(i, FALSE)

\* UpdateWorldsendSongs: only songs that are not deleted.
UpdateWorldsendSongs(i) ==
  /\ Edit(TRUE)
  /\ IsWorldsend(i) /\ ~songs[i].deleted
  /\ \E e \in SongEdit : songs' = [songs EXCEPT ![i] = Edited(@, e)]
  /\ EditWorldsendChart(i)
  /\ UNCHANGED charts

\* CreateWorldsendSong: the chart exists even if none is given.
CreateWorldsendSong(i) ==
  /\ Edit(TRUE)
  /\ songs[i] = None
  /\ \E e \in SongEdit, c \in WorldsendEdit :
       /\ songs' = [songs EXCEPT ![i] = NewSong(e, TRUE)]
       /\ worldsend' = [worldsend EXCEPT ![i] = c]
  /\ UNCHANGED charts

Administer ==
  \E i \in Idx :
    \/ UpdateSongs(i)
    \/ \E d \in Diff : UpdateChartConstant(i, d)
    \/ CreateSong(i)
    \/ DeleteSong(i)
    \/ RestoreSong(i)
    \/ DeleteWorldsendSong(i)
    \/ RestoreWorldsendSong(i)
    \/ UpdateWorldsendSongs(i)
    \/ CreateWorldsendSong(i)
-----------------------------------------------------------------------------
\* Versions, as far as songs are concerned.  Writers of versions take turns.

InRange(song, version) ==
  song # None /\ song.released # None /\ song.released >= version

CreateVersion(v) ==
  /\ deleting = None /\ v \notin versions
  /\ versions' = versions \cup {v}
  /\ UNCHANGED <<songs, charts, worldsend, deleting, batch, runs, edits, strays>>

\* Delete, up to its checks: the latest version, and no song, deleted or not, of
\* its time or later.
CheckVersion(v) ==
  /\ deleting = None /\ v \in versions
  /\ \A w \in versions : w <= v
  /\ \A i \in Idx : ~InRange(songs[i], v)
  /\ deleting' = v /\ strays' = {}
  /\ UNCHANGED <<songs, charts, worldsend, versions, batch, runs, edits>>

\* The DELETE commits, or fails; the mutexes are released.
DeleteVersion ==
  /\ deleting # None
  /\ versions' \in {versions \ {deleting}, versions}
  /\ deleting' = None
  /\ UNCHANGED <<songs, charts, worldsend, batch, runs, edits, strays>>

MasterNext ==
  \/ BuildBatch \/ BeginSync \/ CommitSync \/ AbortBatch
  \/ Administer
  \/ \E v \in Date : CreateVersion(v) \/ CheckVersion(v)
  \/ DeleteVersion

MasterSpec == MasterInit /\ [][MasterNext]_masterVars
-----------------------------------------------------------------------------
\* Songs of WORLD'S END are read by a join with their one chart: without it a song
\* vanishes from every list and cannot be edited or deleted.  Whatever list makes a
\* song one of WORLD'S END brings the chart.
WorldsendHasChart == \A i \in Idx : songs[i] # None /\ songs[i].we => worldsend[i] # None

\* What the batch would make of the tables if it met no one.
Synced(b, t) ==
  [songs |-> SyncedSongs(t.songs, t, b.ws, b.today),
   charts |-> SyncedCharts(t.charts, t, b.ws, b.mode),
   worldsend |-> SyncedWorldsend(t.worldsend, t, b.ws)]

\* A batch that is run again on the same sources, because its result was not heard
\* of or by hand, changes nothing.
SyncIdempotent ==
  batch.pc = "built" => Synced(batch, Synced(batch, Tables)) = Synced(batch, Tables)

\* Both of what a batch promises of the tables it writes (applySongUpsert).
SyncSound == WorldsendHasChart /\ SyncIdempotent

\* Between the check of a version and its deletion nobody but the batch puts a song
\* into its time, whose version would be gone.  (version_range_lock.go)
VersionRangeHeld ==
  deleting # None => \A i \in Idx : InRange(songs[i], deleting) => i \in strays

\* A commit of the batch leaves what an administrator corrects: release dates and
\* wiki titles that are set, deletion, an unlock flag that is off, designers; and a
\* constant that is known, or fits the new level, of a chart nobody has edited since
\* the batch looked.
SongKept(old, new) ==
  /\ old.released # None => new.released = old.released
  /\ old.wiki # None => new.wiki = old.wiki
  /\ old.unlock = 0 => new.unlock = 0
  /\ new.deleted = old.deleted

ChartKept(old, new, level) ==
  /\ old.designer # None => new.designer = old.designer
  /\ old.notes # None => new.notes # None
  /\ batch.mode = "normal" /\ ~old.unknown =>
       new.const = old.const /\ ~new.unknown
  /\ batch.mode = "major" /\ level >= FineFrom /\ BandStart(level) = level
       /\ BandContains(level, old.const) => new.const = old.const

Commits == batch.pc = "syncing" /\ batch'.pc = "idle"

ManualKept ==
  [][Commits => \A i \in Idx : songs[i] # None =>
       /\ SongKept(songs[i], songs'[i])
       /\ worldsend[i] # None /\ worldsend[i].designer # None =>
            worldsend'[i].designer = worldsend[i].designer
       /\ \A d \in Diff :
            charts[i][d] # None /\ charts[i][d] = batch.seen.charts[i][d] =>
              ChartKept(charts[i][d], charts'[i][d],
                        IF batch.ws.charts[i][d] = None THEN 0
                        ELSE batch.ws.charts[i][d].const)]_masterVars

\* docs/song_batch.md:77: a normal run does not turn a known constant into an
\* unknown one.  It does when an administrator has entered it since the snapshot.
KnownStaysKnown ==
  [][Commits /\ batch.mode = "normal" =>
       \A i \in Idx, d \in Diff : charts[i][d] # None /\ ~charts[i][d].unknown =>
         ~charts'[i][d].unknown]_masterVars
=============================================================================
