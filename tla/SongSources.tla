----------------------------- MODULE SongSources ------------------------------
(***************************************************************************)
(* What a song batch makes of its sources before it opens a transaction:   *)
(* a workspace of songs and charts, built from the official list, a list   *)
(* of additional songs and, in a normal run, three sources that complete   *)
(* what is missing.  A source is what its importer returns: a function     *)
(* from official_idx, or from title, to a row or None.                     *)
(*                                                                         *)
(* Constants of charts are in tenths: level 13+ is 135.                    *)
(***************************************************************************)
EXTENDS Integers, FiniteSets

CONSTANTS
  Idx,          \* values of songs.official_idx
  Diff,         \* difficulties
  Title,        \* titles, with artist and genre; also the attributes of WORLD'S END
  Designer,     \* names of notes designers
  Date,         \* release dates
  None,         \* NULL; a missing row; a missing source
  SmallTable,   \* fewer songs than this are not checked for moved indexes (10)
  ManyMoves,    \* this many moved indexes are refused (10)
  MovePercent   \* and so is this share of the songs (20)

ASSUME SourcesAssumption ==
  /\ SmallTable \in Nat /\ ManyMoves \in Nat \ {0} /\ MovePercent \in Nat \ {0}
  /\ IsFiniteSet(Idx)
ASSUME NoneIsNoNumber == None \notin Int /\ None \notin BOOLEAN
ASSUME NoneIsNoName == None \notin Title /\ None \notin Designer /\ None \notin Date

\* Nullable values.
Number == Int \cup {None}
Text == Title \cup {None}
Credit == Designer \cup {None}
ReleaseDate == Date \cup {None}

Coalesce(a, b) == IF a # None THEN a ELSE b

\* Counts that the completing sources may fill: NULL or 0.
Missing(count) == count \in {None, 0}

\* Constants below 10 are exact; a level from 10 on stands for half a level.
FineFrom == 100
Band == 5

\* Level.IsConstUnknown
LevelIsUnknown(const) == const >= FineFrom

\* DisplayLevelBandContains
BandStart(const) == const - (const % Band)
BandContains(official, const) ==
  IF BandStart(official) < FineFrom
  THEN const = BandStart(official)
  ELSE BandStart(official) <= const /\ const < BandStart(official) + Band

NoCharts == [d \in Diff |-> None]

\* Rows of the workspace, which are those of MySQL but for songs.
SongUpsert ==
  [title : Title, isNew : BOOLEAN, we : BOOLEAN, bpm : Number, released : ReleaseDate,
   wiki : Text, unlock : Number]
ChartRow == [const : Int, unknown : BOOLEAN, notes : Number, designer : Credit]
WorldsendRow == [star : Number, attribute : Text, notes : Number, designer : Credit]

Listed(ws) == {i \in Idx : ws.songs[i] # None}
-----------------------------------------------------------------------------
\* Official list.  A row has a title, a flag isNew, whether its genre is known,
\* its levels by difficulty, and we: None, or star and attribute.

\* An active song whose index the list no longer has, and whose title the list
\* has under another index.
Moved(official, songs) ==
  {i \in Idx : /\ songs[i] # None /\ ~songs[i].deleted /\ official[i] = None
               /\ \E j \in Idx : /\ official[j] # None
                                 /\ official[j].title = songs[i].title
                                 /\ (official[j].we # None) = songs[i].we}

\* detectMassiveIdxChange, on the rows of MySQL outside any transaction.
IndexesMoved(official, songs) ==
  LET active == Cardinality({i \in Idx : songs[i] # None /\ ~songs[i].deleted})
      moved == Cardinality(Moved(official, songs))
  IN /\ active >= SmallTable
     /\ moved >= ManyMoves \/ moved * 100 >= MovePercent * active

\* prepareSongsForUpsert, prepareChartsForUpsert
OfficialSong(row) ==
  [title |-> row.title, isNew |-> row.isNew, we |-> row.we # None, bpm |-> None,
   released |-> None, wiki |-> None, unlock |-> None]

OfficialCharts(row) ==
  IF row.we # None THEN NoCharts
  ELSE [d \in Diff |-> IF row.level[d] = None THEN None
                       ELSE [const |-> row.level[d],
                             unknown |-> LevelIsUnknown(row.level[d]),
                             notes |-> None, designer |-> None]]

\* prepareWorldsendChartsForUpsert
OfficialWorldsend(row) ==
  IF row.we = None THEN None
  ELSE [star |-> row.we.star, attribute |-> row.we.attribute,
        notes |-> None, designer |-> None]

\* OfficialConsolidator.Consolidate; rows of no known genre are left out.
AfterOfficial(official) ==
  LET Taken(i) == official[i] # None /\ official[i].genreKnown
  IN [songs  |-> [i \in Idx |-> IF Taken(i) THEN OfficialSong(official[i]) ELSE None],
      charts |-> [i \in Idx |-> IF Taken(i) THEN OfficialCharts(official[i]) ELSE NoCharts],
      we     |-> [i \in Idx |-> IF Taken(i) THEN OfficialWorldsend(official[i]) ELSE None]]
-----------------------------------------------------------------------------
\* Additional songs: songs with their charts, charts for songs that the official
\* list has, and songs of WORLD'S END.  None of them replaces an official row.

AddedSong(row, bpm, we, old) ==
  [title |-> row.title, isNew |-> FALSE, we |-> we,
   bpm |-> IF old = None THEN bpm ELSE Coalesce(bpm, old.bpm),
   released |-> IF old = None THEN row.released ELSE Coalesce(row.released, old.released),
   wiki |-> None, unlock |-> None]

AddedChart(row) ==
  [const |-> row.const, unknown |-> row.unknown, notes |-> row.notes, designer |-> None]

\* prepareSongsForUpsert with prepareChartsFromSongsForUpsert
WithSongs(ws, listed, songs) ==
  LET Taken(i) == i \notin listed /\ songs[i] # None /\ songs[i].genreKnown
  IN [ws EXCEPT
       !.songs = [i \in Idx |-> IF Taken(i)
                    THEN AddedSong(songs[i], songs[i].bpm, FALSE, None) ELSE @[i]],
       !.charts = [i \in Idx |-> IF ~Taken(i) THEN @[i]
                     ELSE [d \in Diff |-> IF songs[i].chart[d] = None THEN @[i][d]
                                          ELSE AddedChart(songs[i].chart[d])]]]

\* prepareAdditionalChartsForUpsert: for listed songs that lack the chart.
WithCharts(ws, listed, charts) ==
  [ws EXCEPT !.charts = [i \in Idx |-> [d \in Diff |->
     IF i \in listed /\ @[i][d] = None /\ charts[i][d] # None
     THEN AddedChart(charts[i][d]) ELSE @[i][d]]]]

\* prepareWESongsForUpsert, prepareWEChartsForUpsert
WithWorldsend(ws, listed, songs) ==
  LET Taken(i) == i \notin listed /\ songs[i] # None /\ songs[i].genreKnown
  IN [ws EXCEPT
       !.songs = [i \in Idx |-> IF Taken(i)
                    THEN AddedSong(songs[i], None, TRUE, @[i]) ELSE @[i]],
       !.we = [i \in Idx |-> IF ~Taken(i) THEN @[i]
                 ELSE [star |-> songs[i].star, attribute |-> songs[i].attribute,
                       notes |-> songs[i].notes, designer |-> None]]]

\* AdditionalSongsConsolidator.Consolidate: what is listed is asked only once.
AfterAdditional(ws, additional) ==
  LET listed == Listed(ws)
  IN WithWorldsend(WithCharts(WithSongs(ws, listed, additional.songs),
                              listed, additional.charts),
                   listed, additional.we)
-----------------------------------------------------------------------------
\* st1027: notes, designers and BPM where they are missing, and the flag
\* unlock_required whatever it was.

\* A flag that is neither 0 nor 1, of a song the workspace has, fails the batch.
FlagsValid(ws, st1027) ==
  \A i \in Listed(ws) : st1027[i] # None => st1027[i].unlock \in {None, 0, 1}

WithBPM(song, bpm) ==
  IF bpm # None /\ bpm > 0 /\ Missing(song.bpm) THEN [song EXCEPT !.bpm = bpm] ELSE song

WithUnlock(song, unlock) == [song EXCEPT !.unlock = Coalesce(unlock, @)]

Completed(chart, row, d) ==
  [chart EXCEPT
    !.notes = IF Missing(@) /\ ~Missing(row.notes[d]) THEN row.notes[d] ELSE @,
    !.designer = IF @ = None THEN row.designer[d] ELSE @]

AfterSt1027(ws, st1027) ==
  LET Has(i) == ws.songs[i] # None /\ st1027[i] # None
  IN [ws EXCEPT
       !.songs = [i \in Idx |-> IF ~Has(i) THEN @[i]
                    ELSE WithUnlock(WithBPM(@[i], st1027[i].bpm), st1027[i].unlock)],
       !.charts = [i \in Idx |-> [d \in Diff |->
                    IF Has(i) /\ @[i][d] # None
                    THEN Completed(@[i][d], st1027[i], d) ELSE @[i][d]]]]
-----------------------------------------------------------------------------
\* mainframe: constants by title.  One that lies outside the official level
\* fails the batch.

MainframeConst(ws, mainframe, i, d) ==
  IF ws.charts[i][d] = None THEN None ELSE mainframe[ws.songs[i].title][d]

InOfficialBands(ws, mainframe) ==
  \A i \in Listed(ws), d \in Diff :
    LET const == MainframeConst(ws, mainframe, i, d)
    IN const # None => BandContains(ws.charts[i][d].const, const)

AfterMainframe(ws, mainframe) ==
  [ws EXCEPT !.charts = [i \in Idx |-> [d \in Diff |->
     IF ws.songs[i] # None /\ MainframeConst(ws, mainframe, i, d) # None
     THEN [@[i][d] EXCEPT !.const = MainframeConst(ws, mainframe, i, d),
                          !.unknown = FALSE]
     ELSE @[i][d]]]]
-----------------------------------------------------------------------------
\* otoge-db: BPM of WORLD'S END songs, their notes and designers, wiki titles
\* and release dates, each where it is missing.

Filled(old, new) == IF Missing(old) /\ ~Missing(new) THEN new ELSE old

WithWiki(song, row) ==
  [song EXCEPT !.wiki = Coalesce(@, row.wiki), !.released = Coalesce(@, row.released)]

CompletedWorldsend(chart, row) ==
  [chart EXCEPT !.notes = Filled(@, row.notes), !.designer = Coalesce(@, row.designer)]

AfterOtogeDb(ws, otoge) ==
  LET Has(i) == ws.songs[i] # None /\ otoge[i] # None
  IN [ws EXCEPT
       !.songs = [i \in Idx |-> IF ~Has(i) THEN @[i]
                    ELSE WithWiki(WithBPM(@[i], IF otoge[i].we THEN otoge[i].bpm ELSE None),
                                  otoge[i])],
       !.we = [i \in Idx |-> IF ~Has(i) \/ @[i] = None THEN @[i]
                 ELSE CompletedWorldsend(@[i], otoge[i])]]
-----------------------------------------------------------------------------
\* What the importers may return.
OfficialRow ==
  [title : Title, genreKnown : BOOLEAN, isNew : BOOLEAN, level : [Diff -> Number],
   we : [star : Number, attribute : Text] \cup {None}]
AdditionalChart == [const : Int, unknown : BOOLEAN, notes : Number]
AdditionalSong ==
  [title : Title, genreKnown : BOOLEAN, bpm : Number, released : ReleaseDate,
   chart : [Diff -> AdditionalChart \cup {None}]]
AdditionalWEChart ==
  [title : Title, genreKnown : BOOLEAN, released : ReleaseDate, star : Number,
   attribute : Text, notes : Number]
St1027Song ==
  [bpm : Number, unlock : Number, notes : [Diff -> Number], designer : [Diff -> Credit]]
OtogeDbSong ==
  [we : BOOLEAN, bpm : Number, notes : Number, designer : Credit, wiki : Text,
   released : ReleaseDate]

Feeds ==
  [official : [Idx -> OfficialRow \cup {None}] \cup {None},
   additional : [songs : [Idx -> AdditionalSong \cup {None}],
                 charts : [Idx -> [Diff -> AdditionalChart \cup {None}]],
                 we : [Idx -> AdditionalWEChart \cup {None}]] \cup {None},
   st1027 : [Idx -> St1027Song \cup {None}] \cup {None},
   mainframe : [Title -> [Diff -> Number]] \cup {None},
   otoge : [Idx -> OtogeDbSong \cup {None}] \cup {None}]

Mode == {"normal", "major"}

\* RequiredSources: without one of them nothing is written.
RequiredSources(mode) ==
  {"official", "additional"} \cup (IF mode = "normal" THEN {"mainframe"} ELSE {})

\* A feed is the five sources as downloaded and imported, None where that failed.
AllPresent(feed, mode) == \A s \in RequiredSources(mode) : feed[s] # None

\* BuildWorkspace, source by source; a missing complementary one is skipped.
BeforeMainframe(feed, mode) ==
  LET listed == AfterAdditional(AfterOfficial(feed.official), feed.additional)
  IN IF mode = "major" \/ feed.st1027 = None THEN listed
     ELSE AfterSt1027(listed, feed.st1027)

Workspace(feed, mode) ==
  IF mode = "major" THEN BeforeMainframe(feed, mode)
  ELSE LET ws == AfterMainframe(BeforeMainframe(feed, mode), feed.mainframe)
       IN IF feed.otoge = None THEN ws ELSE AfterOtogeDb(ws, feed.otoge)

\* No consolidator returns an error.
Builds(feed, mode, songs) ==
  /\ ~IndexesMoved(feed.official, songs)
  /\ mode = "normal" =>
       /\ feed.st1027 # None => FlagsValid(BeforeMainframe(feed, mode), feed.st1027)
       /\ InOfficialBands(BeforeMainframe(feed, mode), feed.mainframe)
=============================================================================
