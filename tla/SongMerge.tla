------------------------------ MODULE SongMerge -------------------------------
(***************************************************************************)
(* What a song batch writes to MySQL: for each row of the workspace and    *)
(* the row that MySQL has, the row that MySQL gets.  Values that an        *)
(* administrator may have corrected, and constants that are known, are to  *)
(* survive; what the sources know better is replaced.                      *)
(***************************************************************************)
EXTENDS SongSources

\* A normal run fills in a constant that was unknown, and changes no other.
NormalConst(old, new) ==
  IF old.unknown /\ ~new.unknown
  THEN [const |-> new.const, unknown |-> FALSE]
  ELSE [const |-> old.const, unknown |-> old.unknown]

\* A major update trusts the new levels: below 10 they are the constants, above
\* they make the constant unknown, and move it if it is not of the level.
MajorConst(old, new) ==
  IF new.const < FineFrom THEN [const |-> new.const, unknown |-> FALSE]
  ELSE [const |-> IF new.const <= old.const /\ old.const < new.const + Band
                  THEN old.const ELSE new.const,
        unknown |-> TRUE]

ResolvedConst(old, new, mode) ==
  IF mode = "major" THEN MajorConst(old, new) ELSE NormalConst(old, new)

\* Notes or a designer that the chart has not.
HasNews(old, new) ==
  \/ old.notes = None /\ new.notes # None
  \/ old.designer = None /\ new.designer # None

\* Whether a chart is written.  In a normal run one whose constant stays is written
\* for its news only if the sources agree on the constant and do not lose it.
ChartChanges(old, new, mode) ==
  LET c == ResolvedConst(old, new, mode)
  IN \/ c.const # old.const \/ c.unknown # old.unknown
     \/ /\ HasNews(old, new)
        /\ mode = "normal" => /\ old.const = new.const
                              /\ old.unknown \/ ~new.unknown

\* ResolveChartUpdate for a chart that MySQL has.
UpdatedChart(old, new, mode) ==
  LET c == ResolvedConst(old, new, mode)
  IN [const |-> c.const, unknown |-> c.unknown,
      notes |-> Coalesce(new.notes, old.notes),
      designer |-> Coalesce(old.designer, new.designer)]

\* Mutant: a major run takes a new chart over as the source has it.
InsertedChart_AsIs(new, mode) == new

\* ResolveChartUpdate for a chart that MySQL has not.
InsertedChart(new, mode) ==
  IF mode = "major" THEN [new EXCEPT !.unknown = new.const >= FineFrom] ELSE new

\* Mutant: the source's date and wiki title win.
UpdatedSong_SourceWins(old, new) ==
  [old EXCEPT !.title = new.title, !.isNew = new.isNew, !.we = new.we,
              !.bpm = Coalesce(new.bpm, @),
              !.released = Coalesce(new.released, @), !.wiki = Coalesce(new.wiki, @),
              !.unlock = IF @ = 1 THEN Coalesce(new.unlock, @) ELSE @]

\* buildBulkUpdateSongsSQL.  It never touches is_deleted.
UpdatedSong(old, new) ==
  [old EXCEPT !.title = new.title, !.isNew = new.isNew, !.we = new.we,
              !.bpm = Coalesce(new.bpm, @),
              !.released = Coalesce(@, new.released), !.wiki = Coalesce(@, new.wiki),
              !.unlock = IF @ = 1 THEN Coalesce(new.unlock, @) ELSE @]

\* buildBulkInsertSongsSQL; today is the date of the run if it is asked to fill in
\* missing release dates, else None.
InsertedSong(new, today) ==
  [title |-> new.title, isNew |-> new.isNew, we |-> new.we, bpm |-> new.bpm,
   released |-> Coalesce(new.released, today), wiki |-> new.wiki,
   unlock |-> Coalesce(new.unlock, 0), deleted |-> FALSE]

\* buildBulkUpdateWorldsendChartsSQL
UpdatedWorldsend(old, new) ==
  [star |-> Coalesce(new.star, old.star),
   attribute |-> Coalesce(new.attribute, old.attribute),
   notes |-> Coalesce(new.notes, old.notes),
   designer |-> Coalesce(old.designer, new.designer)]
-----------------------------------------------------------------------------
\* The three tables after SyncToMySQL.  What is inserted and what is updated, and
\* all about charts, is decided on the rows seen at the beginning; the statements
\* that update songs and charts of WORLD'S END merge with the rows there are then.

SyncedSongs(songs, seen, ws, today) ==
  [i \in Idx |-> CASE ws.songs[i] = None -> songs[i]
                   [] ws.songs[i] # None /\ seen.songs[i] = None ->
                        InsertedSong(ws.songs[i], today)
                   [] OTHER -> UpdatedSong(songs[i], ws.songs[i])]

SyncedChart(chart, seen, new, mode) ==
  CASE new = None -> chart
    [] new # None /\ seen = None -> InsertedChart(new, mode)
    [] OTHER -> IF ChartChanges(seen, new, mode)
                THEN UpdatedChart(seen, new, mode) ELSE chart

SyncedCharts(charts, seen, ws, mode) ==
  [i \in Idx |-> [d \in Diff |->
     SyncedChart(charts[i][d], seen.charts[i][d], ws.charts[i][d], mode)]]

SyncedWorldsend(worldsend, seen, ws) ==
  [i \in Idx |-> CASE ws.we[i] = None -> worldsend[i]
                   [] ws.we[i] # None /\ seen.worldsend[i] = None -> ws.we[i]
                   [] OTHER -> UpdatedWorldsend(worldsend[i], ws.we[i])]
=============================================================================
