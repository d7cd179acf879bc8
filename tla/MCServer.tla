------------------------------ MODULE MCServer -------------------------------
(***************************************************************************)
(* The song master, its downloads, the courses, the caches of a server,    *)
(* the statistics and the pages made of them, the ratings of one player,   *)
(* goals and the static files share no variable: one run explores each of  *)
(* them, the others standing still.                                        *)
(***************************************************************************)
EXTENDS SongBatch, ServerCaches, ChartStats, RatingSlots, Goals, SlotPages, StaticExport, TLC
CONSTANTS i1, i2, mas, ult, t1, t2, dA, dB, c1, c2, p1, p2, e1, e2, f1, f2

VARIABLE part

NoRow(S) == [x \in S |-> None]
Official(title, isNew, level, we) ==
  [title |-> title, genreKnown |-> TRUE, isNew |-> isNew, level |-> level, we |-> we]
Levels(a, b) == (mas :> a @@ ult :> b)
NoAdditional == [songs |-> NoRow(Idx), charts |-> [i \in Idx |-> NoRow(Diff)], we |-> NoRow(Idx)]
NoMainframe == [t \in Title |-> NoRow(Diff)]

\* A song with an unknown constant, completed by every other source.
First ==
  [official |-> (i1 :> Official(t1, TRUE, Levels(130, None), None) @@ i2 :> None),
   additional |-> [NoAdditional EXCEPT
      !.charts[i1][ult] = [const |-> 142, unknown |-> FALSE, notes |-> 900],
      !.we[i2] = [title |-> t2, genreKnown |-> TRUE, released |-> None, star |-> 3,
                  attribute |-> None, notes |-> None]],
   st1027 |-> (i1 :> [bpm |-> 180, unlock |-> 1, notes |-> Levels(700, None),
                      designer |-> Levels(dA, dA)] @@ i2 :> None),
   mainframe |-> [NoMainframe EXCEPT ![t1][mas] = 132],
   otoge |-> (i1 :> [we |-> FALSE, bpm |-> None, notes |-> None, designer |-> None,
                     wiki |-> t1, released |-> 2] @@
              i2 :> [we |-> TRUE, bpm |-> 200, notes |-> 500, designer |-> dB,
                     wiki |-> None, released |-> None])]

\* The song has another level, nothing is known of its constant; the other song is
\* one of WORLD'S END without a star; one song more than the first list has.
Second ==
  [official |-> (i1 :> Official(t1, FALSE, Levels(135, 140), None) @@
                 i2 :> Official(t2, TRUE, Levels(None, None),
                                [star |-> None, attribute |-> t2])),
   additional |-> NoAdditional,
   st1027 |-> (i1 :> [bpm |-> None, unlock |-> 0, notes |-> Levels(None, None),
                      designer |-> Levels(None, dB)] @@ i2 :> None),
   mainframe |-> NoMainframe,
   otoge |-> None]

\* The first song is listed under another index, and is an additional song too.
Moving ==
  [Second EXCEPT
    !.official = (i1 :> None @@ i2 :> Official(t1, TRUE, Levels(90, None), None)),
    !.additional.songs[i1] = [title |-> t2, genreKnown |-> TRUE, bpm |-> 0, released |-> 1,
       chart |-> Levels([const |-> 130, unknown |-> TRUE, notes |-> None], None)],
    !.mainframe[t1][mas] = 95]

MCFeed == {First, Second, Moving}
MCToday == {None, 2}
MCSongEdit ==
  {[title |-> t1, isNew |-> FALSE, bpm |-> 170, released |-> 2, wiki |-> t2, unlock |-> Keep]}
MCChartEdit == {[const |-> 131, unknown |-> FALSE, notes |-> None, designer |-> dB]}
MCWorldsendEdit == {[star |-> None, attribute |-> t1, notes |-> None, designer |-> dA]}
-----------------------------------------------------------------------------
\* Records that come chart by chart are counted chart by chart: in one pass, the
\* calculator finds what every chart and band has among all records, and no more.
MCBand ==
  {[min |-> NoBound, max |-> NoBound], [min |-> NoBound, max |-> 15], [min |-> 15, max |-> NoBound]}
MCRecord ==
  [chart : {1, 2}, rating : {14, 15}, score : {974999, 1010000}, failed : BOOLEAN, lamp : {"AJ"}]
InOrder(rs) == \A k \in 1 .. Len(rs) - 1 : rs[k].chart <= rs[k + 1].chart
Of(rs, c, b) == SelectSeq(rs, LAMBDA r : r.chart = c /\ InBand(b, r.rating))

ASSUME StatsByChart ==
  \A n \in 0 .. 3 : \A rs \in {s \in [1 .. n -> MCRecord] : InOrder(s)} :
    ChartStatsResults(MCBand, rs) =
      {<<c, b, Accumulated(Of(rs, c, b))>> :
        <<c, b>> \in {x \in {1, 2} \X MCBand : Of(rs, x[1], x[2]) # <<>>}}
-----------------------------------------------------------------------------
MCCourseSheet == {1 :> "a" @@ 2 :> "b"}
-----------------------------------------------------------------------------
\* The first song is older than the version; the second came with it.
MCReleasedAt == 1 :> 1 @@ 2 :> 2
MCRatedChart == {<<1, "MASTER">>, <<1, "ULTIMA">>, <<2, "MASTER">>}
MCRatedPlay ==
  {[score |-> 899999, lamp |-> "full combo"], [score |-> 1007499, lamp |-> "none"],
   [score |-> 1010000, lamp |-> "all justice"]}
-----------------------------------------------------------------------------
\* A goal of every type, of one version or of several; a song that has every difficulty.
Goal(type, params, attributes) ==
  [type |-> type, params |-> params, attributes |-> attributes, gauge |-> 0, apply |-> FALSE]
All == <<>>
Array(ids) == [array |-> TRUE, ids |-> ids]
One(id) == [array |-> FALSE, ids |-> <<id>>]
MCGoalChart == {<<1, 1>>, <<1, 2>>, <<1, 3>>, <<1, 4>>, <<1, 5>>, <<2, 4>>, <<2, 5>>}
MCFirstConst == [c \in MCGoalChart |-> IF c[2] <= 3 THEN 20 * c[2] ELSE 130]
MCSongDay == 1 :> 1 @@ 2 :> 3
MCFirstVersions == 1 :> [name |-> "first", at |-> 1] @@ 2 :> [name |-> "second", at |-> 3]
                     @@ 3 :> [name |-> "third", at |-> 5]
MCGoalInput ==
  {Goal("score_count", "score" :> 1000000 @@ "count" :> 3, "ver" :> Array(<<3, 1, 3>>)),
   Goal("rating_count", "rating" :> 1515 @@ "remaining" :> 1,
        "const" :> [min |-> 130, max |-> 160]),
   Goal("rating_count", "rating" :> 1516, All),
   Goal("rainbow_count", "count" :> 1, "ver" :> Array(<<1>>)),
   Goal("rainbow_count", "count" :> 1, "op" :> TRUE),
   Goal("total_score", "total" :> 2020000, "diff" :> Array(<<5, 4>>) @@ "ver" :> Array(<<2, 3>>)),
   Goal("total_score", "total" :> 1 @@ "percent" :> 5, All),
   Goal("overpower_value", "total" :> 160000, "op" :> TRUE),
   Goal("overpower_value", "total" :> 80001, "op" :> TRUE @@ "ver" :> One(2)),
   [Goal("avg_score", "score" :> 1009000, "const" :> [min |-> 131, max |-> 140]) EXCEPT
      !.gauge = 1000000, !.apply = TRUE],
   [Goal("overpower_percent", "total" :> 99999, "op" :> TRUE) EXCEPT !.gauge = 100001]}
MCEdited == {<<1, 4>>, <<2, 5>>}
-----------------------------------------------------------------------------
\* Two charts of one song, and one of another.
MCSlotChart == {[song |-> 1, level |-> 1], [song |-> 1, level |-> 2], [song |-> 2, level |-> 1]}
-----------------------------------------------------------------------------
vars ==
  <<part, masterVars, cachesVars, statsVars, ratingSlotsVars, goalsVars, slotPagesVars,
    staticExportVars, downloadsVars, coursesVars>>

Init ==
  /\ part \in {"songs", "courses", "caches", "stats", "ratings", "goals", "pages", "export",
               "downloads"}
  /\ MasterInit /\ CachesInit /\ StatsInit /\ RatingSlotsInit /\ GoalsInit /\ SlotPagesInit
  /\ StaticExportInit /\ DownloadsInit /\ CoursesInit
  /\ part # "ratings" => plays = <<>> /\ ~current /\ \A c \in RatedChart : consts[c] = 130
  /\ part # "courses" => courses = [i \in CourseIdx |-> NoCourse]
  /\ part # "pages" => slots = [players |-> 1, rows |-> [c \in SlotChart |-> Row(0, 1)]]
  /\ part # "export" => mode = "chart_stats"

\* The parts that stand still.
Rest(p) ==
  /\ p # "songs" => UNCHANGED masterVars
  /\ p # "caches" => UNCHANGED cachesVars
  /\ p # "stats" => UNCHANGED statsVars
  /\ p # "ratings" => UNCHANGED ratingSlotsVars
  /\ p # "goals" => UNCHANGED goalsVars
  /\ p # "pages" => UNCHANGED slotPagesVars
  /\ p # "export" => UNCHANGED staticExportVars
  /\ p # "downloads" => UNCHANGED downloadsVars
  /\ p # "courses" => UNCHANGED coursesVars

Next ==
  /\ \/ part = "songs" /\ MasterNext
     \/ part = "courses" /\ CoursesNext
     \/ part = "caches" /\ CachesNext
     \/ part = "stats" /\ StatsNext
     \/ part = "ratings" /\ RatingSlotsNext
     \/ part = "goals" /\ GoalsNext
     \/ part = "pages" /\ SlotPagesNext
     \/ part = "export" /\ StaticExportNext
     \/ part = "downloads" /\ DownloadsNext
  /\ UNCHANGED part /\ Rest(part)

Spec == Init /\ [][Next]_vars

\* What is promised of each part, looked at where it can change, with the types of its
\* variables; SongBatchHolds is looked at always.
\* (buildUpdate, completePlayerRecords)
RatingsHold == part = "ratings" => RatingSlotsTypeOK /\ RatingsSound

\* (ExportSnapshot, ImportSnapshot)
GoalFilesHold == part = "goals" => GoalsTypeOK /\ GoalFilesSound

\* (best_slot_ranking_query_service_impl.go)
PagesHold == part = "pages" => SlotPagesTypeOK /\ PagesSound
=============================================================================
