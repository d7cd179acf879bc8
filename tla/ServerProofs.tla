----------------------------- MODULE ServerProofs -----------------------------
(* Proofs about components that run beside the requests of users: statistics of *)
(* charts are of one moment, the exported files are of the runs that say so;    *)
(* nobody is served what is older than he may expect, and the published state   *)
(* of maintenance is the stored one; and a better score never lowers a rating   *)
(* or an OVER POWER, nor passes their maxima.                                   *)
EXTENDS ChartStats, StaticExport, ServerCaches, Rating, FiniteSetTheorems, TLAPS

-----------------------------------------------------------------------------
(* The statistics of charts *)

\* What a process has read is of the moment of its first query.
ReadingOf(run_r, upTo) ==
  \E got \in Seq(Int) :
    /\ run_r = [pc |-> "reading", got |-> got]
    /\ \A k \in 1 .. Len(got) :
         got[k] \in 0 .. MaxChanges /\ got[k] = got[1] /\ got[k] <= upTo
RunOK(run_r, upTo) ==
  run_r = Waiting \/ run_r = [pc |-> "finished"] \/ ReadingOf(run_r, upTo)

ExportOK(ex) ==
  \/ ex = Waiting
  \/ \E snapshot : /\ ex = [pc |-> "exporting", snapshot |-> snapshot]
                   /\ snapshot["charts"] = snapshot["worldsend"]
  \/ \E shown : ex = [pc |-> "exported", charts |-> shown, worldsend |-> shown]

\* The tables are of one generation, the newest unless the lock was lost; while it was
\* not, only its holder runs, and reads nothing older than what is published.
StatsInv ==
  /\ source \in 0 .. MaxChanges /\ newest \in 0 .. MaxChanges /\ newest <= source
  /\ lost \in BOOLEAN /\ statsLock \in Runner \cup {NoRunner}
  /\ \E g \in 0 .. MaxChanges : stats = [t \in Table |-> {g}] /\ (lost \/ g = newest)
  /\ run = [r \in Runner |-> run[r]] /\ \A r \in Runner : RunOK(run[r], source)
  /\ export = [e \in Exporter |-> export[e]] /\ \A e \in Exporter : ExportOK(export[e])
  /\ ~lost => \A r \in Runner : run[r].pc # "waiting" => statsLock = r
  /\ ~lost => \A r \in Runner : run[r].pc = "reading" /\ run[r].got # <<>>
                                  => newest <= run[r].got[1]

LEMMA FiveQueries == Cardinality(Query) = 5
<1>1. ASSUME NEW lo \in Int, NEW hi \in Int, lo = 1, hi = 5 PROVE Cardinality(lo .. hi) = 5
  <2>1. Cardinality(lo .. hi) = IF lo > hi THEN 0 ELSE hi - lo + 1
    BY FS_Interval
  <2> QED
    BY <1>1, <2>1
<1>2. 1 \in Int /\ 5 \in Int
  OBVIOUS
<1> QED
  BY <1>1, <1>2 DEF Query

LEMMA OneMore ==
  ASSUME NEW got \in Seq(Int), NEW x \in Int, \A k \in 1 .. Len(got) : got[k] = x
  PROVE  /\ Append(got, x) \in Seq(Int) /\ Append(got, x) # <<>>
         /\ 1 \in 1 .. Len(Append(got, x))
         /\ \A k \in 1 .. Len(Append(got, x)) : Append(got, x)[k] = x
<1>1. Append(got, x) \in Seq(Int) /\ Len(Append(got, x)) = Len(got) + 1 /\ Len(got) \in Nat
  OBVIOUS
<1>2. ASSUME NEW k \in 1 .. Len(Append(got, x)) PROVE Append(got, x)[k] = x
  <2>1. k \in 1 .. Len(got) \/ k = Len(got) + 1
    BY <1>1
  <2> QED
    BY <2>1
<1>3. Len(Append(got, x)) # 0
  BY <1>1
<1> QED
  BY <1>1, <1>2, <1>3

LEMMA StatsInitInv == StatsInit => StatsInv
<1> SUFFICES ASSUME StatsInit PROVE StatsInv
  OBVIOUS
<1>1. 0 \in 0 .. MaxChanges /\ 0 <= 0
  BY StatsAssumption
<1>2. \A r \in Runner : run[r] = Waiting
  BY DEF StatsInit
<1>3. \A e \in Exporter : export[e] = Waiting
  BY DEF StatsInit
<1>4. \A r \in Runner : run[r].pc = "waiting"
  BY <1>2 DEF Waiting
<1> QED
  BY <1>1, <1>2, <1>3, <1>4 DEF StatsInit, StatsInv, RunOK, ExportOK

LEMMA ChangeSourceStep == ASSUME StatsInv, ChangeSource PROVE StatsInv'
<1>1. /\ source < MaxChanges /\ source' = source + 1
      /\ UNCHANGED <<stats, statsLock, run, export, newest, lost>>
  BY DEF ChangeSource
<1>2. source' \in 0 .. MaxChanges /\ newest' <= source' /\ source \in Int /\ source <= source'
  BY <1>1, StatsAssumption DEF StatsInv
<1>3. ASSUME NEW r \in Runner PROVE RunOK(run'[r], source')
  <2>1. RunOK(run[r], source)
    BY DEF StatsInv
  <2>2. CASE ReadingOf(run[r], source)
    <3>1. PICK got \in Seq(Int) :
            /\ run[r] = [pc |-> "reading", got |-> got]
            /\ \A k \in 1 .. Len(got) :
                 got[k] \in 0 .. MaxChanges /\ got[k] = got[1] /\ got[k] <= source
      BY <2>2 DEF ReadingOf
    <3>2. \A k \in 1 .. Len(got) : got[k] <= source'
      <4> TAKE k \in 1 .. Len(got)
      <4>1. got[k] \in 0 .. MaxChanges /\ got[k] <= source
        BY <3>1
      <4> QED
        BY <1>1, <1>2, <4>1
    <3> QED
      BY <1>1, <3>1, <3>2 DEF RunOK, ReadingOf
  <2> QED
    BY <1>1, <2>1, <2>2 DEF RunOK
<1> QED
  BY <1>1, <1>2, <1>3 DEF StatsInv

\* What one process does with what it has.
LEMMA RunnerStep ==
  ASSUME StatsInv, NEW r \in Runner,
         BeginStats(r) \/ ReadSource(r) \/ FailStats(r) \/ ReplaceStats(r) \/ EndStats(r)
  PROVE  StatsInv'
<1>1. /\ UNCHANGED <<source, export, lost>>
      /\ run' = [q \in Runner |-> run'[q]] /\ \A q \in Runner : q # r => run'[q] = run[q]
  BY DEF BeginStats, ReadSource, FailStats, ReplaceStats, EndStats, StatsInv
<1>2. RunOK(run[r], source) /\ NoRunner \notin Runner /\ MaxChanges \in Nat
  BY StatsAssumption DEF StatsInv
<1>3. /\ Waiting.pc = "waiting" /\ [pc |-> "finished"].pc = "finished"
      /\ \A got : [pc |-> "reading", got |-> got].pc = "reading"
                  /\ [pc |-> "reading", got |-> got].got = got
  BY DEF Waiting
<1>4. CASE BeginStats(r)
  <2>1. /\ run[r].pc = "waiting" /\ statsLock = NoRunner /\ statsLock' = r
        /\ run'[r] = [pc |-> "reading", got |-> <<>>]
        /\ UNCHANGED <<stats, newest>>
    BY <1>4 DEF BeginStats, StatsInv
  <2>2. RunOK(run'[r], source)
    <3>1. <<>> \in Seq(Int) /\ 1 .. Len(<<>>) = {}
      OBVIOUS
    <3> QED
      BY <2>1, <3>1 DEF RunOK, ReadingOf
  <2>3. ~lost => \A q \in Runner : run[q].pc = "waiting"
    BY <1>2, <2>1 DEF StatsInv
  <2> QED
    BY <1>1, <1>3, <2>1, <2>2, <2>3 DEF StatsInv
<1>5. CASE ReadSource(r)
  <2>1. run[r].pc = "reading"
    BY <1>5 DEF ReadSource
  <2>2. PICK got \in Seq(Int) :
          /\ run[r] = [pc |-> "reading", got |-> got]
          /\ \A k \in 1 .. Len(got) :
               got[k] \in 0 .. MaxChanges /\ got[k] = got[1] /\ got[k] <= source
    BY <1>2, <1>3, <2>1 DEF RunOK, ReadingOf
  <2> DEFINE x == IF got = <<>> THEN source ELSE got[1]
  <2>3. run'[r] = [pc |-> "reading", got |-> Append(got, x)]
    <3>1. run'[r] = [run[r] EXCEPT !.got = Append(run[r].got, IF run[r].got = <<>> THEN source
                                                              ELSE run[r].got[1])]
      BY <1>5 DEF ReadSource, StatsInv
    <3>2. run[r].got = got
      BY <2>2
    <3>3. run'[r] = [run[r] EXCEPT !.got = Append(got, x)]
      BY <3>1, <3>2
    <3> HIDE DEF x
    <3>4. \A g, y : [[pc |-> "reading", got |-> g] EXCEPT !.got = y] = [pc |-> "reading", got |-> y]
      OBVIOUS
    <3>5. run[r] = [pc |-> "reading", got |-> got]
      BY <2>2
    <3>6. run'[r] = [[pc |-> "reading", got |-> got] EXCEPT !.got = Append(got, x)]
      BY <3>3, <3>5, Zenon
    <3>7. [[pc |-> "reading", got |-> got] EXCEPT !.got = Append(got, x)]
            = [pc |-> "reading", got |-> Append(got, x)]
      BY <3>4
    <3> QED
      BY <3>6, <3>7, Zenon
  <2>4. /\ x \in 0 .. MaxChanges /\ x <= source
        /\ ~lost => newest <= x
    <3>1. CASE got = <<>>
      BY <3>1 DEF StatsInv
    <3>2. CASE got # <<>>
      <4>1. 1 \in 1 .. Len(got) /\ x = got[1]
        BY <3>2
      <4>2. ~lost => newest <= run[r].got[1]
        BY <1>3, <2>2, <3>2 DEF StatsInv
      <4>3. got[1] \in 0 .. MaxChanges /\ got[1] <= source /\ run[r].got = got
        BY <2>2, <4>1
      <4> QED
        BY <4>1, <4>2, <4>3
    <3> QED
      BY <3>1, <3>2
  <2>5. \A k \in 1 .. Len(got) : got[k] = x
    BY <2>2
  <2> HIDE DEF x
  <2>6. x \in Int /\ MaxChanges \in Nat
    BY <1>2, <2>4
  <2>7. /\ Append(got, x) \in Seq(Int) /\ Append(got, x) # <<>>
        /\ 1 \in 1 .. Len(Append(got, x))
        /\ \A k \in 1 .. Len(Append(got, x)) : Append(got, x)[k] = x
    BY <2>2, <2>5, <2>6, OneMore
  <2>8. RunOK(run'[r], source)
    BY <2>3, <2>4, <2>7 DEF RunOK, ReadingOf
  <2>9. ~lost => newest <= run'[r].got[1] /\ run'[r].pc = "reading" /\ run[r].pc = "reading"
    BY <1>3, <2>1, <2>3, <2>4, <2>7
  <2>10. run'[r].pc = "reading" /\ UNCHANGED <<stats, statsLock, newest>>
    BY <1>3, <1>5, <2>3 DEF ReadSource
  <2> QED
    BY <1>1, <2>1, <2>8, <2>9, <2>10 DEF StatsInv
<1>6. CASE FailStats(r)
  <2>1. /\ run[r].pc = "reading" /\ run'[r] = [pc |-> "finished"]
        /\ UNCHANGED <<stats, statsLock, newest>>
    BY <1>6 DEF FailStats, StatsInv
  <2> QED
    BY <1>1, <1>3, <2>1 DEF StatsInv, RunOK
<1>7. CASE ReplaceStats(r)
  <2>1. run[r].pc = "reading"
    BY <1>7 DEF ReplaceStats
  <2>2. PICK got \in Seq(Int) :
          /\ run[r] = [pc |-> "reading", got |-> got]
          /\ \A k \in 1 .. Len(got) :
               got[k] \in 0 .. MaxChanges /\ got[k] = got[1] /\ got[k] <= source
    BY <1>2, <1>3, <2>1 DEF RunOK, ReadingOf
  <2>3. Cardinality(Query) = 5
    BY FiveQueries
  <2>4. /\ Len(got) = 5
        /\ stats' = [charts |-> {got[1]}, worldsend |-> {got[2]}, best |-> {got[3], got[4], got[5]}]
        /\ newest' = IF got[1] > newest THEN got[1] ELSE newest
        /\ run'[r] = [pc |-> "finished"] /\ UNCHANGED statsLock
    <3>1. run[r].got = got
      BY <2>2
    <3> QED
      BY <1>7, <2>3, <3>1 DEF ReplaceStats, StatsInv
  <2>5. /\ got[1] \in 0 .. MaxChanges /\ got[1] <= source
        /\ got[2] = got[1] /\ got[3] = got[1] /\ got[4] = got[1] /\ got[5] = got[1]
    <3>1. 1 .. Len(got) = 1 .. 5
      BY <2>4
    <3>2. \A k \in 1 .. 5 : got[k] \in 0 .. MaxChanges /\ got[k] = got[1] /\ got[k] <= source
      BY <2>2, <3>1
    <3>3. 1 \in 1 .. 5 /\ 2 \in 1 .. 5 /\ 3 \in 1 .. 5 /\ 4 \in 1 .. 5 /\ 5 \in 1 .. 5
      OBVIOUS
    <3> QED
      BY <3>2, <3>3
  <2>6. stats' = [t \in Table |-> {got[1]}]
    <3>1. PICK a : a = {got[1]}
      OBVIOUS
    <3>2. stats' = [charts |-> a, worldsend |-> a, best |-> a]
      BY <2>4, <2>5, <3>1
    <3>3. [charts |-> a, worldsend |-> a, best |-> a] = [t \in Table |-> a]
      BY DEF Table
    <3> QED
      BY <3>1, <3>2, <3>3
  <2>7. ~lost => newest <= got[1]
    <3>1. got # <<>>
      <4>1. Len(got) # 0 /\ Len(<<>>) = 0
        BY <2>4
      <4> QED
        BY <4>1
    <3> QED
      BY <1>3, <2>2, <3>1 DEF StatsInv
  <2>8. newest' \in 0 .. MaxChanges /\ newest' <= source /\ (~lost => newest' = got[1])
    BY <2>4, <2>5, <2>7 DEF StatsInv
  <2>9. RunOK(run'[r], source) /\ run'[r].pc = "finished"
    BY <1>3, <2>4 DEF RunOK
  <2>10. ~lost => \A q \in Runner : q # r => run[q].pc = "waiting"
    BY <2>1 DEF StatsInv
  <2> QED
    BY <1>1, <2>1, <2>4, <2>5, <2>6, <2>8, <2>9, <2>10 DEF StatsInv
<1>8. CASE EndStats(r)
  <2>1. /\ run[r].pc # "waiting" /\ run'[r] = Waiting
        /\ statsLock' = IF statsLock = r THEN NoRunner ELSE statsLock
        /\ UNCHANGED <<stats, newest>>
    BY <1>8 DEF EndStats, StatsInv
  <2>2. ~lost => \A q \in Runner : q # r => run[q].pc = "waiting"
    BY <2>1 DEF StatsInv
  <2> QED
    BY <1>1, <1>3, <2>1, <2>2 DEF StatsInv, RunOK
<1> QED
  BY <1>4, <1>5, <1>6, <1>7, <1>8

LEMMA ExporterStep ==
  ASSUME StatsInv, NEW e \in Exporter, ExportCharts(e) \/ ExportWorldsend(e) \/ EndExport(e)
  PROVE  StatsInv'
<1>1. /\ UNCHANGED <<source, stats, statsLock, run, newest, lost>>
      /\ export' = [d \in Exporter |-> export'[d]]
      /\ \A d \in Exporter : d # e => export'[d] = export[d]
  BY DEF ExportCharts, ExportWorldsend, EndExport, StatsInv
<1>2. ExportOK(export[e])
  BY DEF StatsInv
<1>3. ExportOK(export'[e])
  <2>1. CASE ExportCharts(e)
    <3>1. export'[e] = [pc |-> "exporting", snapshot |-> stats]
      BY <2>1 DEF ExportCharts, StatsInv
    <3>2. stats["charts"] = stats["worldsend"]
      BY DEF StatsInv, Table
    <3> QED
      BY <3>1, <3>2 DEF ExportOK
  <2>2. CASE ExportWorldsend(e)
    <3>1. PICK snapshot : /\ export[e] = [pc |-> "exporting", snapshot |-> snapshot]
                          /\ snapshot["charts"] = snapshot["worldsend"]
      <4>1. export[e].pc = "exporting"
        BY <2>2 DEF ExportWorldsend
      <4>2. export[e] # Waiting
        BY <4>1 DEF Waiting
      <4>3. ASSUME NEW shown, export[e] = [pc |-> "exported", charts |-> shown, worldsend |-> shown]
            PROVE  FALSE
        BY <4>1, <4>3
      <4> QED
        BY <1>2, <4>2, <4>3 DEF ExportOK
    <3>2. export'[e] = [pc |-> "exported", charts |-> snapshot["charts"],
                        worldsend |-> snapshot["worldsend"]]
      BY <2>2, <3>1 DEF ExportWorldsend, StatsInv
    <3> QED
      BY <3>1, <3>2 DEF ExportOK
  <2>3. CASE EndExport(e)
    BY <2>3 DEF EndExport, ExportOK, StatsInv
  <2> QED
    BY <2>1, <2>2, <2>3
<1> QED
  BY <1>1, <1>3 DEF StatsInv

LEMMA StatsStepInv == StatsInv /\ [StatsNext]_statsVars => StatsInv'
<1> SUFFICES ASSUME StatsInv, [StatsNext]_statsVars PROVE StatsInv'
  OBVIOUS
<1>1. CASE LoseStatsLock
  <2>1. /\ statsLock' = NoRunner /\ lost' = TRUE
        /\ UNCHANGED <<source, stats, run, export, newest>>
    BY <1>1 DEF LoseStatsLock
  <2> QED
    BY <2>1 DEF StatsInv
<1>2. CASE UNCHANGED statsVars
  BY <1>2 DEF StatsInv, statsVars
<1> QED
  BY <1>1, <1>2, ChangeSourceStep, RunnerStep, ExporterStep DEF StatsNext

\* The tables and every export of them are of one moment, and of no moment before that of
\* an earlier batch unless a lock was lost, for any processes, requests and changes.
THEOREM SpecStatsHold == StatsSpec => []StatsHold
<1>1. StatsInv => StatsHold
  <2> SUFFICES ASSUME StatsInv PROVE StatsHold
    OBVIOUS
  <2>1. PICK g \in 0 .. MaxChanges : stats = [t \in Table |-> {g}] /\ (lost \/ g = newest)
    BY DEF StatsInv
  <2>2. Cardinality(UNION {stats[t] : t \in Table}) = 1
    <3>1. UNION {stats[t] : t \in Table} = {g}
      BY <2>1 DEF Table
    <3> QED
      BY <3>1, FS_Singleton
  <2>3. \A r \in Runner : run[r].pc \in {"waiting", "reading", "finished"}
    BY DEF StatsInv, RunOK, ReadingOf, Waiting
  <2>4. \A e \in Exporter :
          /\ export[e].pc \in {"waiting", "exporting", "exported"}
          /\ export[e].pc = "exported" => export[e].charts = export[e].worldsend
    BY DEF StatsInv, ExportOK, Waiting
  <2>5. lost \/ newest \in stats["charts"]
    BY <2>1 DEF Table
  <2>6. stats \in [Table -> SUBSET (0 .. MaxChanges)]
    BY <2>1
  <2> QED
    BY <2>2, <2>3, <2>4, <2>5, <2>6 DEF StatsHold, StatsTypeOK, StatsOfOneMoment, StatsInv
<1> QED
  BY <1>1, StatsInitInv, StatsStepInv, PTL DEF StatsSpec
-----------------------------------------------------------------------------
(* The export of static files *)

Active == {"reading", "putting", "purging"}
ProgressState ==
  [at : {"new", "reading", "putting", "purging", "done", "failed"}, step : Nat,
   read : [ExportTable -> LastEdit]]

ReadTables(md) == IF md = "static_data" THEN ExportTable ELSE {"songs", "worldsend"}
ReadSoFar(md, step) ==
  {t \in ExportTable : \E i \in DOMAIN ReadOrder(md) : i < step /\ t \in ReadOrder(md)[i]}
\* The tables that a run has read for good.
ReadBy(r) ==
  IF progress[r].at = "reading" THEN ReadSoFar(mode, progress[r].step) ELSE ReadTables(mode)

ExportTypes ==
  /\ mode \in ExportMode
  /\ table \in [ExportTable -> LastEdit]
  /\ locked \in Run \cup {NoRun}
  /\ progress \in [Run -> ProgressState]
  /\ object \in [Key(mode) -> Content \cup {NoContent}]
  /\ copy \in [Key(mode) -> Content \cup {NoContent}]
  /\ known \in Content \cup {NoContent}

\* The lock lets one run work, and every stage has its steps.
StageInv ==
  \A r \in Run :
    /\ progress[r].at \in Active <=> locked = r
    /\ progress[r].at = "new" => progress[r].step = 1
    /\ progress[r].at = "reading" => progress[r].step \in 1 .. Len(ReadOrder(mode))
    /\ progress[r].at = "putting" => progress[r].step \in 1 .. Len(Keys(mode))

\* Nobody has read what is not yet there, and a table that is not read is nowhere newer.
PastInv ==
  \A t \in ExportTable :
    /\ \A r \in Run : /\ progress[r].read[t].edit <= table[t].edit
                      /\ t \notin ReadTables(mode) => progress[r].read[t].edit = 0
    /\ \A k \in Key(mode) : object[k] # NoContent =>
         /\ object[k].read[t].edit <= table[t].edit
         /\ t \notin ReadTables(mode) => object[k].read[t].edit = 0

\* The run at work has read nothing older than what is written.
NewerInv ==
  \A r \in Run : progress[r].at \in Active =>
    \A k \in Key(mode) : object[k] # NoContent =>
      \A t \in ReadBy(r) : progress[r].read[t].edit >= object[k].read[t].edit

\* What the run at work has written so far.
PutInv ==
  \A r \in Run :
    /\ progress[r].at = "putting" =>
         \A i \in DOMAIN Keys(mode) : i < progress[r].step => object[Keys(mode)[i]] = Body(r)
    /\ progress[r].at = "purging" => \A k \in Key(mode) : object[k] = Body(r)

FilledInv ==
  /\ \A r \in Run : progress[r].at \in {"putting", "purging"} =>
       \A t \in ReadTables(mode) : progress[r].read[t].filled
  /\ NeverEmpty

\* No object and no copy is older than what a run has succeeded with.
KnownInv ==
  known # NoContent =>
    \A k \in Key(mode) :
      /\ object[k] # NoContent /\ NotOlder(object[k], known)
      /\ copy[k] # NoContent => NotOlder(copy[k], known)

LastInv ==
  \A r \in Run :
    Has(r, "done") /\ known.r = r /\ (\A q \in Run \ {r} : Has(q, "new")) =>
      \A k \in Key(mode) : object[k] = known /\ copy[k] \in {NoContent, known}

ExportInv ==
  ExportTypes /\ StageInv /\ PastInv /\ NewerInv /\ PutInv /\ FilledInv /\ WrittenInOrder
    /\ KnownInv /\ LastInv

LEMMA KeysKnown ==
  ASSUME NEW md \in ExportMode
  PROVE  /\ Len(Keys(md)) \in Nat \ {0} /\ DOMAIN Keys(md) = 1 .. Len(Keys(md))
         /\ \A i, j \in DOMAIN Keys(md) : Keys(md)[i] = Keys(md)[j] => i = j
         /\ \A k \in Key(md) : \E i \in DOMAIN Keys(md) : k = Keys(md)[i]
         /\ \A i \in DOMAIN Keys(md) : Keys(md)[i] \in Key(md)
<1>1. CASE md = "static_data"
  <2>1. Keys(md) = <<"songs", "worldsend", "chunirec", "reiwa", "versions", "chunirec_all">>
    BY <1>1 DEF Keys, StaticKeys
  <2>2. Len(Keys(md)) = 6 /\ DOMAIN Keys(md) = 1 .. 6
    BY <2>1
  <2>3. \A i, j \in 1 .. 6 : Keys(md)[i] = Keys(md)[j] => i = j
    BY <2>1
  <2> QED
    BY <2>2, <2>3 DEF Key
<1>2. CASE md = "chart_stats"
  <2> DEFINE n == 2 * Cardinality(StatsLevel) + 2
  <2>1. n \in Nat \ {0}
    BY FS_CardinalityType, StaticExportAssumption
  <2>2. Keys(md) = [i \in 1 .. n |-> i]
    BY <1>2 DEF Keys, StatsKeys
  <2> HIDE DEF n
  <2>3. DOMAIN Keys(md) = 1 .. n /\ \A i \in 1 .. n : Keys(md)[i] = i
    BY <2>2
  <2>4. Keys(md) \in Seq(Nat) /\ Len(Keys(md)) = n
    BY <2>1, <2>2
  <2> QED
    BY <2>1, <2>3, <2>4 DEF Key
<1> QED
  BY <1>1, <1>2 DEF ExportMode

LEMMA OrderKnown ==
  ASSUME NEW md \in ExportMode
  PROVE  /\ Len(ReadOrder(md)) \in Nat \ {0}
         /\ DOMAIN ReadOrder(md) = 1 .. Len(ReadOrder(md))
         /\ UNION {ReadOrder(md)[i] : i \in DOMAIN ReadOrder(md)} = ReadTables(md)
         /\ ReadTables(md) \subseteq ExportTable
         /\ \A i \in DOMAIN ReadOrder(md) : ReadOrder(md)[i] \subseteq ReadTables(md)
         /\ \A t \in ReadTables(md) : \E i \in DOMAIN ReadOrder(md) : t \in ReadOrder(md)[i]
<1>1. CASE md = "static_data"
  <2>1. ReadOrder(md) = <<{"versions"}, {"songs"}, {"worldsend"}>> /\ ReadTables(md) = ExportTable
    BY <1>1 DEF ReadOrder, ReadTables
  <2>2. Len(ReadOrder(md)) = 3 /\ DOMAIN ReadOrder(md) = 1 .. 3
    BY <2>1
  <2>3. /\ ReadOrder(md)[1] = {"versions"} /\ ReadOrder(md)[2] = {"songs"}
        /\ ReadOrder(md)[3] = {"worldsend"}
    BY <2>1
  <2>4. 1 .. 3 = {1, 2, 3}
    OBVIOUS
  <2> QED
    BY <2>1, <2>2, <2>3, <2>4 DEF ExportTable
<1>2. CASE md = "chart_stats"
  <2>1. ReadOrder(md) = <<{"songs", "worldsend"}>> /\ ReadTables(md) = {"songs", "worldsend"}
    BY <1>2 DEF ReadOrder, ReadTables
  <2>2. Len(ReadOrder(md)) = 1 /\ DOMAIN ReadOrder(md) = {1}
    BY <2>1
  <2>3. ReadOrder(md)[1] = {"songs", "worldsend"}
    BY <2>1
  <2> QED
    BY <2>1, <2>2, <2>3 DEF ExportTable
<1> QED
  BY <1>1, <1>2 DEF ExportMode

LEMMA ContentKnown ==
  /\ NoContent \notin Content
  /\ \A c \in Content : c.r \in Run /\ \A t \in ExportTable : c.read[t].edit \in Nat
  /\ NoContent.r \notin Run
BY StaticExportAssumption DEF NoContent, Content, LastEdit

LEMMA NotOlderTransitive ==
  ASSUME NEW a \in Content, NEW b \in Content, NEW c \in Content,
         NotOlder(a, b), NotOlder(b, c)
  PROVE  NotOlder(a, c)
BY ContentKnown DEF NotOlder

LEMMA ExportInitInv == StaticExportInit => ExportInv
<1> SUFFICES ASSUME StaticExportInit PROVE ExportInv
  OBVIOUS
<1> USE ContentKnown, StaticExportAssumption
<1>1. /\ mode \in ExportMode /\ table = [t \in ExportTable |-> [edit |-> 0, filled |-> TRUE]]
      /\ locked = NoRun /\ progress = [r \in Run |-> NewRun(table)]
      /\ object = [k \in Key(mode) |-> NoContent] /\ copy = [k \in Key(mode) |-> NoContent]
      /\ known = NoContent
  BY DEF StaticExportInit
<1>2. table \in [ExportTable -> LastEdit] /\ \A t \in ExportTable : table[t].edit = 0
  BY <1>1 DEF LastEdit
<1>3. /\ NewRun(table) \in ProgressState
      /\ \A r \in Run : progress[r].at = "new" /\ progress[r].step = 1 /\ progress[r].read = table
  BY <1>1, <1>2 DEF NewRun, ProgressState
<1>4. \A k \in Key(mode) : object[k] = NoContent
  BY <1>1
<1>5. ExportTypes
  BY <1>1, <1>2, <1>3 DEF ExportTypes
<1>6. StageInv
  BY <1>1, <1>3 DEF StageInv, Active
<1>7. PastInv
  BY <1>2, <1>3, <1>4 DEF PastInv
<1>8. NewerInv /\ PutInv /\ FilledInv
  BY <1>3, <1>4 DEF NewerInv, PutInv, FilledInv, NeverEmpty, Active
<1>9. WrittenInOrder
  BY <1>1, <1>4, KeysKnown DEF WrittenInOrder
<1>10. KnownInv /\ LastInv
  BY <1>1, <1>3 DEF KnownInv, LastInv, Has
<1> QED
  BY <1>5, <1>6, <1>7, <1>8, <1>9, <1>10 DEF ExportInv

\* The body of a run whose progress has the same reads.
LEMMA BodyKnown ==
  ASSUME ExportTypes, NEW r \in Run
  PROVE  Body(r) \in Content /\ Body(r).r = r /\ Body(r).read = progress[r].read
BY DEF ExportTypes, Body, Content, ProgressState

\* A run that is not done with success moves, and perhaps all copies are dropped.
LEMMA RunMoves ==
  ASSUME ExportInv, NEW r \in Run, NEW p \in ProgressState, progress' = [progress EXCEPT ![r] = p],
         UNCHANGED <<mode, table, object, known>>,
         copy' = copy \/ copy' = [k \in Key(mode) |-> NoContent],
         p.at \notin {"new", "done"}, locked' \in Run \cup {NoRun},
         p.at \in Active <=> locked' = r,
         \A q \in Run \ {r} : locked' = q <=> locked = q,
         p.at = "reading" => p.step \in 1 .. Len(ReadOrder(mode)),
         p.at = "putting" => p.step = 1 /\ p.step \in 1 .. Len(Keys(mode)),
         \A t \in ExportTable :
           /\ p.read[t].edit <= table[t].edit
           /\ t \notin ReadTables(mode) => p.read[t].edit = 0,
         p.at \in Active => \A k \in Key(mode) : object[k] # NoContent =>
           \A t \in (IF p.at = "reading" THEN ReadSoFar(mode, p.step) ELSE ReadTables(mode)) :
             p.read[t].edit >= object[k].read[t].edit,
         p.at = "purging" => \A k \in Key(mode) : object[k] = [r |-> r, read |-> p.read],
         p.at \in {"putting", "purging"} => \A t \in ReadTables(mode) : p.read[t].filled
  PROVE  ExportInv'
<1>1. /\ progress' \in [Run -> ProgressState] /\ progress'[r] = p
      /\ \A q \in Run : q # r => progress'[q] = progress[q]
  BY DEF ExportInv, ExportTypes
<1>2. \A k \in Key(mode) : copy'[k] = NoContent \/ copy'[k] = copy[k]
  OBVIOUS
<1>3. ExportTypes'
  BY <1>1 DEF ExportInv, ExportTypes
<1>4. StageInv'
  BY <1>1 DEF ExportInv, StageInv
<1>5. PastInv'
  BY <1>1 DEF ExportInv, PastInv
<1>6. NewerInv'
  BY <1>1 DEF ExportInv, NewerInv, ReadBy
<1>7. PutInv'
  <2>1. \A q \in Run : q # r => Body(q)' = Body(q)
    BY <1>1 DEF Body
  <2>2. Body(r)' = [r |-> r, read |-> p.read]
    BY <1>1 DEF Body
  <2>3. DOMAIN Keys(mode) = 1 .. Len(Keys(mode)) /\ Len(Keys(mode)) \in Nat
    BY KeysKnown DEF ExportInv, ExportTypes
  <2>4. \A i \in DOMAIN Keys(mode) : ~(i < 1)
    BY <2>3
  <2> QED
    BY <1>1, <2>1, <2>2, <2>4 DEF ExportInv, PutInv
<1>8. FilledInv'
  BY <1>1 DEF ExportInv, FilledInv, NeverEmpty
<1>9. WrittenInOrder'
  BY DEF ExportInv, WrittenInOrder, NotOlder
<1>10. KnownInv'
  BY <1>2 DEF ExportInv, KnownInv, NotOlder
<1>11. LastInv'
  BY <1>1 DEF LastInv, Has
<1> QED
  BY <1>3, <1>4, <1>5, <1>6, <1>7, <1>8, <1>9, <1>10, <1>11 DEF ExportInv

LEMMA StartsStep == ASSUME ExportInv, NEW r \in Run, Starts(r) PROVE ExportInv'
<1>1. /\ progress[r].at = "new" /\ progress[r].step = 1 /\ progress[r] \in ProgressState
      /\ progress[r].at \in Active <=> locked = r
      /\ locked \in Run \cup {NoRun} /\ NoRun \notin Run
      /\ \A t \in ExportTable :
           /\ progress[r].read[t].edit <= table[t].edit
           /\ t \notin ReadTables(mode) => progress[r].read[t].edit = 0
  BY StaticExportAssumption DEF Starts, Has, ExportInv, StageInv, ExportTypes, PastInv
<1>2. UNCHANGED <<mode, table, object, copy, known>>
  BY DEF Starts, MasterUnchanged
<1>3. CASE locked = NoRun
  <2> DEFINE p == [progress[r] EXCEPT !.at = "reading"]
  <2>1. p \in ProgressState /\ p.at = "reading" /\ p.step = 1 /\ p.read = progress[r].read
    BY <1>1 DEF ProgressState
  <2>2. progress' = [progress EXCEPT ![r] = p] /\ locked' = r
    BY <1>3 DEF Starts
  <2> HIDE DEF p
  <2>3. ReadSoFar(mode, 1) = {} /\ 1 \in 1 .. Len(ReadOrder(mode))
    <3>1. /\ Len(ReadOrder(mode)) \in Nat \ {0}
          /\ DOMAIN ReadOrder(mode) = 1 .. Len(ReadOrder(mode))
      BY OrderKnown DEF ExportInv, ExportTypes
    <3> QED
      BY <3>1 DEF ReadSoFar
  <2> QED
    BY <1>1, <1>2, <1>3, <2>1, <2>2, <2>3, RunMoves DEF Active
<1>4. CASE locked # NoRun
  <2> DEFINE p == [progress[r] EXCEPT !.at = "failed"]
  <2>1. p \in ProgressState /\ p.at = "failed" /\ p.read = progress[r].read
    BY <1>1 DEF ProgressState
  <2>2. progress' = [progress EXCEPT ![r] = p] /\ locked' = locked
    BY <1>4 DEF Starts
  <2> HIDE DEF p
  <2> QED
    BY <1>1, <1>2, <1>4, <2>1, <2>2, RunMoves DEF Active
<1> QED
  BY <1>3, <1>4

\* A run that breaks off.
LEMMA BreaksOff ==
  ASSUME ExportInv, NEW r \in Run, progress[r].at \in Active,
         NEW p \in ProgressState, p.at = "failed", p.read = progress[r].read,
         progress' = [progress EXCEPT ![r] = p], locked' = NoRun,
         UNCHANGED <<mode, table, object, known>>,
         copy' = copy \/ copy' = [k \in Key(mode) |-> NoContent]
  PROVE  ExportInv'
<1>1. /\ locked = r /\ NoRun \notin Run
      /\ \A t \in ExportTable :
           /\ progress[r].read[t].edit <= table[t].edit
           /\ t \notin ReadTables(mode) => progress[r].read[t].edit = 0
  BY StaticExportAssumption DEF ExportInv, StageInv, PastInv
<1> QED
  BY <1>1, RunMoves DEF Active

LEMMA FailsStep == ASSUME ExportInv, NEW r \in Run, Fails(r) PROVE ExportInv'
<1> DEFINE p == [progress[r] EXCEPT !.at = "failed"]
<1>1. /\ progress[r].at \in Active /\ progress[r] \in ProgressState
  BY DEF Fails, ExportInv, StageInv, ExportTypes
<1>2. p \in ProgressState /\ p.at = "failed" /\ p.read = progress[r].read
  BY <1>1 DEF ProgressState
<1>3. /\ progress' = [progress EXCEPT ![r] = p] /\ locked' = NoRun
      /\ UNCHANGED <<mode, table, object, copy, known>>
  BY DEF Fails, MasterUnchanged
<1> HIDE DEF p
<1> QED
  BY <1>1, <1>2, <1>3, BreaksOff

LEMMA ReadsStep == ASSUME ExportInv, NEW r \in Run, Reads(r) PROVE ExportInv'
<1> DEFINE order == ReadOrder(mode)
           step == progress[r].step
           read == [t \in ExportTable |-> IF t \in order[step] THEN table[t]
                                          ELSE progress[r].read[t]]
<1>1. /\ progress[r].at = "reading" /\ progress[r] \in ProgressState /\ locked = r
      /\ step \in 1 .. Len(order)
      /\ mode \in ExportMode /\ table \in [ExportTable -> LastEdit]
      /\ UNCHANGED <<mode, table, object, copy, known>>
      /\ NoRun \notin Run
  BY StaticExportAssumption
     DEF Reads, Has, ExportInv, ExportTypes, StageInv, Active, MasterUnchanged
<1>2. /\ Len(order) \in Nat \ {0} /\ DOMAIN order = 1 .. Len(order)
      /\ order[step] \subseteq ReadTables(mode) /\ ReadTables(mode) \subseteq ExportTable
      /\ \A t \in ReadTables(mode) : \E i \in DOMAIN order : t \in order[i]
  BY <1>1, OrderKnown
<1>3. read \in [ExportTable -> LastEdit]
  BY <1>1 DEF ProgressState
<1>4. \A t \in ExportTable :
           /\ read[t].edit <= table[t].edit
           /\ t \notin ReadTables(mode) => read[t].edit = 0
  BY <1>1, <1>2 DEF ExportInv, PastInv, LastEdit
\* What has been read for good by now.
<1>5. ReadSoFar(mode, step + 1) = ReadSoFar(mode, step) \cup order[step]
  BY <1>1, <1>2 DEF ReadSoFar
<1>6. ASSUME NEW k \in Key(mode), object[k] # NoContent, NEW t \in ReadSoFar(mode, step + 1)
      PROVE  read[t].edit >= object[k].read[t].edit
  <2>1. t \in ExportTable
    BY DEF ReadSoFar
  <2>2. CASE t \in order[step]
    <3>1. read[t] = table[t] /\ object[k].read[t].edit <= table[t].edit
      BY <1>6, <2>1, <2>2 DEF ExportInv, PastInv
    <3>2. table[t].edit \in Nat /\ object[k].read[t].edit \in Nat
      BY <1>6, <1>1, <2>1, ContentKnown DEF ExportInv, ExportTypes, LastEdit
    <3> QED
      BY <3>1, <3>2
  <2>3. CASE t \notin order[step]
    <3>1. t \in ReadBy(r) /\ read[t] = progress[r].read[t]
      BY <1>1, <1>5, <2>1, <2>3 DEF ReadBy
    <3> QED
      BY <1>1, <1>6, <3>1 DEF ExportInv, NewerInv, Active
  <2> QED
    BY <2>2, <2>3
<1>7. step = Len(order) => ReadTables(mode) \subseteq ReadSoFar(mode, step + 1)
  BY <1>1, <1>2 DEF ReadSoFar
<1>8. step + 1 \in Nat /\ 1 \in Nat /\ (step < Len(order) => step + 1 \in 1 .. Len(order))
      /\ (~(step < Len(order)) => step = Len(order))
  BY <1>1, <1>2
<1>9. CASE step < Len(order)
  <2> DEFINE p == [progress[r] EXCEPT !.step = step + 1, !.read = read]
  <2>1. p \in ProgressState /\ p.at = "reading" /\ p.step = step + 1 /\ p.read = read
    BY <1>1, <1>3, <1>8 DEF ProgressState
  <2>2. progress' = [progress EXCEPT ![r] = p] /\ locked' = locked
    BY <1>9 DEF Reads
  <2> HIDE DEF p, read, order, step
  <2> QED
    BY <1>1, <1>4, <1>6, <1>8, <1>9, <2>1, <2>2, RunMoves DEF Active, order
<1>10. CASE ~(step < Len(order)) /\ Refused(mode, read)
  <2> DEFINE p == [progress[r] EXCEPT !.at = "failed"]
  <2>1. p \in ProgressState /\ p.at = "failed" /\ p.read = progress[r].read
    BY <1>1 DEF ProgressState
  <2>2. progress' = [progress EXCEPT ![r] = p] /\ locked' = NoRun
    BY <1>10 DEF Reads
  <2> HIDE DEF p
  <2> QED
    BY <1>1, <2>1, <2>2, BreaksOff DEF Active
<1>11. CASE ~(step < Len(order)) /\ ~Refused(mode, read)
  <2> DEFINE p == [progress[r] EXCEPT !.at = "putting", !.step = 1, !.read = read]
  <2>1. p \in ProgressState /\ p.at = "putting" /\ p.step = 1 /\ p.read = read
    BY <1>1, <1>3, <1>8 DEF ProgressState
  <2>2. progress' = [progress EXCEPT ![r] = p] /\ locked' = locked
    BY <1>11 DEF Reads
  <2>3. \A t \in ReadTables(mode) : read[t].filled
    <3>1. UNION {order[i] : i \in DOMAIN order} = ReadTables(mode)
      BY <1>1, OrderKnown
    <3> HIDE DEF read
    <3> QED
      BY <1>11, <3>1 DEF Refused
  <2>4. 1 \in 1 .. Len(Keys(mode))
    <3>1. Len(Keys(mode)) \in Nat \ {0}
      BY <1>1, KeysKnown
    <3> QED
      BY <3>1
  <2>5. \A k \in Key(mode) : object[k] # NoContent =>
          \A t \in ReadTables(mode) : read[t].edit >= object[k].read[t].edit
    BY <1>6, <1>7, <1>8, <1>11
  <2> HIDE DEF p, read, order, step
  <2> QED
    BY <1>1, <1>4, <2>1, <2>2, <2>3, <2>4, <2>5, RunMoves DEF Active
<1> QED
  BY <1>9, <1>10, <1>11

\* A run writes the next object: what it has read is not older than what was there.
LEMMA PutsStep == ASSUME ExportInv, NEW r \in Run, Puts(r) PROVE ExportInv'
<1> DEFINE keys == Keys(mode)
           step == progress[r].step
           key == keys[step]
           body == Body(r)
<1> USE ContentKnown
<1>1. /\ progress[r].at = "putting" /\ progress[r] \in ProgressState /\ locked = r
      /\ step \in 1 .. Len(keys)
      /\ mode \in ExportMode /\ table \in [ExportTable -> LastEdit]
      /\ UNCHANGED <<mode, table, copy, known>>
      /\ object' = [object EXCEPT ![key] = body]
      /\ NoRun \notin Run
  BY StaticExportAssumption
     DEF Puts, Has, ExportInv, ExportTypes, StageInv, Active, MasterUnchanged
<1>2. /\ Len(keys) \in Nat \ {0} /\ DOMAIN keys = 1 .. Len(keys)
      /\ \A i, j \in DOMAIN keys : keys[i] = keys[j] => i = j
      /\ \A k \in Key(mode) : \E i \in DOMAIN keys : k = keys[i]
      /\ \A i \in DOMAIN keys : keys[i] \in Key(mode)
  BY <1>1, KeysKnown
<1>3. PICK p \in ProgressState :
        /\ p.at \in {"putting", "purging", "failed"} /\ p.read = progress[r].read
        /\ progress' = [progress EXCEPT ![r] = p]
        /\ p.at = "failed" => locked' = NoRun
        /\ p.at # "failed" => locked' = locked
        /\ p.at = "putting" => p.step = step + 1 /\ step # Len(keys)
        /\ p.at = "purging" => step = Len(keys)
  <2>1. CASE progress' = [progress EXCEPT ![r].at = "failed"] /\ locked' = NoRun
    <3> DEFINE p == [progress[r] EXCEPT !.at = "failed"]
    <3>1. p \in ProgressState /\ p.at = "failed" /\ p.read = progress[r].read
      BY <1>1 DEF ProgressState
    <3>2. progress' = [progress EXCEPT ![r] = p]
      BY <2>1
    <3> HIDE DEF p
    <3> QED
      BY <2>1, <3>1, <3>2
  <2>2. CASE step = Len(keys) /\ progress' = [progress EXCEPT ![r].at = "purging", ![r].step = 1]
             /\ locked' = locked
    <3> DEFINE p == [progress[r] EXCEPT !.at = "purging", !.step = 1]
    <3>1. p \in ProgressState /\ p.at = "purging" /\ p.read = progress[r].read
      BY <1>1 DEF ProgressState
    <3>2. progress' = [progress EXCEPT ![r] = p]
      BY <2>2
    <3> HIDE DEF p
    <3> QED
      BY <2>2, <3>1, <3>2
  <2>3. CASE step # Len(keys) /\ locked' = locked
             /\ progress' = [progress EXCEPT ![r].at = "putting", ![r].step = step + 1]
    <3> DEFINE p == [progress[r] EXCEPT !.at = "putting", !.step = step + 1]
    <3>0. step + 1 \in Nat
      BY <1>1, <1>2
    <3>1. p \in ProgressState /\ p.at = "putting" /\ p.read = progress[r].read /\ p.step = step + 1
      <4> HIDE DEF step
      <4> QED
        BY <1>1, <3>0 DEF ProgressState
    <3>2. progress' = [progress EXCEPT ![r] = p]
      BY <2>3
    <3> HIDE DEF p
    <3> QED
      BY <2>3, <3>1, <3>2
  <2> QED
    BY <2>1, <2>2, <2>3 DEF Puts
<1>4. /\ body \in Content /\ body.read = progress[r].read
      /\ key \in Key(mode) /\ object \in [Key(mode) -> Content \cup {NoContent}]
  BY <1>1, <1>2, BodyKnown DEF ExportInv, ExportTypes
<1>5. \A t \in ExportTable : /\ body.read[t].edit <= table[t].edit
                             /\ t \notin ReadTables(mode) => body.read[t].edit = 0
  BY <1>4 DEF ExportInv, PastInv
<1>6. ASSUME NEW k \in Key(mode), object[k] # NoContent PROVE NotOlder(body, object[k])
  <2>1. ASSUME NEW t \in ExportTable PROVE body.read[t].edit >= object[k].read[t].edit
    <3>1. CASE t \in ReadTables(mode)
      BY <1>1, <1>4, <1>6, <3>1 DEF ExportInv, NewerInv, ReadBy, Active
    <3>2. CASE t \notin ReadTables(mode)
      <4>1. object[k].read[t].edit = 0
        BY <1>6, <3>2 DEF ExportInv, PastInv
      <4> QED
        BY <1>5, <3>2, <4>1
    <3> QED
      BY <3>1, <3>2
  <2> QED
    BY <2>1 DEF NotOlder
<1>7. \A i \in DOMAIN keys : i < step => object[keys[i]] = body
  BY <1>1 DEF ExportInv, PutInv
<1> HIDE DEF body, key, keys
<1>8. /\ object' \in [Key(mode) -> Content \cup {NoContent}]
      /\ object'[key] = body
      /\ \A k \in Key(mode) : k # key => object'[k] = object[k]
      /\ NotOlder(body, body)
  BY <1>1, <1>4 DEF NotOlder
<1>9. /\ progress' \in [Run -> ProgressState] /\ progress'[r] = p
      /\ \A q \in Run : q # r => progress'[q] = progress[q] /\ progress[q].at \notin Active
  BY <1>1, <1>3 DEF ExportInv, ExportTypes, StageInv
<1>10. key = keys[step] /\ step \in DOMAIN keys
  BY <1>1, <1>2 DEF key, keys
<1>11. ExportTypes'
  BY <1>1, <1>3, <1>8, <1>9 DEF ExportInv, ExportTypes
<1>12. StageInv'
  <2>1. p.at = "putting" => p.step \in 1 .. Len(keys)
    BY <1>1, <1>2, <1>3 DEF keys
  <2>2. p.at \in Active <=> locked' = r
    BY <1>1, <1>3 DEF Active
  <2>3. \A q \in Run : q # r => locked' # q
    BY <1>1, <1>3
  <2> QED
    BY <1>1, <1>3, <1>9, <2>1, <2>2, <2>3 DEF ExportInv, StageInv, keys
<1>13. PastInv'
  BY <1>1, <1>3, <1>4, <1>5, <1>8, <1>9 DEF ExportInv, PastInv
<1>14. NewerInv'
  <2>1. \A k \in Key(mode) : object'[k] # NoContent => NotOlder(body, object'[k])
    BY <1>6, <1>8
  <2>2. ReadTables(mode) \subseteq ExportTable
    BY <1>1, OrderKnown
  <2>3. \A k \in Key(mode) : object'[k] # NoContent =>
          \A t \in ReadTables(mode) : p.read[t].edit >= object'[k].read[t].edit
    BY <1>3, <1>4, <2>1, <2>2 DEF NotOlder
  <2> QED
    BY <1>1, <1>3, <1>9, <2>3 DEF NewerInv, ReadBy
<1>15. PutInv'
  <2>1. Body(r)' = body
    BY <1>3, <1>4, <1>9 DEF Body, body
  <2>2. \A i \in DOMAIN keys : i <= step => object'[keys[i]] = body
    BY <1>1, <1>2, <1>7, <1>8, <1>10
  <2>3. p.at = "putting" => \A i \in DOMAIN keys : i < p.step => object'[keys[i]] = body
    BY <1>1, <1>2, <1>3, <2>2
  <2>4. p.at = "purging" => \A k \in Key(mode) : object'[k] = body
    BY <1>1, <1>2, <1>3, <2>2
  <2> QED
    BY <1>1, <1>9, <2>1, <2>3, <2>4 DEF PutInv, Active, keys
<1>16. FilledInv'
  <2>1. \A t \in ReadTables(mode) : body.read[t].filled
    BY <1>1, <1>4 DEF ExportInv, FilledInv
  <2> QED
    BY <1>1, <1>3, <1>4, <1>8, <1>9, <2>1
       DEF ExportInv, FilledInv, NeverEmpty, ReadTables, Active
<1>17. WrittenInOrder'
  <2> SUFFICES ASSUME NEW i \in DOMAIN keys, NEW j \in DOMAIN keys, i < j,
                      object'[keys[j]] # NoContent
               PROVE  object'[keys[i]] # NoContent /\ NotOlder(object'[keys[i]], object'[keys[j]])
    BY <1>1 DEF WrittenInOrder, NotOlder, keys
  <2>1. keys[i] # keys[j] /\ keys[i] \in Key(mode) /\ keys[j] \in Key(mode)
    BY <1>1, <1>2
  <2>2. CASE j = step
    BY <1>2, <1>4, <1>7, <1>8, <1>10, <2>1, <2>2
  <2>3. CASE i = step
    BY <1>4, <1>6, <1>8, <1>10, <2>1, <2>3
  <2>4. CASE i # step /\ j # step
    <3>1. object'[keys[i]] = object[keys[i]] /\ object'[keys[j]] = object[keys[j]]
      BY <1>2, <1>8, <1>10, <2>1, <2>4
    <3> QED
      BY <3>1 DEF ExportInv, WrittenInOrder, keys
  <2> QED
    BY <2>2, <2>3, <2>4
<1>18. KnownInv'
  <2> SUFFICES ASSUME known # NoContent, NEW k \in Key(mode)
               PROVE  /\ object'[k] # NoContent /\ NotOlder(object'[k], known)
                      /\ copy[k] # NoContent => NotOlder(copy[k], known)
    BY <1>1 DEF KnownInv, NotOlder
  <2>1. /\ object[k] # NoContent /\ NotOlder(object[k], known)
        /\ copy[k] # NoContent => NotOlder(copy[k], known)
        /\ known \in Content /\ object[k] \in Content
    BY <1>4 DEF ExportInv, KnownInv, ExportTypes
  <2>2. NotOlder(body, known)
    BY <1>4, <1>6, <2>1, NotOlderTransitive
  <2> QED
    BY <1>4, <1>8, <2>1, <2>2
<1>19. LastInv'
  BY <1>3, <1>9 DEF LastInv, Has
<1> QED
  BY <1>11, <1>12, <1>13, <1>14, <1>15, <1>16, <1>17, <1>18, <1>19 DEF ExportInv

LEMMA PurgesStep == ASSUME ExportInv, NEW r \in Run, Purges(r) PROVE ExportInv'
<1> USE ContentKnown
<1>1. /\ progress[r].at = "purging" /\ progress[r] \in ProgressState /\ locked = r
      /\ mode \in ExportMode /\ UNCHANGED <<mode, table, object>>
      /\ progress[r].at \in Active /\ NoRun \notin Run
  BY StaticExportAssumption
     DEF Purges, Has, ExportInv, ExportTypes, StageInv, Active, MasterUnchanged
<1>2. /\ \A t \in ExportTable : /\ progress[r].read[t].edit <= table[t].edit
                                /\ t \notin ReadTables(mode) => progress[r].read[t].edit = 0
      /\ \A k \in Key(mode) : object[k] # NoContent =>
           \A t \in ReadTables(mode) : progress[r].read[t].edit >= object[k].read[t].edit
      /\ \A k \in Key(mode) : object[k] = Body(r)
      /\ \A t \in ReadTables(mode) : progress[r].read[t].filled
  BY <1>1 DEF ExportInv, PastInv, NewerInv, ReadBy, PutInv, FilledInv
<1>3. Body(r) = [r |-> r, read |-> progress[r].read] /\ Body(r) \in Content /\ Body(r).r = r
  BY BodyKnown DEF Body, ExportInv
<1>4. CASE /\ copy' = copy \/ copy' = [k \in Key(mode) |-> NoContent]
           /\ progress' = [progress EXCEPT ![r].step = @ + 1]
           /\ UNCHANGED <<locked, known>>
  <2> DEFINE p == [progress[r] EXCEPT !.step = progress[r].step + 1]
  <2>1. p \in ProgressState /\ p.at = "purging" /\ p.read = progress[r].read
    BY <1>1 DEF ProgressState
  <2>2. progress' = [progress EXCEPT ![r] = p]
    BY <1>1, <1>4 DEF ExportInv, ExportTypes
  <2> HIDE DEF p
  <2>3. /\ \A k \in Key(mode) : object[k] = [r |-> r, read |-> p.read]
        /\ \A t \in ExportTable : /\ p.read[t].edit <= table[t].edit
                                  /\ t \notin ReadTables(mode) => p.read[t].edit = 0
        /\ \A k \in Key(mode) : object[k] # NoContent =>
             \A t \in ReadTables(mode) : p.read[t].edit >= object[k].read[t].edit
        /\ \A t \in ReadTables(mode) : p.read[t].filled
    BY <1>2, <1>3, <2>1
  <2>4. /\ p.at \in Active /\ locked' = r /\ locked' \in Run \cup {NoRun}
        /\ \A q \in Run \ {r} : locked' = q <=> locked = q
        /\ p.at \notin {"new", "done"} /\ p.at # "reading" /\ p.at # "putting"
    BY <1>1, <1>4, <2>1 DEF Active
  <2>5. UNCHANGED <<mode, table, object, known>>
        /\ (copy' = copy \/ copy' = [k \in Key(mode) |-> NoContent])
    BY <1>1, <1>4
  <2> QED
    BY <2>1, <2>2, <2>3, <2>4, <2>5, RunMoves
<1>5. CASE /\ copy' = [k \in Key(mode) |-> NoContent]
           /\ progress' = [progress EXCEPT ![r].at = "failed"] /\ locked' = NoRun
           /\ UNCHANGED known
  <2> DEFINE p == [progress[r] EXCEPT !.at = "failed"]
  <2>1. p \in ProgressState /\ p.at = "failed" /\ p.read = progress[r].read
    BY <1>1 DEF ProgressState
  <2>2. progress' = [progress EXCEPT ![r] = p]
    BY <1>5
  <2> HIDE DEF p
  <2> QED
    BY <1>1, <1>5, <2>1, <2>2, BreaksOff
<1>6. CASE /\ copy' = [k \in Key(mode) |-> NoContent]
           /\ progress' = [progress EXCEPT ![r].at = "done"] /\ locked' = NoRun
           /\ known' = Body(r)
  <2> DEFINE p == [progress[r] EXCEPT !.at = "done"]
  <2>1. p \in ProgressState /\ p.at = "done" /\ p.read = progress[r].read
    BY <1>1 DEF ProgressState
  <2> HIDE DEF p
  <2>2. /\ progress' \in [Run -> ProgressState] /\ progress'[r] = p
        /\ \A q \in Run : q # r => progress'[q] = progress[q] /\ progress[q].at \notin Active
    BY <1>1, <1>6, <2>1 DEF ExportInv, ExportTypes, StageInv, p
  <2>3. copy' \in [Key(mode) -> Content \cup {NoContent}] /\ \A k \in Key(mode) : copy'[k] = NoContent
    BY <1>6
  <2>4. ExportTypes'
    BY <1>1, <1>3, <1>6, <2>2, <2>3 DEF ExportInv, ExportTypes
  <2>5. StageInv'
    BY <1>1, <1>6, <2>1, <2>2 DEF ExportInv, StageInv, Active
  <2>6. PastInv'
    BY <1>1, <1>2, <2>1, <2>2 DEF ExportInv, PastInv
  <2>7. NewerInv'
    BY <2>1, <2>2 DEF NewerInv, Active
  <2>8. PutInv'
    BY <2>1, <2>2 DEF PutInv, Active
  <2>9. FilledInv'
    BY <1>1, <2>1, <2>2 DEF ExportInv, FilledInv, NeverEmpty, Active
  <2>10. WrittenInOrder'
    BY <1>1 DEF ExportInv, WrittenInOrder, NotOlder
  <2>11. \A k \in Key(mode) : object'[k] = known' /\ known' \in Content
    BY <1>1, <1>2, <1>3, <1>6
  <2>12. KnownInv'
    <3>1. \A c \in Content : NotOlder(c, c)
      BY DEF NotOlder
    <3> QED
      BY <1>1, <2>3, <2>11, <3>1 DEF KnownInv, NotOlder
  <2>13. LastInv'
    BY <1>1, <2>3, <2>11 DEF LastInv
  <2> QED
    BY <2>4, <2>5, <2>6, <2>7, <2>8, <2>9, <2>10, <2>12, <2>13 DEF ExportInv
<1> QED
  BY <1>4, <1>5, <1>6 DEF Purges

LEMMA EditsStep == ASSUME ExportInv, NEW t \in ExportTable, Edits(t) PROVE ExportInv'
<1> USE ContentKnown
<1> DEFINE edits == {table[s].edit : s \in ExportTable}
           last == CHOOSE n \in edits : \A s \in ExportTable : table[s].edit <= n
<1>1. UNCHANGED <<mode, locked, progress, object, copy, known>>
  BY DEF Edits
<1>2. /\ table \in [ExportTable -> LastEdit] /\ \A s \in ExportTable : table[s].edit \in Nat
      /\ table["songs"].edit \in Nat /\ table["worldsend"].edit \in Nat
      /\ table["versions"].edit \in Nat
  BY DEF ExportInv, ExportTypes, LastEdit, ExportTable
<1>3. \E n \in edits : \A s \in ExportTable : table[s].edit <= n
  BY <1>2 DEF ExportTable
<1>4. last \in Nat /\ \A s \in ExportTable : table[s].edit <= last
  BY <1>2, <1>3
<1>5. PICK filled \in BOOLEAN : table' = [table EXCEPT ![t] = [edit |-> last + 1, filled |-> filled]]
  BY DEF Edits
<1> HIDE DEF last
<1>6. /\ table' \in [ExportTable -> LastEdit]
      /\ \A s \in ExportTable : table[s].edit <= table'[s].edit /\ table'[s].edit \in Nat
  BY <1>2, <1>4, <1>5 DEF LastEdit
<1>7. /\ \A r \in Run, s \in ExportTable : progress[r].read[s].edit \in Nat
      /\ \A k \in Key(mode), s \in ExportTable :
           object[k] # NoContent => object[k].read[s].edit \in Nat
  BY DEF ExportInv, ExportTypes, ProgressState, LastEdit
<1>8. ExportTypes'
  BY <1>1, <1>6 DEF ExportInv, ExportTypes
<1>9. PastInv'
  <2>1. \A r \in Run, s \in ExportTable : progress[r].read[s].edit <= table'[s].edit
    BY <1>2, <1>6, <1>7 DEF ExportInv, PastInv
  <2>2. \A k \in Key(mode), s \in ExportTable :
          object[k] # NoContent => object[k].read[s].edit <= table'[s].edit
    BY <1>2, <1>6, <1>7 DEF ExportInv, PastInv
  <2> QED
    BY <1>1, <2>1, <2>2 DEF ExportInv, PastInv
<1>10. /\ StageInv' /\ NewerInv' /\ PutInv' /\ FilledInv' /\ WrittenInOrder' /\ KnownInv'
       /\ LastInv'
  BY <1>1 DEF ExportInv, StageInv, NewerInv, ReadBy, PutInv, Body, FilledInv, NeverEmpty,
              WrittenInOrder, NotOlder, KnownInv, LastInv, Has
<1> QED
  BY <1>8, <1>9, <1>10 DEF ExportInv

LEMMA FetchesStep == ASSUME ExportInv, NEW k \in Key(mode), Fetches(k) PROVE ExportInv'
<1>1. /\ UNCHANGED <<mode, table, locked, progress, object, known>>
      /\ copy' = [copy EXCEPT ![k] = object[k]] /\ object[k] # NoContent
  BY DEF Fetches
<1>2. copy \in [Key(mode) -> Content \cup {NoContent}] /\ object[k] \in Content \cup {NoContent}
  BY DEF ExportInv, ExportTypes
<1>3. \A x \in Key(mode) : copy'[x] = IF x = k THEN object[k] ELSE copy[x]
  BY <1>1, <1>2
<1>4. ExportTypes'
  BY <1>1, <1>2 DEF ExportInv, ExportTypes
<1>5. /\ StageInv' /\ PastInv' /\ NewerInv' /\ PutInv' /\ FilledInv' /\ WrittenInOrder'
  BY <1>1 DEF ExportInv, StageInv, PastInv, NewerInv, ReadBy, PutInv, Body, FilledInv,
              NeverEmpty, WrittenInOrder, NotOlder
<1>6. KnownInv'
  BY <1>1, <1>3 DEF ExportInv, KnownInv, NotOlder
<1>7. LastInv'
  BY <1>1, <1>3 DEF ExportInv, LastInv, Has
<1> QED
  BY <1>4, <1>5, <1>6, <1>7 DEF ExportInv

LEMMA ExportStepInv == ExportInv /\ [StaticExportNext]_staticExportVars => ExportInv'
<1> SUFFICES ASSUME ExportInv, [StaticExportNext]_staticExportVars PROVE ExportInv'
  OBVIOUS
<1>1. CASE UNCHANGED staticExportVars
  <2>1. UNCHANGED <<mode, table, locked, progress, object, copy, known>>
    BY <1>1 DEF staticExportVars
  <2>2. ExportTypes' /\ StageInv' /\ PastInv' /\ NewerInv'
    BY <2>1 DEF ExportInv, ExportTypes, StageInv, PastInv, NewerInv, ReadBy
  <2>3. PutInv' /\ FilledInv' /\ WrittenInOrder' /\ KnownInv' /\ LastInv'
    BY <2>1 DEF ExportInv, PutInv, Body, FilledInv, NeverEmpty, WrittenInOrder, NotOlder,
                KnownInv, LastInv, Has
  <2> QED
    BY <2>2, <2>3 DEF ExportInv
<1> QED
  BY <1>1, StartsStep, FailsStep, ReadsStep, PutsStep, PurgesStep, EditsStep, FetchesStep
  DEF StaticExportNext

\* Whatever breaks off, is killed or is answered late: once an export has succeeded no client
\* gets anything older, files change in their order, none is made of an empty table, and after
\* the last run all are of that run; for any runs, levels, attempts and edits.
THEOREM SpecExportHolds == StaticExportSpec => []ExportHolds
<1>1. ExportInv => ExportHolds
  <2> SUFFICES ASSUME ExportInv PROVE ExportHolds
    OBVIOUS
  <2>1. StaticExportTypeOK
    BY DEF ExportInv, ExportTypes, StaticExportTypeOK, ProgressState
  <2>2. NothingStaleAfterSuccess
    BY DEF ExportInv, KnownInv, NothingStaleAfterSuccess, Visible
  <2>3. WrittenInOrder /\ NeverEmpty
    BY DEF ExportInv, FilledInv
  <2>4. \A r \in Run :
          Has(r, "done") /\ known.r = r /\ (\A q \in Run \ {r} : Has(q, "new")) =>
            \A k \in Key(mode) : Visible(k) = known
    BY DEF ExportInv, LastInv, Visible
  <2> QED
    BY <2>1, <2>2, <2>3, <2>4 DEF ExportHolds, ExportSound
<1> QED
  BY <1>1, ExportInitInv, ExportStepInv, PTL DEF StaticExportSpec
-----------------------------------------------------------------------------
(* Ratings and OVER POWER: the two ranges of scores are compared where they *)
(* meet; inside a range the lemmas compare.                                 *)


Score == {s \in Nat : s <= TheoreticalScore}

LEMMA DivMonotone ==
  ASSUME NEW a \in Int, NEW b \in Int, NEW k \in Nat \ {0}, a <= b
  PROVE  a \div k <= b \div k
BY SMT

LEMMA DivBelow ==
  ASSUME NEW a \in Nat, NEW k \in Nat \ {0}, NEW n \in Nat, a <= n * k
  PROVE  a \div k \in Nat /\ a \div k <= n
BY SMT

LEMMA ProductMonotone ==
  ASSUME NEW a \in Nat, NEW b \in Nat, NEW d \in Nat, NEW e \in Nat, a <= b, d <= e
  PROVE  a * d \in Nat /\ b * e \in Nat /\ a * d <= b * e
<1>1. a * d <= b * d
  BY SMT
<1>2. b * d <= b * e
  BY SMT
<1> QED
  BY <1>1, <1>2, SMT
-----------------------------------------------------------------------------
LEMMA FromSMonotone ==
  ASSUME NEW s \in Nat, NEW t \in Nat, s >= 975000, s <= t, NEW base \in Int
  PROVE  RatingFromS(s, base) <= RatingFromS(t, base)
BY SMT DEF RatingFromS

LEMMA FromSBounded ==
  ASSUME NEW s \in Nat, s >= 975000, s <= 1010000, NEW base \in Int
  PROVE  RatingFromS(s, base) \in base .. base + 215
BY SMT DEF RatingFromS

LEMMA FromAMonotone ==
  ASSUME NEW s \in Nat, NEW t \in Nat, s >= 900000, t < 975000, s <= t, NEW base \in Int
  PROVE  RatingFromA(s, base) <= RatingFromA(t, base)
BY SMT DEF RatingFromA

LEMMA FromABounded ==
  ASSUME NEW s \in Nat, s >= 900000, s < 975000, NEW base \in Int
  PROVE  RatingFromA(s, base) \in base - 500 .. base
<1>1. CASE s >= 950000
  <2>1. s - 950000 \in Nat /\ s - 950000 <= 167 * 150
    BY <1>1, SMT
  <2>2. (s - 950000) \div 150 \in 0 .. 167
    BY <2>1, DivBelow, SMT
  <2> QED
    BY <1>1, <2>2, SMT DEF RatingFromA
<1>2. CASE s >= 925000 /\ s < 950000
  <2>1. s - 925000 \in Nat /\ s - 925000 <= 167 * 150
    BY <1>2, SMT
  <2>2. (s - 925000) \div 150 \in 0 .. 167
    BY <2>1, DivBelow, SMT
  <2> QED
    BY <1>2, <2>2, SMT DEF RatingFromA
<1>3. CASE s < 925000
  <2>1. s - 900000 \in Nat /\ s - 900000 <= 167 * 150
    BY <1>3, SMT
  <2>2. (s - 900000) \div 150 \in 0 .. 167
    BY <2>1, DivBelow, SMT
  <2> QED
    BY <1>3, <2>2, SMT DEF RatingFromA
<1> QED
  BY <1>1, <1>2, <1>3, SMT

LEMMA BelowABounded ==
  ASSUME NEW s \in Nat, s < 900000, NEW over \in Nat
  PROVE  RatingBelowA(s, over) \in 0 .. 10 * over
<1>1. CASE s >= 800000
  <2>1. (s - 800000) * over \in Nat /\ (s - 800000) * over <= 100000 * over
    BY <1>1, ProductMonotone, SMT
  <2>2. ((s - 800000) * over) \div 20000 \in 0 .. 5 * over
    BY <2>1, SMT
  <2> QED
    BY <1>1, <2>2, SMT DEF RatingBelowA
<1>2. CASE s >= 500000 /\ s < 800000
  <2>1. (s - 500000) * over \in Nat /\ (s - 500000) * over <= 300000 * over
    BY <1>2, ProductMonotone, SMT
  <2>2. ((s - 500000) * over) \div 60000 \in 0 .. 5 * over
    BY <2>1, SMT
  <2> QED
    BY <1>2, <2>2, SMT DEF RatingBelowA
<1>3. CASE s < 500000
  BY <1>3, SMT DEF RatingBelowA
<1> QED
  BY <1>1, <1>2, <1>3, SMT

LEMMA BelowAMonotone ==
  ASSUME NEW s \in Nat, NEW t \in Nat, t < 900000, s <= t, NEW over \in Nat
  PROVE  RatingBelowA(s, over) <= RatingBelowA(t, over)
<1>1. CASE s >= 800000
  <2>1. (s - 800000) * over <= (t - 800000) * over
        /\ (s - 800000) * over \in Int /\ (t - 800000) * over \in Int
    BY <1>1, ProductMonotone, SMT
  <2>2. ((s - 800000) * over) \div 20000 <= ((t - 800000) * over) \div 20000
    BY <2>1, DivMonotone, SMT
  <2> QED
    BY <1>1, <2>2, SMT DEF RatingBelowA
<1>2. CASE s >= 500000 /\ t < 800000
  <2>1. (s - 500000) * over <= (t - 500000) * over
        /\ (s - 500000) * over \in Int /\ (t - 500000) * over \in Int
    BY <1>2, ProductMonotone, SMT
  <2>2. ((s - 500000) * over) \div 60000 <= ((t - 500000) * over) \div 60000
    BY <2>1, DivMonotone, SMT
  <2> QED
    BY <1>2, <2>2, SMT DEF RatingBelowA
<1>3. CASE s >= 500000 /\ s < 800000 /\ t >= 800000
  <2>1. (s - 500000) * over \in Nat /\ (s - 500000) * over <= 300000 * over
    BY <1>3, ProductMonotone, SMT
  <2>2. ((s - 500000) * over) \div 60000 \in 0 .. 5 * over
    BY <2>1, SMT
  <2>3. (t - 800000) * over \in Nat
    BY <1>3, ProductMonotone, SMT
  <2>4. ((t - 800000) * over) \div 20000 >= 0
    BY <2>3, SMT
  <2> QED
    BY <1>3, <2>2, <2>4, SMT DEF RatingBelowA
<1>4. CASE s < 500000
  <2>1. RatingBelowA(s, over) = 0
    BY <1>4, SMT DEF RatingBelowA
  <2> QED
    BY <2>1, BelowABounded, SMT
<1> QED
  BY <1>1, <1>2, <1>3, <1>4, SMT
-----------------------------------------------------------------------------
LEMMA Over5Type ==
  ASSUME NEW const \in Nat
  PROVE  Over5(const) \in Nat /\ Over5(const) <= const
         /\ (const < 50 => Over5(const) = 0) /\ (const >= 50 => Over5(const) = const - 50)
BY SMT DEF Over5, NotNegative

\* In each range of scores, what is known of the rating.
LEMMA Ranges ==
  ASSUME NEW s \in Score, NEW const \in Nat
  PROVE  /\ s >= 975000 => CalcSingleRating(s, const) \in 10 * const .. 10 * const + 215
         /\ s >= 900000 /\ s < 975000 =>
              CalcSingleRating(s, const) \in 10 * Over5(const) .. 10 * const
         /\ s < 900000 => CalcSingleRating(s, const) \in 0 .. 10 * Over5(const)
<1>1. 10 * const \in Nat /\ Over5(const) \in Nat
  BY Over5Type, SMT
<1>2. CASE s >= 975000
  <2>1. s \in Nat /\ s <= 1010000
    BY <1>2, SMT DEF Score, TheoreticalScore
  <2>2. RatingFromS(s, 10 * const) \in 10 * const .. 10 * const + 215
    BY <1>2, <1>1, <2>1, FromSBounded, SMT
  <2> QED
    BY <1>2, <2>1, <2>2, SMT DEF CalcSingleRating
<1>3. CASE s >= 900000 /\ s < 975000
  <2>1. s \in Nat
    BY <1>3, SMT DEF Score, TheoreticalScore
  <2>2. RatingFromA(s, 10 * const) \in 10 * const - 500 .. 10 * const
    BY <1>3, <1>1, <2>1, FromABounded, SMT
  <2>3. NotNegative(RatingFromA(s, 10 * const)) \in 10 * Over5(const) .. 10 * const
    BY <2>2, Over5Type, SMT DEF NotNegative
  <2> QED
    BY <1>3, <2>1, <2>3, SMT DEF CalcSingleRating
<1>4. CASE s < 900000
  <2>1. s \in Nat
    BY <1>4, SMT DEF Score, TheoreticalScore
  <2>2. RatingBelowA(s, Over5(const)) \in 0 .. 10 * Over5(const)
    BY <1>4, <1>1, <2>1, BelowABounded, SMT
  <2> QED
    BY <1>4, <2>1, <2>2, SMT DEF CalcSingleRating
<1> QED
  BY <1>2, <1>3, <1>4, SMT DEF Score, TheoreticalScore

\* No rating is above that of SSS+, which is the constant and 2.15 (CalcSingleRating).
THEOREM SingleRatingBounded ==
  ASSUME NEW s \in Score, NEW const \in Nat
  PROVE  /\ CalcSingleRating(s, const) \in 0 .. 10 * const + 215
         /\ s >= SSSPlusScore => CalcSingleRating(s, const) = 10 * const + 215
<1>1. CalcSingleRating(s, const) \in 0 .. 10 * const + 215
  <2>1. Over5(const) \in Nat /\ Over5(const) <= const /\ s \in Nat
    BY Over5Type, SMT DEF Score
  <2>2. CASE s >= 975000
    BY <2>1, <2>2, Ranges, SMT
  <2>3. CASE s >= 900000 /\ s < 975000
    BY <2>1, <2>3, Ranges, SMT
  <2>4. CASE s < 900000
    BY <2>1, <2>4, Ranges, SMT
  <2> QED
    BY <2>1, <2>2, <2>3, <2>4, SMT
<1>2. s >= SSSPlusScore => CalcSingleRating(s, const) = 10 * const + 215
  BY SMT DEF CalcSingleRating, RatingFromS, SSSPlusScore, Score
<1> QED
  BY <1>1, <1>2

\* A better score never lowers the rating of a play (CalcSingleRating), so that the
\* steps of its formula meet without a fall.
THEOREM SingleRatingMonotone ==
  ASSUME NEW s \in Score, NEW t \in Score, s <= t, NEW const \in Nat
  PROVE  CalcSingleRating(s, const) <= CalcSingleRating(t, const)
<1>1. 10 * const \in Nat /\ Over5(const) \in Nat /\ s \in Nat /\ t \in Nat /\ s <= 1010000 /\ t <= 1010000
  BY Over5Type, SMT DEF Score, TheoreticalScore
<1>2. CASE s >= 975000
  <2>1. s \in Nat /\ t \in Nat
    BY <1>1, <1>2, SMT
  <2>2. RatingFromS(s, 10 * const) <= RatingFromS(t, 10 * const)
    BY <1>2, <1>1, <2>1, FromSMonotone, SMT
  <2> QED
    BY <1>2, <2>1, <2>2, SMT DEF CalcSingleRating
<1>3. CASE s >= 900000 /\ t < 975000
  <2>1. s \in Nat /\ t \in Nat
    BY <1>1, <1>3, SMT
  <2>2. RatingFromA(s, 10 * const) <= RatingFromA(t, 10 * const)
    BY <1>3, <1>1, <2>1, FromAMonotone, SMT
  <2>3. RatingFromA(s, 10 * const) \in Int /\ RatingFromA(t, 10 * const) \in Int
    BY <1>3, <1>1, <2>1, FromABounded, SMT
  <2> QED
    BY <1>3, <2>1, <2>2, <2>3, SMT DEF CalcSingleRating, NotNegative
<1>4. CASE t < 900000
  <2>1. s \in Nat /\ t \in Nat
    BY <1>1, <1>4, SMT
  <2>2. RatingBelowA(s, Over5(const)) <= RatingBelowA(t, Over5(const))
    BY <1>4, <1>1, <2>1, BelowAMonotone, SMT
  <2> QED
    BY <1>4, <2>1, <2>2, SMT DEF CalcSingleRating
<1>5. CASE s < 900000 /\ t >= 900000
  <2>1. CalcSingleRating(s, const) \in 0 .. 10 * Over5(const)
    BY <1>5, Ranges, SMT
  <2>2. CASE t < 975000
    <3>1. CalcSingleRating(t, const) \in 10 * Over5(const) .. 10 * const
      BY <1>5, <2>2, Ranges, SMT
    <3> QED
      BY <1>1, <2>1, <3>1, SMT
  <2>3. CASE t >= 975000
    <3>1. CalcSingleRating(t, const) \in 10 * const .. 10 * const + 215
      BY <2>3, Ranges, SMT
    <3> QED
      BY <1>1, <2>1, <3>1, Over5Type, SMT
  <2> QED
    BY <1>1, <2>2, <2>3, SMT
<1>6. CASE s >= 900000 /\ s < 975000 /\ t >= 975000
  <2>1. CalcSingleRating(s, const) \in 10 * Over5(const) .. 10 * const
    BY <1>6, Ranges, SMT
  <2>2. CalcSingleRating(t, const) \in 10 * const .. 10 * const + 215
    BY <1>6, Ranges, SMT
  <2> QED
    BY <1>1, <2>1, <2>2, SMT
<1> QED
  BY <1>1, <1>2, <1>3, <1>4, <1>5, <1>6, SMT
-----------------------------------------------------------------------------
LEMMA OverpowerFromSMonotone ==
  ASSUME NEW s \in Nat, NEW t \in Nat, s >= 975000, s <= t, NEW const \in Nat
  PROVE  OverpowerFromS(s, const) <= OverpowerFromS(t, const)
BY SMT DEF OverpowerFromS

LEMMA OverpowerFromSBounded ==
  ASSUME NEW s \in Nat, s >= 975000, NEW const \in Nat
  PROVE  OverpowerFromS(s, const) \in Nat /\ OverpowerFromS(s, const) >= 500 * const
BY SMT DEF OverpowerFromS

LEMMA OverpowerBelowABounded ==
  ASSUME NEW s \in Nat, s < 900000, NEW over \in Nat
  PROVE  OverpowerBelowA(s, over) \in 0 .. 500 * over
<1>1. CASE s >= 800000
  <2>1. (s - 800000) * over \in Nat /\ (s - 800000) * over <= 100000 * over
    BY <1>1, ProductMonotone, SMT
  <2>2. ((s - 800000) * over) \div 400 \in 0 .. 250 * over
    BY <2>1, SMT
  <2> QED
    BY <1>1, <2>2, SMT DEF OverpowerBelowA
<1>2. CASE s >= 500000 /\ s < 800000
  <2>1. (s - 500000) * over \in Nat /\ (s - 500000) * over <= 300000 * over
    BY <1>2, ProductMonotone, SMT
  <2>2. ((s - 500000) * over) \div 1200 \in 0 .. 250 * over
    BY <2>1, SMT
  <2> QED
    BY <1>2, <2>2, SMT DEF OverpowerBelowA
<1>3. CASE s < 500000
  BY <1>3, SMT DEF OverpowerBelowA
<1> QED
  BY <1>1, <1>2, <1>3, SMT

LEMMA OverpowerBelowAMonotone ==
  ASSUME NEW s \in Nat, NEW t \in Nat, t < 900000, s <= t, NEW over \in Nat
  PROVE  OverpowerBelowA(s, over) <= OverpowerBelowA(t, over)
<1>1. CASE s >= 800000
  <2>1. (s - 800000) * over <= (t - 800000) * over
        /\ (s - 800000) * over \in Int /\ (t - 800000) * over \in Int
    BY <1>1, ProductMonotone, SMT
  <2>2. ((s - 800000) * over) \div 400 <= ((t - 800000) * over) \div 400
    BY <2>1, DivMonotone, SMT
  <2> QED
    BY <1>1, <2>2, SMT DEF OverpowerBelowA
<1>2. CASE s >= 500000 /\ t < 800000
  <2>1. (s - 500000) * over <= (t - 500000) * over
        /\ (s - 500000) * over \in Int /\ (t - 500000) * over \in Int
    BY <1>2, ProductMonotone, SMT
  <2>2. ((s - 500000) * over) \div 1200 <= ((t - 500000) * over) \div 1200
    BY <2>1, DivMonotone, SMT
  <2> QED
    BY <1>2, <2>2, SMT DEF OverpowerBelowA
<1>3. CASE s >= 500000 /\ s < 800000 /\ t >= 800000
  <2>1. (s - 500000) * over \in Nat /\ (s - 500000) * over <= 300000 * over
    BY <1>3, ProductMonotone, SMT
  <2>2. ((s - 500000) * over) \div 1200 \in 0 .. 250 * over
    BY <2>1, SMT
  <2>3. (t - 800000) * over \in Nat
    BY <1>3, ProductMonotone, SMT
  <2>4. ((t - 800000) * over) \div 400 >= 0
    BY <2>3, SMT
  <2> QED
    BY <1>3, <2>2, <2>4, SMT DEF OverpowerBelowA
<1>4. CASE s < 500000
  <2>1. OverpowerBelowA(s, over) = 0
    BY <1>4, SMT DEF OverpowerBelowA
  <2>2. OverpowerBelowA(t, over) >= 0
    BY OverpowerBelowABounded, SMT
  <2> QED
    BY <2>1, <2>2
<1> QED
  BY <1>1, <1>2, <1>3, <1>4, SMT

\* In each range of scores, what the score earns and between which bounds.
LEMMA OverpowerRanges ==
  ASSUME NEW s \in Score, NEW const \in Nat
  PROVE  /\ s >= 975000 => /\ ScoreOverpower(s, const) = OverpowerFromS(s, const)
                           /\ ScoreOverpower(s, const) \in Int
                           /\ ScoreOverpower(s, const) >= 500 * const
         /\ s >= 900000 /\ s < 975000 =>
              /\ ScoreOverpower(s, const) = 500 * (const - 50) + (s - 900000) \div 3
              /\ ScoreOverpower(s, const) \in Int
              /\ ScoreOverpower(s, const) >= 500 * (const - 50)
              /\ ScoreOverpower(s, const) <= 500 * const
         /\ s < 900000 =>
              /\ ScoreOverpower(s, const) = OverpowerBelowA(s, Over5(const))
              /\ ScoreOverpower(s, const) \in 0 .. 500 * Over5(const)
<1>1. s \in Nat /\ Over5(const) \in Nat
  BY Over5Type, SMT DEF Score
<1>2. CASE s >= 975000
  <2>1. ScoreOverpower(s, const) = OverpowerFromS(s, const)
    BY <1>2, SMT DEF ScoreOverpower
  <2> QED
    BY <1>1, <1>2, <2>1, OverpowerFromSBounded, SMT
<1>3. CASE s >= 900000 /\ s < 975000
  <2>1. ScoreOverpower(s, const) = 500 * (const - 50) + (s - 900000) \div 3
    BY <1>1, <1>3, SMT DEF ScoreOverpower
  <2>2. s - 900000 \in Nat /\ s - 900000 <= 25000 * 3
    BY <1>1, <1>3, SMT
  <2>3. (s - 900000) \div 3 \in Nat /\ (s - 900000) \div 3 <= 25000
    BY <2>2, DivBelow, SMT
  <2> QED
    BY <1>1, <1>3, <2>1, <2>3, SMT
<1>4. CASE s < 900000
  <2>1. ScoreOverpower(s, const) = OverpowerBelowA(s, Over5(const))
    BY <1>1, <1>4, SMT DEF ScoreOverpower
  <2> QED
    BY <1>1, <1>4, <2>1, OverpowerBelowABounded, SMT
<1> QED
  BY <1>1, <1>2, <1>3, <1>4, SMT

\* A chart whose constant is below 5 loses the bonus of its lamp where the A range begins.
LEMMA ScoreOverpowerMonotone ==
  ASSUME NEW s \in Score, NEW t \in Score, s <= t, NEW const \in Nat, const >= 50
  PROVE  /\ ScoreOverpower(s, const) \in Nat /\ ScoreOverpower(t, const) \in Nat
         /\ ScoreOverpower(s, const) <= ScoreOverpower(t, const)
<1>1. /\ s \in Nat /\ t \in Nat /\ Over5(const) \in Nat /\ Over5(const) = const - 50
  BY Over5Type, SMT DEF Score
<1>2. ScoreOverpower(s, const) \in Nat
  <2>1. CASE s >= 975000
    BY <1>1, <2>1, OverpowerRanges, SMT
  <2>2. CASE s >= 900000 /\ s < 975000
    BY <1>1, <2>2, OverpowerRanges, SMT
  <2>3. CASE s < 900000
    BY <1>1, <2>3, OverpowerRanges, SMT
  <2> QED
    BY <1>1, <2>1, <2>2, <2>3, SMT
<1>3. CASE s >= 975000
  <2>1. OverpowerFromS(s, const) <= OverpowerFromS(t, const)
    BY <1>1, <1>3, OverpowerFromSMonotone, SMT
  <2> QED
    BY <1>1, <1>2, <1>3, <2>1, OverpowerRanges, SMT
<1>4. CASE s >= 900000 /\ t < 975000
  <2>1. (s - 900000) \div 3 <= (t - 900000) \div 3
    BY <1>1, <1>4, DivMonotone, SMT
  <2>2. /\ ScoreOverpower(s, const) = 500 * (const - 50) + (s - 900000) \div 3
        /\ ScoreOverpower(t, const) = 500 * (const - 50) + (t - 900000) \div 3
        /\ ScoreOverpower(t, const) \in Int
    BY <1>1, <1>4, OverpowerRanges, SMT
  <2> QED
    BY <1>1, <1>2, <2>1, <2>2, SMT
<1>5. CASE t < 900000
  <2>1. OverpowerBelowA(s, Over5(const)) <= OverpowerBelowA(t, Over5(const))
    BY <1>1, <1>5, OverpowerBelowAMonotone, SMT
  <2>2. /\ ScoreOverpower(s, const) = OverpowerBelowA(s, Over5(const))
        /\ ScoreOverpower(t, const) = OverpowerBelowA(t, Over5(const))
        /\ ScoreOverpower(t, const) \in Nat
    BY <1>1, <1>5, OverpowerRanges, SMT
  <2> QED
    BY <1>2, <2>1, <2>2
<1>6. CASE s < 900000 /\ t >= 900000
  <2>1. ScoreOverpower(s, const) \in 0 .. 500 * (const - 50)
    BY <1>1, <1>6, OverpowerRanges, SMT
  <2>2. ScoreOverpower(t, const) \in Int /\ ScoreOverpower(t, const) >= 500 * (const - 50)
    <3>1. CASE t < 975000
      BY <1>1, <1>6, <3>1, OverpowerRanges, SMT
    <3>2. CASE t >= 975000
      BY <1>1, <3>2, OverpowerRanges, SMT
    <3> QED
      BY <1>1, <3>1, <3>2, SMT
  <2> QED
    BY <1>1, <2>1, <2>2, SMT
<1>7. CASE s >= 900000 /\ s < 975000 /\ t >= 975000
  <2>1. ScoreOverpower(s, const) \in Int /\ ScoreOverpower(s, const) <= 500 * const
    BY <1>1, <1>7, OverpowerRanges, SMT
  <2>2. ScoreOverpower(t, const) \in Int /\ ScoreOverpower(t, const) >= 500 * const
    BY <1>1, <1>7, OverpowerRanges, SMT
  <2> QED
    BY <1>1, <1>2, <2>1, <2>2, SMT
<1> QED
  BY <1>1, <1>3, <1>4, <1>5, <1>6, <1>7, SMT

LEMMA Truncated ==
  ASSUME NEW a \in Nat, NEW b \in Nat, a <= b
  PROVE  /\ (a \div 5) * 5 \in Nat /\ (a \div 50) * 50 \in Nat /\ (b \div 5) * 5 \in Nat
         /\ (a \div 5) * 5 <= (b \div 5) * 5
         /\ (a \div 50) * 50 <= (b \div 50) * 50
         /\ (a \div 50) * 50 <= (b \div 5) * 5
BY SMT

LEMMA LampMonotone ==
  ASSUME NEW s \in Score, NEW t \in Score, s <= t, NEW lamp \in ComboLamp
  PROVE  /\ LampOverpower(s, lamp) \in Nat /\ LampOverpower(t, lamp) \in Nat
         /\ LampOverpower(s, lamp) <= LampOverpower(t, lamp)
<1>1. LampOverpower(s, lamp) \in {0, 500, 1000, 1250}
  BY SMT DEF LampOverpower
<1>2. CASE t = TheoreticalScore
  BY <1>1, <1>2, SMT DEF LampOverpower
<1>3. CASE t # TheoreticalScore
  <2>1. s # TheoreticalScore
    BY <1>3, SMT DEF Score, TheoreticalScore
  <2>2. LampOverpower(s, lamp) = LampOverpower(t, lamp)
    BY <1>3, <2>1, SMT DEF LampOverpower
  <2> QED
    BY <1>1, <2>2, SMT
<1> QED
  BY <1>2, <1>3

\* A better score under the same lamp never lowers the OVER POWER of a play on a chart
\* whose constant is 5 or more (calcSingleOverpowerThousandths).
THEOREM OverpowerMonotone ==
  ASSUME NEW s \in Score, NEW t \in Score, s <= t,
         NEW const \in Nat, const >= 50, NEW lamp \in ComboLamp
  PROVE  CalcSingleOverpower(s, const, lamp) <= CalcSingleOverpower(t, const, lamp)
<1> DEFINE a == ScoreOverpower(s, const) + LampOverpower(s, lamp)
           b == ScoreOverpower(t, const) + LampOverpower(t, lamp)
<1>1. s \in Nat /\ t \in Nat /\ a \in Nat /\ b \in Nat /\ a <= b
  BY ScoreOverpowerMonotone, LampMonotone, SMT DEF Score
<1>2. CalcSingleOverpower(s, const, lamp) =
        IF s >= 975000 THEN NotNegative((a \div 5) * 5) ELSE NotNegative((a \div 50) * 50)
  BY SMT DEF CalcSingleOverpower
<1>3. CalcSingleOverpower(t, const, lamp) =
        IF t >= 975000 THEN NotNegative((b \div 5) * 5) ELSE NotNegative((b \div 50) * 50)
  BY SMT DEF CalcSingleOverpower
<1> HIDE DEF a, b
<1>4. /\ (a \div 5) * 5 \in Nat /\ (a \div 50) * 50 \in Nat /\ (b \div 5) * 5 \in Nat
      /\ (b \div 50) * 50 \in Nat
      /\ (a \div 5) * 5 <= (b \div 5) * 5
      /\ (a \div 50) * 50 <= (b \div 50) * 50
      /\ (a \div 50) * 50 <= (b \div 5) * 5
  BY <1>1, Truncated, SMT
<1>5. \A n \in Nat : NotNegative(n) = n
  BY SMT DEF NotNegative
<1>6. CASE s >= 975000
  BY <1>1, <1>2, <1>3, <1>4, <1>5, <1>6, SMT
<1>7. CASE s < 975000
  BY <1>1, <1>2, <1>3, <1>4, <1>5, <1>7, SMT
<1> QED
  BY <1>1, <1>6, <1>7, SMT

\* The theoretical score earns the same under every lamp.
LEMMA TheoreticalOverpower ==
  ASSUME NEW const \in Nat, NEW lamp, NEW s, s = TheoreticalScore
  PROVE  CalcSingleOverpower(s, const, lamp) = 500 * const + 15000
<1>1. ScoreOverpower(s, const) = 500 * (const + 20) + 3750
  BY SMT DEF ScoreOverpower, OverpowerFromS, TheoreticalScore
<1>2. LampOverpower(s, lamp) = 1250
  BY SMT DEF LampOverpower
<1> DEFINE x == ScoreOverpower(s, const) + LampOverpower(s, lamp)
<1>3. CalcSingleOverpower(s, const, lamp) = NotNegative((x \div 5) * 5)
  BY SMT DEF CalcSingleOverpower, TheoreticalScore
<1>4. x = 5 * (100 * const + 3000)
  BY <1>1, <1>2, SMT
<1> HIDE DEF x
<1>5. (x \div 5) * 5 = x /\ x \in Nat
  BY <1>4, SMT
<1>6. NotNegative(x) = x
  BY <1>5, SMT DEF NotNegative
<1> QED
  BY <1>3, <1>4, <1>5, <1>6, SMT

\* The highest OVER POWER of a song: that of the theoretical score on its highest constant
\* (CalcSongMaxOP).
LEMMA SongMaxOP ==
  ASSUME NEW const \in Nat, const > 0
  PROVE  CalcSongMaxOP(const) = 500 * const + 15000
<1>1. CalcSongMaxOP(const) = CalcSingleOverpower(TheoreticalScore, const, "all justice")
  <2>1. ~(const <= 0)
    BY SMT
  <2> QED
    BY <2>1, Zenon DEF CalcSongMaxOP
<1> DEFINE K == 500 * const + 15000
<1>2. \A lamp : CalcSingleOverpower(TheoreticalScore, const, lamp) = K
  BY TheoreticalOverpower, SMT
<1> HIDE DEF K
<1>3. CalcSongMaxOP(const) = K
  BY <1>1, <1>2, Zenon
<1> QED
  BY <1>3 DEF K

LEMMA WithinMaximum ==
  ASSUME NEW s \in Score, NEW const \in Nat, const > 0, NEW lamp \in ComboLamp
  PROVE  /\ ScoreOverpower(s, const) + LampOverpower(s, lamp) \in Int
         /\ ScoreOverpower(s, const) + LampOverpower(s, lamp) <= 500 * const + 15000
<1>1. s \in Nat /\ s <= 1010000 /\ Over5(const) \in Nat /\ Over5(const) <= const
  BY Over5Type, SMT DEF Score, TheoreticalScore
<1>2. LampOverpower(s, lamp) \in {0, 500, 1000, 1250}
  BY SMT DEF LampOverpower
<1>3. s # 1010000 => LampOverpower(s, lamp) \in {0, 500, 1000}
  BY SMT DEF LampOverpower, TheoreticalScore
<1>4. CASE s >= 975000
  <2>1. ScoreOverpower(s, const) = OverpowerFromS(s, const)
    BY <1>4, OverpowerRanges, SMT
  <2>2. /\ OverpowerFromS(s, const) \in Int
        /\ OverpowerFromS(s, const) <= 500 * const + 13750
        /\ s # 1010000 => OverpowerFromS(s, const) <= 500 * const + 13750 - 2
    BY <1>1, <1>4, SMT DEF OverpowerFromS
  <2>3. CASE s = 1010000
    BY <1>2, <2>1, <2>2, <2>3, SMT
  <2>4. CASE s # 1010000
    BY <1>3, <2>1, <2>2, <2>4, SMT
  <2> QED
    BY <2>3, <2>4
<1>5. CASE s >= 900000 /\ s < 975000
  <2>1. ScoreOverpower(s, const) \in Int /\ ScoreOverpower(s, const) <= 500 * const
    BY <1>1, <1>5, OverpowerRanges, SMT
  <2> QED
    BY <1>2, <2>1, SMT
<1>6. CASE s < 900000
  <2>1. ScoreOverpower(s, const) \in 0 .. 500 * Over5(const)
    BY <1>1, <1>6, OverpowerRanges, SMT
  <2> QED
    BY <1>1, <1>2, <2>1, SMT
<1> QED
  BY <1>1, <1>4, <1>5, <1>6, SMT

\* No play on a song earns more OVER POWER than the maximum of the song, which the
\* percentages are taken of (CalcSingleOverpower, CalcSongMaxOP).
THEOREM WithinSongMaxOP ==
  ASSUME NEW s \in Score, NEW const \in Nat, const > 0, NEW lamp \in ComboLamp,
         NEW highest \in Nat, const <= highest
  PROVE  CalcSingleOverpower(s, const, lamp) \in 0 .. CalcSongMaxOP(highest)
<1> DEFINE a == ScoreOverpower(s, const) + LampOverpower(s, lamp)
<1>1. a \in Int /\ a <= 500 * const + 15000
  BY WithinMaximum
<1>2. CalcSingleOverpower(s, const, lamp) =
        IF s >= 975000 THEN NotNegative((a \div 5) * 5) ELSE NotNegative((a \div 50) * 50)
  BY SMT DEF CalcSingleOverpower
<1> HIDE DEF a
<1>3. /\ (a \div 5) * 5 \in Int /\ (a \div 5) * 5 <= a
      /\ (a \div 50) * 50 \in Int /\ (a \div 50) * 50 <= a
  BY <1>1, SMT
<1>4. CalcSongMaxOP(highest) = 500 * highest + 15000
  BY SongMaxOP, SMT
<1>5. \A n \in Int : n <= a => NotNegative(n) \in 0 .. 500 * highest + 15000
  BY <1>1, SMT DEF NotNegative
<1>6. CASE s >= 975000
  BY <1>2, <1>3, <1>4, <1>5, <1>6, SMT
<1>7. CASE ~(s >= 975000)
  BY <1>2, <1>3, <1>4, <1>5, <1>7, SMT
<1> QED
  BY <1>6, <1>7

\* A percentage is between 0 and 100, whatever the value and the maximum
\* (calcOverpowerPercent).
THEOREM PercentBounded ==
  ASSUME NEW value \in Int, NEW max \in Int
  PROVE  CalcOverpowerPercent(value, max) \in 0 .. 100 * PercentScale
<1>1. PercentScale \in Nat /\ 100 * PercentScale \in Nat
  BY RatingAssumption, SMT
<1>2. CASE max <= 0
  BY <1>1, <1>2, SMT DEF CalcOverpowerPercent
<1>3. CASE max > 0
  <2> DEFINE q == (value * 100 * PercentScale) \div max
  <2>1. q \in Int
    BY <1>1, <1>3, SMT
  <2>2. CalcOverpowerPercent(value, max) =
          IF NotNegative(q) > 100 * PercentScale THEN 100 * PercentScale ELSE NotNegative(q)
    BY <1>3, SMT DEF CalcOverpowerPercent
  <2> HIDE DEF q
  <2> QED
    BY <1>1, <2>1, <2>2, SMT DEF NotNegative
<1> QED
  BY <1>2, <1>3, SMT

-----------------------------------------------------------------------------
(* The caches of masters and the state of maintenance *)

\* The records have their fields.
TypeInv ==
  /\ CachesTypeOK
  /\ db \in [versions : Generation, songs : Generation, notice : Notice]
  /\ cache \in [versions : Generation, stale : BOOLEAN,
                denominators : Generation \cup {NoSnapshot}]
  /\ told \in [versions : Generation, songs : Generation]

\* Who holds which mutex while.
MutexInv ==
  \A c \in Client :
    /\ Writes(c) => client[c].pc \in {"versionTx", "reload", "query", "publish"}
    /\ client[c].pc = "versionTx" => Writes(c)
    /\ client[c].pc \in {"query", "publish"} => mutex["reload"] = c
    /\ client[c].pc \in {"build", "store"} => mutex["denominators"] = c
    /\ client[c].pc = "save" => mutex["maintenance"] = c

\* What a request expects was told to a writer, or is its own and about to be.
Expects(c) ==
  LET k == client[c]
  IN /\ k.pc \in {"reload", "query", "publish"} =>
          IF Writes(c) THEN told.versions <= k.gen /\ k.gen <= db.versions
                       ELSE k.gen <= told.versions
     /\ k.pc = "publish" => cache.versions <= k.loaded /\ told.versions <= k.loaded
                              /\ k.gen <= k.loaded /\ k.loaded <= db.versions
     /\ k.pc = "read" => k.gen <= cache.versions
     /\ k.pc = "invalidate" => k.gen <= db.songs
     /\ k.pc \in {"denominators", "build", "store"} => k.gen <= told.songs
     /\ k.pc = "store" => told.songs <= k.loaded
     /\ k.pc = "served" => k.gen <= k.loaded

\* What is cached is not newer than what is stored, nor older than what was told.
CacheInv ==
  /\ told.versions <= db.versions /\ told.songs <= db.songs /\ cache.versions <= db.versions
  /\ ~cache.stale => told.versions <= cache.versions
  /\ cache.denominators # NoSnapshot => told.songs <= cache.denominators

ExpectInv == \A c \in Client : Expects(c)

NoticeInv == doubt \/ notice = db.notice

IInv == TypeInv /\ MutexInv /\ CacheInv /\ ExpectInv /\ NoticeInv
-----------------------------------------------------------------------------
\* A request goes on; the others' expectations are kept by what only grows, and by
\* what they hold a mutex for.
LEMMA OtherKept ==
  ASSUME IInv, TypeInv', NEW d \in Client, client'[d] = client[d],
         told.versions <= told.versions', told.songs <= told.songs',
         cache.versions <= cache.versions', db.versions <= db.versions', db.songs <= db.songs',
         Writes(d)' <=> Writes(d),
         mutex["reload"] = d => cache.versions' = cache.versions /\ told.versions' = told.versions,
         mutex["update"] = d => told.versions' = told.versions,
         mutex["denominators"] = d => told.songs' = told.songs
  PROVE  Expects(d)'
<1> USE DEF Generation
<1> DEFINE k == client[d]
<1>1. /\ told.versions \in Int /\ told.songs \in Int /\ cache.versions \in Int
      /\ db.versions \in Int /\ db.songs \in Int
      /\ told.versions' \in Int /\ told.songs' \in Int /\ cache.versions' \in Int
      /\ db.versions' \in Int /\ db.songs' \in Int
  BY CachesAssumption DEF IInv, TypeInv
<1>2. k.pc # "save" => k.gen \in Int /\ k.loaded \in Int
  BY CachesAssumption DEF IInv, TypeInv, CachesTypeOK
<1>3. Expects(d)
  BY DEF IInv, ExpectInv
<1>4. client'[d] = k
  OBVIOUS
<1> HIDE DEF k
<1>5. ASSUME k.pc \in {"reload", "query", "publish"}
      PROVE  IF Writes(d)' THEN told.versions' <= k.gen /\ k.gen <= db.versions'
                           ELSE k.gen <= told.versions'
  <2>1. IF Writes(d) THEN told.versions <= k.gen /\ k.gen <= db.versions
                     ELSE k.gen <= told.versions
    BY <1>3, <1>5 DEF Expects, k
  <2> QED
    BY <1>1, <1>2, <1>5, <2>1 DEF Writes
<1>6. k.pc = "publish" => /\ cache.versions' <= k.loaded /\ told.versions' <= k.loaded
                          /\ k.gen <= k.loaded /\ k.loaded <= db.versions'
  <2> SUFFICES ASSUME k.pc = "publish"
               PROVE  /\ cache.versions' <= k.loaded /\ told.versions' <= k.loaded
                      /\ k.gen <= k.loaded /\ k.loaded <= db.versions'
    OBVIOUS
  <2>1. /\ cache.versions <= k.loaded /\ told.versions <= k.loaded
        /\ k.gen <= k.loaded /\ k.loaded <= db.versions
    BY <1>3 DEF Expects, k
  <2>2. mutex["reload"] = d
    BY DEF IInv, MutexInv, k
  <2> QED
    BY <1>1, <1>2, <2>1, <2>2
<1>7. k.pc = "read" => k.gen <= cache.versions'
  BY <1>1, <1>2, <1>3 DEF Expects, k
<1>8. k.pc = "invalidate" => k.gen <= db.songs'
  BY <1>1, <1>2, <1>3 DEF Expects, k
<1>9. k.pc \in {"denominators", "build", "store"} => k.gen <= told.songs'
  BY <1>1, <1>2, <1>3 DEF Expects, k
<1>10. k.pc = "store" => told.songs' <= k.loaded
  BY <1>1, <1>2, <1>3 DEF Expects, IInv, MutexInv, k
<1>11. k.pc = "served" => k.gen <= k.loaded
  BY <1>3 DEF Expects, k
<1> QED
  BY <1>4, <1>5, <1>6, <1>7, <1>8, <1>9, <1>10, <1>11 DEF Expects

Grows ==
  /\ told.versions <= told.versions' /\ told.songs <= told.songs'
  /\ cache.versions <= cache.versions' /\ db.versions <= db.versions' /\ db.songs <= db.songs'

\* A step of c leaves d and what d has locked alone.
Undisturbed(d) ==
  /\ client'[d] = client[d]
  /\ \A m \in Mutex : mutex'[m] = d <=> mutex[m] = d
  /\ mutex["reload"] = d => cache'.versions = cache.versions /\ told'.versions = told.versions
  /\ mutex["update"] = d => told'.versions = told.versions
  /\ mutex["denominators"] = d => told'.songs = told.songs

LEMMA StepOK ==
  ASSUME IInv, TypeInv', CacheInv', NoticeInv', Grows, NEW c \in Client,
         \A d \in Client \ {c} : Undisturbed(d),
         Writes(c)' => client'[c].pc \in {"versionTx", "reload", "query", "publish"},
         client'[c].pc = "versionTx" => Writes(c)',
         client'[c].pc \in {"query", "publish"} => mutex'["reload"] = c,
         client'[c].pc \in {"build", "store"} => mutex'["denominators"] = c,
         client'[c].pc = "save" => mutex'["maintenance"] = c,
         Expects(c)'
  PROVE  IInv'
<1>1. ASSUME NEW d \in Client, d # c PROVE Expects(d)'
  <2>1. Undisturbed(d)
    BY <1>1
  <2> QED
    BY <2>1, OtherKept DEF Undisturbed, Grows, Writes, Mutex
<1>2. ExpectInv'
  BY <1>1 DEF ExpectInv
<1>3. MutexInv'
  <2> SUFFICES ASSUME NEW d \in Client
               PROVE  /\ Writes(d)' => client'[d].pc \in {"versionTx", "reload", "query", "publish"}
                      /\ client'[d].pc = "versionTx" => Writes(d)'
                      /\ client'[d].pc \in {"query", "publish"} => mutex'["reload"] = d
                      /\ client'[d].pc \in {"build", "store"} => mutex'["denominators"] = d
                      /\ client'[d].pc = "save" => mutex'["maintenance"] = d
    BY DEF MutexInv
  <2>1. CASE d = c
    BY <2>1 DEF Writes
  <2>2. CASE d # c
    <3>1. Undisturbed(d)
      BY <2>2
    <3> QED
      BY <3>1 DEF Undisturbed, IInv, MutexInv, Writes, Mutex
  <2> QED
    BY <2>1, <2>2
<1> QED
  BY <1>2, <1>3 DEF IInv

\* A request moves to where it takes no mutex, and touches nothing.
LEMMA MoveStep ==
  ASSUME IInv, NEW c \in Client, NEW gen \in Generation, NEW loaded \in Generation,
         NEW pc \in {"idle", "reload", "read", "denominators", "served"},
         Goes(c, Work(pc, gen, loaded)), UNCHANGED <<db, cache, notice, told, doubt>>,
         \A d \in Client \ {c} : \A m \in Mutex : mutex'[m] = d <=> mutex[m] = d,
         mutex' \in [Mutex -> Client \cup {Nobody}], mutex'["update"] # c,
         pc \in {"reload", "read"} => gen <= told.versions,
         pc = "read" => gen <= cache.versions,
         pc = "denominators" => gen <= told.songs,
         pc = "served" => gen <= loaded
  PROVE  IInv'
<1>1. client' = [client EXCEPT ![c] = Work(pc, gen, loaded)]
  BY DEF Goes
<1>2. client'[c] = Work(pc, gen, loaded) /\ \A d \in Client \ {c} : client'[d] = client[d]
  BY <1>1 DEF IInv, TypeInv, CachesTypeOK
<1>3. TypeInv'
  <2>1. Work(pc, gen, loaded) \in [pc : Stage, gen : Generation, loaded : Generation]
    BY DEF Work, Stage
  <2> QED
    BY <1>1, <2>1 DEF IInv, TypeInv, CachesTypeOK, Generation
<1>4. CacheInv' /\ NoticeInv'
  BY DEF IInv, CacheInv, NoticeInv
<1>5. Grows
  BY CachesAssumption DEF Grows, IInv, TypeInv, Generation
<1>6. \A d \in Client \ {c} : Undisturbed(d)
  BY <1>2 DEF Undisturbed
<1>7. Expects(c)' /\ ~Writes(c)'
  BY <1>2 DEF Expects, Work, Writes
<1> QED
  BY <1>2, <1>3, <1>4, <1>5, <1>6, <1>7, StepOK DEF Work

LEMMA Generations ==
  /\ 0 \in Generation /\ Generation \subseteq Nat /\ NoSnapshot \notin Generation
  /\ \A g \in Generation : g \in Int /\ 0 <= g /\ g <= g
  /\ \A g \in Generation : g < MaxCommits => g + 1 \in Generation /\ g <= g + 1
BY CachesAssumption DEF Generation, NoSnapshot

LEMMA Typed ==
  ASSUME IInv
  PROVE  /\ db \in [versions : Generation, songs : Generation, notice : Notice]
         /\ cache \in [versions : Generation, stale : BOOLEAN,
                       denominators : Generation \cup {NoSnapshot}]
         /\ told \in [versions : Generation, songs : Generation]
         /\ notice \in Notice /\ doubt \in BOOLEAN
         /\ mutex \in [Mutex -> Client \cup {Nobody}]
         /\ client \in [Client -> [pc : Stage, gen : Generation, loaded : Generation]
                                    \cup [pc : {"save"}, notice : Notice]]
         /\ \A c \in Client : client[c].pc # "save" =>
              client[c].gen \in Generation /\ client[c].loaded \in Generation
BY DEF IInv, TypeInv, CachesTypeOK

LEMMA TypedNext ==
  ASSUME db' \in [versions : Generation, songs : Generation, notice : Notice],
         cache' \in [versions : Generation, stale : BOOLEAN,
                     denominators : Generation \cup {NoSnapshot}],
         told' \in [versions : Generation, songs : Generation],
         notice' \in Notice, doubt' \in BOOLEAN,
         mutex' \in [Mutex -> Client \cup {Nobody}],
         client' \in [Client -> [pc : Stage, gen : Generation, loaded : Generation]
                                  \cup [pc : {"save"}, notice : Notice]]
  PROVE  TypeInv'
BY DEF TypeInv, CachesTypeOK, Generation, NoSnapshot

\* A mutex is taken when it is free, and released by its holder.
LEMMA MutexMoves ==
  ASSUME IInv, NEW c \in Client
  PROVE  /\ \A m \in Mutex : Takes(c, m) =>
              /\ mutex' \in [Mutex -> Client \cup {Nobody}] /\ mutex'[m] = c
              /\ \A n \in Mutex \ {m} : mutex'[n] = mutex[n]
              /\ \A d \in Client \ {c} : \A n \in Mutex : mutex'[n] = d <=> mutex[n] = d
         /\ \A ms \in SUBSET Mutex : Releases(ms) /\ (\A m \in ms : mutex[m] = c) =>
              /\ mutex' \in [Mutex -> Client \cup {Nobody}]
              /\ \A m \in ms : mutex'[m] = Nobody
              /\ \A m \in Mutex \ ms : mutex'[m] = mutex[m]
              /\ \A d \in Client \ {c} : \A m \in Mutex : mutex'[m] = d <=> mutex[m] = d
<1>1. mutex \in [Mutex -> Client \cup {Nobody}] /\ Nobody \notin Client
  BY Typed, CachesAssumption
<1>2. ASSUME NEW m \in Mutex, Takes(c, m)
      PROVE  /\ mutex' \in [Mutex -> Client \cup {Nobody}] /\ mutex'[m] = c
             /\ \A n \in Mutex \ {m} : mutex'[n] = mutex[n]
             /\ \A d \in Client \ {c} : \A n \in Mutex : mutex'[n] = d <=> mutex[n] = d
  <2>1. mutex[m] = Nobody /\ mutex' = [mutex EXCEPT ![m] = c]
    BY <1>2 DEF Takes, Free
  <2> QED
    BY <1>1, <2>1
<1>3. ASSUME NEW ms \in SUBSET Mutex, Releases(ms), \A m \in ms : mutex[m] = c
      PROVE  /\ mutex' \in [Mutex -> Client \cup {Nobody}]
             /\ \A m \in ms : mutex'[m] = Nobody
             /\ \A m \in Mutex \ ms : mutex'[m] = mutex[m]
             /\ \A d \in Client \ {c} : \A m \in Mutex : mutex'[m] = d <=> mutex[m] = d
  <2>1. \A m \in Mutex : mutex'[m] = IF m \in ms THEN Nobody ELSE mutex[m]
    BY <1>3 DEF Releases
  <2>2. mutex' \in [Mutex -> Client \cup {Nobody}]
    BY <1>1, <1>3 DEF Releases
  <2> QED
    BY <1>1, <1>3, <2>1, <2>2
<1> QED
  BY <1>2, <1>3
-----------------------------------------------------------------------------
\* The steps of readers that only move on.
LEMMA ReadSteps ==
  ASSUME IInv, NEW c \in Client,
         \/ FailVersion(c) \/ BeginVersionRead(c) \/ ReadVersions(c) \/ Answer(c)
         \/ BeginSnapshot(c)
  PROVE  IInv'
<1>1. /\ mutex \in [Mutex -> Client \cup {Nobody}] /\ "update" \in Mutex
      /\ told.versions \in Generation /\ told.songs \in Generation /\ cache.versions \in Generation
      /\ 0 \in Generation /\ (cache.denominators # NoSnapshot => cache.denominators \in Generation)
  BY Typed, Generations DEF Mutex
<1>2. /\ Writes(c) <=> client[c].pc = "versionTx" \/ Writes(c)
      /\ Writes(c) => client[c].pc \in {"versionTx", "reload", "query", "publish"}
      /\ Expects(c)
  BY DEF IInv, MutexInv, ExpectInv
<1>3. CASE FailVersion(c)
  <2>1. Writes(c) /\ Releases({"update"}) /\ {"update"} \in SUBSET Mutex
    BY <1>1, <1>2, <1>3 DEF FailVersion, Stands
  <2>2. /\ mutex' \in [Mutex -> Client \cup {Nobody}] /\ mutex'["update"] = Nobody
        /\ \A d \in Client \ {c} : \A m \in Mutex : mutex'[m] = d <=> mutex[m] = d
    BY <2>1, MutexMoves DEF Writes
  <2> QED
    BY <1>1, <1>3, <2>2, CachesAssumption, MoveStep DEF FailVersion, Resting
<1>4. CASE BeginVersionRead(c)
  <2>1. mutex' = mutex /\ mutex["update"] # c
    BY <1>2, <1>4 DEF BeginVersionRead, Stands, Writes
  <2>2. CASE cache.stale
    <3>1. told.versions <= told.versions
      BY <1>1, Generations
    <3> QED
      BY <1>1, <1>4, <2>1, <2>2, <3>1, MoveStep DEF BeginVersionRead
  <2>3. CASE ~cache.stale
    <3>1. told.versions <= cache.versions /\ told.versions <= told.versions
      BY <1>1, <2>3, Generations DEF IInv, CacheInv
    <3> QED
      BY <1>1, <1>4, <2>1, <2>3, <3>1, MoveStep DEF BeginVersionRead
  <2> QED
    BY <2>2, <2>3
<1>5. CASE ReadVersions(c)
  <2>1. /\ mutex' = mutex /\ mutex["update"] # c /\ client[c].gen <= cache.versions
        /\ client[c].gen \in Generation
    BY <1>2, <1>5, Typed DEF ReadVersions, Stands, Writes, Expects
  <2> QED
    BY <1>1, <1>5, <2>1, MoveStep DEF ReadVersions
<1>6. CASE Answer(c)
  <2>1. mutex' = mutex /\ mutex["update"] # c
    BY <1>2, <1>6 DEF Answer, Stands, Writes
  <2> QED
    BY <1>1, <1>6, <2>1, MoveStep DEF Answer, Resting
<1>7. CASE BeginSnapshot(c)
  <2>1. mutex' = mutex /\ mutex["update"] # c
    BY <1>2, <1>7 DEF BeginSnapshot, Stands, Writes
  <2>2. CASE cache.denominators # NoSnapshot
    <3>1. told.songs <= cache.denominators
      BY <2>2 DEF IInv, CacheInv
    <3> QED
      BY <1>1, <1>7, <2>1, <2>2, <3>1, MoveStep DEF BeginSnapshot, Serves
  <2>3. CASE cache.denominators = NoSnapshot
    <3>1. told.songs <= told.songs
      BY <1>1, Generations
    <3> QED
      BY <1>1, <1>7, <2>1, <2>3, <3>1, MoveStep DEF BeginSnapshot
  <2> QED
    BY <2>2, <2>3
<1> QED
  BY <1>3, <1>4, <1>5, <1>6, <1>7

LEMMA ClientMoves ==
  ASSUME IInv, NEW c \in Client, NEW pc \in Stage, NEW gen \in Generation,
         NEW loaded \in Generation, Goes(c, Work(pc, gen, loaded))
  PROVE  /\ client' \in [Client -> [pc : Stage, gen : Generation, loaded : Generation]
                                     \cup [pc : {"save"}, notice : Notice]]
         /\ client'[c].pc = pc /\ client'[c].gen = gen /\ client'[c].loaded = loaded
         /\ \A d \in Client \ {c} : client'[d] = client[d]
BY Typed DEF Goes, Work

\* What is known at every step of a request that is not saving.
LEMMA Known ==
  ASSUME IInv, NEW c \in Client, client[c].pc # "save"
  PROVE  /\ "update" \in Mutex /\ "reload" \in Mutex /\ "denominators" \in Mutex
         /\ 0 \in Generation /\ client[c].gen \in Generation /\ client[c].loaded \in Generation
         /\ db.versions \in Generation /\ db.songs \in Generation
         /\ told.versions \in Generation /\ told.songs \in Generation
         /\ cache.versions \in Generation
         /\ client[c].gen \in Int /\ client[c].loaded \in Int
         /\ db.versions \in Int /\ db.songs \in Int /\ told.versions \in Int
         /\ told.songs \in Int /\ cache.versions \in Int
         /\ Expects(c) /\ CacheInv
         /\ Writes(c) => client[c].pc \in {"versionTx", "reload", "query", "publish"}
         /\ client[c].pc \in {"query", "publish"} => mutex["reload"] = c
         /\ client[c].pc \in {"build", "store"} => mutex["denominators"] = c
<1>1. /\ "update" \in Mutex /\ "reload" \in Mutex /\ "denominators" \in Mutex
      /\ client[c].gen \in Generation /\ client[c].loaded \in Generation
      /\ db.versions \in Generation /\ db.songs \in Generation
      /\ told.versions \in Generation /\ told.songs \in Generation
      /\ cache.versions \in Generation
  BY Typed DEF Mutex
<1>2. /\ Expects(c) /\ CacheInv
      /\ Writes(c) => client[c].pc \in {"versionTx", "reload", "query", "publish"}
      /\ client[c].pc \in {"query", "publish"} => mutex["reload"] = c
      /\ client[c].pc \in {"build", "store"} => mutex["denominators"] = c
  BY DEF IInv, ExpectInv, MutexInv
<1> QED
  BY <1>1, <1>2, Generations

\* A writer of versions holds the mutex from before its transaction.
LEMMA WriteSteps ==
  ASSUME IInv, NEW c \in Client, BeginVersionWrite(c) \/ CommitVersion(c)
  PROVE  IInv'
<1>1. /\ "update" \in Mutex /\ {"update"} \in SUBSET Mutex /\ 0 \in Generation
      /\ db.versions \in Generation
      /\ told.versions \in Int /\ db.versions \in Int /\ cache.versions \in Int
      /\ told.songs \in Int /\ db.songs \in Int
  <2>1. client[c].pc # "save"
    BY DEF BeginVersionWrite, CommitVersion, Stands
  <2> QED
    BY <2>1, Known
<1>2. CASE BeginVersionWrite(c)
  <2>1. /\ UNCHANGED <<db, cache, notice, told, doubt>> /\ Takes(c, "update")
        /\ Goes(c, Work("versionTx", 0, 0))
    BY <1>2 DEF BeginVersionWrite
  <2>2. /\ mutex' \in [Mutex -> Client \cup {Nobody}] /\ mutex'["update"] = c
        /\ \A d \in Client \ {c} : \A m \in Mutex : mutex'[m] = d <=> mutex[m] = d
    BY <1>1, <2>1, MutexMoves
  <2>3. /\ client' \in [Client -> [pc : Stage, gen : Generation, loaded : Generation]
                                    \cup [pc : {"save"}, notice : Notice]]
        /\ client'[c].pc = "versionTx" /\ \A d \in Client \ {c} : client'[d] = client[d]
    BY <1>1, <2>1, ClientMoves DEF Stage
  <2>4. TypeInv'
    BY <2>1, <2>2, <2>3, Typed, TypedNext
  <2>5. CacheInv' /\ NoticeInv' /\ Grows /\ \A d \in Client \ {c} : Undisturbed(d)
    BY <1>1, <2>1, <2>2, <2>3 DEF IInv, CacheInv, NoticeInv, Grows, Undisturbed
  <2> QED
    BY <2>2, <2>3, <2>4, <2>5, StepOK DEF Expects, Writes
<1>3. CASE CommitVersion(c)
  <2>1. /\ UNCHANGED <<cache, notice, told, doubt>> /\ mutex["update"] = c
        /\ db' = [db EXCEPT !.versions = db.versions + 1]
        /\ db.versions + 1 \in Generation /\ db.versions <= db.versions + 1
    BY <1>1, <1>3, Generations DEF CommitVersion, Stands, IInv, MutexInv, Writes
  <2>2. /\ db' \in [versions : Generation, songs : Generation, notice : Notice]
        /\ db'.versions = db.versions + 1 /\ db'.songs = db.songs /\ db'.notice = db.notice
    BY <2>1, Typed
  <2>3. \/ Goes(c, Work("reload", db.versions + 1, 0)) /\ UNCHANGED mutex
        \/ Goes(c, Resting) /\ Releases({"update"})
    BY <1>3 DEF CommitVersion
  <2>4. /\ mutex' \in [Mutex -> Client \cup {Nobody}]
        /\ \A d \in Client \ {c} : \A m \in Mutex : mutex'[m] = d <=> mutex[m] = d
        /\ mutex' = mutex \/ mutex'["update"] = Nobody
    BY <1>1, <2>1, <2>3, MutexMoves, Typed
  <2>5. /\ client' \in [Client -> [pc : Stage, gen : Generation, loaded : Generation]
                                    \cup [pc : {"save"}, notice : Notice]]
        /\ \A d \in Client \ {c} : client'[d] = client[d]
        /\ \/ client'[c].pc = "reload" /\ client'[c].gen = db.versions + 1 /\ mutex' = mutex
           \/ client'[c].pc = "idle" /\ mutex'["update"] = Nobody
    <3>1. CASE Goes(c, Work("reload", db.versions + 1, 0)) /\ UNCHANGED mutex
      BY <1>1, <2>1, <3>1, ClientMoves DEF Stage
    <3>2. CASE Goes(c, Resting) /\ Releases({"update"})
      <4>1. mutex'["update"] = Nobody
        BY <1>1, <2>1, <3>2, MutexMoves
      <4> QED
        BY <1>1, <3>2, <4>1, ClientMoves DEF Stage, Resting
    <3> QED
      BY <2>3, <3>1, <3>2
  <2>6. TypeInv'
    BY <2>1, <2>2, <2>4, <2>5, Typed, TypedNext
  <2>7. Grows
    BY <1>1, <2>1, <2>2 DEF Grows
  <2>8. CacheInv' /\ NoticeInv' /\ \A d \in Client \ {c} : Undisturbed(d)
    BY <1>1, <2>1, <2>2, <2>4, <2>5 DEF IInv, CacheInv, NoticeInv, Undisturbed
  <2>9. told.versions <= db.versions + 1
    BY <1>1 DEF IInv, CacheInv
  <2>10. Expects(c)' /\ (Writes(c)' => client'[c].pc = "reload")
    <3>1. CASE client'[c].pc = "reload" /\ client'[c].gen = db.versions + 1 /\ mutex' = mutex
      BY <1>1, <2>1, <2>2, <2>9, <3>1 DEF Expects, Writes
    <3>2. CASE client'[c].pc = "idle" /\ mutex'["update"] = Nobody
      BY <3>2, CachesAssumption DEF Expects, Writes
    <3> QED
      BY <2>5, <3>1, <3>2
  <2> QED
    BY <2>5, <2>6, <2>7, <2>8, <2>10, StepOK
<1> QED
  BY <1>2, <1>3

\* A reload is queried and published under its mutex, so that the older one of two never
\* replaces the newer.
LEMMA LockReloadStep ==
  ASSUME IInv, NEW c \in Client, LockReload(c) \/ QueryVersions(c)
  PROVE  IInv'
<1>1. client[c].pc # "save"
  BY DEF LockReload, QueryVersions, Stands
<1>2. CASE LockReload(c)
  <2>1. /\ UNCHANGED <<db, cache, notice, told, doubt>> /\ Takes(c, "reload")
        /\ Goes(c, Work("query", client[c].gen, 0)) /\ client[c].pc = "reload"
    BY <1>2 DEF LockReload, Stands
  <2>2. /\ mutex' \in [Mutex -> Client \cup {Nobody}] /\ mutex'["reload"] = c
        /\ mutex'["update"] = mutex["update"]
        /\ \A d \in Client \ {c} : \A m \in Mutex : mutex'[m] = d <=> mutex[m] = d
    BY <1>1, <2>1, Known, MutexMoves
  <2>3. /\ client' \in [Client -> [pc : Stage, gen : Generation, loaded : Generation]
                                    \cup [pc : {"save"}, notice : Notice]]
        /\ client'[c].pc = "query" /\ client'[c].gen = client[c].gen
        /\ \A d \in Client \ {c} : client'[d] = client[d]
    BY <1>1, <2>1, Known, ClientMoves DEF Stage
  <2>4. TypeInv'
    BY <2>1, <2>2, <2>3, Typed, TypedNext
  <2>5. CacheInv' /\ NoticeInv' /\ Grows /\ \A d \in Client \ {c} : Undisturbed(d)
    BY <1>1, <2>1, <2>2, <2>3, Known DEF IInv, CacheInv, NoticeInv, Grows, Undisturbed
  <2>6. Expects(c)'
    BY <1>1, <2>1, <2>2, <2>3, Known DEF Expects, Writes
  <2> QED
    BY <2>2, <2>3, <2>4, <2>5, <2>6, StepOK
<1>3. CASE QueryVersions(c)
  <2>1. /\ UNCHANGED <<db, cache, notice, mutex, told, doubt>>
        /\ Goes(c, Work("publish", client[c].gen, db.versions)) /\ client[c].pc = "query"
    BY <1>3 DEF QueryVersions, Stands
  <2>2. /\ client' \in [Client -> [pc : Stage, gen : Generation, loaded : Generation]
                                    \cup [pc : {"save"}, notice : Notice]]
        /\ client'[c].pc = "publish" /\ client'[c].gen = client[c].gen
        /\ client'[c].loaded = db.versions
        /\ \A d \in Client \ {c} : client'[d] = client[d]
    BY <1>1, <2>1, Known, ClientMoves DEF Stage
  <2>3. TypeInv'
    BY <2>1, <2>2, Typed, TypedNext
  <2>4. CacheInv' /\ NoticeInv' /\ Grows /\ \A d \in Client \ {c} : Undisturbed(d)
    BY <1>1, <2>1, <2>2, Known DEF IInv, CacheInv, NoticeInv, Grows, Undisturbed
  <2>5. /\ cache.versions <= db.versions /\ told.versions <= db.versions
        /\ client[c].gen <= db.versions
        /\ IF Writes(c) THEN told.versions <= client[c].gen /\ client[c].gen <= db.versions
                        ELSE client[c].gen <= told.versions
    BY <1>1, <2>1, Known DEF CacheInv, Expects
  <2>6. Expects(c)'
    BY <1>1, <2>1, <2>2, <2>5, Known DEF Expects, Writes
  <2>7. mutex'["reload"] = c
    BY <1>1, <2>1, Known
  <2> QED
    BY <2>2, <2>3, <2>4, <2>6, <2>7, StepOK
<1> QED
  BY <1>2, <1>3

\* A writer is answered when its reload has failed too: then the cache is stale.
LEMMA ReloadedStep ==
  ASSUME IInv, NEW c \in Client, FailReload(c) \/ PublishVersions(c)
  PROVE  IInv'
<1>1. client[c].pc # "save" /\ client[c].pc \in {"query", "publish"} /\ mutex["reload"] = c
  BY DEF FailReload, PublishVersions, Stands, IInv, MutexInv
<1>2. PICK failed \in BOOLEAN :
        /\ Reloaded(c, failed) /\ UNCHANGED <<db, notice, doubt>>
        /\ failed => client[c].pc = "query" /\ cache' = [cache EXCEPT !.stale = TRUE]
        /\ ~failed => /\ client[c].pc = "publish"
                      /\ cache' = [cache EXCEPT !.versions = client[c].loaded, !.stale = FALSE]
  BY DEF FailReload, PublishVersions, Stands
<1>3. /\ cache' \in [versions : Generation, stale : BOOLEAN,
                     denominators : Generation \cup {NoSnapshot}]
      /\ cache'.denominators = cache.denominators /\ cache'.stale = failed
      /\ cache'.versions = IF failed THEN cache.versions ELSE client[c].loaded
  BY <1>1, <1>2, Known, Typed
<1>4. /\ cache.versions <= cache'.versions /\ cache'.versions <= db.versions
      /\ ~failed => told.versions <= cache'.versions /\ client[c].gen <= cache'.versions
  <2>1. CASE failed
    BY <1>1, <1>3, <2>1, Known DEF CacheInv
  <2>2. CASE ~failed
    BY <1>1, <1>2, <1>3, <2>2, Known DEF Expects
  <2> QED
    BY <2>1, <2>2
<1>5. CASE Writes(c)
  <2>1. /\ Goes(c, Work("idle", 0, 0)) /\ told' = [told EXCEPT !.versions = client[c].gen]
        /\ Releases({"reload", "update"})
    BY <1>2, <1>5 DEF Reloaded, Resting
  <2>2. /\ told' \in [versions : Generation, songs : Generation]
        /\ told'.versions = client[c].gen /\ told'.songs = told.songs
        /\ told.versions <= client[c].gen /\ client[c].gen <= db.versions
    BY <1>1, <1>5, <2>1, Known, Typed DEF Expects
  <2>3. /\ mutex' \in [Mutex -> Client \cup {Nobody}] /\ mutex'["update"] = Nobody
        /\ \A d \in Client \ {c} : \A m \in Mutex : mutex'[m] = d <=> mutex[m] = d
    <3>1. {"reload", "update"} \in SUBSET Mutex /\ \A m \in {"reload", "update"} : mutex[m] = c
      BY <1>1, <1>5, Known DEF Writes
    <3> QED
      BY <2>1, <3>1, MutexMoves
  <2>4. /\ client' \in [Client -> [pc : Stage, gen : Generation, loaded : Generation]
                                    \cup [pc : {"save"}, notice : Notice]]
        /\ client'[c].pc = "idle"
        /\ \A d \in Client \ {c} : client'[d] = client[d]
    BY <1>1, <2>1, Known, ClientMoves DEF Stage
  <2>5. TypeInv'
    BY <1>2, <1>3, <2>2, <2>3, <2>4, Typed, TypedNext
  <2>6. Grows
    BY <1>1, <1>2, <1>4, <2>2, Known DEF Grows
  <2>7. \A d \in Client \ {c} : Undisturbed(d)
    BY <1>1, <1>5, <2>2, <2>3, <2>4 DEF Undisturbed, Writes
  <2>8. CacheInv' /\ NoticeInv'
    BY <1>1, <1>2, <1>3, <1>4, <2>2, Known DEF CacheInv, NoticeInv, IInv
  <2>9. Expects(c)' /\ ~Writes(c)'
    BY <2>3, <2>4, CachesAssumption DEF Expects, Writes
  <2> QED
    BY <2>4, <2>5, <2>6, <2>7, <2>8, <2>9, StepOK
<1>6. CASE ~Writes(c)
  <2> DEFINE gen == IF failed THEN 0 ELSE client[c].gen
  <2>1. Goes(c, Work("read", gen, 0)) /\ told' = told /\ Releases({"reload"})
    BY <1>2, <1>6 DEF Reloaded
  <2>2. gen \in Generation
    BY <1>1, Known
  <2>3. /\ mutex' \in [Mutex -> Client \cup {Nobody}] /\ mutex'["update"] = mutex["update"]
        /\ \A d \in Client \ {c} : \A m \in Mutex : mutex'[m] = d <=> mutex[m] = d
    <3>1. {"reload"} \in SUBSET Mutex /\ \A m \in {"reload"} : mutex[m] = c
      BY <1>1, Known
    <3>2. "update" \in Mutex \ {"reload"}
      BY <1>1, Known
    <3> QED
      BY <2>1, <3>1, <3>2, MutexMoves
  <2>4. /\ client' \in [Client -> [pc : Stage, gen : Generation, loaded : Generation]
                                    \cup [pc : {"save"}, notice : Notice]]
        /\ client'[c].pc = "read" /\ client'[c].gen = gen
        /\ \A d \in Client \ {c} : client'[d] = client[d]
    BY <1>1, <2>1, <2>2, Known, ClientMoves DEF Stage
  <2>5. TypeInv'
    BY <1>2, <1>3, <2>1, <2>3, <2>4, Typed, TypedNext
  <2>6. Grows
    BY <1>1, <1>2, <1>4, <2>1, Known DEF Grows
  <2>7. \A d \in Client \ {c} : Undisturbed(d)
    BY <1>1, <2>1, <2>3, <2>4 DEF Undisturbed
  <2>8. CacheInv' /\ NoticeInv'
    BY <1>1, <1>2, <1>3, <1>4, <2>1, Known DEF CacheInv, NoticeInv, IInv
  <2>9. gen <= cache'.versions
    <3>1. CASE failed
      <4>1. cache'.versions \in Generation
        BY <1>3
      <4> QED
        BY <3>1, <4>1, Generations
    <3>2. CASE ~failed
      BY <1>4, <3>2
    <3> QED
      BY <3>1, <3>2
  <2>10. Expects(c)' /\ ~Writes(c)'
    BY <1>6, <2>3, <2>4, <2>9 DEF Expects, Writes
  <2> QED
    BY <2>4, <2>5, <2>6, <2>7, <2>8, <2>10, StepOK
<1> QED
  BY <1>5, <1>6
-----------------------------------------------------------------------------
\* An edit of a song is told when the denominators from before it are gone, and while
\* nobody builds.
LEMMA SongSteps ==
  ASSUME IInv, NEW c \in Client, CommitSongs(c) \/ Invalidate(c)
  PROVE  IInv'
<1>1. client[c].pc \in {"idle", "invalidate"}
  BY DEF CommitSongs, Invalidate, Stands
<1>2. CASE CommitSongs(c)
  <2>1. /\ UNCHANGED <<cache, notice, mutex, told, doubt>>
        /\ db' = [db EXCEPT !.songs = db.songs + 1]
        /\ db.songs + 1 \in Generation /\ db.songs <= db.songs + 1
        /\ Goes(c, Work("invalidate", db.songs + 1, 0))
    BY <1>1, <1>2, Known, Generations DEF CommitSongs
  <2>2. /\ db' \in [versions : Generation, songs : Generation, notice : Notice]
        /\ db'.versions = db.versions /\ db'.songs = db.songs + 1 /\ db'.notice = db.notice
    BY <2>1, Typed
  <2>3. /\ client' \in [Client -> [pc : Stage, gen : Generation, loaded : Generation]
                                    \cup [pc : {"save"}, notice : Notice]]
        /\ client'[c].pc = "invalidate" /\ client'[c].gen = db.songs + 1
        /\ \A d \in Client \ {c} : client'[d] = client[d]
    BY <1>1, <2>1, Known, ClientMoves DEF Stage
  <2>4. TypeInv'
    BY <2>1, <2>2, <2>3, Typed, TypedNext
  <2>5. Grows
    BY <1>1, <2>1, <2>2, Known DEF Grows
  <2>6. CacheInv' /\ NoticeInv' /\ \A d \in Client \ {c} : Undisturbed(d)
    BY <1>1, <2>1, <2>2, <2>3, Known DEF IInv, CacheInv, NoticeInv, Undisturbed
  <2>7. Expects(c)'
    BY <2>2, <2>3, <1>1, Known DEF Expects
  <2>8. ~Writes(c)'
    BY <1>1, <2>1, Known DEF Writes
  <2> QED
    BY <2>3, <2>4, <2>5, <2>6, <2>7, <2>8, StepOK
<1>3. CASE Invalidate(c)
  <2>1. /\ UNCHANGED <<db, notice, mutex, doubt>> /\ mutex["denominators"] = Nobody
        /\ cache' = [cache EXCEPT !.denominators = NoSnapshot]
        /\ told' = [told EXCEPT !.songs =
                      IF told.songs < client[c].gen THEN client[c].gen ELSE told.songs]
        /\ Goes(c, Work("idle", 0, 0)) /\ client[c].pc = "invalidate"
    BY <1>3 DEF Invalidate, Resting, Free, Stands
  <2>2. /\ cache' \in [versions : Generation, stale : BOOLEAN,
                       denominators : Generation \cup {NoSnapshot}]
        /\ cache'.denominators = NoSnapshot /\ cache'.versions = cache.versions
        /\ cache'.stale = cache.stale
    BY <2>1, Typed
  <2>3. /\ told' \in [versions : Generation, songs : Generation]
        /\ told'.versions = told.versions
        /\ told'.songs = IF told.songs < client[c].gen THEN client[c].gen ELSE told.songs
    BY <1>1, <2>1, Known, Typed
  <2>4. told.songs <= told'.songs /\ told'.songs <= db.songs
    <3>1. client[c].gen <= db.songs /\ told.songs <= db.songs
      BY <1>1, <2>1, Known DEF Expects, CacheInv
    <3> QED
      BY <1>1, <2>3, <3>1, Known
  <2>5. /\ client' \in [Client -> [pc : Stage, gen : Generation, loaded : Generation]
                                    \cup [pc : {"save"}, notice : Notice]]
        /\ client'[c].pc = "idle" /\ \A d \in Client \ {c} : client'[d] = client[d]
    BY <1>1, <2>1, Known, ClientMoves DEF Stage
  <2>6. TypeInv'
    BY <2>1, <2>2, <2>3, <2>5, Typed, TypedNext
  <2>7. Grows
    BY <1>1, <2>1, <2>2, <2>3, <2>4, Known DEF Grows
  <2>8. \A d \in Client \ {c} : Undisturbed(d)
    BY <2>1, <2>2, <2>3, <2>5, CachesAssumption DEF Undisturbed
  <2>9. CacheInv' /\ NoticeInv'
    BY <1>1, <2>1, <2>2, <2>3, <2>4, Known DEF IInv, CacheInv, NoticeInv
  <2>10. Expects(c)' /\ ~Writes(c)'
    BY <1>1, <2>1, <2>5, Known DEF Expects, Writes
  <2> QED
    BY <2>5, <2>6, <2>7, <2>8, <2>9, <2>10, StepOK
<1> QED
  BY <1>2, <1>3

LEMMA SnapshotSteps ==
  ASSUME IInv, NEW c \in Client, LockSnapshot(c) \/ BuildSnapshot(c) \/ StoreSnapshot(c)
  PROVE  IInv'
<1>1. client[c].pc \in {"denominators", "build", "store"}
  BY DEF LockSnapshot, BuildSnapshot, StoreSnapshot, Stands
<1>2. ~Writes(c) /\ client[c].gen <= told.songs /\ mutex \in [Mutex -> Client \cup {Nobody}]
  BY <1>1, Known, Typed DEF Expects
<1>3. CASE LockSnapshot(c) /\ cache.denominators # NoSnapshot
  <2>1. /\ UNCHANGED <<db, cache, notice, mutex, told, doubt>>
        /\ Goes(c, Work("served", client[c].gen, cache.denominators))
    BY <1>3 DEF LockSnapshot, Serves
  <2>2. cache.denominators \in Generation
    BY <1>3, Typed
  <2>3. client[c].gen <= cache.denominators
    <3>1. told.songs <= cache.denominators
      BY <1>1, <1>3, Known DEF CacheInv
    <3>2. cache.denominators \in Int
      BY <2>2, Generations
    <3> QED
      BY <1>1, <1>2, <3>1, <3>2, Known
  <2> QED
    BY <1>1, <1>2, <2>1, <2>2, <2>3, Known, MoveStep DEF Writes
<1>4. CASE LockSnapshot(c) /\ cache.denominators = NoSnapshot
  <2>1. /\ UNCHANGED <<db, cache, notice, told, doubt>> /\ Takes(c, "denominators")
        /\ Goes(c, Work("build", client[c].gen, 0))
    BY <1>4 DEF LockSnapshot
  <2>2. /\ mutex' \in [Mutex -> Client \cup {Nobody}] /\ mutex'["denominators"] = c
        /\ mutex'["update"] = mutex["update"]
        /\ \A d \in Client \ {c} : \A m \in Mutex : mutex'[m] = d <=> mutex[m] = d
    BY <1>1, <2>1, Known, MutexMoves
  <2>3. /\ client' \in [Client -> [pc : Stage, gen : Generation, loaded : Generation]
                                    \cup [pc : {"save"}, notice : Notice]]
        /\ client'[c].pc = "build" /\ client'[c].gen = client[c].gen
        /\ \A d \in Client \ {c} : client'[d] = client[d]
    BY <1>1, <2>1, Known, ClientMoves DEF Stage
  <2>4. TypeInv'
    BY <2>1, <2>2, <2>3, Typed, TypedNext
  <2>5. CacheInv' /\ NoticeInv' /\ Grows /\ \A d \in Client \ {c} : Undisturbed(d)
    BY <1>1, <2>1, <2>2, <2>3, Known DEF IInv, CacheInv, NoticeInv, Grows, Undisturbed
  <2>6. Expects(c)' /\ ~Writes(c)'
    BY <1>2, <2>1, <2>2, <2>3 DEF Expects, Writes
  <2> QED
    BY <2>2, <2>3, <2>4, <2>5, <2>6, StepOK
<1>5. CASE BuildSnapshot(c) /\ Goes(c, Resting) /\ Releases({"denominators"})
  <2>1. UNCHANGED <<db, cache, notice, told, doubt>> /\ Goes(c, Work("idle", 0, 0))
    BY <1>5 DEF BuildSnapshot, Resting
  <2>2. /\ mutex' \in [Mutex -> Client \cup {Nobody}] /\ mutex'["update"] = mutex["update"]
        /\ \A d \in Client \ {c} : \A m \in Mutex : mutex'[m] = d <=> mutex[m] = d
    <3>1. {"denominators"} \in SUBSET Mutex /\ \A m \in {"denominators"} : mutex[m] = c
      BY <1>1, <1>5, Known DEF BuildSnapshot, Stands
    <3>2. "update" \in Mutex \ {"denominators"}
      BY <1>1, Known
    <3> QED
      BY <1>5, <3>1, <3>2, MutexMoves
  <2> QED
    BY <1>1, <1>2, <2>1, <2>2, Known, MoveStep DEF Writes
<1>6. CASE BuildSnapshot(c) /\ Goes(c, Work("store", client[c].gen, db.songs)) /\ UNCHANGED mutex
  <2>1. UNCHANGED <<db, cache, notice, mutex, told, doubt>> /\ mutex["denominators"] = c
    BY <1>1, <1>6, Known DEF BuildSnapshot, Stands
  <2>2. /\ client' \in [Client -> [pc : Stage, gen : Generation, loaded : Generation]
                                    \cup [pc : {"save"}, notice : Notice]]
        /\ client'[c].pc = "store" /\ client'[c].gen = client[c].gen
        /\ client'[c].loaded = db.songs
        /\ \A d \in Client \ {c} : client'[d] = client[d]
    BY <1>1, <1>6, Known, ClientMoves DEF Stage
  <2>3. TypeInv'
    BY <2>1, <2>2, Typed, TypedNext
  <2>4. CacheInv' /\ NoticeInv' /\ Grows /\ \A d \in Client \ {c} : Undisturbed(d)
    BY <1>1, <2>1, <2>2, Known DEF IInv, CacheInv, NoticeInv, Grows, Undisturbed
  <2>5. told.songs <= db.songs
    BY <1>1, Known DEF CacheInv
  <2>6. Expects(c)' /\ ~Writes(c)'
    BY <1>2, <2>1, <2>2, <2>5 DEF Expects, Writes
  <2> QED
    BY <2>1, <2>2, <2>3, <2>4, <2>6, StepOK
<1>7. CASE StoreSnapshot(c)
  <2>1. /\ UNCHANGED <<db, notice, told, doubt>> /\ Releases({"denominators"})
        /\ cache' = [cache EXCEPT !.denominators = client[c].loaded]
        /\ Goes(c, Work("served", client[c].gen, client[c].loaded))
        /\ mutex["denominators"] = c /\ told.songs <= client[c].loaded
    BY <1>1, <1>7, Known DEF StoreSnapshot, Serves, Stands, Expects
  <2>2. /\ cache' \in [versions : Generation, stale : BOOLEAN,
                       denominators : Generation \cup {NoSnapshot}]
        /\ cache'.denominators = client[c].loaded /\ cache'.versions = cache.versions
        /\ cache'.stale = cache.stale
    BY <1>1, <2>1, Known, Typed
  <2>3. /\ mutex' \in [Mutex -> Client \cup {Nobody}] /\ mutex'["update"] = mutex["update"]
        /\ \A d \in Client \ {c} : \A m \in Mutex : mutex'[m] = d <=> mutex[m] = d
    <3>1. {"denominators"} \in SUBSET Mutex /\ \A m \in {"denominators"} : mutex[m] = c
      BY <1>1, <2>1, Known
    <3>2. "update" \in Mutex \ {"denominators"}
      BY <1>1, Known
    <3> QED
      BY <2>1, <3>1, <3>2, MutexMoves
  <2>4. /\ client' \in [Client -> [pc : Stage, gen : Generation, loaded : Generation]
                                    \cup [pc : {"save"}, notice : Notice]]
        /\ client'[c].pc = "served" /\ client'[c].gen = client[c].gen
        /\ client'[c].loaded = client[c].loaded
        /\ \A d \in Client \ {c} : client'[d] = client[d]
    BY <1>1, <2>1, Known, ClientMoves DEF Stage
  <2>5. TypeInv'
    BY <2>1, <2>2, <2>3, <2>4, Typed, TypedNext
  <2>6. Grows
    BY <1>1, <2>1, <2>2, Known DEF Grows
  <2>7. \A d \in Client \ {c} : Undisturbed(d)
    BY <2>1, <2>2, <2>3, <2>4 DEF Undisturbed
  <2>8. CacheInv' /\ NoticeInv'
    BY <1>1, <2>1, <2>2, Known DEF IInv, CacheInv, NoticeInv
  <2>9. client[c].gen <= client[c].loaded
    BY <1>1, <1>2, <2>1, Known
  <2>10. Expects(c)' /\ ~Writes(c)'
    BY <1>2, <2>3, <2>4, <2>9 DEF Expects, Writes
  <2> QED
    BY <2>4, <2>5, <2>6, <2>7, <2>8, <2>10, StepOK
<1> QED
  BY <1>3, <1>4, <1>5, <1>6, <1>7 DEF BuildSnapshot
-----------------------------------------------------------------------------
\* What is published is what a Save has been heard to store.
LEMMA MaintenanceSteps ==
  ASSUME IInv, NEW c \in Client, BeginMaintenance(c) \/ SaveMaintenance(c)
  PROVE  IInv'
<1>1. CASE BeginMaintenance(c)
  <2>1. PICK n \in Notice :
          /\ Takes(c, "maintenance") /\ Goes(c, [pc |-> "save", notice |-> n])
          /\ client[c].pc = "idle"
          /\ UNCHANGED <<db, cache, notice, told, doubt>>
    BY <1>1 DEF BeginMaintenance, Stands
  <2>2. "maintenance" \in Mutex /\ "update" \in Mutex /\ "update" # "maintenance"
    BY DEF Mutex
  <2>3. /\ mutex' \in [Mutex -> Client \cup {Nobody}] /\ mutex'["maintenance"] = c
        /\ mutex'["update"] = mutex["update"]
        /\ \A d \in Client \ {c} : \A m \in Mutex : mutex'[m] = d <=> mutex[m] = d
    BY <2>1, <2>2, MutexMoves
  <2>4. /\ client' \in [Client -> [pc : Stage, gen : Generation, loaded : Generation]
                                    \cup [pc : {"save"}, notice : Notice]]
        /\ client'[c].pc = "save" /\ \A d \in Client \ {c} : client'[d] = client[d]
    BY <2>1, Typed DEF Goes
  <2>5. TypeInv'
    BY <2>1, <2>3, <2>4, Typed, TypedNext
  <2>6. CacheInv' /\ NoticeInv' /\ Grows /\ \A d \in Client \ {c} : Undisturbed(d)
    BY <2>1, <2>3, <2>4, Known DEF IInv, CacheInv, NoticeInv, Grows, Undisturbed
  <2>7. Expects(c)' /\ ~Writes(c)'
    BY <2>1, <2>3, <2>4, Known DEF Expects, Writes
  <2> QED
    BY <2>3, <2>4, <2>5, <2>6, <2>7, StepOK
<1>2. CASE SaveMaintenance(c)
  <2>1. /\ client[c].pc = "save" /\ mutex["maintenance"] = c /\ ~Writes(c)
        /\ Goes(c, Work("idle", 0, 0)) /\ Releases({"maintenance"})
        /\ UNCHANGED <<cache, told>>
    BY <1>2 DEF SaveMaintenance, Stands, IInv, MutexInv, Resting
  <2>2. PICK n \in Notice : n = client[c].notice
    BY <2>1, Typed DEF Stage
  <2>3. \/ db' = [db EXCEPT !.notice = n] /\ notice' = n /\ doubt' = FALSE
        \/ UNCHANGED <<db, notice, doubt>>
        \/ db' = [db EXCEPT !.notice = n] /\ doubt' = TRUE /\ UNCHANGED notice
    BY <1>2, <2>2 DEF SaveMaintenance
  <2>4. /\ db' \in [versions : Generation, songs : Generation, notice : Notice]
        /\ db'.versions = db.versions /\ db'.songs = db.songs
        /\ notice' \in Notice /\ doubt' \in BOOLEAN
    BY <2>3, Typed
  <2>5. NoticeInv'
    <3>1. CASE db' = [db EXCEPT !.notice = n] /\ notice' = n /\ doubt' = FALSE
      BY <3>1, Typed DEF NoticeInv
    <3>2. CASE UNCHANGED <<db, notice, doubt>>
      BY <3>2 DEF IInv, NoticeInv
    <3>3. CASE doubt' = TRUE
      BY <3>3 DEF NoticeInv
    <3> QED
      BY <2>3, <3>1, <3>2, <3>3
  <2>6. "maintenance" \in Mutex /\ "update" \in Mutex /\ "update" # "maintenance"
    BY DEF Mutex
  <2>7. /\ mutex' \in [Mutex -> Client \cup {Nobody}] /\ mutex'["update"] = mutex["update"]
        /\ \A d \in Client \ {c} : \A m \in Mutex : mutex'[m] = d <=> mutex[m] = d
    <3>1. {"maintenance"} \in SUBSET Mutex /\ \A m \in {"maintenance"} : mutex[m] = c
      BY <2>1, <2>6
    <3>2. "update" \in Mutex \ {"maintenance"}
      BY <2>6
    <3> QED
      BY <2>1, <3>1, <3>2, MutexMoves
  <2>8. /\ client' \in [Client -> [pc : Stage, gen : Generation, loaded : Generation]
                                    \cup [pc : {"save"}, notice : Notice]]
        /\ client'[c].pc = "idle" /\ \A d \in Client \ {c} : client'[d] = client[d]
    BY <2>1, Generations, ClientMoves DEF Stage
  <2>9. TypeInv'
    BY <2>1, <2>4, <2>7, <2>8, Typed, TypedNext
  <2>10. Grows
    BY <2>1, <2>4, Typed, Generations DEF Grows
  <2>11. CacheInv' /\ \A d \in Client \ {c} : Undisturbed(d)
    BY <2>1, <2>4, <2>7, <2>8 DEF IInv, CacheInv, Undisturbed
  <2>12. Expects(c)' /\ ~Writes(c)'
    BY <2>1, <2>7, <2>8 DEF Expects, Writes
  <2> QED
    BY <2>5, <2>8, <2>9, <2>10, <2>11, <2>12, StepOK
<1> QED
  BY <1>1, <1>2

\* What no request does.
LEMMA OutsideSteps ==
  ASSUME IInv, CommitElsewhere \/ Expire
  PROVE  IInv'
<1>1. UNCHANGED <<notice, mutex, client, told, doubt>>
  BY DEF CommitElsewhere, Expire
<1>2. /\ db.versions \in Generation /\ db.songs \in Generation /\ told.versions \in Generation
      /\ told.songs \in Generation /\ cache.versions \in Generation
  BY Typed
<1>3. /\ db' \in [versions : Generation, songs : Generation, notice : Notice]
      /\ db'.versions = db.versions /\ db.songs <= db'.songs /\ db'.notice = db.notice
      /\ db'.songs \in Generation
  BY <1>2, Typed, Generations DEF CommitElsewhere, Expire
<1>4. /\ cache' \in [versions : Generation, stale : BOOLEAN,
                     denominators : Generation \cup {NoSnapshot}]
      /\ cache'.versions = cache.versions /\ cache'.stale = cache.stale
      /\ cache'.denominators \in {cache.denominators, NoSnapshot}
  BY Typed DEF CommitElsewhere, Expire
<1>5. TypeInv'
  BY <1>1, <1>3, <1>4, Typed, TypedNext
<1>6. CacheInv' /\ NoticeInv'
  <2>1. told.songs <= db'.songs
    <3>1. told.songs <= db.songs
      BY DEF IInv, CacheInv
    <3>2. told.songs \in Int /\ db.songs \in Int /\ db'.songs \in Int
      BY <1>2, <1>3, Generations
    <3> QED
      BY <1>3, <3>1, <3>2
  <2>2. CacheInv'
    BY <1>1, <1>3, <1>4, <2>1 DEF IInv, CacheInv
  <2> QED
    BY <1>1, <1>3, <2>2 DEF IInv, NoticeInv
<1>7. MutexInv'
  BY <1>1 DEF IInv, MutexInv, Writes
<1>8. ASSUME NEW d \in Client PROVE Expects(d)'
  BY <1>1, <1>2, <1>3, <1>4, <1>5, Generations, OtherKept DEF Writes
<1> QED
  BY <1>5, <1>6, <1>7, <1>8 DEF IInv, ExpectInv

\* A restart loads what is stored; and so does the first start.
LEMMA FreshStart ==
  ASSUME db' \in [versions : Generation, songs : Generation, notice : Notice],
         told' \in [versions : Generation, songs : Generation],
         told'.versions <= db'.versions, told'.songs <= db'.songs,
         cache' = [versions |-> db'.versions, stale |-> FALSE, denominators |-> NoSnapshot],
         notice' = db'.notice, doubt' = FALSE,
         mutex' = [m \in Mutex |-> Nobody], client' = [c \in Client |-> Resting]
  PROVE  IInv'
<1>1. /\ db'.versions \in Generation /\ db'.notice \in Notice
      /\ db'.versions <= db'.versions /\ 0 \in Generation
  BY Generations
<1>2. TypeInv'
  <2>1. cache' \in [versions : Generation, stale : BOOLEAN,
                    denominators : Generation \cup {NoSnapshot}]
    BY <1>1
  <2>2. mutex' \in [Mutex -> Client \cup {Nobody}]
    OBVIOUS
  <2>3. Resting \in [pc : Stage, gen : Generation, loaded : Generation]
    BY <1>1 DEF Resting, Work, Stage
  <2> QED
    BY <1>1, <2>1, <2>2, <2>3, TypedNext
<1>3. \A c \in Client : client'[c].pc = "idle" /\ ~Writes(c)'
  BY CachesAssumption DEF Resting, Work, Writes, Mutex
<1>4. MutexInv' /\ ExpectInv'
  BY <1>3 DEF MutexInv, ExpectInv, Expects, Writes
<1>5. CacheInv' /\ NoticeInv'
  BY <1>1 DEF CacheInv, NoticeInv
<1> QED
  BY <1>2, <1>4, <1>5 DEF IInv

LEMMA RestartStep ==
  ASSUME IInv, Restart
  PROVE  IInv'
<1>1. told.versions <= db.versions /\ told.songs <= db.songs
  BY DEF IInv, CacheInv
<1> QED
  BY <1>1, Typed, FreshStart DEF Restart

LEMMA IInvInit == CachesInit => IInv
<1> SUFFICES ASSUME CachesInit PROVE IInv
  OBVIOUS
<1>1. 0 \in Generation /\ 0 <= 0 /\ Off \in Notice
  BY CachesAssumption, Generations
<1>2. /\ db = [versions |-> 0, songs |-> 0, notice |-> Off]
      /\ cache = [versions |-> 0, stale |-> FALSE, denominators |-> NoSnapshot]
      /\ notice = Off /\ mutex = [m \in Mutex |-> Nobody]
      /\ client = [c \in Client |-> Resting] /\ told = [versions |-> 0, songs |-> 0]
      /\ doubt = FALSE
  BY DEF CachesInit
<1>3. Resting \in [pc : Stage, gen : Generation, loaded : Generation]
  BY <1>1 DEF Resting, Work, Stage
<1>4. TypeInv
  BY <1>1, <1>2, <1>3 DEF TypeInv, CachesTypeOK
<1>5. \A c \in Client : client[c].pc = "idle" /\ ~Writes(c)
  BY <1>2, CachesAssumption DEF Resting, Work, Writes, Mutex
<1>6. MutexInv /\ ExpectInv
  BY <1>5 DEF MutexInv, ExpectInv, Expects
<1>7. CacheInv /\ NoticeInv
  BY <1>1, <1>2 DEF CacheInv, NoticeInv
<1> QED
  BY <1>4, <1>6, <1>7 DEF IInv

LEMMA IInvStep == IInv /\ [CachesNext]_cachesVars => IInv'
<1> SUFFICES ASSUME IInv, [CachesNext]_cachesVars PROVE IInv'
  OBVIOUS
<1>1. CASE UNCHANGED cachesVars
  <2>1. TypeInv'
    BY <1>1, Typed, TypedNext DEF cachesVars
  <2>2. MutexInv' /\ CacheInv' /\ NoticeInv'
    BY <1>1 DEF cachesVars, IInv, MutexInv, CacheInv, NoticeInv, Writes
  <2>3. ExpectInv'
    BY <1>1 DEF cachesVars, IInv, ExpectInv, Expects, Writes
  <2> QED
    BY <2>1, <2>2, <2>3 DEF IInv
<1>2. ASSUME NEW c \in Client,
        \/ BeginVersionWrite(c) \/ CommitVersion(c) \/ FailVersion(c)
        \/ BeginVersionRead(c) \/ LockReload(c) \/ QueryVersions(c) \/ FailReload(c)
        \/ PublishVersions(c) \/ ReadVersions(c) \/ Answer(c)
        \/ CommitSongs(c) \/ Invalidate(c)
        \/ BeginSnapshot(c) \/ LockSnapshot(c) \/ BuildSnapshot(c) \/ StoreSnapshot(c)
        \/ BeginMaintenance(c) \/ SaveMaintenance(c)
      PROVE IInv'
  BY <1>2, ReadSteps, WriteSteps, LockReloadStep, ReloadedStep, SongSteps, SnapshotSteps,
     MaintenanceSteps
<1>3. CASE CommitElsewhere \/ Expire \/ Restart
  BY <1>3, OutsideSteps, RestartStep
<1> QED
  BY <1>1, <1>2, <1>3 DEF CachesNext

LEMMA IInvAlways == CachesSpec => []IInv
BY IInvInit, IInvStep, PTL DEF CachesSpec
-----------------------------------------------------------------------------
\* The caches, the mutexes and the requests have their types.
\* (masterdata/cache.go:100, overpower_denominator_provider_impl.go:40)
THEOREM SpecCachesTypeOK == CachesSpec => []CachesTypeOK
<1>1. IInv => CachesTypeOK
  BY DEF IInv, TypeInv
<1> QED
  BY <1>1, IInvAlways, PTL

\* Nobody is served what is older than what was told before he asked: a reload is queried
\* and published under one mutex, a failed one leaves the cache stale, and denominators
\* are dropped when nobody builds them.
\* (masterdata/cache.go:262, overpower_denominator_provider_impl.go:80)
THEOREM SpecServedFresh == CachesSpec => []ServedFresh
<1>1. IInv => ServedFresh
  <2> SUFFICES ASSUME IInv, NEW c \in Client, Stands(c, "served")
               PROVE  client[c].loaded >= client[c].gen
    BY DEF ServedFresh
  <2>1. client[c].pc = "served"
    BY DEF Stands
  <2>2. client[c].gen <= client[c].loaded
    BY <2>1, Known DEF Expects
  <2> QED
    BY <2>1, <2>2, Known
<1> QED
  BY <1>1, IInvAlways, PTL

\* The published state of maintenance is the stored one, unless the last Save that was
\* made was answered with an error.  (system_maintenance_usecase.go:125)
THEOREM SpecPublishedIsStored == CachesSpec => []PublishedIsStored
<1>1. IInv => PublishedIsStored
  BY DEF IInv, NoticeInv, PublishedIsStored
<1> QED
  BY <1>1, IInvAlways, PTL

\* All that is kept in memory, as the run checks it.
\* (masterdata/cache.go, overpower_denominator_provider_impl.go, system_maintenance_usecase.go)
THEOREM SpecCachesSound == CachesSpec => []CachesSound
<1>1. CachesTypeOK /\ ServedFresh /\ PublishedIsStored => CachesSound
  BY DEF CachesSound
<1> QED
  BY <1>1, SpecCachesTypeOK, SpecServedFresh, SpecPublishedIsStored, PTL
==============================================================================
