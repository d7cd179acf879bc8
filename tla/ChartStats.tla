------------------------------ MODULE ChartStats ------------------------------
(***************************************************************************)
(* The batch of chart statistics: under an advisory lock it reads what all *)
(* players have, in one snapshot, computes three tables and replaces them  *)
(* in one transaction, while players go on and others read the tables.     *)
(* How its job is recorded is in BatchJobs.                                *)
(*                                                                         *)
(* What players have is a generation: the number of changes to it.  A      *)
(* table is the set of the generations it was computed from.  How it is    *)
(* computed, in one pass over records that come chart by chart, is at the  *)
(* beginning of the module.                                                *)
(***************************************************************************)
EXTENDS Integers, Sequences, FiniteSets
LOCAL INSTANCE SequencesExt

CONSTANTS
  Runner,      \* processes that may run the batch
  Exporter,    \* requests for all statistics
  NoRunner,
  NoBound,     \* a band of ratings without a lower or without an upper bound
  MaxChanges   \* bound on what players do

ASSUME StatsAssumption == NoRunner \notin Runner /\ MaxChanges \in Nat

VARIABLES
  source,    \* generation of what players have
  stats,     \* the three tables
  statsLock, \* session that holds the advisory lock
  run,       \* what each process is doing
  export,    \* what each request is doing
  newest,    \* history: the newest generation ever published
  lost       \* history: the lock has been lost with its session

statsVars == <<source, stats, statsLock, run, export, newest, lost>>
-----------------------------------------------------------------------------
\* Records of one chart by one player: [chart, rating, score, failed, lamp].

\* RatingBand.Contains
InBand(band, rating) ==
  /\ band.min # NoBound => rating >= band.min
  /\ band.max # NoBound => rating < band.max

\* addClearedScore: the ranks, each from its first score on.
RankFrom == <<975000, 990000, 1000000, 1005000, 1007500, 1009000, 1010000>>
Rank(score) == Cardinality({k \in 1 .. Len(RankFrom) : score >= RankFrom[k]})

\* addComboLamp: "AJ" with the highest score is a class of its own.
Combo(record) == IF record.lamp = "AJ" /\ record.score = 1010000 THEN "AJC" ELSE record.lamp

\* The median of a non-empty sequence, doubled.
Median2(scores) ==
  LET s == SortSeq(scores, <)
      k == Len(s) \div 2
  IN IF Len(s) % 2 = 1 THEN 2 * s[k + 1] ELSE s[k] + s[k + 1]

\* chartStatsAccumulator.result, of the records that it has got.
Accumulated(records) ==
  LET cleared == SelectSeq(records, LAMBDA r : ~r.failed)
      Count(P(_)) == Len(SelectSeq(records, P))
      CountCleared(P(_)) == Len(SelectSeq(cleared, P))
  IN [players |-> Len(records),
      failed  |-> Count(LAMBDA r : r.failed),
      combo   |-> [x \in {"none", "FC", "AJ", "AJC"} |-> Count(LAMBDA r : Combo(r) = x)],
      rank    |-> [k \in 0 .. Len(RankFrom) |-> CountCleared(LAMBDA r : Rank(r.score) = k)],
      total   |-> FoldLeft(LAMBDA sum, r : sum + r.score, 0, cleared),
      median2 |-> IF cleared = <<>> THEN NoBound
                  ELSE Median2([k \in DOMAIN cleared |-> cleared[k].score])]

\* ChartStatsCalculator: what it has of the current chart, by band, and its results.
Calculator(bands) == [chart |-> NoBound, current |-> [b \in bands |-> <<>>], results |-> {}]

\* flush
Flushed(calc) ==
  [calc EXCEPT
    !.results = @ \cup {<<calc.chart, b, Accumulated(calc.current[b])>> :
                          b \in {x \in DOMAIN calc.current : calc.current[x] # <<>>}},
    !.current = [b \in DOMAIN @ |-> <<>>]]

\* Add
Counted(calc, record) ==
  LET ready == IF record.chart = calc.chart THEN calc ELSE Flushed(calc)
  IN [ready EXCEPT !.chart = record.chart,
                   !.current = [b \in DOMAIN @ |->
                                  IF InBand(b, record.rating) THEN Append(@[b], record) ELSE @[b]]]

ChartStatsResults(bands, records) ==
  Flushed(FoldLeft(Counted, Calculator(bands), records)).results

\* BestSlotStatsCalculator: how many players of a band have the chart among their
\* best, of how many.  A band without players has no percentage.
BestSlotResults(bands, players, slots, charts) ==
  {LET of == Len(SelectSeq(players, LAMBDA p : InBand(b, p)))
       best == Len(SelectSeq(slots, LAMBDA s : s.chart = c /\ InBand(b, s.rating)))
   IN [chart |-> c, band |-> b, best |-> best, of |-> of] : c \in charts, b \in bands}
-----------------------------------------------------------------------------
Waiting == [pc |-> "waiting"]
Table == {"charts", "worldsend", "best"}
Query == 1 .. 5

StatsTypeOK ==
  /\ source \in 0 .. MaxChanges /\ newest \in 0 .. MaxChanges /\ lost \in BOOLEAN
  /\ stats \in [Table -> SUBSET (0 .. MaxChanges)]
  /\ statsLock \in Runner \cup {NoRunner}
  /\ \A r \in Runner : run[r].pc \in {"waiting", "reading", "finished"}
  /\ \A e \in Exporter : export[e].pc \in {"waiting", "exporting", "exported"}

StatsInit ==
  /\ source = 0 /\ newest = 0 /\ lost = FALSE
  /\ stats = [t \in Table |-> {0}]
  /\ statsLock = NoRunner
  /\ run = [r \in Runner |-> Waiting]
  /\ export = [e \in Exporter |-> Waiting]

\* A registration, a deleted song, a user marked as suspicious...
ChangeSource ==
  /\ source < MaxChanges /\ source' = source + 1
  /\ UNCHANGED <<stats, statsLock, run, export, newest, lost>>

\* begin: the lock, or nothing.
BeginStats(r) ==
  /\ run[r].pc = "waiting" /\ statsLock = NoRunner
  /\ statsLock' = r
  /\ run' = [run EXCEPT ![r] = [pc |-> "reading", got |-> <<>>]]
  /\ UNCHANGED <<source, stats, export, newest, lost>>

\* Mutant: each query reads what is committed when it runs.
ReadSource_Committed(r) ==
  /\ run[r].pc = "reading" /\ Len(run[r].got) < Cardinality(Query)
  /\ run' = [run EXCEPT ![r].got = Append(@, source)]
  /\ UNCHANGED <<source, stats, statsLock, export, newest, lost>>

\* StreamSource: the first query makes the snapshot of all five.
ReadSource(r) ==
  /\ run[r].pc = "reading" /\ Len(run[r].got) < Cardinality(Query)
  /\ run' = [run EXCEPT ![r].got = Append(@, IF @ = <<>> THEN source ELSE @[1])]
  /\ UNCHANGED <<source, stats, statsLock, export, newest, lost>>

\* The batch ends with an error, or is cancelled.
FailStats(r) ==
  /\ run[r].pc = "reading"
  /\ run' = [run EXCEPT ![r] = [pc |-> "finished"]]
  /\ UNCHANGED <<source, stats, statsLock, export, newest, lost>>

\* ReplaceAll: three deletions and three insertions, committed together.
ReplaceStats(r) ==
  /\ run[r].pc = "reading" /\ Len(run[r].got) = Cardinality(Query)
  /\ LET got == run[r].got
     IN /\ stats' = [charts |-> {got[1]}, worldsend |-> {got[2]}, best |-> {got[3], got[4], got[5]}]
        /\ newest' = IF got[1] > newest THEN got[1] ELSE newest
  /\ run' = [run EXCEPT ![r] = [pc |-> "finished"]]
  /\ UNCHANGED <<source, statsLock, export, lost>>

\* releaseLock; or the process dies, and its session with it.
EndStats(r) ==
  /\ run[r].pc # "waiting"
  /\ run' = [run EXCEPT ![r] = Waiting]
  /\ statsLock' = IF statsLock = r THEN NoRunner ELSE statsLock
  /\ UNCHANGED <<source, stats, export, newest, lost>>

\* The session that holds the lock ends; its process goes on.
LoseStatsLock ==
  /\ statsLock # NoRunner /\ statsLock' = NoRunner /\ lost' = TRUE
  /\ UNCHANGED <<source, stats, run, export, newest>>

\* ChartStatsExportQueryService.Get: two queries in one snapshot.
ExportCharts(e) ==
  /\ export[e].pc = "waiting"
  /\ export' = [export EXCEPT ![e] = [pc |-> "exporting", snapshot |-> stats]]
  /\ UNCHANGED <<source, stats, statsLock, run, newest, lost>>

ExportWorldsend(e) ==
  /\ export[e].pc = "exporting"
  /\ export' = [export EXCEPT ![e] =
       [pc |-> "exported", charts |-> @.snapshot["charts"], worldsend |-> @.snapshot["worldsend"]]]
  /\ UNCHANGED <<source, stats, statsLock, run, newest, lost>>

EndExport(e) ==
  /\ export[e].pc = "exported" /\ export' = [export EXCEPT ![e] = Waiting]
  /\ UNCHANGED <<source, stats, statsLock, run, newest, lost>>

StatsNext ==
  \/ ChangeSource \/ LoseStatsLock
  \/ \E r \in Runner : \/ BeginStats(r) \/ ReadSource(r) \/ FailStats(r)
                       \/ ReplaceStats(r) \/ EndStats(r)
  \/ \E e \in Exporter : ExportCharts(e) \/ ExportWorldsend(e) \/ EndExport(e)

StatsSpec == StatsInit /\ [][StatsNext]_statsVars
-----------------------------------------------------------------------------
\* The statistics are of one moment, in the tables and in an export, whatever
\* players do meanwhile; and they never go back to an older one, unless two batches
\* have run at a time because the lock was lost.
\* (chart_stats_batch_repository_impl.go:107, chart_stats_batch_usecase.go:34)
StatsOfOneMoment ==
  /\ Cardinality(UNION {stats[t] : t \in Table}) = 1
  /\ \A e \in Exporter : export[e].pc = "exported" => export[e].charts = export[e].worldsend
  /\ lost \/ newest \in stats["charts"]

\* The same, with the types of what the batches, the tables and the exports have.
StatsHold == StatsTypeOK /\ StatsOfOneMoment
=============================================================================
