---------------------------- MODULE StaticExport -----------------------------
(***************************************************************************)
(* The export of static files.  A run takes the lock of its mode, reads    *)
(* the tables one after the other, builds every file, overwrites the       *)
(* objects in a fixed order, and asks the CDN to drop its copies when all  *)
(* are written.  Any step may fail and end the run; a call may fail        *)
(* although it took effect; a process may be killed.  Nothing is undone:   *)
(* the next run is the repair.                                             *)
(*                                                                         *)
(* The bucket and the CDN are external: an object is replaced at once, and *)
(* a copy is kept from its first request until it is dropped.  The         *)
(* connection that holds the lock lasts as long as its process.            *)
(***************************************************************************)
EXTENDS Integers, Sequences, FiniteSets

CONSTANTS
  Run,            \* processes of export-static-data
  NoRun,
  StatsLevel,     \* difficulties that have files of statistics
  MaxAttempts,    \* info.CloudflareCachePurgeMaxAttempts
  MaxTableEdits, MaxFetches   \* bound the behaviours explored

ASSUME StaticExportAssumption ==
  /\ MaxAttempts \in Nat \ {0} /\ NoRun \notin Run /\ IsFiniteSet(StatsLevel)
  /\ MaxTableEdits \in Nat /\ MaxFetches \in Nat

VARIABLES
  mode,     \* exportModeStaticData or exportModeChartStats, of all runs here
  table,    \* the last change of each table, and whether it has rows
  locked,   \* the run that holds the advisory lock of the mode
  progress,      \* what each run has come to
  object,   \* the bucket: the content of each key
  copy,     \* the copies of the CDN
  known,    \* content of the last run that succeeded
  fetches

staticExportVars == <<mode, table, locked, progress, object, copy, known, fetches>>

ExportMode == {"static_data", "chart_stats"}
ExportTable == {"songs", "worldsend", "versions"}
NoContent == [r |-> NoRun]

\* The objects, in the order in which they are written.
StaticKeys == <<"songs", "worldsend", "chunirec", "reiwa", "versions", "chunirec_all">>

\* Two files for each difficulty, then two for WORLD'S END.
StatsKeys == [i \in 1 .. 2 * Cardinality(StatsLevel) + 2 |-> i]

Keys(md) == IF md = "static_data" THEN StaticKeys ELSE StatsKeys
Key(md) == {Keys(md)[i] : i \in DOMAIN Keys(md)}

\* The tables are read one by one; the statistics are one snapshot.
ReadOrder(md) ==
  IF md = "static_data" THEN <<{"versions"}, {"songs"}, {"worldsend"}>>
  ELSE <<{"songs", "worldsend"}>>

\* "refusing to export an empty snapshot"; songs have rows when they have charts.
Refused(md, read) ==
  \E t \in UNION {ReadOrder(md)[i] : i \in DOMAIN ReadOrder(md)} : ~read[t].filled

LastEdit == [edit : Nat, filled : BOOLEAN]
Content == [r : Run, read : [ExportTable -> LastEdit]]

StaticExportTypeOK ==
  /\ mode \in ExportMode
  /\ table \in [ExportTable -> LastEdit]
  /\ locked \in Run \cup {NoRun}
  /\ \A r \in Run :
       /\ progress[r].at \in {"new", "reading", "putting", "purging", "done", "failed"}
       /\ progress[r].step \in Nat /\ progress[r].read \in [ExportTable -> LastEdit]
  /\ object \in [Key(mode) -> Content \cup {NoContent}]
  /\ copy \in [Key(mode) -> Content \cup {NoContent}]

NewRun(read) == [at |-> "new", step |-> 1, read |-> read]

StaticExportInit ==
  /\ mode \in ExportMode
  /\ table = [t \in ExportTable |-> [edit |-> 0, filled |-> TRUE]]
  /\ locked = NoRun
  /\ progress = [r \in Run |-> NewRun(table)]
  /\ object = [k \in Key(mode) |-> NoContent]
  /\ copy = [k \in Key(mode) |-> NoContent]
  /\ known = NoContent
  /\ fetches = 0

-----------------------------------------------------------------------------
Has(r, pc) == progress[r].at = pc
MasterUnchanged == UNCHANGED <<mode, table>>

\* Mutant: the answer of GET_LOCK is not looked at.
Starts_NoLock(r) ==
  /\ Has(r, "new")
  /\ locked' = r /\ progress' = [progress EXCEPT ![r].at = "reading"]
  /\ UNCHANGED <<object, copy, known, fetches>> /\ MasterUnchanged

\* GET_LOCK with no timeout: a run that does not get the lock ends.
Starts(r) ==
  /\ Has(r, "new")
  /\ IF locked = NoRun
     THEN locked' = r /\ progress' = [progress EXCEPT ![r].at = "reading"]
     ELSE UNCHANGED locked /\ progress' = [progress EXCEPT ![r].at = "failed"]
  /\ UNCHANGED <<object, copy, known, fetches>> /\ MasterUnchanged

\* An error, a signal or a kill: the lock goes with the process or by its defer.
Fails(r) ==
  /\ locked = r
  /\ progress' = [progress EXCEPT ![r].at = "failed"] /\ locked' = NoRun
  /\ UNCHANGED <<object, copy, known, fetches>> /\ MasterUnchanged

\* One of the reads; what is read before the last of them may be older than the rest.
\* All files are built, and the empty ones refused, before the first is written.
Reads(r) ==
  LET order == ReadOrder(mode)
      step == progress[r].step
      read == [t \in ExportTable |-> IF t \in order[step] THEN table[t] ELSE progress[r].read[t]]
  IN /\ Has(r, "reading")
     /\ IF step < Len(order)
        THEN /\ progress' = [progress EXCEPT ![r].step = step + 1, ![r].read = read]
             /\ UNCHANGED locked
        ELSE IF Refused(mode, read)
        THEN /\ progress' = [progress EXCEPT ![r].at = "failed"] /\ locked' = NoRun
        ELSE /\ progress' = [progress EXCEPT ![r].at = "putting", ![r].step = 1, ![r].read = read]
             /\ UNCHANGED locked
     /\ UNCHANGED <<object, copy, known, fetches>> /\ MasterUnchanged

Body(r) == [r |-> r, read |-> progress[r].read]

\* PutJSON: the answer may be lost, and then the run fails although the object is there.
Puts(r) ==
  LET keys == Keys(mode)
      step == progress[r].step
  IN /\ Has(r, "putting")
     /\ object' = [object EXCEPT ![keys[step]] = Body(r)]
     /\ \/ /\ progress' = [progress EXCEPT
                 ![r].at = IF step = Len(keys) THEN "purging" ELSE "putting",
                 ![r].step = IF step = Len(keys) THEN 1 ELSE step + 1]
           /\ UNCHANGED locked
        \/ progress' = [progress EXCEPT ![r].at = "failed"] /\ locked' = NoRun
     /\ UNCHANGED <<copy, known, fetches>> /\ MasterUnchanged

\* One attempt of Purge: it may take effect or not, and be answered with success, with an
\* error that is worth a retry (no answer, 429, 5xx), or with one that is not.
Purges(r) ==
  /\ Has(r, "purging")
  /\ \/ /\ copy' = [k \in Key(mode) |-> NoContent]
        /\ progress' = [progress EXCEPT ![r].at = "done"] /\ locked' = NoRun
        /\ known' = Body(r)
     \/ /\ \/ copy' = [k \in Key(mode) |-> NoContent]
           \/ UNCHANGED copy
        /\ progress[r].step < MaxAttempts
        /\ progress' = [progress EXCEPT ![r].step = @ + 1]
        /\ UNCHANGED <<locked, known>>
     \/ /\ copy' = [k \in Key(mode) |-> NoContent]
        /\ progress' = [progress EXCEPT ![r].at = "failed"] /\ locked' = NoRun
        /\ UNCHANGED known
  /\ UNCHANGED <<object, fetches>> /\ MasterUnchanged

\* A table is changed, or loses its rows.
Edits(t) ==
  LET last == CHOOSE n \in {table[s].edit : s \in ExportTable} :
                \A s \in ExportTable : table[s].edit <= n
  IN /\ last < MaxTableEdits
     /\ \E filled \in BOOLEAN :
          table' = [table EXCEPT ![t] = [edit |-> last + 1, filled |-> filled]]
     /\ UNCHANGED <<mode, locked, progress, object, copy, known, fetches>>

\* A request for a key of which the CDN has no copy.
Fetches(k) ==
  /\ fetches < MaxFetches /\ fetches' = fetches + 1
  /\ object[k] # NoContent /\ copy[k] = NoContent
  /\ copy' = [copy EXCEPT ![k] = object[k]]
  /\ UNCHANGED <<mode, table, locked, progress, object, known>>

StaticExportNext ==
  \/ \E r \in Run : Starts(r) \/ Fails(r) \/ Reads(r) \/ Puts(r) \/ Purges(r)
  \/ \E t \in ExportTable : Edits(t)
  \/ \E k \in Key(mode) : Fetches(k)

StaticExportSpec == StaticExportInit /\ [][StaticExportNext]_staticExportVars

-----------------------------------------------------------------------------
\* What a client gets for a key.
Visible(k) == IF copy[k] # NoContent THEN copy[k] ELSE object[k]

NotOlder(a, b) == \A t \in ExportTable : a.read[t].edit >= b.read[t].edit

\* Once a run has succeeded, no client gets anything older than what it wrote, whatever
\* later runs do or leave half done.
NothingStaleAfterSuccess ==
  known # NoContent =>
    \A k \in Key(mode) : Visible(k) # NoContent /\ NotOlder(Visible(k), known)

\* An object is never newer than one that is written before it: a run that breaks off
\* leaves the new content at the head of the order and the old content behind it.
WrittenInOrder ==
  \A i, j \in DOMAIN Keys(mode) :
    LET a == object[Keys(mode)[i]]
        b == object[Keys(mode)[j]]
    IN i < j /\ b # NoContent => a # NoContent /\ NotOlder(a, b)

\* No file is made of an empty table, whenever the table was emptied.
NeverEmpty ==
  \A k \in Key(mode) :
    object[k] # NoContent =>
      \A t \in (IF mode = "static_data" THEN ExportTable ELSE {"songs", "worldsend"}) :
        object[k].read[t].filled

\* A run that has succeeded, with no run since, leaves all files of one run.
ExportSound ==
  /\ NothingStaleAfterSuccess /\ WrittenInOrder /\ NeverEmpty
  /\ \A r \in Run :
       Has(r, "done") /\ known.r = r /\ (\A q \in Run \ {r} : Has(q, "new")) =>
         \A k \in Key(mode) : Visible(k) = known

\* The same, with the types of what the runs, the bucket and the CDN have.
ExportHolds == StaticExportTypeOK /\ ExportSound
=============================================================================
