------------------------------ MODULE SongProofs ------------------------------
(* Proofs about the song batch and the tables it writes together with the       *)
(* administrators: a batch goes on without a source but not with half of one;   *)
(* the tables are as its last run and the edits since left them, whatever the   *)
(* sources hold.                                                                *)
EXTENDS SongBatch, FiniteSetTheorems, NaturalsInduction, WellFoundedInduction, TLAPS

-----------------------------------------------------------------------------
(* The downloads of a song batch *)

Asking == {"asking names", "asking"}
Over == {"none", "fetched", "lost"}
DownloadState ==
  [pc : {"none", "ready", "waiting", "asking names", "asking", "resting", "fetched", "lost"},
   attempt : 1 .. Attempts]
FileState == (SUBSET TheRow) \cup {Gone, Torn, Garbled}

\* Whoever asks for a sheet is in the gate, and only he; rests are followed by attempts.
GateInv ==
  /\ gate \in Sheets \cup {NoOne}
  /\ gate # NoOne => execution.stage = "downloading" /\ download[gate].pc \in Asking
  /\ \A s \in Sheets : download[s].pc \in Asking => gate = s
  /\ execution.stage # "downloading" => \A s \in Source : download[s].pc \in Over

\* What is fetched of the additional sheet has no faulty row.
FilesInv ==
  /\ download \in [Source -> DownloadState]
  /\ \A s \in Source : download[s].pc = "resting" => download[s].attempt < Attempts
  /\ file \in [Source -> FileState]
  /\ execution.stage \in {"downloading", "importing"} /\ download["additional"].pc = "fetched"
       => file["additional"] \subseteq {"good"}

Present == {s \in Source : download[s].pc # "none"}
Fetched == {s \in Source : download[s].pc = "fetched"}

\* Every source that an execution does without has been counted.
CountInv ==
  /\ execution \in [stage : {"idle", "downloading", "importing", "consolidating", "done", "failed"},
                    mode : {"normal", "major"}, warnings : 0 .. Cardinality(Source),
                    taken : {execution.taken}]
  /\ DOMAIN execution.taken \subseteq Source
  /\ Present \subseteq TargetSources(execution.mode)
  /\ execution.stage = "downloading" =>
       /\ Needed(execution.mode) \subseteq Present
       /\ execution.warnings = Cardinality(TargetSources(execution.mode) \ Present)
  /\ execution.stage = "importing" =>
       /\ Needed(execution.mode) \subseteq Fetched
       /\ execution.warnings = Cardinality(TargetSources(execution.mode) \ Fetched)

DownloadsInv == GateInv /\ FilesInv /\ CountInv /\ TakenIsWhole /\ cancelled \in BOOLEAN

\* The modes need some of the sources that there are.
LEMMA SourcesKnown ==
  /\ IsFiniteSet(Source) /\ Cardinality(Source) \in Nat
  /\ "official" \in Source /\ "additional" \in Source /\ "mainframe" \in Source
  /\ Sheets \subseteq Source /\ NoOne \notin Source
  /\ \A way \in {"normal", "major"} :
       /\ TargetSources(way) \subseteq Source
       /\ Needed(way) \subseteq TargetSources(way)
  /\ Attempts \in Nat /\ 1 \in 1 .. Attempts
<1>1. IsFiniteSet({"official", "additional", "st1027", "mainframe", "otoge"})
  <2>1. IsFiniteSet({"official"} \cup {"additional"} \cup {"st1027"} \cup {"mainframe"}
                      \cup {"otoge"})
    BY FS_Singleton, FS_Union
  <2>2. {"official"} \cup {"additional"} \cup {"st1027"} \cup {"mainframe"} \cup {"otoge"}
          = {"official", "additional", "st1027", "mainframe", "otoge"}
    OBVIOUS
  <2> QED
    BY <2>1, <2>2
<1>2. IsFiniteSet(Source)
  BY <1>1, FS_Subset, DownloadsAssumption
<1>3. Cardinality(Source) \in Nat
  BY <1>2, FS_CardinalityType
<1>4. /\ "official" \in Source /\ "additional" \in Source /\ "mainframe" \in Source
      /\ Attempts \in Nat /\ 1 \in 1 .. Attempts
  BY DownloadsAssumption
<1>5. Sheets \subseteq Source /\ NoOne \notin Source
  BY <1>4, DownloadsAssumption DEF Sheets, NoOne
<1>6. \A way \in {"normal", "major"} :
       /\ TargetSources(way) \subseteq Source
       /\ Needed(way) \subseteq TargetSources(way)
  BY <1>4 DEF TargetSources, Needed
<1> QED
  BY <1>2, <1>3, <1>4, <1>5, <1>6

\* How many are missing when more are.
LEMMA MissingCount ==
  ASSUME NEW T \in SUBSET Source, NEW A \in SUBSET T, NEW B \in SUBSET A
  PROVE  /\ Cardinality(T \ B) = Cardinality(T \ A) + Cardinality(A \ B)
         /\ Cardinality(T \ B) \in 0 .. Cardinality(Source)
<1>1. IsFiniteSet(T \ A) /\ IsFiniteSet(A \ B) /\ IsFiniteSet(T \ B)
  BY SourcesKnown, FS_Subset
<1>2. (T \ A) \cap (A \ B) = {} /\ (T \ A) \cup (A \ B) = T \ B
  OBVIOUS
<1>3. Cardinality((T \ A) \cup (A \ B))
        = Cardinality(T \ A) + Cardinality(A \ B) - Cardinality((T \ A) \cap (A \ B))
  BY <1>1, FS_Union
<1>4. Cardinality({}) = 0
  BY FS_EmptySet
<1>5. /\ Cardinality(T \ A) \in Nat /\ Cardinality(A \ B) \in Nat /\ Cardinality(T \ B) \in Nat
  BY <1>1, FS_CardinalityType
<1>6. Cardinality(T \ B) <= Cardinality(Source)
  <2>1. T \ B \subseteq Source
    OBVIOUS
  <2> QED
    BY <2>1, SourcesKnown, FS_Subset
<1>7. Cardinality(T \ B) = Cardinality(T \ A) + Cardinality(A \ B)
  <2>1. Cardinality((T \ A) \cap (A \ B)) = 0
    BY <1>2, <1>4
  <2>2. Cardinality((T \ A) \cup (A \ B)) = Cardinality(T \ B)
    BY <1>2
  <2> QED
    BY <1>3, <1>5, <2>1, <2>2
<1> QED
  BY <1>5, <1>6, <1>7, SourcesKnown

\* The invariant of the downloads holds when a process starts.
LEMMA DownloadsInitInv == DownloadsInit => DownloadsInv
<1> SUFFICES ASSUME DownloadsInit PROVE DownloadsInv
  OBVIOUS
<1> USE SourcesKnown
<1>1. /\ execution = [stage |-> "idle", mode |-> "normal", warnings |-> 0, taken |-> <<>>]
      /\ download = [s \in Source |-> [pc |-> "none", attempt |-> 1]]
      /\ file = [s \in Source |-> Gone] /\ gate = NoOne /\ cancelled = FALSE
  BY DEF DownloadsInit
<1>2. \A s \in Source : download[s].pc = "none"
  BY <1>1
<1>3. GateInv
  BY <1>1, <1>2 DEF GateInv, Asking, Over
<1>4. FilesInv
  <2>1. [pc |-> "none", attempt |-> 1] \in DownloadState /\ Gone \in FileState
    BY DEF DownloadState, FileState
  <2> QED
    BY <1>1, <1>2, <2>1 DEF FilesInv
<1>5. CountInv
  <2>1. Present = {}
    BY <1>2 DEF Present
  <2>2. DOMAIN execution.taken = {}
    BY <1>1
  <2>3. 0 \in 0 .. Cardinality(Source)
    OBVIOUS
  <2> QED
    BY <1>1, <2>1, <2>2, <2>3 DEF CountInv
<1> QED
  BY <1>1, <1>3, <1>4, <1>5 DEF DownloadsInv, TakenIsWhole

\* A new run has nothing of the run before but the gate, and that is free.
LEMMA BeginStep == ASSUME DownloadsInv, BeginDownloads PROVE DownloadsInv'
<1> USE SourcesKnown
<1>0. PICK way \in {"normal", "major"} : \E resolved \in SUBSET TargetSources(way) :
       IF Needed(way) \subseteq resolved
       THEN /\ execution' = [stage |-> "downloading", mode |-> way, taken |-> <<>>,
                       warnings |-> Cardinality(TargetSources(way) \ resolved)]
            /\ download' = [s \in Source |-> [pc |-> IF s \in resolved THEN "ready" ELSE "none",
                                              attempt |-> 1]]
       ELSE /\ execution' = [execution EXCEPT !.stage = "failed", !.mode = way, !.taken = <<>>,
                                  !.warnings = 0]
            /\ download' = [s \in Source |-> [pc |-> "none", attempt |-> 1]]
  BY DEF BeginDownloads
<1>1. PICK resolved \in SUBSET TargetSources(way) :
       IF Needed(way) \subseteq resolved
       THEN /\ execution' = [stage |-> "downloading", mode |-> way, taken |-> <<>>,
                       warnings |-> Cardinality(TargetSources(way) \ resolved)]
            /\ download' = [s \in Source |-> [pc |-> IF s \in resolved THEN "ready" ELSE "none",
                                              attempt |-> 1]]
       ELSE /\ execution' = [execution EXCEPT !.stage = "failed", !.mode = way, !.taken = <<>>,
                                  !.warnings = 0]
            /\ download' = [s \in Source |-> [pc |-> "none", attempt |-> 1]]
  BY <1>0
<1>2. /\ file' = [s \in Source |-> Gone] /\ cancelled' = FALSE /\ gate' = gate
      /\ gate = NoOne
  BY DEF BeginDownloads, DownloadsInv, GateInv
<1>3. resolved \in SUBSET Source /\ DOMAIN <<>> = {}
  BY <1>1
<1>4. /\ download' \in [Source -> DownloadState]
      /\ \A s \in Source : download'[s].pc \in {"none", "ready"}
  <2>1. /\ [pc |-> "none", attempt |-> 1] \in DownloadState
        /\ [pc |-> "ready", attempt |-> 1] \in DownloadState
    BY DEF DownloadState
  <2>2. \A s \in Source : \/ download'[s] = [pc |-> "none", attempt |-> 1]
                           \/ download'[s] = [pc |-> "ready", attempt |-> 1]
    BY <1>1
  <2>3. download' = [s \in Source |-> download'[s]]
    BY <1>1
  <2> QED
    BY <2>1, <2>2, <2>3
<1>5. FilesInv'
  <2>1. Gone \in FileState
    BY DEF FileState
  <2>2. download'["additional"].pc # "fetched"
    BY <1>4
  <2> QED
    BY <1>2, <1>4, <2>1, <2>2 DEF FilesInv
<1>6. CASE Needed(way) \subseteq resolved
  <2>1. /\ execution'.stage = "downloading" /\ execution'.mode = way /\ execution'.taken = <<>>
        /\ execution'.warnings = Cardinality(TargetSources(way) \ resolved)
        /\ execution' = [stage |-> "downloading", mode |-> way, taken |-> <<>>,
                         warnings |-> Cardinality(TargetSources(way) \ resolved)]
    BY <1>1, <1>6
  <2>2. GateInv'
    BY <1>2, <1>4, <2>1 DEF GateInv, Asking
  <2>3. Present' = resolved
    BY <1>1, <1>3, <1>6 DEF Present
  <2>4. Cardinality(TargetSources(way) \ resolved) \in 0 .. Cardinality(Source)
    BY <1>1, MissingCount
  <2>5. CountInv'
    BY <1>1, <1>3, <1>6, <2>1, <2>3, <2>4 DEF CountInv
  <2> QED
    BY <1>2, <1>5, <2>1, <2>2, <2>5 DEF DownloadsInv, TakenIsWhole
<1>7. CASE ~(Needed(way) \subseteq resolved)
  <2>1. /\ execution' = [execution EXCEPT !.stage = "failed", !.mode = way, !.taken = <<>>,
                                  !.warnings = 0]
        /\ download' = [s \in Source |-> [pc |-> "none", attempt |-> 1]]
    BY <1>1, <1>7
  <2>2. execution' = [stage |-> "failed", mode |-> way, warnings |-> 0, taken |-> <<>>]
    BY <2>1 DEF DownloadsInv, CountInv
  <2>3. GateInv'
    BY <1>2, <2>1, <2>2 DEF GateInv, Over, Asking
  <2>4. Present' = {} /\ 0 \in 0 .. Cardinality(Source)
    BY <2>1 DEF Present
  <2>5. CountInv'
    BY <1>1, <1>3, <2>2, <2>4 DEF CountInv
  <2> QED
    BY <1>2, <1>5, <2>2, <2>3, <2>5 DEF DownloadsInv, TakenIsWhole
<1> QED
  BY <1>6, <1>7

\* What one download does: it turns, and the gate and its file with it.
LEMMA DownloadStep ==
  ASSUME DownloadsInv, NEW s \in Source, execution' = execution, cancelled' = cancelled,
         download[s].pc \notin Over,
         NEW d \in DownloadState, download' = [download EXCEPT ![s] = d], d.pc # "none",
         d.pc = "resting" => d.attempt < Attempts,
         NEW f \in FileState, file' = [file EXCEPT ![s] = f],
         s = "additional" /\ d.pc = "fetched" => f \subseteq {"good"},
         \/ s \in Sheets /\ d.pc \in Asking /\ gate' = s /\ gate \in {NoOne, s}
         \/ (s \notin Sheets \/ d.pc \notin Asking) /\ gate' = Freed(s)
  PROVE  DownloadsInv'
<1> USE SourcesKnown
<1>1. /\ execution.stage = "downloading" /\ download \in [Source -> DownloadState]
      /\ file \in [Source -> FileState]
  BY DEF DownloadsInv, GateInv, FilesInv
<1>2. /\ download' \in [Source -> DownloadState] /\ download'[s] = d
      /\ \A t \in Source : t # s => download'[t] = download[t]
  BY <1>1
<1>3. /\ file' \in [Source -> FileState] /\ file'[s] = f
      /\ \A t \in Source : t # s => file'[t] = file[t]
  BY <1>1
<1>4. FilesInv'
  BY <1>2, <1>3 DEF FilesInv, DownloadsInv
<1>5. Present' = Present
  BY <1>2 DEF Present, Over
<1>6. CountInv'
  BY <1>1, <1>5 DEF CountInv, DownloadsInv
<1>7. GateInv'
  BY <1>1, <1>2 DEF GateInv, DownloadsInv, Freed
<1> QED
  BY <1>1, <1>4, <1>6, <1>7 DEF DownloadsInv, TakenIsWhole

\* A step of one download keeps the gate his who asks, and the files whole.
LEMMA DownloadSteps ==
  ASSUME DownloadsInv, NEW s \in Source,
         BeginAttempt(s) \/ Answered(s) \/ Busy(s) \/ Declined(s) \/ Rested(s)
           \/ (s \in Sheets /\ (EnterGate(s) \/ LeaveQueue(s) \/ Names(s)))
  PROVE  DownloadsInv'
<1> USE SourcesKnown
<1>1. /\ execution' = execution /\ cancelled' = cancelled
  BY DEF BeginAttempt, Answered, Busy, Declined, Rested, EnterGate, LeaveQueue, Names
<1>2. /\ download[s] \in DownloadState /\ file[s] \in FileState
      /\ download \in [Source -> DownloadState] /\ file \in [Source -> FileState]
      /\ file = [file EXCEPT ![s] = file[s]]
  BY DEF DownloadsInv, FilesInv
<1> DEFINE Turned(pc) == [download[s] EXCEPT !.pc = pc]
<1>3. \A pc : Turns(s, pc) => download' = [download EXCEPT ![s] = Turned(pc)]
  BY <1>2 DEF Turns
<1>4. \A pc \in {"waiting", "asking names", "asking", "resting", "fetched", "lost"} :
        /\ Turned(pc) \in DownloadState /\ Turned(pc).pc = pc
        /\ Turned(pc).attempt = download[s].attempt
  BY <1>2 DEF DownloadState
<1>5. /\ gate \in Sheets \cup {NoOne}
      /\ gate = s => download[s].pc \in Asking
      /\ s \in Sheets /\ download[s].pc \in Asking => gate = s
      /\ download[s].pc = "resting" => download[s].attempt < Attempts
  BY DEF DownloadsInv, GateInv, FilesInv
<1> HIDE DEF Turned
<1> DEFINE Pc == {"waiting", "asking names", "asking", "resting", "fetched", "lost"}
<1>6. ASSUME NEW pc \in Pc, Turns(s, pc), download[s].pc \notin Over,
             pc = "resting" => download[s].attempt < Attempts,
             NEW f \in FileState, file' = [file EXCEPT ![s] = f],
             s = "additional" /\ pc = "fetched" => f \subseteq {"good"},
             \/ s \in Sheets /\ pc \in Asking /\ gate' = s /\ gate \in {NoOne, s}
             \/ (s \notin Sheets \/ pc \notin Asking) /\ gate' = Freed(s)
      PROVE  DownloadsInv'
  <2>1. PICK d \in DownloadState : d = Turned(pc)
    BY <1>4, <1>6
  <2>2. d.pc = pc /\ d.attempt = download[s].attempt /\ download' = [download EXCEPT ![s] = d]
    BY <1>3, <1>4, <1>6, <2>1
  <2>3. d.pc # "none"
    BY <1>6, <2>2
  <2> QED
    BY <1>1, <1>6, <2>2, <2>3, DownloadStep
<1>7. ASSUME NEW pc \in Pc, Turns(s, pc), download[s].pc \notin Over,
             pc = "resting" => download[s].attempt < Attempts, pc # "fetched", file' = file,
             \/ s \in Sheets /\ pc \in Asking /\ gate' = s /\ gate \in {NoOne, s}
             \/ (s \notin Sheets \/ pc \notin Asking) /\ gate' = Freed(s)
      PROVE  DownloadsInv'
  BY <1>2, <1>6, <1>7
<1>8. CASE BeginAttempt(s)
  <2>1. /\ download[s].pc = "ready" /\ file' = file /\ gate' = gate /\ gate # s
        /\ \/ Turns(s, "lost")
           \/ s \in Sheets /\ Turns(s, "waiting")
           \/ s \notin Sheets /\ Turns(s, "asking")
    BY <1>5, <1>8 DEF BeginAttempt, Asking
  <2>2. gate' = Freed(s)
    BY <2>1 DEF Freed
  <2> QED
    BY <1>7, <2>1, <2>2 DEF Over, Asking
<1>9. CASE s \in Sheets /\ EnterGate(s)
  <2>1. /\ download[s].pc = "waiting" /\ file' = file /\ gate' = s /\ gate = NoOne
        /\ Turns(s, "asking names") \/ Turns(s, "asking")
    BY <1>9 DEF EnterGate
  <2> QED
    BY <1>7, <1>9, <2>1 DEF Over, Asking
<1>10. CASE LeaveQueue(s)
  <2>1. /\ download[s].pc = "waiting" /\ file' = file /\ gate' = Freed(s) /\ Turns(s, "lost")
    BY <1>5, <1>10 DEF LeaveQueue, Asking, Freed
  <2> QED
    BY <1>7, <2>1 DEF Over, Asking
<1>11. CASE Busy(s) \/ Declined(s)
  <2>1. /\ download[s].pc \in Asking /\ file' = file /\ gate' = Freed(s)
        /\ \/ download[s].attempt < Attempts /\ Turns(s, "resting")
           \/ Turns(s, "lost")
    BY <1>11 DEF Busy, Declined, Asking
  <2> QED
    BY <1>7, <2>1 DEF Over, Asking
<1>12. CASE s \in Sheets /\ Names(s)
  <2>1. /\ download[s].pc = "asking names" /\ file' = file /\ gate' = s /\ gate = s
        /\ Turns(s, "asking")
    BY <1>5, <1>12 DEF Names, Asking
  <2> QED
    BY <1>7, <1>12, <2>1 DEF Over, Asking
<1>13. CASE Answered(s)
  <2>1. PICK rows \in AnswerOf(s) :
       \/ /\ Parses(s, rows)
          /\ \/ Turns(s, "fetched") /\ file' = [file EXCEPT ![s] = Saved(s, rows)]
             \/ Turns(s, "lost") /\ file' = [file EXCEPT ![s] = Torn]
       \/ ~Parses(s, rows) /\ Turns(s, "lost") /\ UNCHANGED file
    BY <1>13 DEF Answered
  <2>2. download[s].pc \notin Over /\ gate' = Freed(s) /\ "fetched" \notin Asking
        /\ "lost" \notin Asking
    BY <1>13 DEF Answered, Over, Asking
  <2>3. Torn \in FileState
    BY DEF FileState
  <2>4. Saved(s, rows) \in FileState
    <3>1. rows \in SUBSET TheRow \/ (s \notin Sheets /\ rows = Garbled)
      BY <2>1 DEF AnswerOf, TheRow
    <3>2. rows \in SUBSET TheRow => rows \ {"faulty"} \in SUBSET TheRow
      OBVIOUS
    <3> QED
      BY <3>1, <3>2 DEF Saved, FileState
  <2>5. s = "additional" /\ Parses(s, rows) => Saved(s, rows) \subseteq {"good"}
    BY <2>1 DEF AnswerOf, Saved, Parses, Sheets
  <2>6. CASE Parses(s, rows) /\ Turns(s, "fetched") /\ file' = [file EXCEPT ![s] = Saved(s, rows)]
    BY <1>6, <2>2, <2>4, <2>5, <2>6
  <2>7. CASE Turns(s, "lost") /\ file' = [file EXCEPT ![s] = Torn]
    BY <1>6, <2>2, <2>3, <2>7
  <2>8. CASE Turns(s, "lost") /\ file' = file
    BY <1>7, <2>2, <2>8
  <2> QED
    BY <2>1, <2>6, <2>7, <2>8
<1>14. CASE Rested(s)
  <2>1. download[s].pc = "resting" /\ file' = file /\ gate' = Freed(s)
    BY <1>5, <1>14 DEF Rested, Asking, Freed
  <2>2. CASE Turns(s, "lost")
    BY <1>7, <2>1, <2>2 DEF Over, Asking
  <2>3. CASE download' = [download EXCEPT ![s] = [pc |-> "ready", attempt |-> @.attempt + 1]]
    <3> DEFINE d == [pc |-> "ready", attempt |-> download[s].attempt + 1]
    <3>1. d \in DownloadState /\ d.pc = "ready"
      <4>1. download[s].attempt \in 1 .. Attempts /\ download[s].attempt < Attempts
        BY <1>2, <1>5, <2>1 DEF DownloadState
      <4>2. download[s].attempt + 1 \in 1 .. Attempts
        BY <4>1
      <4> QED
        BY <4>2 DEF DownloadState
    <3>2. download' = [download EXCEPT ![s] = d]
      BY <1>2, <2>3
    <3> HIDE DEF d
    <3>3. d.pc \notin Asking /\ d.pc # "none" /\ d.pc # "resting" /\ d.pc # "fetched"
          /\ download[s].pc \notin Over
      BY <2>1, <3>1 DEF Asking, Over
    <3> QED
      BY <1>1, <1>2, <2>1, <3>1, <3>2, <3>3, DownloadStep
  <2> QED
    BY <1>14, <2>2, <2>3 DEF Rested
<1> QED
  BY <1>8, <1>9, <1>10, <1>11, <1>12, <1>13, <1>14

\* The run counts what it lost, and ends without what it needs.
LEMMA GatherStep == ASSUME DownloadsInv, Gather PROVE DownloadsInv'
<1> USE SourcesKnown
<1> DEFINE missed == {s \in Source : download[s].pc = "lost"}
           way == execution.mode
           T == TargetSources(way)
<1>1. /\ execution.stage = "downloading" /\ \A s \in Source : download[s].pc \in Over
      /\ IF missed \cap Needed(way) # {}
         THEN execution' = RunFails /\ file' = [s \in Source |-> Gone]
         ELSE /\ execution' = [execution EXCEPT !.stage = "importing",
                                                !.warnings = @ + Cardinality(missed)]
              /\ UNCHANGED file
      /\ UNCHANGED <<download, gate, cancelled>>
  BY DEF Gather, Over
<1>2. /\ way \in {"normal", "major"} /\ Present \subseteq T /\ T \in SUBSET Source
      /\ Needed(way) \subseteq Present /\ execution.warnings = Cardinality(T \ Present)
      /\ execution = [stage |-> execution.stage, mode |-> way, warnings |-> execution.warnings,
                      taken |-> execution.taken]
      /\ execution.warnings \in 0 .. Cardinality(Source)
      /\ DOMAIN execution.taken \subseteq Source
  BY <1>1 DEF DownloadsInv, CountInv
<1>3. Present \ Fetched = missed /\ Fetched \in SUBSET Present
  BY <1>1 DEF Present, Fetched, Over
<1>4. gate = NoOne
  BY <1>1 DEF DownloadsInv, GateInv, Over, Asking
<1>5. Present' = Present /\ Fetched' = Fetched
  BY <1>1 DEF Present, Fetched
<1>6. CASE missed \cap Needed(way) # {}
  <2>1. execution' = [stage |-> "failed", mode |-> way, warnings |-> execution.warnings,
                      taken |-> execution.taken]
    BY <1>1, <1>2, <1>6 DEF RunFails
  <2>2. file' = [s \in Source |-> Gone]
    BY <1>1, <1>6
  <2> HIDE DEF way, T, missed
  <2>3. GateInv'
    BY <1>1, <1>4, <2>1 DEF GateInv, DownloadsInv, Over
  <2>4. FilesInv'
    <3>1. Gone \in FileState
      BY DEF FileState
    <3> QED
      BY <1>1, <2>1, <2>2, <3>1 DEF FilesInv, DownloadsInv
  <2>5. CountInv'
    BY <1>2, <1>5, <2>1 DEF CountInv, T
  <2> QED
    BY <1>1, <2>1, <2>3, <2>4, <2>5 DEF DownloadsInv, TakenIsWhole
<1>7. CASE missed \cap Needed(way) = {}
  <2>1. /\ execution' = [stage |-> "importing", mode |-> way, taken |-> execution.taken,
                         warnings |-> execution.warnings + Cardinality(missed)]
        /\ file' = file
    BY <1>1, <1>2, <1>7
  <2>2. /\ Cardinality(T \ Fetched) = Cardinality(T \ Present) + Cardinality(missed)
        /\ Cardinality(T \ Fetched) \in 0 .. Cardinality(Source)
    <3>1. T \in SUBSET Source /\ Present \in SUBSET T /\ Fetched \in SUBSET Present
      BY <1>2, <1>3
    <3> HIDE DEF T, missed, way
    <3>2. /\ Cardinality(T \ Fetched) = Cardinality(T \ Present) + Cardinality(Present \ Fetched)
          /\ Cardinality(T \ Fetched) \in 0 .. Cardinality(Source)
      BY <3>1, MissingCount
    <3> QED
      BY <1>3, <3>2
  <2>3. Needed(way) \subseteq Fetched
    BY <1>2, <1>3, <1>7
  <2> HIDE DEF way, T, missed
  <2>4. GateInv'
    BY <1>1, <1>4, <2>1 DEF GateInv, DownloadsInv, Over
  <2>5. FilesInv'
    BY <1>1, <2>1 DEF FilesInv, DownloadsInv
  <2>6. CountInv'
    BY <1>2, <1>5, <2>1, <2>2, <2>3 DEF CountInv, T
  <2> QED
    BY <1>1, <2>1, <2>4, <2>5, <2>6 DEF DownloadsInv, TakenIsWhole
<1> QED
  BY <1>6, <1>7

\* What is imported is of whole files.
LEMMA ImportStep == ASSUME DownloadsInv, ImportFiles PROVE DownloadsInv'
<1> USE SourcesKnown
<1> DEFINE way == execution.mode
           T == TargetSources(way)
           taken == {s \in Fetched : Imports(s, file[s])}
<1>1. /\ execution.stage = "importing"
      /\ IF Needed(way) \subseteq taken
         THEN /\ execution' = [execution EXCEPT !.stage = "consolidating",
                          !.warnings = @ + Cardinality(Fetched \ taken),
                          !.taken = [s \in taken |-> file[s]]]
              /\ UNCHANGED file
         ELSE execution' = RunFails /\ file' = [s \in Source |-> Gone]
      /\ UNCHANGED <<download, gate, cancelled>>
  BY DEF ImportFiles, Fetched
<1>2. /\ way \in {"normal", "major"} /\ Present \subseteq T /\ T \in SUBSET Source
      /\ Needed(way) \subseteq Fetched /\ execution.warnings = Cardinality(T \ Fetched)
      /\ execution = [stage |-> execution.stage, mode |-> way, warnings |-> execution.warnings,
                      taken |-> execution.taken]
      /\ execution.warnings \in 0 .. Cardinality(Source)
      /\ DOMAIN execution.taken \subseteq Source
  BY <1>1 DEF DownloadsInv, CountInv
<1>3. Fetched \subseteq Present /\ taken \subseteq Fetched /\ Fetched \subseteq Source
  BY DEF Present, Fetched
<1>4. Present' = Present
  BY <1>1 DEF Present
<1>5. /\ gate = NoOne /\ \A s \in Source : download[s].pc \in Over
      /\ download \in [Source -> DownloadState] /\ file \in [Source -> FileState]
      /\ \A s \in Source : download[s].pc = "resting" => download[s].attempt < Attempts
  BY <1>1 DEF DownloadsInv, GateInv, FilesInv
<1>6. ASSUME execution'.stage \in {"consolidating", "failed"}, file' \in [Source -> FileState]
      PROVE  GateInv' /\ FilesInv'
  BY <1>1, <1>5, <1>6 DEF GateInv, FilesInv, Over, Asking
<1>7. CASE Needed(way) \subseteq taken
  <2>1. /\ execution' = [stage |-> "consolidating", mode |-> way,
                         warnings |-> execution.warnings + Cardinality(Fetched \ taken),
                         taken |-> [s \in taken |-> file[s]]]
        /\ file' = file
    BY <1>1, <1>2, <1>7
  <2>2. /\ Cardinality(T \ taken) = Cardinality(T \ Fetched) + Cardinality(Fetched \ taken)
        /\ Cardinality(T \ taken) \in 0 .. Cardinality(Source)
    <3>1. T \in SUBSET Source /\ Fetched \in SUBSET T /\ taken \in SUBSET Fetched
      BY <1>2, <1>3
    <3> HIDE DEF T, taken, way
    <3> QED
      BY <3>1, MissingCount
  <2>3. ASSUME NEW s \in taken
        PROVE  file[s] \subseteq {"good"} /\ (file[s] = {} => s = "additional")
    <3>1. s \in Source /\ download[s].pc = "fetched" /\ Imports(s, file[s])
      BY DEF Fetched
    <3>2. s # "additional" => file[s] = {"good"}
      BY <3>1 DEF Imports
    <3>3. s = "additional" => file[s] \subseteq {"good"}
      BY <1>1, <3>1 DEF DownloadsInv, FilesInv
    <3> QED
      BY <3>2, <3>3
  <2>4. DOMAIN [s \in taken |-> file[s]] = taken /\ \A s \in taken : [x \in taken |-> file[x]][s] = file[s]
    OBVIOUS
  <2> HIDE DEF way, T, taken
  <2>5. /\ execution'.stage = "consolidating" /\ execution'.mode = way
        /\ execution'.warnings = Cardinality(T \ taken)
        /\ DOMAIN execution'.taken = taken /\ \A s \in taken : execution'.taken[s] = file[s]
    BY <1>2, <2>1, <2>2, <2>4
  <2>6. GateInv' /\ FilesInv'
    BY <1>5, <1>6, <2>1
  <2>7. CountInv'
    <3>1. Present' \subseteq TargetSources(way) /\ taken \subseteq Source
      BY <1>2, <1>3, <1>4 DEF T
    <3> QED
      BY <1>2, <2>1, <2>2, <2>5, <3>1 DEF CountInv
  <2>8. TakenIsWhole'
    BY <1>7, <2>3, <2>5 DEF TakenIsWhole, T
  <2> QED
    BY <1>1, <2>6, <2>7, <2>8 DEF DownloadsInv
<1>8. CASE ~(Needed(way) \subseteq taken)
  <2>1. /\ execution' = [stage |-> "failed", mode |-> way, warnings |-> execution.warnings,
                         taken |-> execution.taken]
        /\ file' = [s \in Source |-> Gone]
    BY <1>1, <1>2, <1>8 DEF RunFails
  <2> HIDE DEF way, taken
  <2>2. Gone \in FileState
    BY DEF FileState
  <2>3. GateInv' /\ FilesInv'
    BY <1>6, <2>1, <2>2
  <2>4. CountInv'
    BY <1>2, <1>4, <2>1 DEF CountInv, T
  <2> QED
    BY <1>1, <2>1, <2>3, <2>4 DEF DownloadsInv, TakenIsWhole
<1> QED
  BY <1>7, <1>8

\* A run that ends leaves the gate free.
LEMMA EndStep == ASSUME DownloadsInv, EndRun PROVE DownloadsInv'
<1> USE SourcesKnown
<1>1. PICK stage \in {"done", "failed"} : execution' = [execution EXCEPT !.stage = stage, !.taken = <<>>]
  BY DEF EndRun
<1>2. /\ execution.stage = "consolidating" /\ file' = [s \in Source |-> Gone]
      /\ UNCHANGED <<download, gate, cancelled>>
  BY DEF EndRun
<1>3. execution' = [stage |-> stage, mode |-> execution.mode, warnings |-> execution.warnings,
                    taken |-> <<>>]
  BY <1>1 DEF DownloadsInv, CountInv
<1>4. Present' = Present /\ DOMAIN <<>> = {} /\ Gone \in FileState
  BY <1>2 DEF Present, FileState
<1>5. GateInv'
  BY <1>2, <1>3 DEF DownloadsInv, GateInv, Over
<1>6. FilesInv'
  BY <1>2, <1>3, <1>4 DEF DownloadsInv, FilesInv
<1>7. CountInv'
  BY <1>3, <1>4 DEF DownloadsInv, CountInv
<1> QED
  BY <1>2, <1>3, <1>5, <1>6, <1>7 DEF DownloadsInv, TakenIsWhole

\* Every step of a run keeps the invariant of the downloads.
LEMMA DownloadsStepInv == DownloadsInv /\ [DownloadsNext]_downloadsVars => DownloadsInv'
<1> SUFFICES ASSUME DownloadsInv, [DownloadsNext]_downloadsVars PROVE DownloadsInv'
  OBVIOUS
<1>1. CASE CancelRun
  <2>1. UNCHANGED <<execution, download, file, gate>> /\ cancelled' = TRUE
    BY <1>1 DEF CancelRun
  <2> QED
    BY <2>1 DEF DownloadsInv, GateInv, FilesInv, CountInv, TakenIsWhole, Present, Fetched
<1>2. CASE UNCHANGED downloadsVars
  <2>1. UNCHANGED <<execution, download, file, gate, cancelled>>
    BY <1>2 DEF downloadsVars
  <2> QED
    BY <2>1 DEF DownloadsInv, GateInv, FilesInv, CountInv, TakenIsWhole, Present, Fetched
<1>3. Sheets \subseteq Source
  BY SourcesKnown
<1> QED
  BY <1>1, <1>2, <1>3, BeginStep, DownloadSteps, GatherStep, ImportStep, EndStep
  DEF DownloadsNext

\* What goes into the consolidation is whole and its gaps are counted, and nobody waits for a
\* gate that nobody will open, for any configuration of sources and number of attempts.
THEOREM SpecDownloadsHold == DownloadsSpec => []DownloadsHold
<1>1. DownloadsInv => DownloadsHold
  <2> SUFFICES ASSUME DownloadsInv PROVE DownloadsHold
    OBVIOUS
  <2>1. DownloadsTypeOK
    BY DEF DownloadsInv, GateInv, FilesInv, CountInv, DownloadsTypeOK, DownloadState, FileState
  <2>2. GateServes
    <3>1. ASSUME NEW s \in Sheets, NEW t \in Sheets,
                 {download[s].pc, download[t].pc} \subseteq {"asking names", "asking"}
          PROVE  s = t
      BY <3>1 DEF DownloadsInv, GateInv, Asking
    <3> QED
      BY <3>1 DEF GateServes, DownloadsInv, GateInv, Asking
  <2> QED
    BY <2>1, <2>2 DEF DownloadsHold, DownloadsSound, DownloadsInv
<1> QED
  BY <1>1, DownloadsInitInv, DownloadsStepInv, PTL DEF DownloadsSpec

-----------------------------------------------------------------------------
(* The workspace of a batch *)

\* A workspace has the types of its tables.
WorkspaceTypes ==
  [songs : [Idx -> SongUpsert \cup {None}],
   charts : [Idx -> [Diff -> ChartRow \cup {None}]],
   we : [Idx -> WorldsendRow \cup {None}]]

\* Charts are of songs, a song of WORLD'S END has its chart, and flags are as MySQL
\* takes them.
Flag == {None, 0, 1}
WorkspaceSound(ws) ==
  /\ ws \in WorkspaceTypes
  /\ \A i \in Idx : ws.songs[i] = None => ws.charts[i] = NoCharts /\ ws.we[i] = None
  /\ \A i \in Idx : ws.songs[i] # None /\ ws.songs[i].we => ws.we[i] # None
  /\ \A i \in Idx : ws.songs[i] # None => ws.songs[i].unlock \in Flag

\* A workspace is sound as soon as its three tables are.
LEMMA SoundWorkspace ==
  ASSUME NEW s \in [Idx -> SongUpsert \cup {None}],
         NEW c \in [Idx -> [Diff -> ChartRow \cup {None}]],
         NEW w \in [Idx -> WorldsendRow \cup {None}],
         \A i \in Idx : s[i] = None => c[i] = NoCharts /\ w[i] = None,
         \A i \in Idx : s[i] # None /\ s[i].we => w[i] # None,
         \A i \in Idx : s[i] # None => s[i].unlock \in Flag
  PROVE  WorkspaceSound([songs |-> s, charts |-> c, we |-> w])
BY DEF WorkspaceSound, WorkspaceTypes

\* What is left of a workspace when some of its tables are replaced.
LEMMA OtherTables ==
  ASSUME NEW ws \in WorkspaceTypes, NEW s, NEW c, NEW w
  PROVE  /\ [ws EXCEPT !.songs = s, !.charts = c] = [songs |-> s, charts |-> c, we |-> ws.we]
         /\ [ws EXCEPT !.songs = s, !.we = w] = [songs |-> s, charts |-> ws.charts, we |-> w]
         /\ [ws EXCEPT !.charts = c] = [songs |-> ws.songs, charts |-> c, we |-> ws.we]
<1>1. PICK x, y, z : ws = [songs |-> x, charts |-> y, we |-> z]
  BY DEF WorkspaceTypes
<1>2. ws.songs = x /\ ws.charts = y /\ ws.we = z
  BY <1>1
<1>3. [ws EXCEPT !.songs = s, !.charts = c] = [songs |-> s, charts |-> c, we |-> z]
  <2>1. [ws EXCEPT !.songs = s, !.charts = c] = [ws EXCEPT !["songs"] = s, !["charts"] = c]
    OBVIOUS
  <2>2. [ws EXCEPT !["songs"] = s, !["charts"] = c] = [songs |-> s, charts |-> c, we |-> z]
    BY <1>1
  <2> QED BY <2>1, <2>2, Zenon
<1>4. [ws EXCEPT !.songs = s, !.we = w] = [songs |-> s, charts |-> y, we |-> w]
  <2>1. [ws EXCEPT !.songs = s, !.we = w] = [ws EXCEPT !["songs"] = s, !["we"] = w]
    OBVIOUS
  <2>2. [ws EXCEPT !["songs"] = s, !["we"] = w] = [songs |-> s, charts |-> y, we |-> w]
    BY <1>1
  <2> QED BY <2>1, <2>2, Zenon
<1>5. [ws EXCEPT !.charts = c] = [songs |-> x, charts |-> c, we |-> z]
  BY <1>1
<1> QED BY <1>2, <1>3, <1>4, <1>5, Zenon

\* NULL is no row of any table.
LEMMA RowsAreThere ==
  /\ \A r \in SongRow : r # None
  /\ \A r \in SongUpsert : r # None
  /\ \A r \in ChartRow : r # None
  /\ \A r \in WorldsendRow : r # None
BY NoneIsNoRow

\* What the official list gives of a song, of its charts and of its chart of WORLD'S END.
LEMMA OfficialTyped ==
  ASSUME NEW row \in OfficialRow
  PROVE  /\ OfficialSong(row) \in SongUpsert /\ OfficialSong(row).unlock = None
         /\ OfficialCharts(row) \in [Diff -> ChartRow \cup {None}]
         /\ OfficialWorldsend(row) \in WorldsendRow \cup {None}
         /\ OfficialSong(row).we => OfficialWorldsend(row) \in WorldsendRow
<1>1. /\ row.title \in Title /\ row.isNew \in BOOLEAN /\ row.level \in [Diff -> Number]
      /\ row.we \in [star : Number, attribute : Text] \cup {None}
  BY DEF OfficialRow
<1>2. OfficialSong(row) \in SongUpsert /\ OfficialSong(row).unlock = None
  BY <1>1 DEF OfficialSong, SongUpsert, Number, Text, ReleaseDate
<1>3. OfficialCharts(row) \in [Diff -> ChartRow \cup {None}]
  <2>1. CASE row.we # None
    BY <2>1 DEF OfficialCharts, NoCharts
  <2>2. CASE row.we = None
    <3>1. ASSUME NEW d \in Diff, row.level[d] # None
          PROVE  [const |-> row.level[d], unknown |-> LevelIsUnknown(row.level[d]),
                  notes |-> None, designer |-> None] \in ChartRow
      <4>1. row.level[d] \in Int
        BY <1>1, <3>1 DEF Number
      <4>2. LevelIsUnknown(row.level[d]) \in BOOLEAN
        BY DEF LevelIsUnknown
      <4> QED BY <4>1, <4>2 DEF ChartRow, Number, Credit
    <3> QED BY <2>2, <3>1 DEF OfficialCharts
  <2> QED BY <2>1, <2>2
<1>4. row.we # None => OfficialWorldsend(row) \in WorldsendRow
  BY <1>1 DEF OfficialWorldsend, WorldsendRow, Number, Text, Credit
<1>5. row.we = None => OfficialWorldsend(row) = None
  BY DEF OfficialWorldsend
<1>6. OfficialSong(row).we => row.we # None
  BY DEF OfficialSong
<1> QED BY <1>2, <1>3, <1>4, <1>5, <1>6

\* The official list alone makes a sound workspace.
LEMMA AfterOfficialSound ==
  ASSUME NEW official \in [Idx -> OfficialRow \cup {None}]
  PROVE  WorkspaceSound(AfterOfficial(official))
<1> DEFINE Taken(i) == official[i] # None /\ official[i].genreKnown
           s == [i \in Idx |-> IF Taken(i) THEN OfficialSong(official[i]) ELSE None]
           c == [i \in Idx |-> IF Taken(i) THEN OfficialCharts(official[i]) ELSE NoCharts]
           w == [i \in Idx |-> IF Taken(i) THEN OfficialWorldsend(official[i]) ELSE None]
<1>1. \A i \in Idx : Taken(i) =>
        /\ OfficialSong(official[i]) \in SongUpsert /\ OfficialSong(official[i]).unlock = None
        /\ OfficialCharts(official[i]) \in [Diff -> ChartRow \cup {None}]
        /\ OfficialWorldsend(official[i]) \in WorldsendRow \cup {None}
        /\ OfficialSong(official[i]).we => OfficialWorldsend(official[i]) \in WorldsendRow
  BY OfficialTyped
<1>2. NoCharts \in [Diff -> ChartRow \cup {None}]
  BY DEF NoCharts
<1>3. AfterOfficial(official) = [songs |-> s, charts |-> c, we |-> w]
  BY DEF AfterOfficial
<1> HIDE DEF Taken
<1>4. s \in [Idx -> SongUpsert \cup {None}]
  BY <1>1
<1>5. c \in [Idx -> [Diff -> ChartRow \cup {None}]]
  BY <1>1, <1>2
<1>6. w \in [Idx -> WorldsendRow \cup {None}]
  BY <1>1
<1>7. \A i \in Idx : s[i] = None => c[i] = NoCharts /\ w[i] = None
  BY <1>1, RowsAreThere
<1>8. \A i \in Idx : s[i] # None /\ s[i].we => w[i] # None
  BY <1>1, RowsAreThere
<1>9. \A i \in Idx : s[i] # None => s[i].unlock \in Flag
  BY <1>1 DEF Flag
<1> HIDE DEF s, c, w
<1> QED BY <1>3, <1>4, <1>5, <1>6, <1>7, <1>8, <1>9, SoundWorkspace

\* What an additional song adds is a row of the workspace, whatever it is merged with.
LEMMA AddedTyped ==
  ASSUME NEW row, row.title \in Title, row.released \in ReleaseDate,
         NEW bpm \in Number, NEW we \in BOOLEAN, NEW old \in SongUpsert \cup {None}
  PROVE  /\ AddedSong(row, bpm, we, old) \in SongUpsert
         /\ AddedSong(row, bpm, we, old).we = we /\ AddedSong(row, bpm, we, old).unlock = None
<1> DEFINE b == IF old = None THEN bpm ELSE Coalesce(bpm, old.bpm)
           r == IF old = None THEN row.released ELSE Coalesce(row.released, old.released)
<1>1. b \in Number
  BY DEF SongUpsert, Coalesce
<1>2. r \in ReleaseDate
  BY DEF SongUpsert, Coalesce
<1>3. AddedSong(row, bpm, we, old) =
        [title |-> row.title, isNew |-> FALSE, we |-> we, bpm |-> b, released |-> r,
         wiki |-> None, unlock |-> None]
  BY DEF AddedSong
<1> HIDE DEF b, r
<1> QED BY <1>1, <1>2, <1>3 DEF SongUpsert, Text, Number

\* The chart of an additional song has the type of a chart.
LEMMA AddedChartTyped ==
  ASSUME NEW row \in AdditionalChart
  PROVE  AddedChart(row) \in ChartRow
BY DEF AddedChart, AdditionalChart, ChartRow, Credit

\* Whole songs are added with their charts where the official list has none.
LEMMA WithSongsSound ==
  ASSUME NEW ws, WorkspaceSound(ws), NEW more \in [Idx -> AdditionalSong \cup {None}]
  PROVE  /\ WorkspaceSound(WithSongs(ws, Listed(ws), more))
         /\ \A i \in Listed(ws) : WithSongs(ws, Listed(ws), more).songs[i] # None
<1> DEFINE Taken(i) == i \notin Listed(ws) /\ more[i] # None /\ more[i].genreKnown
           s == [i \in Idx |-> IF Taken(i)
                   THEN AddedSong(more[i], more[i].bpm, FALSE, None) ELSE ws.songs[i]]
           c == [i \in Idx |-> IF ~Taken(i) THEN ws.charts[i]
                   ELSE [d \in Diff |-> IF more[i].chart[d] = None THEN ws.charts[i][d]
                                        ELSE AddedChart(more[i].chart[d])]]
<1>1. ws \in WorkspaceTypes
  BY DEF WorkspaceSound
<1>2. WithSongs(ws, Listed(ws), more) = [songs |-> s, charts |-> c, we |-> ws.we]
  <2>1. WithSongs(ws, Listed(ws), more) = [ws EXCEPT !.songs = s, !.charts = c]
    BY DEF WithSongs
  <2> HIDE DEF s, c
  <2> QED BY <1>1, <2>1, OtherTables
<1>3. ASSUME NEW i \in Idx, Taken(i)
      PROVE  /\ AddedSong(more[i], more[i].bpm, FALSE, None) \in SongUpsert
             /\ AddedSong(more[i], more[i].bpm, FALSE, None).we = FALSE
             /\ AddedSong(more[i], more[i].bpm, FALSE, None).unlock = None
             /\ more[i].chart \in [Diff -> AdditionalChart \cup {None}]
  <2>1. more[i] \in AdditionalSong
    BY <1>3
  <2>2. /\ more[i].title \in Title /\ more[i].released \in ReleaseDate
        /\ more[i].bpm \in Number /\ more[i].chart \in [Diff -> AdditionalChart \cup {None}]
    BY <2>1 DEF AdditionalSong
  <2>3. FALSE \in BOOLEAN /\ None \in SongUpsert \cup {None}
    OBVIOUS
  <2> QED BY <2>2, <2>3, AddedTyped
<1>4. \A i \in Idx : Taken(i) => ws.songs[i] = None
  BY DEF Listed
<1>5. \A i \in Listed(ws) : ~Taken(i)
  OBVIOUS
<1>6. /\ ws.songs \in [Idx -> SongUpsert \cup {None}]
      /\ ws.charts \in [Idx -> [Diff -> ChartRow \cup {None}]]
      /\ ws.we \in [Idx -> WorldsendRow \cup {None}]
  BY <1>1 DEF WorkspaceTypes
<1> HIDE DEF Taken
<1>7. s \in [Idx -> SongUpsert \cup {None}]
  BY <1>3, <1>6
<1>8. c \in [Idx -> [Diff -> ChartRow \cup {None}]]
  BY <1>3, <1>6, AddedChartTyped
<1>9. \A i \in Idx : s[i] = None => c[i] = NoCharts /\ ws.we[i] = None
  BY <1>3, RowsAreThere DEF WorkspaceSound
<1>10. \A i \in Idx : s[i] # None /\ s[i].we => ws.we[i] # None
  BY <1>3 DEF WorkspaceSound
<1>11. \A i \in Listed(ws) : s[i] # None
  BY <1>5 DEF Listed
<1>13. \A i \in Idx : s[i] # None => s[i].unlock \in Flag
  BY <1>3 DEF WorkspaceSound, Flag
<1> HIDE DEF s, c
<1>12. WorkspaceSound([songs |-> s, charts |-> c, we |-> ws.we])
  BY <1>6, <1>7, <1>8, <1>9, <1>10, <1>13, SoundWorkspace
<1> QED BY <1>2, <1>11, <1>12

\* Single charts are added to songs of the official list that lack them.
LEMMA WithChartsSound ==
  ASSUME NEW ws, WorkspaceSound(ws), NEW listed,
         \A i \in Idx : i \in listed => ws.songs[i] # None,
         NEW more \in [Idx -> [Diff -> AdditionalChart \cup {None}]]
  PROVE  /\ WorkspaceSound(WithCharts(ws, listed, more))
         /\ WithCharts(ws, listed, more).songs = ws.songs
<1> DEFINE Added(i, d) == i \in listed /\ ws.charts[i][d] = None /\ more[i][d] # None
           c == [i \in Idx |-> [d \in Diff |->
                   IF Added(i, d) THEN AddedChart(more[i][d]) ELSE ws.charts[i][d]]]
<1>1. ws \in WorkspaceTypes
  BY DEF WorkspaceSound
<1>2. WithCharts(ws, listed, more) = [songs |-> ws.songs, charts |-> c, we |-> ws.we]
  <2>1. WithCharts(ws, listed, more) = [ws EXCEPT !.charts = c]
    BY DEF WithCharts
  <2> HIDE DEF c
  <2> QED BY <1>1, <2>1, OtherTables
<1>3. /\ ws.songs \in [Idx -> SongUpsert \cup {None}]
      /\ ws.charts \in [Idx -> [Diff -> ChartRow \cup {None}]]
      /\ ws.we \in [Idx -> WorldsendRow \cup {None}]
  BY <1>1 DEF WorkspaceTypes
<1>4. \A i \in Idx, d \in Diff : Added(i, d) => AddedChart(more[i][d]) \in ChartRow
  BY AddedChartTyped
<1>5. \A i \in Idx : ws.songs[i] = None => \A d \in Diff : ~Added(i, d)
  OBVIOUS
<1> HIDE DEF Added
<1>6. c \in [Idx -> [Diff -> ChartRow \cup {None}]]
  BY <1>3, <1>4
<1>7. \A i \in Idx : ws.songs[i] = None => c[i] = NoCharts /\ ws.we[i] = None
  <2> SUFFICES ASSUME NEW i \in Idx, ws.songs[i] = None
               PROVE  c[i] = NoCharts /\ ws.we[i] = None
    OBVIOUS
  <2>1. ws.charts[i] = NoCharts /\ ws.we[i] = None
    BY DEF WorkspaceSound
  <2>2. c[i] = [d \in Diff |-> ws.charts[i][d]]
    BY <1>5
  <2> QED BY <2>1, <2>2 DEF NoCharts
<1>8. \A i \in Idx : ws.songs[i] # None /\ ws.songs[i].we => ws.we[i] # None
  BY DEF WorkspaceSound
<1>10. \A i \in Idx : ws.songs[i] # None => ws.songs[i].unlock \in Flag
  BY DEF WorkspaceSound
<1> HIDE DEF c
<1>9. WorkspaceSound([songs |-> ws.songs, charts |-> c, we |-> ws.we])
  BY <1>3, <1>6, <1>7, <1>8, <1>10, SoundWorkspace
<1> QED BY <1>2, <1>9

\* Songs of WORLD'S END are added with their chart where the official list has none.
LEMMA WithWorldsendSound ==
  ASSUME NEW ws, WorkspaceSound(ws), NEW listed,
         NEW more \in [Idx -> AdditionalWEChart \cup {None}]
  PROVE  WorkspaceSound(WithWorldsend(ws, listed, more))
<1> DEFINE Taken(i) == i \notin listed /\ more[i] # None /\ more[i].genreKnown
           s == [i \in Idx |-> IF Taken(i)
                   THEN AddedSong(more[i], None, TRUE, ws.songs[i]) ELSE ws.songs[i]]
           chart(i) == [star |-> more[i].star, attribute |-> more[i].attribute,
                        notes |-> more[i].notes, designer |-> None]
           w == [i \in Idx |-> IF ~Taken(i) THEN ws.we[i] ELSE chart(i)]
<1>1. ws \in WorkspaceTypes
  BY DEF WorkspaceSound
<1>2. WithWorldsend(ws, listed, more) = [songs |-> s, charts |-> ws.charts, we |-> w]
  <2>1. WithWorldsend(ws, listed, more) = [ws EXCEPT !.songs = s, !.we = w]
    BY DEF WithWorldsend
  <2> HIDE DEF s, w
  <2> QED BY <1>1, <2>1, OtherTables
<1>3. /\ ws.songs \in [Idx -> SongUpsert \cup {None}]
      /\ ws.charts \in [Idx -> [Diff -> ChartRow \cup {None}]]
      /\ ws.we \in [Idx -> WorldsendRow \cup {None}]
  BY <1>1 DEF WorkspaceTypes
<1>4. ASSUME NEW i \in Idx, Taken(i)
      PROVE  /\ AddedSong(more[i], None, TRUE, ws.songs[i]) \in SongUpsert
             /\ AddedSong(more[i], None, TRUE, ws.songs[i]).unlock = None
             /\ chart(i) \in WorldsendRow
  <2>1. more[i] \in AdditionalWEChart
    BY <1>4
  <2>2. /\ more[i].title \in Title /\ more[i].released \in ReleaseDate
        /\ more[i].star \in Number /\ more[i].attribute \in Text /\ more[i].notes \in Number
    BY <2>1 DEF AdditionalWEChart
  <2>3. /\ AddedSong(more[i], None, TRUE, ws.songs[i]) \in SongUpsert
        /\ AddedSong(more[i], None, TRUE, ws.songs[i]).unlock = None
    <3>1. None \in Number /\ ws.songs[i] \in SongUpsert \cup {None}
      BY <1>3 DEF Number
    <3>2. TRUE \in BOOLEAN
      OBVIOUS
    <3> QED BY <2>2, <3>1, <3>2, AddedTyped
  <2>4. chart(i) \in WorldsendRow
    BY <2>2 DEF WorldsendRow, Credit
  <2> QED BY <2>3, <2>4
<1> HIDE DEF Taken, chart
<1>5. s \in [Idx -> SongUpsert \cup {None}]
  BY <1>3, <1>4
<1>6. w \in [Idx -> WorldsendRow \cup {None}]
  BY <1>3, <1>4
<1>7. \A i \in Idx : s[i] = None => ws.charts[i] = NoCharts /\ w[i] = None
  BY <1>4, RowsAreThere DEF WorkspaceSound
<1>8. \A i \in Idx : s[i] # None /\ s[i].we => w[i] # None
  BY <1>4, RowsAreThere DEF WorkspaceSound
<1>10. \A i \in Idx : s[i] # None => s[i].unlock \in Flag
  BY <1>4 DEF WorkspaceSound, Flag
<1> HIDE DEF s, w
<1>9. WorkspaceSound([songs |-> s, charts |-> ws.charts, we |-> w])
  BY <1>3, <1>5, <1>6, <1>7, <1>8, <1>10, SoundWorkspace
<1> QED BY <1>2, <1>9

\* The additional songs and charts keep the workspace sound.
LEMMA AfterAdditionalSound ==
  ASSUME NEW ws, WorkspaceSound(ws),
         NEW additional \in
           [songs : [Idx -> AdditionalSong \cup {None}],
            charts : [Idx -> [Diff -> AdditionalChart \cup {None}]],
            we : [Idx -> AdditionalWEChart \cup {None}]]
  PROVE  WorkspaceSound(AfterAdditional(ws, additional))
<1> DEFINE songsIn == WithSongs(ws, Listed(ws), additional.songs)
           chartsIn == WithCharts(songsIn, Listed(ws), additional.charts)
<1>1. /\ additional.songs \in [Idx -> AdditionalSong \cup {None}]
      /\ additional.charts \in [Idx -> [Diff -> AdditionalChart \cup {None}]]
      /\ additional.we \in [Idx -> AdditionalWEChart \cup {None}]
  OBVIOUS
<1>2. WorkspaceSound(songsIn) /\ \A i \in Listed(ws) : songsIn.songs[i] # None
  BY <1>1, WithSongsSound
<1>3. AfterAdditional(ws, additional) = WithWorldsend(chartsIn, Listed(ws), additional.we)
  BY DEF AfterAdditional
<1> HIDE DEF songsIn
<1>4. WorkspaceSound(chartsIn)
  BY <1>1, <1>2, WithChartsSound
<1> HIDE DEF chartsIn
<1>5. WorkspaceSound(WithWorldsend(chartsIn, Listed(ws), additional.we))
  BY <1>1, <1>4, WithWorldsendSound
<1> QED BY <1>3, <1>5

\* A BPM completes a row of the workspace.
LEMMA WithBPMTyped ==
  ASSUME NEW song \in SongUpsert, NEW bpm \in Number
  PROVE  /\ WithBPM(song, bpm) \in SongUpsert
         /\ WithBPM(song, bpm).we = song.we /\ WithBPM(song, bpm).unlock = song.unlock
BY DEF WithBPM, SongUpsert

\* Completing a chart keeps its type.
LEMMA CompletedTyped ==
  ASSUME NEW chart \in ChartRow, NEW row \in St1027Song, NEW d \in Diff
  PROVE  Completed(chart, row, d) \in ChartRow
<1>1. row.notes[d] \in Number /\ row.designer[d] \in Credit
  BY DEF St1027Song
<1>2. chart.notes \in Number /\ chart.designer \in Credit
  BY DEF ChartRow
<1> DEFINE n == IF Missing(chart.notes) /\ ~Missing(row.notes[d]) THEN row.notes[d] ELSE chart.notes
           g == IF chart.designer = None THEN row.designer[d] ELSE chart.designer
<1>3. n \in Number /\ g \in Credit
  BY <1>1, <1>2
<1>4. Completed(chart, row, d) = [chart EXCEPT !.notes = n, !.designer = g]
  BY DEF Completed
<1> HIDE DEF n, g
<1> QED BY <1>3, <1>4 DEF ChartRow

\* The flags of st1027 are of the type of the column, or the batch fails.
LEMMA AfterSt1027Sound ==
  ASSUME NEW ws, WorkspaceSound(ws), NEW st1027 \in [Idx -> St1027Song \cup {None}],
         FlagsValid(AfterSt1027(ws, st1027), st1027)
  PROVE  WorkspaceSound(AfterSt1027(ws, st1027))
<1> DEFINE Has(i) == ws.songs[i] # None /\ st1027[i] # None
           song(i) == WithUnlock(WithBPM(ws.songs[i], st1027[i].bpm), st1027[i].unlock)
           s == [i \in Idx |-> IF ~Has(i) THEN ws.songs[i] ELSE song(i)]
           c == [i \in Idx |-> [d \in Diff |->
                   IF Has(i) /\ ws.charts[i][d] # None
                   THEN Completed(ws.charts[i][d], st1027[i], d) ELSE ws.charts[i][d]]]
<1>1. ws \in WorkspaceTypes
  BY DEF WorkspaceSound
<1>2. AfterSt1027(ws, st1027) = [songs |-> s, charts |-> c, we |-> ws.we]
  <2>1. AfterSt1027(ws, st1027) = [ws EXCEPT !.songs = s, !.charts = c]
    BY DEF AfterSt1027
  <2> HIDE DEF s, c
  <2> QED BY <1>1, <2>1, OtherTables
<1>3. /\ ws.songs \in [Idx -> SongUpsert \cup {None}]
      /\ ws.charts \in [Idx -> [Diff -> ChartRow \cup {None}]]
      /\ ws.we \in [Idx -> WorldsendRow \cup {None}]
  BY <1>1 DEF WorkspaceTypes
<1>4. ASSUME NEW i \in Idx, Has(i)
      PROVE  /\ song(i) \in SongUpsert /\ song(i).we = ws.songs[i].we
             /\ song(i).unlock = Coalesce(st1027[i].unlock, ws.songs[i].unlock)
             /\ st1027[i] \in St1027Song
  <2>1. ws.songs[i] \in SongUpsert /\ st1027[i] \in St1027Song
    BY <1>3, <1>4
  <2>2. st1027[i].bpm \in Number /\ st1027[i].unlock \in Number
    BY <2>1 DEF St1027Song
  <2> DEFINE b == WithBPM(ws.songs[i], st1027[i].bpm)
             u == Coalesce(st1027[i].unlock, b.unlock)
  <2>3. b \in SongUpsert /\ b.we = ws.songs[i].we /\ b.unlock = ws.songs[i].unlock
    BY <2>1, <2>2, WithBPMTyped
  <2>4. u \in Number
    BY <2>2, <2>3 DEF Coalesce, SongUpsert
  <2>5. song(i) = [b EXCEPT !.unlock = u]
    BY DEF WithUnlock
  <2> HIDE DEF b, song
  <2>6. song(i) \in SongUpsert /\ song(i).we = b.we /\ song(i).unlock = u
    <3> HIDE DEF u
    <3> QED BY <2>3, <2>4, <2>5 DEF SongUpsert
  <2> QED BY <2>1, <2>3, <2>6
<1>5. \A i \in Idx, d \in Diff : Has(i) /\ ws.charts[i][d] # None =>
        Completed(ws.charts[i][d], st1027[i], d) \in ChartRow
  BY <1>3, <1>4, CompletedTyped
<1> HIDE DEF song
<1>6. s \in [Idx -> SongUpsert \cup {None}]
  BY <1>3, <1>4
<1>7. c \in [Idx -> [Diff -> ChartRow \cup {None}]]
  <2> HIDE DEF Has
  <2> QED BY <1>3, <1>5
<1>8. \A i \in Idx : s[i] = None => c[i] = NoCharts /\ ws.we[i] = None
  <2> SUFFICES ASSUME NEW i \in Idx, s[i] = None
               PROVE  c[i] = NoCharts /\ ws.we[i] = None
    OBVIOUS
  <2>1. ~Has(i) /\ ws.songs[i] = None
    BY <1>4, RowsAreThere
  <2>2. ws.charts[i] = NoCharts /\ ws.we[i] = None
    BY <2>1 DEF WorkspaceSound
  <2>3. c[i] = [d \in Diff |-> ws.charts[i][d]]
    BY <2>1
  <2> QED BY <2>2, <2>3 DEF NoCharts
<1>9. \A i \in Idx : s[i] # None /\ s[i].we => ws.we[i] # None
  BY <1>4 DEF WorkspaceSound
<1>10. \A i \in Idx : s[i] # None => s[i].unlock \in Flag
  <2> SUFFICES ASSUME NEW i \in Idx, s[i] # None
               PROVE  s[i].unlock \in Flag
    OBVIOUS
  <2>1. CASE ~Has(i)
    BY <2>1 DEF WorkspaceSound
  <2>2. CASE Has(i)
    <3>1. i \in Listed(AfterSt1027(ws, st1027))
      BY <1>2 DEF Listed
    <3>2. st1027[i].unlock \in Flag
      BY <2>2, <3>1 DEF FlagsValid, Flag
    <3>3. ws.songs[i].unlock \in Flag
      BY <2>2 DEF WorkspaceSound
    <3> QED BY <1>4, <2>2, <3>2, <3>3 DEF Coalesce
  <2> QED BY <2>1, <2>2
<1> HIDE DEF s, c
<1>11. WorkspaceSound([songs |-> s, charts |-> c, we |-> ws.we])
  BY <1>3, <1>6, <1>7, <1>8, <1>9, <1>10, SoundWorkspace
<1> QED BY <1>2, <1>11

\* Constants of mainframe are numbers, of charts that the workspace has.
LEMMA AfterMainframeSound ==
  ASSUME NEW ws, WorkspaceSound(ws), NEW mainframe \in [Title -> [Diff -> Number]]
  PROVE  WorkspaceSound(AfterMainframe(ws, mainframe))
<1> DEFINE const(i, d) == MainframeConst(ws, mainframe, i, d)
           Given1(i, d) == ws.songs[i] # None /\ const(i, d) # None
           chart(i, d) == [ws.charts[i][d] EXCEPT !.const = const(i, d), !.unknown = FALSE]
           c == [i \in Idx |-> [d \in Diff |->
                   IF Given1(i, d) THEN chart(i, d) ELSE ws.charts[i][d]]]
<1>1. ws \in WorkspaceTypes
  BY DEF WorkspaceSound
<1>2. AfterMainframe(ws, mainframe) = [songs |-> ws.songs, charts |-> c, we |-> ws.we]
  <2>1. AfterMainframe(ws, mainframe) = [ws EXCEPT !.charts = c]
    BY DEF AfterMainframe
  <2> HIDE DEF c
  <2> QED BY <1>1, <2>1, OtherTables
<1>3. /\ ws.songs \in [Idx -> SongUpsert \cup {None}]
      /\ ws.charts \in [Idx -> [Diff -> ChartRow \cup {None}]]
      /\ ws.we \in [Idx -> WorldsendRow \cup {None}]
  BY <1>1 DEF WorkspaceTypes
<1>4. ASSUME NEW i \in Idx, NEW d \in Diff, Given1(i, d)
      PROVE  chart(i, d) \in ChartRow
  <2>1. ws.songs[i] \in SongUpsert /\ const(i, d) # None
    BY <1>3, <1>4
  <2>2. ws.charts[i][d] # None
    BY <2>1 DEF MainframeConst
  <2>3. ws.charts[i][d] \in ChartRow
    BY <1>3, <2>2
  <2>4. ws.songs[i].title \in Title
    BY <2>1 DEF SongUpsert
  <2>5. const(i, d) = mainframe[ws.songs[i].title][d]
    BY <2>2 DEF MainframeConst
  <2>6. const(i, d) \in Int
    BY <2>1, <2>4, <2>5 DEF Number
  <2> HIDE DEF const
  <2> QED BY <2>3, <2>6 DEF ChartRow
<1>5. \A i \in Idx : ws.songs[i] = None => \A d \in Diff : ~Given1(i, d)
  OBVIOUS
<1> HIDE DEF Given1, chart
<1>6. c \in [Idx -> [Diff -> ChartRow \cup {None}]]
  BY <1>3, <1>4
<1>7. \A i \in Idx : ws.songs[i] = None => c[i] = NoCharts /\ ws.we[i] = None
  <2> SUFFICES ASSUME NEW i \in Idx, ws.songs[i] = None
               PROVE  c[i] = NoCharts /\ ws.we[i] = None
    OBVIOUS
  <2>1. ws.charts[i] = NoCharts /\ ws.we[i] = None
    BY DEF WorkspaceSound
  <2>2. c[i] = [d \in Diff |-> ws.charts[i][d]]
    BY <1>5
  <2> QED BY <2>1, <2>2 DEF NoCharts
<1>8. /\ \A i \in Idx : ws.songs[i] # None /\ ws.songs[i].we => ws.we[i] # None
      /\ \A i \in Idx : ws.songs[i] # None => ws.songs[i].unlock \in Flag
  BY DEF WorkspaceSound
<1> HIDE DEF c
<1>9. WorkspaceSound([songs |-> ws.songs, charts |-> c, we |-> ws.we])
  BY <1>3, <1>6, <1>7, <1>8, SoundWorkspace
<1> QED BY <1>2, <1>9

\* A wiki title completes a song.
LEMMA WithWikiTyped ==
  ASSUME NEW song \in SongUpsert, NEW row \in OtogeDbSong
  PROVE  /\ WithWiki(song, row) \in SongUpsert
         /\ WithWiki(song, row).we = song.we /\ WithWiki(song, row).unlock = song.unlock
<1> DEFINE w == Coalesce(song.wiki, row.wiki)
           r == Coalesce(song.released, row.released)
<1>1. w \in Text /\ r \in ReleaseDate
  BY DEF Coalesce, SongUpsert, OtogeDbSong
<1>2. WithWiki(song, row) = [song EXCEPT !.wiki = w, !.released = r]
  BY DEF WithWiki
<1> HIDE DEF w, r
<1> QED BY <1>1, <1>2 DEF SongUpsert

\* Notes and a designer complete a chart of WORLD'S END.
LEMMA CompletedWorldsendTyped ==
  ASSUME NEW chart \in WorldsendRow, NEW row \in OtogeDbSong
  PROVE  CompletedWorldsend(chart, row) \in WorldsendRow
<1> DEFINE n == Filled(chart.notes, row.notes)
           g == Coalesce(chart.designer, row.designer)
<1>1. n \in Number /\ g \in Credit
  BY DEF Coalesce, Filled, WorldsendRow, OtogeDbSong
<1>2. CompletedWorldsend(chart, row) = [chart EXCEPT !.notes = n, !.designer = g]
  BY DEF CompletedWorldsend
<1> HIDE DEF n, g
<1> QED BY <1>1, <1>2 DEF WorldsendRow

\* The last source keeps the workspace sound.
LEMMA AfterOtogeDbSound ==
  ASSUME NEW ws, WorkspaceSound(ws), NEW otoge \in [Idx -> OtogeDbSong \cup {None}]
  PROVE  WorkspaceSound(AfterOtogeDb(ws, otoge))
<1> DEFINE Has(i) == ws.songs[i] # None /\ otoge[i] # None
           bpm(i) == IF otoge[i].we THEN otoge[i].bpm ELSE None
           song(i) == WithWiki(WithBPM(ws.songs[i], bpm(i)), otoge[i])
           s == [i \in Idx |-> IF ~Has(i) THEN ws.songs[i] ELSE song(i)]
           w == [i \in Idx |-> IF ~Has(i) \/ ws.we[i] = None THEN ws.we[i]
                               ELSE CompletedWorldsend(ws.we[i], otoge[i])]
<1>1. ws \in WorkspaceTypes
  BY DEF WorkspaceSound
<1>2. AfterOtogeDb(ws, otoge) = [songs |-> s, charts |-> ws.charts, we |-> w]
  <2>1. AfterOtogeDb(ws, otoge) = [ws EXCEPT !.songs = s, !.we = w]
    BY DEF AfterOtogeDb
  <2> HIDE DEF s, w
  <2> QED BY <1>1, <2>1, OtherTables
<1>3. /\ ws.songs \in [Idx -> SongUpsert \cup {None}]
      /\ ws.charts \in [Idx -> [Diff -> ChartRow \cup {None}]]
      /\ ws.we \in [Idx -> WorldsendRow \cup {None}]
  BY <1>1 DEF WorkspaceTypes
<1>4. ASSUME NEW i \in Idx, Has(i)
      PROVE  /\ song(i) \in SongUpsert /\ song(i).we = ws.songs[i].we
             /\ song(i).unlock = ws.songs[i].unlock /\ otoge[i] \in OtogeDbSong
  <2>1. ws.songs[i] \in SongUpsert /\ otoge[i] \in OtogeDbSong
    BY <1>3, <1>4
  <2>2. bpm(i) \in Number
    BY <2>1 DEF OtogeDbSong, Number
  <2> HIDE DEF bpm
  <2> DEFINE b == WithBPM(ws.songs[i], bpm(i))
  <2>3. b \in SongUpsert /\ b.we = ws.songs[i].we /\ b.unlock = ws.songs[i].unlock
    BY <2>1, <2>2, WithBPMTyped
  <2>4. song(i) = WithWiki(b, otoge[i])
    OBVIOUS
  <2> HIDE DEF b, song
  <2> QED BY <2>1, <2>3, <2>4, WithWikiTyped
<1>5. \A i \in Idx : Has(i) /\ ws.we[i] # None =>
        CompletedWorldsend(ws.we[i], otoge[i]) \in WorldsendRow
  BY <1>3, <1>4, CompletedWorldsendTyped
<1> HIDE DEF song
<1>6. s \in [Idx -> SongUpsert \cup {None}]
  BY <1>3, <1>4
<1>7. w \in [Idx -> WorldsendRow \cup {None}]
  <2> HIDE DEF Has
  <2> QED BY <1>3, <1>5
<1>8. \A i \in Idx : s[i] = None => ws.charts[i] = NoCharts /\ w[i] = None
  BY <1>4, RowsAreThere DEF WorkspaceSound
<1>9. \A i \in Idx : s[i] # None /\ s[i].we => w[i] # None
  BY <1>4, <1>5, RowsAreThere DEF WorkspaceSound
<1>10. \A i \in Idx : s[i] # None => s[i].unlock \in Flag
  BY <1>4 DEF WorkspaceSound
<1> HIDE DEF s, w
<1>11. WorkspaceSound([songs |-> s, charts |-> ws.charts, we |-> w])
  BY <1>3, <1>6, <1>7, <1>8, <1>9, <1>10, SoundWorkspace
<1> QED BY <1>2, <1>11

\* Whatever the importers return, the workspace of a batch that goes on is sound.
LEMMA WorkspaceIsSound ==
  ASSUME NEW feed \in Feeds, NEW mode \in Mode, NEW rows,
         AllPresent(feed, mode), Builds(feed, mode, rows)
  PROVE  WorkspaceSound(Workspace(feed, mode))
<1>1. /\ feed.official # None /\ feed.additional # None
      /\ mode = "normal" => feed.mainframe # None
  BY DEF AllPresent, RequiredSources
<1>2. /\ feed.official \in [Idx -> OfficialRow \cup {None}]
      /\ feed.additional \in
           [songs : [Idx -> AdditionalSong \cup {None}],
            charts : [Idx -> [Diff -> AdditionalChart \cup {None}]],
            we : [Idx -> AdditionalWEChart \cup {None}]]
      /\ feed.st1027 # None => feed.st1027 \in [Idx -> St1027Song \cup {None}]
      /\ mode = "normal" => feed.mainframe \in [Title -> [Diff -> Number]]
      /\ feed.otoge # None => feed.otoge \in [Idx -> OtogeDbSong \cup {None}]
  BY <1>1 DEF Feeds
<1> DEFINE listed == AfterAdditional(AfterOfficial(feed.official), feed.additional)
           before == BeforeMainframe(feed, mode)
           after == AfterMainframe(before, feed.mainframe)
<1>3. WorkspaceSound(listed)
  BY <1>2, AfterOfficialSound, AfterAdditionalSound
<1>4. before = IF mode = "major" \/ feed.st1027 = None THEN listed
               ELSE AfterSt1027(listed, feed.st1027)
  BY DEF BeforeMainframe
<1>5. mode # "major" => mode = "normal"
  BY DEF Mode
<1>6. mode = "normal" /\ feed.st1027 # None => FlagsValid(before, feed.st1027)
  BY DEF Builds
<1> HIDE DEF listed, before
<1>7. WorkspaceSound(before)
  BY <1>2, <1>3, <1>4, <1>5, <1>6, AfterSt1027Sound
<1>8. mode = "normal" => WorkspaceSound(after)
  BY <1>2, <1>7, AfterMainframeSound
<1>9. Workspace(feed, mode) =
        IF mode = "major" THEN before
        ELSE IF feed.otoge = None THEN after ELSE AfterOtogeDb(after, feed.otoge)
  BY DEF Workspace, before
<1> HIDE DEF after
<1> QED BY <1>2, <1>5, <1>7, <1>8, <1>9, AfterOtogeDbSound

-----------------------------------------------------------------------------
(* What is written to MySQL *)

\* The row of an updated song, field by field.
LEMMA UpdatedSongIs ==
  ASSUME NEW old \in SongRow, NEW new \in SongUpsert
  PROVE  UpdatedSong(old, new) =
           [title |-> new.title, isNew |-> new.isNew, we |-> new.we,
            bpm |-> Coalesce(new.bpm, old.bpm),
            released |-> Coalesce(old.released, new.released),
            wiki |-> Coalesce(old.wiki, new.wiki),
            unlock |-> IF old.unlock = 1 THEN Coalesce(new.unlock, old.unlock) ELSE old.unlock,
            deleted |-> old.deleted]
<1>1. UpdatedSong(old, new) =
        [old EXCEPT !.title = new.title, !.isNew = new.isNew, !.we = new.we,
                    !.bpm = Coalesce(new.bpm, old.bpm),
                    !.released = Coalesce(old.released, new.released),
                    !.wiki = Coalesce(old.wiki, new.wiki),
                    !.unlock = IF old.unlock = 1 THEN Coalesce(new.unlock, old.unlock)
                               ELSE old.unlock]
  BY DEF UpdatedSong, SongRow
<1> DEFINE b == Coalesce(new.bpm, old.bpm)
           r == Coalesce(old.released, new.released)
           w == Coalesce(old.wiki, new.wiki)
           u == IF old.unlock = 1 THEN Coalesce(new.unlock, old.unlock) ELSE old.unlock
<1> HIDE DEF b, r, w, u
<1>2. ASSUME NEW t, NEW n, NEW k
      PROVE  [old EXCEPT !.title = t, !.isNew = n, !.we = k, !.bpm = b, !.released = r,
                         !.wiki = w, !.unlock = u]
               = [title |-> t, isNew |-> n, we |-> k, bpm |-> b, released |-> r, wiki |-> w,
                  unlock |-> u, deleted |-> old.deleted]
  <2>1. [old EXCEPT !.title = t, !.isNew = n, !.we = k, !.bpm = b, !.released = r,
                    !.wiki = w, !.unlock = u]
          = [old EXCEPT !["title"] = t, !["isNew"] = n, !["we"] = k, !["bpm"] = b,
                        !["released"] = r, !["wiki"] = w, !["unlock"] = u]
    OBVIOUS
  <2>2. PICK ti, isn, wo, bp, re, wi, un, de :
          old = [title |-> ti, isNew |-> isn, we |-> wo, bpm |-> bp, released |-> re,
                 wiki |-> wi, unlock |-> un, deleted |-> de]
    BY DEF SongRow
  <2>3. [[title |-> ti, isNew |-> isn, we |-> wo, bpm |-> bp, released |-> re, wiki |-> wi,
          unlock |-> un, deleted |-> de]
           EXCEPT !["title"] = t, !["isNew"] = n, !["we"] = k, !["bpm"] = b,
                  !["released"] = r, !["wiki"] = w, !["unlock"] = u]
          = [title |-> t, isNew |-> n, we |-> k, bpm |-> b, released |-> r, wiki |-> w,
             unlock |-> u, deleted |-> de]
    OBVIOUS
  <2>4. old.deleted = de
    BY <2>2
  <2> QED BY <2>1, <2>2, <2>3, <2>4, Zenon
<1> QED BY <1>1, <1>2, Zenon DEF b, r, w, u

\* A song that is updated from a workspace is a row of the table.
LEMMA UpdatedSongTyped ==
  ASSUME NEW old \in SongRow, NEW new \in SongUpsert, new.unlock \in Flag
  PROVE  UpdatedSong(old, new) \in SongRow
<1> DEFINE b == Coalesce(new.bpm, old.bpm)
           r == Coalesce(old.released, new.released)
           w == Coalesce(old.wiki, new.wiki)
           u == IF old.unlock = 1 THEN Coalesce(new.unlock, old.unlock) ELSE old.unlock
<1>1. b \in Number /\ r \in ReleaseDate /\ w \in Text
  BY DEF SongRow, SongUpsert, Coalesce
<1>2. u \in {0, 1}
  BY DEF SongRow, Coalesce, Flag
<1>3. /\ new.title \in Title /\ new.isNew \in BOOLEAN /\ new.we \in BOOLEAN
      /\ old.deleted \in BOOLEAN
  BY DEF SongRow, SongUpsert
<1>4. UpdatedSong(old, new) =
        [title |-> new.title, isNew |-> new.isNew, we |-> new.we, bpm |-> b, released |-> r,
         wiki |-> w, unlock |-> u, deleted |-> old.deleted]
  BY UpdatedSongIs
<1> HIDE DEF b, r, w, u
<1> QED BY <1>1, <1>2, <1>3, <1>4 DEF SongRow

\* And so is one that is inserted.
LEMMA InsertedSongTyped ==
  ASSUME NEW new \in SongUpsert, new.unlock \in Flag, NEW today \in ReleaseDate
  PROVE  InsertedSong(new, today) \in SongRow
<1> DEFINE r == Coalesce(new.released, today)
           u == Coalesce(new.unlock, 0)
<1>1. r \in ReleaseDate /\ u \in {0, 1}
  BY DEF SongUpsert, Coalesce, Flag
<1>2. /\ new.title \in Title /\ new.isNew \in BOOLEAN /\ new.we \in BOOLEAN
      /\ new.bpm \in Number /\ new.wiki \in Text
  BY DEF SongUpsert
<1>3. InsertedSong(new, today) =
        [title |-> new.title, isNew |-> new.isNew, we |-> new.we, bpm |-> new.bpm,
         released |-> r, wiki |-> new.wiki, unlock |-> u, deleted |-> FALSE]
  BY DEF InsertedSong
<1> HIDE DEF r, u
<1> QED BY <1>1, <1>2, <1>3 DEF SongRow

\* To update a song again from the same row changes nothing.
LEMMA UpdatedSongAgain ==
  ASSUME NEW old \in SongRow, NEW new \in SongUpsert, new.unlock \in Flag
  PROVE  UpdatedSong(UpdatedSong(old, new), new) = UpdatedSong(old, new)
<1> DEFINE one == UpdatedSong(old, new)
           b == Coalesce(new.bpm, old.bpm)
           r == Coalesce(old.released, new.released)
           w == Coalesce(old.wiki, new.wiki)
           u == IF old.unlock = 1 THEN Coalesce(new.unlock, old.unlock) ELSE old.unlock
<1>1. /\ one \in SongRow
      /\ one = [title |-> new.title, isNew |-> new.isNew, we |-> new.we, bpm |-> b,
                released |-> r, wiki |-> w, unlock |-> u, deleted |-> old.deleted]
  BY UpdatedSongTyped, UpdatedSongIs
<1>2. /\ Coalesce(new.bpm, b) = b /\ Coalesce(r, new.released) = r
      /\ Coalesce(w, new.wiki) = w
      /\ (IF u = 1 THEN Coalesce(new.unlock, u) ELSE u) = u
  BY DEF Coalesce
<1> HIDE DEF one, b, r, w, u
<1>3. /\ one.bpm = b /\ one.released = r /\ one.wiki = w /\ one.unlock = u
      /\ one.deleted = old.deleted
  BY <1>1
<1>4. UpdatedSong(one, new) =
        [title |-> new.title, isNew |-> new.isNew, we |-> new.we,
         bpm |-> Coalesce(new.bpm, b), released |-> Coalesce(r, new.released),
         wiki |-> Coalesce(w, new.wiki),
         unlock |-> IF u = 1 THEN Coalesce(new.unlock, u) ELSE u, deleted |-> old.deleted]
  BY <1>1, <1>3, UpdatedSongIs
<1>5. UpdatedSong(one, new) = one
  BY <1>1, <1>2, <1>4
<1> QED BY <1>5 DEF one

\* Nor does it change a song that was inserted from it.
LEMMA InsertedSongAgain ==
  ASSUME NEW new \in SongUpsert, new.unlock \in Flag, NEW today \in ReleaseDate
  PROVE  UpdatedSong(InsertedSong(new, today), new) = InsertedSong(new, today)
<1> DEFINE one == InsertedSong(new, today)
           r == Coalesce(new.released, today)
           u == Coalesce(new.unlock, 0)
<1>1. /\ one \in SongRow
      /\ one = [title |-> new.title, isNew |-> new.isNew, we |-> new.we, bpm |-> new.bpm,
                released |-> r, wiki |-> new.wiki, unlock |-> u, deleted |-> FALSE]
  BY InsertedSongTyped DEF InsertedSong
<1>2. /\ Coalesce(new.bpm, new.bpm) = new.bpm /\ Coalesce(r, new.released) = r
      /\ Coalesce(new.wiki, new.wiki) = new.wiki
      /\ (IF u = 1 THEN Coalesce(new.unlock, u) ELSE u) = u
  BY DEF Coalesce
<1> HIDE DEF one, r, u
<1>3. /\ one.bpm = new.bpm /\ one.released = r /\ one.wiki = new.wiki /\ one.unlock = u
      /\ one.deleted = FALSE
  BY <1>1
<1>4. UpdatedSong(one, new) =
        [title |-> new.title, isNew |-> new.isNew, we |-> new.we,
         bpm |-> Coalesce(new.bpm, new.bpm), released |-> Coalesce(r, new.released),
         wiki |-> Coalesce(new.wiki, new.wiki),
         unlock |-> IF u = 1 THEN Coalesce(new.unlock, u) ELSE u, deleted |-> FALSE]
  BY <1>1, <1>3, UpdatedSongIs
<1>5. UpdatedSong(one, new) = one
  BY <1>1, <1>2, <1>4
<1> QED BY <1>5 DEF one

\* A constant that is resolved is a constant.
LEMMA ResolvedConstTyped ==
  ASSUME NEW old \in ChartRow, NEW new \in ChartRow, NEW mode
  PROVE  /\ ResolvedConst(old, new, mode).const \in Int
         /\ ResolvedConst(old, new, mode).unknown \in BOOLEAN
<1>1. /\ old.const \in Int /\ new.const \in Int
      /\ old.unknown \in BOOLEAN /\ new.unknown \in BOOLEAN
  BY DEF ChartRow
<1> QED BY <1>1 DEF ResolvedConst, MajorConst, NormalConst

\* A chart that is updated is a row of the table.
LEMMA UpdatedChartTyped ==
  ASSUME NEW old \in ChartRow, NEW new \in ChartRow, NEW mode
  PROVE  UpdatedChart(old, new, mode) \in ChartRow
<1> DEFINE k == ResolvedConst(old, new, mode).const
           u == ResolvedConst(old, new, mode).unknown
           n == Coalesce(new.notes, old.notes)
           g == Coalesce(old.designer, new.designer)
<1>1. k \in Int /\ u \in BOOLEAN
  BY ResolvedConstTyped
<1>2. n \in Number /\ g \in Credit
  BY DEF ChartRow, Coalesce
<1>3. UpdatedChart(old, new, mode) = [const |-> k, unknown |-> u, notes |-> n, designer |-> g]
  BY DEF UpdatedChart
<1> HIDE DEF k, u, n, g
<1> QED BY <1>1, <1>2, <1>3 DEF ChartRow

\* And so is one that is inserted.
LEMMA InsertedChartTyped ==
  ASSUME NEW new \in ChartRow, NEW mode
  PROVE  InsertedChart(new, mode) \in ChartRow
<1> DEFINE u == new.const >= FineFrom
<1>1. u \in BOOLEAN
  OBVIOUS
<1>2. InsertedChart(new, mode) = IF mode = "major" THEN [new EXCEPT !.unknown = u] ELSE new
  BY DEF InsertedChart
<1> HIDE DEF u
<1>3. [new EXCEPT !.unknown = u] \in ChartRow
  BY <1>1 DEF ChartRow
<1> QED BY <1>2, <1>3

\* A chart of WORLD'S END that is updated is a row of the table.
LEMMA UpdatedWorldsendTyped ==
  ASSUME NEW old \in WorldsendRow, NEW new \in WorldsendRow
  PROVE  UpdatedWorldsend(old, new) \in WorldsendRow
<1> DEFINE s == Coalesce(new.star, old.star)
           a == Coalesce(new.attribute, old.attribute)
           n == Coalesce(new.notes, old.notes)
           g == Coalesce(old.designer, new.designer)
<1>1. s \in Number /\ a \in Text /\ n \in Number /\ g \in Credit
  BY DEF WorldsendRow, Coalesce
<1>2. UpdatedWorldsend(old, new) = [star |-> s, attribute |-> a, notes |-> n, designer |-> g]
  BY DEF UpdatedWorldsend
<1> HIDE DEF s, a, n, g
<1> QED BY <1>1, <1>2 DEF WorldsendRow

\* A chart that was updated from a row is not changed by the same row again.
LEMMA UpdatedChartStays ==
  ASSUME NEW old \in ChartRow, NEW new \in ChartRow, NEW mode \in Mode
  PROVE  ~ChartChanges(UpdatedChart(old, new, mode), new, mode)
<1> DEFINE k == ResolvedConst(old, new, mode).const
           u == ResolvedConst(old, new, mode).unknown
           n == Coalesce(new.notes, old.notes)
           g == Coalesce(old.designer, new.designer)
           one == UpdatedChart(old, new, mode)
<1>1. one = [const |-> k, unknown |-> u, notes |-> n, designer |-> g]
  BY DEF UpdatedChart
<1>2. k \in Int /\ u \in BOOLEAN
  BY ResolvedConstTyped
<1>3. /\ (new.notes # None => n # None)
      /\ (new.designer # None => g # None)
  BY DEF Coalesce
<1>4. /\ old.const \in Int /\ new.const \in Int
      /\ old.unknown \in BOOLEAN /\ new.unknown \in BOOLEAN
  BY DEF ChartRow
<1>5. CASE mode = "major"
  <2>1. /\ k = MajorConst(old, new).const /\ u = MajorConst(old, new).unknown
    BY <1>5 DEF ResolvedConst
  <2>2. MajorConst(one, new).const = k /\ MajorConst(one, new).unknown = u
    <3>1. one.const = k /\ one.unknown = u
      BY <1>1
    <3> HIDE DEF k, u, one
    <3>2. CASE new.const < FineFrom
      BY <1>2, <1>4, <2>1, <3>1, <3>2 DEF MajorConst
    <3>3. CASE ~(new.const < FineFrom)
      BY <1>2, <1>4, <2>1, <3>1, <3>3 DEF MajorConst, FineFrom, Band
    <3> QED BY <3>2, <3>3
  <2>3. ResolvedConst(one, new, mode) = MajorConst(one, new)
    BY <1>5 DEF ResolvedConst
  <2> HIDE DEF k, u, n, g, one
  <2>4. one.const = k /\ one.unknown = u /\ one.notes = n /\ one.designer = g
    BY <1>1
  <2> QED BY <1>3, <2>2, <2>3, <2>4 DEF ChartChanges, HasNews, one
<1>6. CASE mode # "major"
  <2>1. /\ k = NormalConst(old, new).const /\ u = NormalConst(old, new).unknown
    BY <1>6 DEF ResolvedConst
  <2>2. NormalConst(one, new).const = k /\ NormalConst(one, new).unknown = u
    <3>1. one.const = k /\ one.unknown = u
      BY <1>1
    <3> HIDE DEF k, u, one
    <3>2. CASE old.unknown /\ ~new.unknown
      BY <1>2, <1>4, <2>1, <3>1, <3>2 DEF NormalConst
    <3>3. CASE ~(old.unknown /\ ~new.unknown)
      BY <1>2, <1>4, <2>1, <3>1, <3>3 DEF NormalConst
    <3> QED BY <3>2, <3>3
  <2>3. ResolvedConst(one, new, mode) = NormalConst(one, new)
    BY <1>6 DEF ResolvedConst
  <2> HIDE DEF k, u, n, g, one
  <2>4. one.const = k /\ one.unknown = u /\ one.notes = n /\ one.designer = g
    BY <1>1
  <2> QED BY <1>3, <2>2, <2>3, <2>4 DEF ChartChanges, HasNews, one
<1> QED BY <1>5, <1>6

\* Nor is a chart that was inserted from it.
LEMMA InsertedChartStays ==
  ASSUME NEW new \in ChartRow, NEW mode \in Mode
  PROVE  ~ChartChanges(InsertedChart(new, mode), new, mode)
<1> DEFINE one == InsertedChart(new, mode)
<1>1. new.const \in Int /\ new.unknown \in BOOLEAN
  BY DEF ChartRow
<1>2. /\ one.const = new.const /\ one.notes = new.notes /\ one.designer = new.designer
      /\ mode = "major" => one.unknown = (new.const >= FineFrom)
      /\ mode # "major" => one.unknown = new.unknown
  BY DEF InsertedChart, ChartRow
<1> HIDE DEF one
<1>3. /\ ResolvedConst(one, new, mode).const = one.const
      /\ ResolvedConst(one, new, mode).unknown = one.unknown
  <2>1. CASE mode = "major"
    <3>3. ResolvedConst(one, new, mode) = MajorConst(one, new)
      BY <2>1 DEF ResolvedConst
    <3>4. one.unknown = (new.const >= FineFrom)
      BY <1>2, <2>1
    <3>5. one.const = new.const
      BY <1>2
    <3>1. CASE new.const < FineFrom
      <4>1. (new.const >= FineFrom) = FALSE
        BY <1>1, <3>1 DEF FineFrom
      <4>2. one.unknown = FALSE
        BY <3>4, <4>1, Zenon
      <4>3. MajorConst(one, new) = [const |-> new.const, unknown |-> FALSE]
        BY <3>1 DEF MajorConst
      <4>4. MajorConst(one, new).const = one.const
        BY <3>5, <4>3
      <4>5. MajorConst(one, new).unknown = FALSE
        BY <4>3
      <4> QED BY <3>3, <4>2, <4>4, <4>5, Zenon
    <3>2. CASE ~(new.const < FineFrom)
      <4>1. (new.const >= FineFrom) = TRUE
        BY <1>1, <3>2 DEF FineFrom
      <4>2. one.unknown = TRUE
        BY <3>4, <4>1, Zenon
      <4>3. MajorConst(one, new) = [const |-> new.const, unknown |-> TRUE]
        <5> HIDE DEF one
        <5> QED BY <1>1, <3>2, <3>5 DEF MajorConst, Band
      <4>4. MajorConst(one, new).const = one.const
        BY <3>5, <4>3
      <4>5. MajorConst(one, new).unknown = TRUE
        BY <4>3
      <4> QED BY <3>3, <4>2, <4>4, <4>5, Zenon
    <3> QED BY <3>1, <3>2
  <2>2. CASE mode # "major"
    BY <1>1, <1>2, <2>2 DEF ResolvedConst, NormalConst
  <2> QED BY <2>1, <2>2
<1>4. ~HasNews(one, new)
  BY <1>2 DEF HasNews
<1> QED BY <1>3, <1>4 DEF ChartChanges, one

\* Updating a chart of WORLD'S END again from the same row changes nothing.
LEMMA UpdatedWorldsendAgain ==
  ASSUME NEW old \in WorldsendRow, NEW new \in WorldsendRow
  PROVE  /\ UpdatedWorldsend(UpdatedWorldsend(old, new), new) = UpdatedWorldsend(old, new)
         /\ UpdatedWorldsend(new, new) = new
<1>1. UpdatedWorldsend(UpdatedWorldsend(old, new), new) = UpdatedWorldsend(old, new)
  BY DEF UpdatedWorldsend, Coalesce
<1>2. /\ Coalesce(new.star, new.star) = new.star
      /\ Coalesce(new.attribute, new.attribute) = new.attribute
      /\ Coalesce(new.notes, new.notes) = new.notes
      /\ Coalesce(new.designer, new.designer) = new.designer
  BY DEF Coalesce
<1>3. UpdatedWorldsend(new, new) =
        [star |-> new.star, attribute |-> new.attribute, notes |-> new.notes,
         designer |-> new.designer]
  BY <1>2 DEF UpdatedWorldsend
<1>4. new = [star |-> new.star, attribute |-> new.attribute, notes |-> new.notes,
             designer |-> new.designer]
  BY DEF WorldsendRow
<1> QED BY <1>1, <1>3, <1>4, Zenon

\* The three cases of each table, row by row.
LEMMA SongCases ==
  ASSUME NEW s, NEW seen, NEW ws, NEW today, NEW i \in Idx
  PROVE  /\ ws.songs[i] = None => SyncedSongs(s, seen, ws, today)[i] = s[i]
         /\ ws.songs[i] # None /\ seen.songs[i] = None =>
              SyncedSongs(s, seen, ws, today)[i] = InsertedSong(ws.songs[i], today)
         /\ ws.songs[i] # None /\ seen.songs[i] # None =>
              SyncedSongs(s, seen, ws, today)[i] = UpdatedSong(s[i], ws.songs[i])
BY DEF SyncedSongs

\* What a batch makes of a chart of WORLD'S END, in each case.
LEMMA WorldsendCases ==
  ASSUME NEW w, NEW seen, NEW ws, NEW i \in Idx
  PROVE  /\ ws.we[i] = None => SyncedWorldsend(w, seen, ws)[i] = w[i]
         /\ ws.we[i] # None /\ seen.worldsend[i] = None =>
              SyncedWorldsend(w, seen, ws)[i] = ws.we[i]
         /\ ws.we[i] # None /\ seen.worldsend[i] # None =>
              SyncedWorldsend(w, seen, ws)[i] = UpdatedWorldsend(w[i], ws.we[i])
BY DEF SyncedWorldsend

\* What a batch makes of a chart.
LEMMA ChartCases ==
  ASSUME NEW c, NEW seen, NEW ws, NEW mode, NEW i \in Idx, NEW d \in Diff
  PROVE  SyncedCharts(c, seen, ws, mode)[i][d] =
           SyncedChart(c[i][d], seen.charts[i][d], ws.charts[i][d], mode)
BY DEF SyncedCharts

\* A chart that the table has not is inserted, one that it has is updated or left.
LEMMA SyncedChartIs ==
  ASSUME NEW chart, NEW seen, NEW new, NEW mode
  PROVE  /\ new = None => SyncedChart(chart, seen, new, mode) = chart
         /\ new # None /\ seen = None => SyncedChart(chart, seen, new, mode) = InsertedChart(new, mode)
         /\ new # None /\ seen # None /\ ChartChanges(seen, new, mode) =>
              SyncedChart(chart, seen, new, mode) = UpdatedChart(seen, new, mode)
         /\ new # None /\ seen # None /\ ~ChartChanges(seen, new, mode) =>
              SyncedChart(chart, seen, new, mode) = chart
BY DEF SyncedChart

SongTable == [Idx -> SongRow \cup {None}]
ChartTable == [Idx -> [Diff -> ChartRow \cup {None}]]
WorldsendTable == [Idx -> WorldsendRow \cup {None}]

\* What is written has the types of the tables, if rows that were seen are still there.
LEMMA SyncedTyped ==
  ASSUME NEW s \in SongTable, NEW c \in ChartTable, NEW w \in WorldsendTable,
         NEW seen, seen.charts \in ChartTable,
         NEW ws, WorkspaceSound(ws), NEW mode \in Mode, NEW today \in ReleaseDate,
         \A i \in Idx : ws.songs[i] # None /\ seen.songs[i] # None => s[i] # None,
         \A i \in Idx : ws.we[i] # None /\ seen.worldsend[i] # None => w[i] # None
  PROVE  /\ SyncedSongs(s, seen, ws, today) \in SongTable
         /\ SyncedCharts(c, seen, ws, mode) \in ChartTable
         /\ SyncedWorldsend(w, seen, ws) \in WorldsendTable
<1>1. /\ ws.songs \in [Idx -> SongUpsert \cup {None}]
      /\ ws.charts \in [Idx -> [Diff -> ChartRow \cup {None}]]
      /\ ws.we \in [Idx -> WorldsendRow \cup {None}]
      /\ \A i \in Idx : ws.songs[i] # None => ws.songs[i].unlock \in Flag
  BY DEF WorkspaceSound, WorkspaceTypes
<1>2. SyncedSongs(s, seen, ws, today) \in SongTable
  <2> DEFINE S == SyncedSongs(s, seen, ws, today)
  <2>1. S = [i \in Idx |-> S[i]]
    BY DEF SyncedSongs
  <2>2. ASSUME NEW i \in Idx PROVE S[i] \in SongRow \cup {None}
    <3>1. CASE ws.songs[i] = None
      BY <3>1, SongCases DEF SongTable
    <3>2. CASE ws.songs[i] # None /\ seen.songs[i] = None
      <4>1. S[i] = InsertedSong(ws.songs[i], today)
        BY <3>2, SongCases
      <4> QED BY <1>1, <3>2, <4>1, InsertedSongTyped
    <3>3. CASE ws.songs[i] # None /\ seen.songs[i] # None
      <4>1. S[i] = UpdatedSong(s[i], ws.songs[i])
        BY <3>3, SongCases
      <4>2. s[i] \in SongRow
        BY <3>3 DEF SongTable
      <4> QED BY <1>1, <3>3, <4>1, <4>2, UpdatedSongTyped
    <3> QED BY <3>1, <3>2, <3>3
  <2> HIDE DEF S
  <2>3. S \in SongTable
    BY <2>1, <2>2 DEF SongTable
  <2> QED BY <2>3 DEF S
<1>3. SyncedCharts(c, seen, ws, mode) \in ChartTable
  <2> DEFINE C == SyncedCharts(c, seen, ws, mode)
  <2>1. C = [i \in Idx |-> [d \in Diff |-> C[i][d]]]
    BY DEF SyncedCharts
  <2>2. ASSUME NEW i \in Idx, NEW d \in Diff PROVE C[i][d] \in ChartRow \cup {None}
    <3>1. C[i][d] = SyncedChart(c[i][d], seen.charts[i][d], ws.charts[i][d], mode)
      BY ChartCases
    <3>2. /\ c[i][d] \in ChartRow \cup {None} /\ seen.charts[i][d] \in ChartRow \cup {None}
          /\ ws.charts[i][d] \in ChartRow \cup {None}
      BY <1>1 DEF ChartTable
    <3> HIDE DEF C
    <3>3. CASE ws.charts[i][d] = None
      BY <3>1, <3>2, <3>3, SyncedChartIs
    <3>4. CASE ws.charts[i][d] # None /\ seen.charts[i][d] = None
      BY <3>1, <3>2, <3>4, SyncedChartIs, InsertedChartTyped
    <3>5. CASE ws.charts[i][d] # None /\ seen.charts[i][d] # None
      BY <3>1, <3>2, <3>5, SyncedChartIs, UpdatedChartTyped
    <3> QED BY <3>3, <3>4, <3>5
  <2> HIDE DEF C
  <2>3. C \in ChartTable
    BY <2>1, <2>2 DEF ChartTable
  <2> QED BY <2>3 DEF C
<1>4. SyncedWorldsend(w, seen, ws) \in WorldsendTable
  <2> DEFINE W == SyncedWorldsend(w, seen, ws)
  <2>1. W = [i \in Idx |-> W[i]]
    BY DEF SyncedWorldsend
  <2>2. ASSUME NEW i \in Idx PROVE W[i] \in WorldsendRow \cup {None}
    <3>1. CASE ws.we[i] = None
      BY <3>1, WorldsendCases DEF WorldsendTable
    <3>2. CASE ws.we[i] # None /\ seen.worldsend[i] = None
      BY <1>1, <3>2, WorldsendCases
    <3>3. CASE ws.we[i] # None /\ seen.worldsend[i] # None
      <4>1. W[i] = UpdatedWorldsend(w[i], ws.we[i])
        BY <3>3, WorldsendCases
      <4>2. w[i] \in WorldsendRow /\ ws.we[i] \in WorldsendRow
        BY <1>1, <3>3 DEF WorldsendTable
      <4> QED BY <4>1, <4>2, UpdatedWorldsendTyped
    <3> QED BY <3>1, <3>2, <3>3
  <2> HIDE DEF W
  <2>3. W \in WorldsendTable
    BY <2>1, <2>2 DEF WorldsendTable
  <2> QED BY <2>3 DEF W
<1> QED BY <1>2, <1>3, <1>4

\* A batch that meets no one else's changes nothing when it is run again.
LEMMA SyncedAgain ==
  ASSUME NEW b, WorkspaceSound(b.ws), b.mode \in Mode, b.today \in ReleaseDate,
         NEW t, t.songs \in SongTable, t.charts \in ChartTable, t.worldsend \in WorldsendTable
  PROVE  Synced(b, Synced(b, t)) = Synced(b, t)
<1> DEFINE S == SyncedSongs(t.songs, t, b.ws, b.today)
           C == SyncedCharts(t.charts, t, b.ws, b.mode)
           W == SyncedWorldsend(t.worldsend, t, b.ws)
           one == [songs |-> S, charts |-> C, worldsend |-> W]
           S2 == SyncedSongs(S, one, b.ws, b.today)
           C2 == SyncedCharts(C, one, b.ws, b.mode)
           W2 == SyncedWorldsend(W, one, b.ws)
<1>1. Synced(b, t) = one
  BY DEF Synced
<1>2. Synced(b, one) = [songs |-> S2, charts |-> C2, worldsend |-> W2]
  BY DEF Synced
<1>3. S \in SongTable /\ C \in ChartTable /\ W \in WorldsendTable
  BY SyncedTyped
<1>4. /\ b.ws.songs \in [Idx -> SongUpsert \cup {None}]
      /\ b.ws.charts \in [Idx -> [Diff -> ChartRow \cup {None}]]
      /\ b.ws.we \in [Idx -> WorldsendRow \cup {None}]
      /\ \A i \in Idx : b.ws.songs[i] # None => b.ws.songs[i].unlock \in Flag
  BY DEF WorkspaceSound, WorkspaceTypes
<1>5. one.songs = S /\ one.charts = C /\ one.worldsend = W
  OBVIOUS
<1>6. /\ S2 = [i \in Idx |-> S2[i]] /\ W2 = [i \in Idx |-> W2[i]]
      /\ C2 = [i \in Idx |-> [d \in Diff |-> C2[i][d]]]
  BY DEF SyncedSongs, SyncedWorldsend, SyncedCharts
<1>7. ASSUME NEW i \in Idx PROVE S2[i] = S[i]
  <2>1. CASE b.ws.songs[i] = None
    <3>1. S2[i] = S[i]
      BY <2>1, SongCases
    <3> QED BY <3>1
  <2>2. CASE b.ws.songs[i] # None /\ t.songs[i] = None
    <3>1. S[i] = InsertedSong(b.ws.songs[i], b.today)
      BY <2>2, SongCases
    <3>2. S[i] \in SongRow
      BY <1>4, <2>2, <3>1, InsertedSongTyped
    <3>3. S2[i] = UpdatedSong(S[i], b.ws.songs[i])
      <4>1. one.songs[i] # None
        BY <1>5, <3>2, RowsAreThere
      <4> QED BY <2>2, <4>1, SongCases
    <3> QED BY <1>4, <2>2, <3>1, <3>3, InsertedSongAgain
  <2>3. CASE b.ws.songs[i] # None /\ t.songs[i] # None
    <3>1. S[i] = UpdatedSong(t.songs[i], b.ws.songs[i]) /\ t.songs[i] \in SongRow
      BY <2>3, SongCases DEF SongTable
    <3>2. S[i] \in SongRow
      BY <1>4, <2>3, <3>1, UpdatedSongTyped
    <3>3. S2[i] = UpdatedSong(S[i], b.ws.songs[i])
      <4>1. one.songs[i] # None
        BY <1>5, <3>2, RowsAreThere
      <4> QED BY <2>3, <4>1, SongCases
    <3> QED BY <1>4, <2>3, <3>1, <3>3, UpdatedSongAgain
  <2> QED BY <2>1, <2>2, <2>3
<1>8. ASSUME NEW i \in Idx, NEW d \in Diff PROVE C2[i][d] = C[i][d]
  <2> DEFINE new == b.ws.charts[i][d]
             old == t.charts[i][d]
             ch == C[i][d]
  <2>1. ch = SyncedChart(old, old, new, b.mode)
    BY ChartCases
  <2>2. C2[i][d] = SyncedChart(ch, ch, new, b.mode)
    <3>1. C2[i][d] = SyncedChart(C[i][d], one.charts[i][d], b.ws.charts[i][d], b.mode)
      BY ChartCases
    <3> QED BY <1>5, <3>1
  <2>3. new \in ChartRow \cup {None} /\ old \in ChartRow \cup {None}
    BY <1>4 DEF ChartTable
  <2> HIDE DEF new, old, ch, C2
  <2>4. CASE new = None
    BY <2>2, <2>4, SyncedChartIs DEF ch
  <2>5. CASE new # None /\ old = None
    <3>1. ch = InsertedChart(new, b.mode)
      BY <2>1, <2>5, SyncedChartIs
    <3>2. ch # None /\ ~ChartChanges(ch, new, b.mode)
      BY <2>3, <2>5, <3>1, InsertedChartTyped, InsertedChartStays, RowsAreThere
    <3> QED BY <2>2, <2>5, <3>2, SyncedChartIs DEF ch
  <2>6. CASE new # None /\ old # None
    <3>1. ch = IF ChartChanges(old, new, b.mode) THEN UpdatedChart(old, new, b.mode) ELSE old
      BY <2>1, <2>6, SyncedChartIs
    <3>2. ch # None /\ ~ChartChanges(ch, new, b.mode)
      BY <2>3, <2>6, <3>1, UpdatedChartTyped, UpdatedChartStays, RowsAreThere
    <3> QED BY <2>2, <2>6, <3>2, SyncedChartIs DEF ch
  <2> QED BY <2>4, <2>5, <2>6
<1>9. ASSUME NEW i \in Idx PROVE W2[i] = W[i]
  <2>1. CASE b.ws.we[i] = None
    BY <2>1, WorldsendCases
  <2>2. CASE b.ws.we[i] # None
    <3>1. b.ws.we[i] \in WorldsendRow
      BY <1>4, <2>2
    <3>2. CASE t.worldsend[i] = None
      <4>1. W[i] = b.ws.we[i]
        BY <2>2, <3>2, WorldsendCases
      <4>2. one.worldsend[i] # None
        BY <1>5, <2>2, <4>1
      <4>3. W2[i] = UpdatedWorldsend(W[i], b.ws.we[i])
        BY <2>2, <4>2, WorldsendCases
      <4> QED BY <3>1, <4>1, <4>3, UpdatedWorldsendAgain
    <3>3. CASE t.worldsend[i] # None
      <4>1. W[i] = UpdatedWorldsend(t.worldsend[i], b.ws.we[i]) /\ t.worldsend[i] \in WorldsendRow
        BY <2>2, <3>3, WorldsendCases DEF WorldsendTable
      <4>2. W[i] # None
        BY <3>1, <4>1, UpdatedWorldsendTyped, RowsAreThere
      <4>3. one.worldsend[i] # None
        BY <1>5, <4>2
      <4>4. W2[i] = UpdatedWorldsend(W[i], b.ws.we[i])
        BY <2>2, <4>3, WorldsendCases
      <4> QED BY <3>1, <4>1, <4>4, UpdatedWorldsendAgain
    <3> QED BY <3>2, <3>3
  <2> QED BY <2>1, <2>2
<1> HIDE DEF S2, C2, W2, S, C, W
<1>10. S2 = S
  BY <1>3, <1>6, <1>7 DEF SongTable
<1>11. C2 = C
  BY <1>3, <1>6, <1>8 DEF ChartTable
<1>12. W2 = W
  BY <1>3, <1>6, <1>9 DEF WorldsendTable
<1> QED BY <1>1, <1>2, <1>10, <1>11, <1>12

-----------------------------------------------------------------------------
(* The writers of the song master *)

\* Charts are of songs.
RowsOfSongs ==
  \A i \in Idx : songs[i] = None => charts[i] = NoCharts /\ worldsend[i] = None

\* What a batch has seen is still there, and a song that was there with or without a
\* chart of WORLD'S END still is.
SeenInv ==
  LET seen == batch.seen
  IN /\ seen.songs \in SongTable /\ seen.charts \in ChartTable
     /\ seen.worldsend \in WorldsendTable
     /\ \A i \in Idx : seen.songs[i] = None => seen.charts[i] = NoCharts /\ seen.worldsend[i] = None
     /\ \A i \in Idx : seen.songs[i] # None =>
          songs[i] # None /\ (seen.worldsend[i] = None <=> worldsend[i] = None)

BatchInv ==
  /\ batch.pc \in {"idle", "built", "syncing"}
  /\ batch.pc # "idle" =>
       batch.mode \in Mode /\ batch.today \in ReleaseDate /\ WorkspaceSound(batch.ws)
  /\ batch.pc = "syncing" => SeenInv

TablesInv ==
  /\ songs \in SongTable /\ charts \in ChartTable /\ worldsend \in WorldsendTable
  /\ RowsOfSongs /\ WorldsendHasChart

VersionsInv ==
  /\ versions \subseteq Date /\ deleting \in versions \cup {None} /\ strays \subseteq Idx
  /\ runs \in 0 .. MaxRuns /\ edits \in 0 .. MaxEdits
  /\ VersionRangeHeld

MasterInv == TablesInv /\ BatchInv /\ VersionsInv

\* What a run promises of its tables follows.
LEMMA InvIsPromised ==
  ASSUME MasterInv
  PROVE  MasterTypeOK /\ SyncSound /\ VersionRangeHeld
<1>1. MasterTypeOK
  BY DEF MasterInv, TablesInv, BatchInv, VersionsInv, MasterTypeOK, RowsOfSongs, SongTable,
         ChartTable, WorldsendTable
<1>2. WorldsendHasChart /\ VersionRangeHeld
  BY DEF MasterInv, TablesInv, VersionsInv
<1>3. SyncIdempotent
  <2> SUFFICES ASSUME batch.pc = "built"
               PROVE  Synced(batch, Synced(batch, Tables)) = Synced(batch, Tables)
    BY DEF SyncIdempotent
  <2>1. batch.mode \in Mode /\ batch.today \in ReleaseDate /\ WorkspaceSound(batch.ws)
    BY DEF MasterInv, BatchInv
  <2>2. Tables.songs \in SongTable /\ Tables.charts \in ChartTable /\ Tables.worldsend \in WorldsendTable
    BY DEF MasterInv, TablesInv, Tables
  <2> QED BY <2>1, <2>2, SyncedAgain
<1> QED BY <1>1, <1>2, <1>3 DEF SyncSound

\* The invariant of the song master holds at the start.
LEMMA MasterInitInv ==
  ASSUME MasterInit
  PROVE  MasterInv
<1>1. TablesInv
  <2>1. NoCharts \in [Diff -> ChartRow \cup {None}]
    BY DEF NoCharts
  <2> QED BY <2>1 DEF MasterInit, TablesInv, SongTable, ChartTable, WorldsendTable, RowsOfSongs,
                      WorldsendHasChart
<1>2. BatchInv
  BY DEF MasterInit, BatchInv, Idle
<1>3. VersionsInv
  <2>1. versions \subseteq Date
    BY MasterAssumption DEF MasterInit
  <2> QED BY <2>1, MasterAssumption DEF MasterInit, VersionsInv, VersionRangeHeld
<1> QED BY <1>1, <1>2, <1>3 DEF MasterInv

\* Reading the sources and the tables changes no table.
LEMMA BuildKeeps ==
  ASSUME MasterInv, BuildBatch
  PROVE  MasterInv'
<1>1. TablesInv'
  BY DEF MasterInv, TablesInv, BuildBatch, RowsOfSongs, WorldsendHasChart
<1>2. BatchInv'
  <2>1. PICK feed \in Feed, mode \in Mode, today \in Today :
          /\ AllPresent(feed, mode) /\ Builds(feed, mode, songs)
          /\ batch' = [pc |-> "built", mode |-> mode, today |-> today,
                       ws |-> Workspace(feed, mode)]
    BY DEF BuildBatch
  <2>2. feed \in Feeds /\ today \in ReleaseDate
    BY FeedAssumption, MasterAssumption
  <2>3. WorkspaceSound(Workspace(feed, mode))
    BY <2>1, <2>2, WorkspaceIsSound
  <2>4. /\ batch'.pc = "built" /\ batch'.mode = mode /\ batch'.today = today
        /\ batch'.ws = Workspace(feed, mode)
    BY <2>1
  <2> QED BY <2>2, <2>3, <2>4 DEF BatchInv
<1>3. VersionsInv'
  BY MasterAssumption DEF MasterInv, VersionsInv, BuildBatch, VersionRangeHeld, InRange
<1> QED BY <1>1, <1>2, <1>3 DEF MasterInv

\* A batch that begins its transaction has seen the tables as they are.
LEMMA BeginKeeps ==
  ASSUME MasterInv, BeginSync
  PROVE  MasterInv'
<1>1. TablesInv'
  BY DEF MasterInv, TablesInv, BeginSync, RowsOfSongs, WorldsendHasChart
<1>2. BatchInv'
  <2>1. /\ batch'.pc = "syncing" /\ batch'.mode = batch.mode /\ batch'.today = batch.today
        /\ batch'.ws = batch.ws /\ batch'.seen = Tables
    BY DEF BeginSync
  <2>2. batch.mode \in Mode /\ batch.today \in ReleaseDate /\ WorkspaceSound(batch.ws)
    BY DEF MasterInv, BatchInv, BeginSync
  <2>3. SeenInv'
    <3>1. UNCHANGED <<songs, worldsend>>
      BY DEF BeginSync
    <3>2. Tables.songs = songs /\ Tables.charts = charts /\ Tables.worldsend = worldsend
      BY DEF Tables
    <3> QED BY <2>1, <3>1, <3>2 DEF MasterInv, TablesInv, RowsOfSongs, SeenInv
  <2> QED BY <2>1, <2>2, <2>3 DEF BatchInv
<1>3. VersionsInv'
  BY DEF MasterInv, VersionsInv, BeginSync, VersionRangeHeld, InRange
<1> QED BY <1>1, <1>2, <1>3 DEF MasterInv

\* What a commit of a batch does to a song that is there or that it adds.
LEMMA CommitRows ==
  ASSUME MasterInv, CommitSync, NEW i \in Idx
  PROVE  /\ batch.ws.songs[i] = None => songs'[i] = songs[i] /\ worldsend'[i] = worldsend[i]
         /\ batch.ws.songs[i] # None /\ songs[i] = None =>
              songs'[i] = InsertedSong(batch.ws.songs[i], batch.today)
         /\ batch.ws.songs[i] # None /\ songs[i] # None =>
              batch.seen.songs[i] # None /\ songs'[i] = UpdatedSong(songs[i], batch.ws.songs[i])
<1>1. /\ batch.pc = "syncing" /\ \A j \in Fresh(batch) : songs[j] = None
      /\ songs' = SyncedSongs(songs, batch.seen, batch.ws, batch.today)
      /\ worldsend' = SyncedWorldsend(worldsend, batch.seen, batch.ws)
  BY DEF CommitSync
<1>2. WorkspaceSound(batch.ws) /\ SeenInv
  BY <1>1 DEF MasterInv, BatchInv
<1>3. batch.ws.songs[i] = None => batch.ws.we[i] = None
  BY <1>2 DEF WorkspaceSound
<1>4. batch.ws.songs[i] # None /\ batch.seen.songs[i] = None => songs[i] = None
  BY <1>1 DEF Fresh, Listed
<1>5. batch.seen.songs[i] # None => songs[i] # None
  BY <1>2 DEF SeenInv
<1>6. batch.ws.songs[i] = None => songs'[i] = songs[i] /\ worldsend'[i] = worldsend[i]
  BY <1>1, <1>3, SongCases, WorldsendCases
<1> QED BY <1>1, <1>4, <1>5, <1>6, SongCases

\* A commit leaves tables of their types, with the charts of their songs.
LEMMA CommitKeepsTables ==
  ASSUME MasterInv, CommitSync
  PROVE  TablesInv'
<1> DEFINE seen == batch.seen
           ws == batch.ws
<1>1. /\ batch.pc = "syncing"
      /\ songs' = SyncedSongs(songs, seen, ws, batch.today)
      /\ charts' = SyncedCharts(charts, seen, ws, batch.mode)
      /\ worldsend' = SyncedWorldsend(worldsend, seen, ws)
  BY DEF CommitSync
<1>2. /\ WorkspaceSound(ws) /\ SeenInv /\ batch.mode \in Mode /\ batch.today \in ReleaseDate
  BY <1>1 DEF MasterInv, BatchInv
<1>3. songs \in SongTable /\ charts \in ChartTable /\ worldsend \in WorldsendTable
  BY DEF MasterInv, TablesInv
<1>4. seen.charts \in ChartTable
  BY <1>2 DEF SeenInv
<1>5. \A i \in Idx : ws.songs[i] # None /\ seen.songs[i] # None => songs[i] # None
  BY <1>2 DEF SeenInv
<1>6. \A i \in Idx : ws.we[i] # None /\ seen.worldsend[i] # None => worldsend[i] # None
  BY <1>2 DEF SeenInv
<1>7. \A i \in Idx : ws.songs[i] = None => ws.charts[i] = NoCharts /\ ws.we[i] = None
  BY <1>2 DEF WorkspaceSound
<1>8. /\ ws.songs \in [Idx -> SongUpsert \cup {None}]
      /\ ws.we \in [Idx -> WorldsendRow \cup {None}]
      /\ \A i \in Idx : ws.songs[i] # None => ws.songs[i].unlock \in Flag
      /\ \A i \in Idx : ws.songs[i] # None /\ ws.songs[i].we => ws.we[i] # None
  BY <1>2 DEF WorkspaceSound, WorkspaceTypes
<1> HIDE DEF seen, ws
<1>9. songs' \in SongTable /\ charts' \in ChartTable /\ worldsend' \in WorldsendTable
  BY <1>1, <1>2, <1>3, <1>4, <1>5, <1>6, SyncedTyped
<1>10. ASSUME NEW i \in Idx, ws.songs[i] # None
       PROVE  songs'[i] \in SongRow /\ songs'[i].we = ws.songs[i].we
  <2>1. ws.songs[i] \in SongUpsert /\ ws.songs[i].unlock \in Flag
    BY <1>8, <1>10
  <2>2. CASE songs[i] = None
    <3>1. songs'[i] = InsertedSong(ws.songs[i], batch.today)
      BY <1>10, <2>2, CommitRows DEF ws
    <3> QED BY <1>2, <2>1, <3>1, InsertedSongTyped DEF InsertedSong
  <2>3. CASE songs[i] # None
    <3>1. songs'[i] = UpdatedSong(songs[i], ws.songs[i]) /\ songs[i] \in SongRow
      BY <1>3, <1>10, <2>3, CommitRows DEF ws, SongTable
    <3>2. songs'[i] \in SongRow
      BY <2>1, <3>1, UpdatedSongTyped
    <3> QED BY <2>1, <3>1, <3>2, UpdatedSongIs
  <2> QED BY <2>2, <2>3
<1>11. RowsOfSongs'
  <2> SUFFICES ASSUME NEW i \in Idx, songs'[i] = None
               PROVE  charts'[i] = NoCharts /\ worldsend'[i] = None
    BY DEF RowsOfSongs
  <2>1. ws.songs[i] = None
    BY <1>10, RowsAreThere
  <2>2. songs'[i] = songs[i] /\ worldsend'[i] = worldsend[i]
    BY <2>1, CommitRows DEF ws
  <2>3. charts[i] = NoCharts /\ worldsend[i] = None
    BY <2>2 DEF MasterInv, TablesInv, RowsOfSongs
  <2>4. charts'[i] = [d \in Diff |-> charts[i][d]]
    <3>1. \A d \in Diff : charts'[i][d] = charts[i][d]
      <4> SUFFICES ASSUME NEW d \in Diff PROVE charts'[i][d] = charts[i][d]
        OBVIOUS
      <4>1. charts'[i][d] = SyncedChart(charts[i][d], seen.charts[i][d], ws.charts[i][d], batch.mode)
        BY <1>1, ChartCases
      <4>2. ws.charts[i][d] = None
        BY <1>7, <2>1 DEF NoCharts
      <4> QED BY <4>1, <4>2, SyncedChartIs
    <3> QED BY <1>9, <3>1 DEF ChartTable
  <2> QED BY <2>2, <2>3, <2>4 DEF NoCharts
<1>12. WorldsendHasChart'
  <2> SUFFICES ASSUME NEW i \in Idx, songs'[i] # None, songs'[i].we
               PROVE  worldsend'[i] # None
    BY DEF WorldsendHasChart
  <2>1. CASE ws.songs[i] = None
    BY <2>1, CommitRows DEF ws, MasterInv, TablesInv, WorldsendHasChart
  <2>2. CASE ws.songs[i] # None
    <3>1. ws.we[i] \in WorldsendRow
      BY <1>8, <1>10, <2>2
    <3>2. CASE seen.worldsend[i] = None
      BY <1>1, <3>1, <3>2, WorldsendCases, RowsAreThere
    <3>3. CASE seen.worldsend[i] # None
      <4>1. worldsend'[i] = UpdatedWorldsend(worldsend[i], ws.we[i])
        BY <1>1, <3>1, <3>3, WorldsendCases, RowsAreThere
      <4>2. worldsend[i] \in WorldsendRow
        BY <1>3, <1>6, <3>1, <3>3, RowsAreThere DEF WorldsendTable
      <4> QED BY <3>1, <4>1, <4>2, UpdatedWorldsendTyped, RowsAreThere
    <3> QED BY <3>2, <3>3
  <2> QED BY <2>1, <2>2
<1> QED BY <1>9, <1>11, <1>12 DEF TablesInv

\* A commit keeps the invariant.
LEMMA CommitKeeps ==
  ASSUME MasterInv, CommitSync
  PROVE  MasterInv'
<1>1. TablesInv'
  BY CommitKeepsTables
<1>2. BatchInv'
  BY DEF CommitSync, BatchInv, Idle
<1>3. VersionsInv'
  <2>1. UNCHANGED <<versions, deleting, runs, edits>>
    BY DEF CommitSync
  <2>2. strays' = IF deleting # None THEN strays \cup Dated ELSE strays
    BY DEF CommitSync
  <2>3. VersionRangeHeld'
    <3> SUFFICES ASSUME deleting # None, NEW i \in Idx, InRange(songs'[i], deleting)
                 PROVE  i \in strays'
      BY <2>1 DEF VersionRangeHeld
    <3>1. songs'[i] # None /\ songs'[i].released # None
      BY DEF InRange
    <3>2. CASE songs[i] = None \/ songs[i].released = None
      BY <2>2, <3>1, <3>2 DEF Dated
    <3>3. CASE songs[i] # None /\ songs[i].released # None
      <4>1. songs'[i].released = songs[i].released
        <5>1. CASE batch.ws.songs[i] = None
          BY <5>1, CommitRows
        <5>2. CASE batch.ws.songs[i] # None
          <6>1. songs'[i] = UpdatedSong(songs[i], batch.ws.songs[i])
            BY <3>3, <5>2, CommitRows
          <6>2. songs[i] \in SongRow /\ batch.ws.songs[i] \in SongUpsert
            BY <3>3, <5>2 DEF MasterInv, TablesInv, BatchInv, SongTable, CommitSync,
                              WorkspaceSound, WorkspaceTypes
          <6>3. songs'[i].released = Coalesce(songs[i].released, batch.ws.songs[i].released)
            BY <6>1, <6>2, UpdatedSongIs
          <6> QED BY <3>3, <6>3 DEF Coalesce
        <5> QED BY <5>1, <5>2
      <4>2. InRange(songs[i], deleting)
        BY <3>3, <4>1 DEF InRange
      <4>3. i \in strays
        BY <4>2 DEF MasterInv, VersionsInv, VersionRangeHeld
      <4> QED BY <2>2, <4>3
    <3> QED BY <3>2, <3>3
  <2> QED BY <2>1, <2>2, <2>3 DEF MasterInv, VersionsInv, Dated
<1> QED BY <1>1, <1>2, <1>3 DEF MasterInv

\* A batch that ends without a commit keeps the invariant.
LEMMA AbortKeeps ==
  ASSUME MasterInv, AbortBatch
  PROVE  MasterInv'
<1>1. TablesInv' /\ VersionsInv'
  BY DEF MasterInv, TablesInv, VersionsInv, AbortBatch, RowsOfSongs, WorldsendHasChart,
         VersionRangeHeld, InRange
<1>2. BatchInv'
  BY DEF AbortBatch, BatchInv, Idle
<1> QED BY <1>1, <1>2 DEF MasterInv

\* An edit of one song, by which it keeps or gets its chart of WORLD'S END, and gets a
\* release date only while no version is being deleted.
LEMMA OneSongEdited ==
  ASSUME MasterInv, NEW i \in Idx, NEW t, Edit(t),
         NEW s \in SongRow, NEW c \in [Diff -> ChartRow \cup {None}],
         NEW w \in WorldsendRow \cup {None},
         songs' = [songs EXCEPT ![i] = s], charts' = [charts EXCEPT ![i] = c],
         worldsend' = [worldsend EXCEPT ![i] = w],
         s.we => w # None,
         songs[i] # None => (w = None <=> worldsend[i] = None),
         deleting = None \/ (songs[i] # None /\ s.released = songs[i].released)
  PROVE  MasterInv'
<1>1. /\ songs \in SongTable /\ charts \in ChartTable /\ worldsend \in WorldsendTable
      /\ RowsOfSongs /\ WorldsendHasChart
  BY DEF MasterInv, TablesInv
<1>2. /\ UNCHANGED <<versions, deleting, batch, runs, strays>>
      /\ edits < MaxEdits /\ edits' = edits + 1
  BY DEF Edit
<1>3. s # None
  BY RowsAreThere
<1>4. /\ songs' \in SongTable /\ charts' \in ChartTable /\ worldsend' \in WorldsendTable
  BY <1>1 DEF SongTable, ChartTable, WorldsendTable
<1>5. /\ songs'[i] = s /\ charts'[i] = c /\ worldsend'[i] = w
      /\ \A j \in Idx \ {i} : songs'[j] = songs[j] /\ charts'[j] = charts[j] /\ worldsend'[j] = worldsend[j]
  BY <1>1 DEF SongTable, ChartTable, WorldsendTable
<1>6. TablesInv'
  <2>1. RowsOfSongs'
    BY <1>1, <1>3, <1>5 DEF RowsOfSongs
  <2>2. WorldsendHasChart'
    BY <1>1, <1>3, <1>5 DEF WorldsendHasChart
  <2> QED BY <1>4, <2>1, <2>2 DEF TablesInv
<1>7. BatchInv'
  <2>1. BatchInv /\ batch' = batch
    BY <1>2 DEF MasterInv
  <2>2. SeenInv => SeenInv'
    BY <1>3, <1>5, <2>1 DEF SeenInv
  <2> QED BY <2>1, <2>2 DEF BatchInv
<1>8. VersionsInv'
  <2>1. edits' \in 0 .. MaxEdits
    BY <1>2, MasterAssumption DEF MasterInv, VersionsInv
  <2>2. ASSUME deleting # None, NEW j \in Idx, InRange(songs'[j], deleting)
        PROVE  j \in strays
    <3>1. InRange(songs[j], deleting)
      BY <1>5, <2>2 DEF InRange
    <3> QED BY <2>2, <3>1 DEF MasterInv, VersionsInv, VersionRangeHeld
  <2> QED BY <1>2, <2>1, <2>2 DEF MasterInv, VersionsInv, VersionRangeHeld
<1> QED BY <1>6, <1>7, <1>8 DEF MasterInv

\* Tables that an edit leaves alone are edited to what they are.
LEMMA Unedited ==
  ASSUME MasterInv, NEW i \in Idx
  PROVE  /\ songs = [songs EXCEPT ![i] = songs[i]] /\ charts = [charts EXCEPT ![i] = charts[i]]
         /\ worldsend = [worldsend EXCEPT ![i] = worldsend[i]]
         /\ songs[i] \in SongRow \cup {None} /\ charts[i] \in [Diff -> ChartRow \cup {None}]
         /\ worldsend[i] \in WorldsendRow \cup {None}
BY DEF MasterInv, TablesInv, SongTable, ChartTable, WorldsendTable

\* A song that an administrator edits is a row of the table.
LEMMA EditedTyped ==
  ASSUME NEW song \in SongRow, NEW e \in SongEdit
  PROVE  Edited(song, e) \in SongRow /\ Edited(song, e).we = song.we
<1> DEFINE w == Given(e.wiki, song.wiki)
           u == Given(e.unlock, song.unlock)
<1>1. /\ e.title \in Title /\ e.isNew \in BOOLEAN /\ e.bpm \in Number
      /\ e.released \in ReleaseDate /\ e.wiki \in Text \cup {Keep} /\ e.unlock \in {0, 1, Keep}
  BY EditAssumption
<1>2. w \in Text /\ u \in {0, 1}
  BY <1>1 DEF Given, SongRow
<1>3. Edited(song, e) =
        [song EXCEPT !.title = e.title, !.isNew = e.isNew, !.bpm = e.bpm,
                     !.released = e.released, !.wiki = w, !.unlock = u]
  BY DEF Edited
<1> HIDE DEF w, u
<1> QED BY <1>1, <1>2, <1>3 DEF SongRow

\* And so is one that he creates.
LEMMA NewSongTyped ==
  ASSUME NEW e \in SongEdit, NEW we \in BOOLEAN
  PROVE  NewSong(e, we) \in SongRow /\ NewSong(e, we).we = we
<1> DEFINE w == Given(e.wiki, None)
           u == Given(e.unlock, 0)
<1>1. /\ e.title \in Title /\ e.isNew \in BOOLEAN /\ e.bpm \in Number
      /\ e.released \in ReleaseDate /\ e.wiki \in Text \cup {Keep} /\ e.unlock \in {0, 1, Keep}
  BY EditAssumption
<1>2. w \in Text /\ u \in {0, 1}
  BY <1>1 DEF Given, Text
<1>3. NewSong(e, we) =
        [title |-> e.title, isNew |-> e.isNew, we |-> we, bpm |-> e.bpm,
         released |-> e.released, wiki |-> w, unlock |-> u, deleted |-> FALSE]
  BY DEF NewSong
<1> HIDE DEF w, u
<1> QED BY <1>1, <1>2, <1>3 DEF SongRow

\* An edit of songs keeps the invariant.
LEMMA UpdateSongsKeeps ==
  ASSUME MasterInv, NEW i \in Idx, UpdateSongs(i)
  PROVE  MasterInv'
<1>1. /\ Edit(TRUE) /\ songs[i] # None /\ ~songs[i].we /\ UNCHANGED worldsend /\ deleting = None
  BY DEF UpdateSongs, Edit, RangeMutexFree
<1>2. songs[i] \in SongRow
  BY <1>1, Unedited
<1>3. PICK e \in SongEdit : songs' = [songs EXCEPT ![i] = Edited(songs[i], e)]
  BY DEF UpdateSongs
<1>4. Edited(songs[i], e) \in SongRow /\ ~Edited(songs[i], e).we
  BY <1>1, <1>2, EditedTyped
<1>5. PICK c \in [Diff -> ChartRow \cup {None}] : charts' = [charts EXCEPT ![i] = c]
  <2>1. CASE UNCHANGED charts
    BY <2>1, Unedited
  <2>2. CASE EditChart(i)
    <3>1. PICK d \in Diff, c \in ChartEdit : charts' = [charts EXCEPT ![i][d] = c]
      BY <2>2 DEF EditChart
    <3>2. c \in ChartRow
      BY EditAssumption
    <3>3. [charts[i] EXCEPT ![d] = c] \in [Diff -> ChartRow \cup {None}]
      BY <3>2, Unedited
    <3>4. charts' = [charts EXCEPT ![i] = [charts[i] EXCEPT ![d] = c]]
      BY <3>1
    <3> QED BY <3>3, <3>4
  <2> QED BY <2>1, <2>2 DEF UpdateSongs
<1>6. worldsend' = [worldsend EXCEPT ![i] = worldsend[i]] /\ worldsend[i] \in WorldsendRow \cup {None}
  BY <1>1, Unedited
<1> QED BY <1>1, <1>3, <1>4, <1>5, <1>6, OneSongEdited

\* An edit of a chart keeps the invariant.
LEMMA UpdateChartConstantKeeps ==
  ASSUME MasterInv, NEW i \in Idx, NEW d \in Diff, UpdateChartConstant(i, d)
  PROVE  MasterInv'
<1>1. /\ Edit(FALSE) /\ songs[i] # None /\ ~songs[i].we /\ charts[i][d] # None
      /\ UNCHANGED <<songs, worldsend>>
  BY DEF UpdateChartConstant
<1>2. /\ songs[i] \in SongRow /\ charts[i][d] \in ChartRow
      /\ charts[i] \in [Diff -> ChartRow \cup {None}]
  BY <1>1, Unedited
<1>3. PICK c \in ChartEdit :
        charts' = [charts EXCEPT ![i][d].const = c.const, ![i][d].unknown = FALSE]
  BY DEF UpdateChartConstant
<1>4. c.const \in Int
  BY EditAssumption DEF ChartRow
<1> DEFINE row == [charts[i][d] EXCEPT !.const = c.const, !.unknown = FALSE]
<1>5. row \in ChartRow
  BY <1>2, <1>4 DEF ChartRow
<1>6. charts' = [charts EXCEPT ![i] = [charts[i] EXCEPT ![d] = row]]
  BY <1>2, <1>3 DEF MasterInv, TablesInv, ChartTable
<1> HIDE DEF row
<1>7. [charts[i] EXCEPT ![d] = row] \in [Diff -> ChartRow \cup {None}]
  BY <1>2, <1>5
<1>8. /\ songs' = [songs EXCEPT ![i] = songs[i]] /\ worldsend' = [worldsend EXCEPT ![i] = worldsend[i]]
      /\ worldsend[i] \in WorldsendRow \cup {None}
  BY <1>1, Unedited
<1>9. Edit(FALSE) /\ songs[i] # None /\ ~songs[i].we
  BY <1>1
<1> DEFINE c2 == [charts[i] EXCEPT ![d] = row]
           s2 == songs[i]
           w2 == worldsend[i]
<1>10. /\ c2 \in [Diff -> ChartRow \cup {None}] /\ charts' = [charts EXCEPT ![i] = c2]
       /\ s2 \in SongRow /\ songs' = [songs EXCEPT ![i] = s2] /\ ~s2.we
       /\ w2 \in WorldsendRow \cup {None} /\ worldsend' = [worldsend EXCEPT ![i] = w2]
       /\ s2.released = songs[i].released /\ (w2 = None <=> worldsend[i] = None)
  BY <1>2, <1>6, <1>7, <1>8, <1>9
<1> HIDE DEF c2, s2, w2
<1> QED BY <1>9, <1>10, OneSongEdited

\* A new song keeps the invariant.
LEMMA CreateSongKeeps ==
  ASSUME MasterInv, NEW i \in Idx, CreateSong(i)
  PROVE  MasterInv'
<1>1. Edit(TRUE) /\ songs[i] = None /\ UNCHANGED worldsend /\ deleting = None
  BY DEF CreateSong, Edit, RangeMutexFree
<1>2. PICK e \in SongEdit, ds \in SUBSET Diff, c \in ChartEdit :
        /\ songs' = [songs EXCEPT ![i] = NewSong(e, FALSE)]
        /\ charts' = [charts EXCEPT ![i] = [d \in Diff |-> IF d \in ds THEN c ELSE None]]
  BY DEF CreateSong
<1>3. FALSE \in BOOLEAN
  OBVIOUS
<1>4. NewSong(e, FALSE) \in SongRow /\ ~NewSong(e, FALSE).we
  BY <1>3, NewSongTyped
<1>5. c \in ChartRow
  BY EditAssumption
<1>6. [d \in Diff |-> IF d \in ds THEN c ELSE None] \in [Diff -> ChartRow \cup {None}]
  BY <1>5
<1>7. worldsend' = [worldsend EXCEPT ![i] = worldsend[i]] /\ worldsend[i] \in WorldsendRow \cup {None}
  BY <1>1, Unedited
<1> QED BY <1>1, <1>2, <1>4, <1>6, <1>7, OneSongEdited

\* A song that is deleted or restored keeps the rest of its row.
LEMMA SetDeletedKeeps ==
  ASSUME MasterInv, NEW i \in Idx, NEW flag \in BOOLEAN, SetDeleted(i, flag)
  PROVE  MasterInv'
<1>1. /\ Edit(FALSE) /\ songs[i] # None /\ songs' = [songs EXCEPT ![i].deleted = flag]
      /\ UNCHANGED <<charts, worldsend>>
  BY DEF SetDeleted
<1>2. songs[i] \in SongRow
  BY <1>1, Unedited
<1> DEFINE row == [songs[i] EXCEPT !.deleted = flag]
<1>3. row \in SongRow /\ row.we = songs[i].we /\ row.released = songs[i].released
  BY <1>2 DEF SongRow
<1>4. songs' = [songs EXCEPT ![i] = row]
  BY <1>1
<1> HIDE DEF row
<1>5. /\ charts' = [charts EXCEPT ![i] = charts[i]] /\ worldsend' = [worldsend EXCEPT ![i] = worldsend[i]]
      /\ worldsend[i] \in WorldsendRow \cup {None} /\ charts[i] \in [Diff -> ChartRow \cup {None}]
  BY <1>1, Unedited
<1>6. songs[i].we => worldsend[i] # None
  BY <1>1 DEF MasterInv, TablesInv, WorldsendHasChart
<1>7. Edit(FALSE) /\ songs[i] # None
  BY <1>1
<1> DEFINE c2 == charts[i]
           w2 == worldsend[i]
<1>8. /\ c2 \in [Diff -> ChartRow \cup {None}] /\ charts' = [charts EXCEPT ![i] = c2]
      /\ w2 \in WorldsendRow \cup {None} /\ worldsend' = [worldsend EXCEPT ![i] = w2]
      /\ (row.we => w2 # None) /\ (w2 = None <=> worldsend[i] = None)
  BY <1>3, <1>5, <1>6
<1> HIDE DEF c2, w2
<1> QED BY <1>3, <1>4, <1>7, <1>8, OneSongEdited

\* An edit of songs of WORLD'S END keeps the invariant.
LEMMA UpdateWorldsendSongsKeeps ==
  ASSUME MasterInv, NEW i \in Idx, UpdateWorldsendSongs(i)
  PROVE  MasterInv'
<1>1. /\ Edit(TRUE) /\ songs[i] # None /\ worldsend[i] # None /\ UNCHANGED charts /\ deleting = None
  BY DEF UpdateWorldsendSongs, Edit, RangeMutexFree, IsWorldsend
<1>2. songs[i] \in SongRow /\ worldsend[i] \in WorldsendRow
  BY <1>1, Unedited
<1>3. PICK e \in SongEdit : songs' = [songs EXCEPT ![i] = Edited(songs[i], e)]
  BY DEF UpdateWorldsendSongs
<1>4. Edited(songs[i], e) \in SongRow
  BY <1>2, EditedTyped
<1>5. PICK c \in WorldsendEdit \cup {Keep} : worldsend' = [worldsend EXCEPT ![i] = Given(c, worldsend[i])]
  BY DEF UpdateWorldsendSongs, EditWorldsendChart
<1>6. Given(c, worldsend[i]) \in WorldsendRow
  BY <1>2, EditAssumption DEF Given
<1>7. charts' = [charts EXCEPT ![i] = charts[i]] /\ charts[i] \in [Diff -> ChartRow \cup {None}]
  BY <1>1, Unedited
<1>8. Given(c, worldsend[i]) # None
  BY <1>6, RowsAreThere
<1> QED BY <1>1, <1>3, <1>4, <1>5, <1>6, <1>7, <1>8, OneSongEdited

\* A new song of WORLD'S END keeps the invariant.
LEMMA CreateWorldsendSongKeeps ==
  ASSUME MasterInv, NEW i \in Idx, CreateWorldsendSong(i)
  PROVE  MasterInv'
<1>1. Edit(TRUE) /\ songs[i] = None /\ UNCHANGED charts /\ deleting = None
  BY DEF CreateWorldsendSong, Edit, RangeMutexFree
<1>2. PICK e \in SongEdit, c \in WorldsendEdit :
        /\ songs' = [songs EXCEPT ![i] = NewSong(e, TRUE)]
        /\ worldsend' = [worldsend EXCEPT ![i] = c]
  BY DEF CreateWorldsendSong
<1>3. TRUE \in BOOLEAN
  OBVIOUS
<1>4. NewSong(e, TRUE) \in SongRow
  BY <1>3, NewSongTyped
<1>5. c \in WorldsendRow /\ c # None
  BY EditAssumption, RowsAreThere
<1>6. charts' = [charts EXCEPT ![i] = charts[i]] /\ charts[i] \in [Diff -> ChartRow \cup {None}]
  BY <1>1, Unedited
<1> QED BY <1>1, <1>2, <1>4, <1>5, <1>6, OneSongEdited

\* Every request of an administrator keeps the invariant.
LEMMA AdministerKeeps ==
  ASSUME MasterInv, Administer
  PROVE  MasterInv'
<1>1. PICK i \in Idx :
        \/ UpdateSongs(i)
        \/ \E d \in Diff : UpdateChartConstant(i, d)
        \/ CreateSong(i)
        \/ DeleteSong(i)
        \/ RestoreSong(i)
        \/ DeleteWorldsendSong(i)
        \/ RestoreWorldsendSong(i)
        \/ UpdateWorldsendSongs(i)
        \/ CreateWorldsendSong(i)
  BY DEF Administer
<1>2. TRUE \in BOOLEAN /\ FALSE \in BOOLEAN
  OBVIOUS
<1>3. CASE UpdateSongs(i)
  BY <1>3, UpdateSongsKeeps
<1>4. CASE \E d \in Diff : UpdateChartConstant(i, d)
  BY <1>4, UpdateChartConstantKeeps
<1>5. CASE CreateSong(i)
  BY <1>5, CreateSongKeeps
<1>6. CASE DeleteSong(i) \/ DeleteWorldsendSong(i)
  BY <1>2, <1>6, SetDeletedKeeps DEF DeleteSong, DeleteWorldsendSong
<1>7. CASE RestoreSong(i) \/ RestoreWorldsendSong(i)
  BY <1>2, <1>7, SetDeletedKeeps DEF RestoreSong, RestoreWorldsendSong
<1>8. CASE UpdateWorldsendSongs(i)
  BY <1>8, UpdateWorldsendSongsKeeps
<1>9. CASE CreateWorldsendSong(i)
  BY <1>9, CreateWorldsendSongKeeps
<1> QED BY <1>1, <1>3, <1>4, <1>5, <1>6, <1>7, <1>8, <1>9

\* Writers of versions change no song, and a version is deleted only after its check.
LEMMA VersionsKeep ==
  ASSUME MasterInv, (\E v \in Date : CreateVersion(v) \/ CheckVersion(v)) \/ DeleteVersion
  PROVE  MasterInv'
<1>1. UNCHANGED <<songs, charts, worldsend, batch, runs, edits>>
  BY DEF CreateVersion, CheckVersion, DeleteVersion
<1>2. TablesInv' /\ BatchInv'
  BY <1>1 DEF MasterInv, TablesInv, BatchInv, SeenInv, RowsOfSongs, WorldsendHasChart
<1>3. VersionsInv'
  <2>1. CASE \E v \in Date : CreateVersion(v)
    BY <1>1, <2>1 DEF MasterInv, VersionsInv, CreateVersion, VersionRangeHeld
  <2>2. CASE \E v \in Date : CheckVersion(v)
    BY <1>1, <2>2 DEF MasterInv, VersionsInv, CheckVersion, VersionRangeHeld, InRange
  <2>3. CASE DeleteVersion
    BY <1>1, <2>3 DEF MasterInv, VersionsInv, DeleteVersion, VersionRangeHeld
  <2> QED BY <2>1, <2>2, <2>3
<1> QED BY <1>2, <1>3 DEF MasterInv

\* Every step keeps the invariant of the song master.
LEMMA MasterStep ==
  ASSUME MasterInv, [MasterNext]_masterVars
  PROVE  MasterInv'
<1>1. CASE BuildBatch
  BY <1>1, BuildKeeps
<1>2. CASE BeginSync
  BY <1>2, BeginKeeps
<1>3. CASE CommitSync
  BY <1>3, CommitKeeps
<1>4. CASE AbortBatch
  BY <1>4, AbortKeeps
<1>5. CASE Administer
  BY <1>5, AdministerKeeps
<1>6. CASE (\E v \in Date : CreateVersion(v) \/ CheckVersion(v)) \/ DeleteVersion
  BY <1>6, VersionsKeep
<1>7. CASE UNCHANGED masterVars
  <2>1. TablesInv' /\ BatchInv'
    BY <1>7 DEF MasterInv, TablesInv, BatchInv, SeenInv, RowsOfSongs, WorldsendHasChart, masterVars
  <2>2. VersionsInv'
    BY <1>7 DEF MasterInv, VersionsInv, VersionRangeHeld, InRange, masterVars
  <2> QED BY <2>1, <2>2 DEF MasterInv
<1> QED BY <1>1, <1>2, <1>3, <1>4, <1>5, <1>6, <1>7 DEF MasterNext

\* The inductive invariant of the song master: types, charts of songs that are there, and
\* what a batch has seen and has in its workspace.  (SyncToMySQL, version_range_lock.go)
THEOREM SpecMasterInv == MasterSpec => []MasterInv
<1>1. MasterInit => MasterInv
  BY MasterInitInv
<1>2. MasterInv /\ [MasterNext]_masterVars => MasterInv'
  BY MasterStep
<1> QED BY <1>1, <1>2, PTL DEF MasterSpec

\* Whatever sources and administrators give, and whatever they do between a batch's
\* snapshot and its commit: a song of WORLD'S END has its chart, a batch that is run again
\* changes nothing, and only a batch puts a song into the time of a version that is being
\* deleted.  (applySongUpsert, SyncToMySQL, version_range_lock.go)
THEOREM SpecMasterHolds == MasterSpec => [](MasterTypeOK /\ SyncSound /\ VersionRangeHeld)
<1>1. MasterInv => MasterTypeOK /\ SyncSound /\ VersionRangeHeld
  BY InvIsPromised
<1> QED BY <1>1, SpecMasterInv, PTL

\* What a commit leaves of a song's row.
LEMMA CommitKeepsSong ==
  ASSUME MasterInv, CommitSync, NEW i \in Idx, songs[i] # None
  PROVE  SongKept(songs[i], songs'[i])
<1>1. CASE batch.ws.songs[i] = None
  <2>1. songs'[i] = songs[i]
    BY <1>1, CommitRows
  <2> QED BY <2>1 DEF SongKept
<1>2. CASE batch.ws.songs[i] # None
  <2>1. songs'[i] = UpdatedSong(songs[i], batch.ws.songs[i])
    BY <1>2, CommitRows
  <2>2. songs[i] \in SongRow /\ batch.ws.songs[i] \in SongUpsert
    BY <1>2 DEF MasterInv, TablesInv, BatchInv, SongTable, CommitSync, WorkspaceSound,
                WorkspaceTypes
  <2> DEFINE old == songs[i]
             new == batch.ws.songs[i]
  <2>3. /\ songs'[i].released = Coalesce(old.released, new.released)
        /\ songs'[i].wiki = Coalesce(old.wiki, new.wiki)
        /\ songs'[i].unlock = IF old.unlock = 1 THEN Coalesce(new.unlock, old.unlock) ELSE old.unlock
        /\ songs'[i].deleted = old.deleted
    BY <2>1, <2>2, UpdatedSongIs
  <2> QED BY <2>3 DEF SongKept, Coalesce
<1> QED BY <1>1, <1>2

\* A commit keeps the designer that a chart of WORLD'S END has.
LEMMA CommitKeepsWorldsend ==
  ASSUME MasterInv, CommitSync, NEW i \in Idx, songs[i] # None, worldsend[i] # None,
         worldsend[i].designer # None
  PROVE  worldsend'[i].designer = worldsend[i].designer
<1>1. /\ worldsend' = SyncedWorldsend(worldsend, batch.seen, batch.ws)
      /\ batch.pc = "syncing"
  BY DEF CommitSync
<1>2. WorkspaceSound(batch.ws) /\ SeenInv
  BY <1>1 DEF MasterInv, BatchInv
<1>3. CASE batch.ws.we[i] = None
  BY <1>1, <1>3, WorldsendCases
<1>4. CASE batch.ws.we[i] # None
  <2>1. batch.ws.songs[i] # None
    BY <1>2, <1>4 DEF WorkspaceSound
  <2>2. batch.seen.songs[i] # None
    BY <2>1, CommitRows
  <2>3. batch.seen.worldsend[i] # None
    BY <1>2, <2>2 DEF SeenInv
  <2>4. worldsend'[i] = UpdatedWorldsend(worldsend[i], batch.ws.we[i])
    BY <1>1, <1>4, <2>3, WorldsendCases
  <2> QED BY <2>4 DEF UpdatedWorldsend, Coalesce
<1> QED BY <1>3, <1>4

\* What a commit leaves of a chart that nobody has edited since the batch looked.
LEMMA CommitKeepsChart ==
  ASSUME MasterInv, CommitSync, NEW i \in Idx, NEW d \in Diff,
         charts[i][d] # None, charts[i][d] = batch.seen.charts[i][d]
  PROVE  ChartKept(charts[i][d], charts'[i][d],
                   IF batch.ws.charts[i][d] = None THEN 0 ELSE batch.ws.charts[i][d].const)
<1> DEFINE old == charts[i][d]
           new == batch.ws.charts[i][d]
           level == IF new = None THEN 0 ELSE new.const
<1>1. /\ charts' = SyncedCharts(charts, batch.seen, batch.ws, batch.mode)
      /\ batch.pc = "syncing"
  BY DEF CommitSync
<1>2. charts'[i][d] = SyncedChart(old, old, new, batch.mode)
  BY <1>1, ChartCases
<1>3. old \in ChartRow /\ new \in ChartRow \cup {None} /\ batch.mode \in Mode
  BY <1>1 DEF MasterInv, TablesInv, BatchInv, ChartTable, WorkspaceSound, WorkspaceTypes
<1> SUFFICES ChartKept(old, charts'[i][d], level)
  OBVIOUS
<1> HIDE DEF old, new
<1>4. CASE charts'[i][d] = old
  <2>1. ChartKept(old, old, level)
    <3> HIDE DEF level
    <3> QED BY Zenon DEF ChartKept
  <2> QED BY <1>4, <2>1, Zenon
<1>5. CASE charts'[i][d] # old
  <2>1. new # None /\ old # None
    <3>1. old # None
      BY DEF old
    <3> QED BY <1>2, <1>5, <3>1, SyncedChartIs
  <2>2. charts'[i][d] = UpdatedChart(old, new, batch.mode)
    BY <1>2, <1>5, <2>1, SyncedChartIs
  <2>3. /\ charts'[i][d].const = ResolvedConst(old, new, batch.mode).const
        /\ charts'[i][d].unknown = ResolvedConst(old, new, batch.mode).unknown
        /\ charts'[i][d].notes = Coalesce(new.notes, old.notes)
        /\ charts'[i][d].designer = Coalesce(old.designer, new.designer)
    BY <2>2 DEF UpdatedChart
  <2>4. /\ old.designer # None => charts'[i][d].designer = old.designer
        /\ old.notes # None => charts'[i][d].notes # None
    BY <2>3 DEF Coalesce
  <2>5. batch.mode = "normal" /\ ~old.unknown =>
          charts'[i][d].const = old.const /\ ~charts'[i][d].unknown
    BY <2>3 DEF ResolvedConst, NormalConst
  <2>6. /\ old.const \in Int /\ new.const \in Int
    BY <1>3, <2>1 DEF ChartRow
  <2>7. batch.mode = "major" /\ level >= FineFrom /\ BandStart(level) = level
          /\ BandContains(level, old.const) => charts'[i][d].const = old.const
    <3> SUFFICES ASSUME batch.mode = "major", level >= FineFrom, BandStart(level) = level,
                        BandContains(level, old.const)
                 PROVE  charts'[i][d].const = old.const
      OBVIOUS
    <3>1. level = new.const
      BY <2>1
    <3>2. new.const <= old.const /\ old.const < new.const + Band /\ ~(new.const < FineFrom)
      <4>1. BandStart(new.const) = new.const
        BY <3>1
      <4>2. BandContains(new.const, old.const)
        BY <3>1
      <4>3. ~(new.const < FineFrom)
        BY <2>6, <3>1 DEF FineFrom
      <4> QED BY <4>1, <4>2, <4>3 DEF BandContains
    <3>3. charts'[i][d].const = MajorConst(old, new).const
      BY <2>3 DEF ResolvedConst
    <3> QED BY <3>2, <3>3 DEF MajorConst
  <2> HIDE DEF level
  <2> QED BY <2>4, <2>5, <2>7, Zenon DEF ChartKept
<1> QED BY <1>4, <1>5

\* No commit of a batch undoes what administrators correct, whatever the batch has read
\* from its sources and whoever edited while it ran.  (buildBulkUpdateSongsSQL,
\* ResolveChartUpdate, buildBulkUpdateWorldsendChartsSQL)
THEOREM SpecManualKept == MasterSpec => ManualKept
<1> DEFINE Kept1 ==
      Commits => \A i \in Idx : songs[i] # None =>
        /\ SongKept(songs[i], songs'[i])
        /\ worldsend[i] # None /\ worldsend[i].designer # None =>
             worldsend'[i].designer = worldsend[i].designer
        /\ \A d \in Diff :
             charts[i][d] # None /\ charts[i][d] = batch.seen.charts[i][d] =>
               ChartKept(charts[i][d], charts'[i][d],
                         IF batch.ws.charts[i][d] = None THEN 0
                         ELSE batch.ws.charts[i][d].const)
<1>1. MasterInv /\ [MasterNext]_masterVars => [Kept1]_masterVars
  <2> SUFFICES ASSUME MasterInv, MasterNext, Commits
               PROVE  Kept1
    OBVIOUS
  <2>1. CommitSync \/ AbortBatch
    <3>1. batch.pc = "syncing" /\ batch'.pc = "idle"
      BY DEF Commits
    <3>2. ~BuildBatch /\ ~BeginSync
      BY <3>1 DEF BuildBatch, BeginSync
    <3>3. Administer => batch' = batch
      BY DEF Administer, UpdateSongs, UpdateChartConstant, CreateSong, DeleteSong, RestoreSong,
             DeleteWorldsendSong, RestoreWorldsendSong, UpdateWorldsendSongs,
             CreateWorldsendSong, SetDeleted, Edit
    <3>4. (\E v \in Date : CreateVersion(v) \/ CheckVersion(v)) \/ DeleteVersion => batch' = batch
      BY DEF CreateVersion, CheckVersion, DeleteVersion
    <3> QED BY <3>1, <3>2, <3>3, <3>4 DEF MasterNext
  <2>2. CASE CommitSync
    BY <2>2, CommitKeepsSong, CommitKeepsWorldsend, CommitKeepsChart
  <2>3. CASE AbortBatch
    <3>1. UNCHANGED <<songs, charts, worldsend>>
      BY <2>3 DEF AbortBatch
    <3>2. \A i \in Idx : SongKept(songs[i], songs[i])
      BY DEF SongKept
    <3>3. \A i \in Idx, d \in Diff : charts[i][d] # None =>
            \A level : ChartKept(charts[i][d], charts[i][d], level)
      BY DEF ChartKept
    <3> QED BY <3>1, <3>2, <3>3
  <2> QED BY <2>1, <2>2, <2>3
<1> HIDE DEF Kept1
<1>2. MasterSpec => [][Kept1]_masterVars
  BY <1>1, SpecMasterInv, PTL DEF MasterSpec
<1> QED BY <1>2 DEF ManualKept, Kept1

-----------------------------------------------------------------------------
(* The courses *)

CourseTable == [CourseIdx -> CourseRow \cup {NoCourse}]
CourseRows == UNION {[S -> CourseRow] : S \in SUBSET CourseIdx}
CourseStamp == Nat \cup {NoCourse}

EditState ==
  {NoEdit}
    \cup [pc : {"checked"}, idx : CourseIdx, name : CourseName]
    \cup [pc : {"locked"}, idx : CourseIdx, row : CourseRow]
    \cup [pc : {"saved"}, idx : CourseIdx, row : CourseRow,
          given : CourseName \X BOOLEAN \X {"name", "deleted"}]
SyncState ==
  {NoEdit}
    \cup [pc : {"writing"}, seen : CourseTable, sheet : CourseSheet, left : SUBSET CourseIdx,
          written : CourseRows]

CourseTypes ==
  /\ courses \in CourseTable /\ edit \in [CourseEditor -> EditState] /\ sync \in SyncState
  /\ second \in 1 .. MaxCourseSecond /\ started \in 0 .. MaxCourseTxs
  /\ kept \in [at : CourseStamp, rows : SUBSET (CourseIdx \X CourseName), asked : CourseStamp]
  /\ applied \in [sheet : CourseSheet \cup {NoCourses}, touched : SUBSET CourseIdx]
  /\ latest \in [at : Nat, by : CourseEditor \cup {"batch", "nobody"}]
  /\ blurred \in BOOLEAN

\* What an editor has locked is there, and what he saves differs from it in what he gave.
EditedRow(e) ==
  LET i == edit[e].idx
      row == edit[e].row
      given == edit[e].given
  IN /\ courses[i] # NoCourse
     /\ edit[e].pc = "locked" => row = courses[i]
     /\ edit[e].pc = "saved" =>
          /\ row.name = given[1] /\ row.deleted = given[2]
          /\ IF given[3] = "name" THEN row.deleted = courses[i].deleted
             ELSE row.name = courses[i].name
\* No two hold one row.
CourseLocks ==
  /\ \A e \in CourseEditor : edit[e].pc \in {"locked", "saved"} => EditedRow(e)
  /\ \A e, f \in CourseEditor, i \in CourseIdx : LockedBy(e, i) /\ LockedBy(f, i) => e = f
  /\ \A e \in CourseEditor, i \in CourseIdx : LockedBy(e, i) => ~WrittenBySync(i)
  /\ sync.pc = "writing" => \A i \in Existing(sync.seen) : courses[i] # NoCourse

\* What a batch has done with a course of its sheet; what nobody edited is as it was seen.
AsInSheet(row, name) == row # NoCourse /\ row.name = name /\ ~row.deleted
SheetInv ==
  /\ sync.pc = "writing" =>
       /\ applied.sheet = NoCourses
       /\ sync.left \subseteq DOMAIN sync.sheet /\ DOMAIN sync.written \subseteq DOMAIN sync.sheet
       /\ \A i \in CourseIdx \ applied.touched : courses[i] = sync.seen[i]
       /\ \A i \in DOMAIN sync.written : AsInSheet(sync.written[i], sync.sheet[i])
       /\ \A i \in DOMAIN sync.sheet \ (sync.left \cup DOMAIN sync.written) :
            AsInSheet(sync.seen[i], sync.sheet[i])
  /\ SheetApplied

\* A row that has been stamped, if it has, after everything that is committed.
StampedLast(row, i) ==
  row = courses[i] \/ \A j \in Existing(courses) : courses[j].at < row.at
StampsInv ==
  /\ latest.at <= second
  /\ \A i \in Existing(courses) : courses[i].at <= latest.at
  /\ \A e \in CourseEditor : edit[e].pc = "saved" => edit[e].row.at <= latest.at
  /\ sync.pc = "writing" => \A i \in DOMAIN sync.written : sync.written[i].at <= latest.at
  /\ ~blurred =>
       /\ latest.by # "nobody" => \A i \in Existing(courses) : courses[i].at < latest.at
       /\ \A e \in CourseEditor : edit[e].pc = "saved" => StampedLast(edit[e].row, edit[e].idx)
       /\ sync.pc = "writing" =>
            \A i \in DOMAIN sync.written : StampedLast(sync.written[i], i)

\* A client has asked for no stamp that is newer than the last.
NotAfter(a, b) == a = NoCourse \/ (b # NoCourse /\ a <= b)
KeptInv ==
  ~blurred => /\ NotAfter(kept.asked, LatestUpdatedAt) /\ NotAfter(kept.at, LatestUpdatedAt)
              /\ KeptListIsCurrent

CoursesInv == CourseTypes /\ CourseLocks /\ FieldsKept /\ SheetInv /\ StampsInv /\ KeptInv

\* The invariant implies what the run checks of the courses.
LEMMA CoursesInvHolds == CoursesInv => CoursesTypeOK /\ CoursesSound
<1> SUFFICES ASSUME CoursesInv PROVE CoursesTypeOK /\ CoursesSound
  OBVIOUS
<1>1. \A e \in CourseEditor : edit[e] \in EditState
  BY DEF CoursesInv, CourseTypes
<1>2. \A e \in CourseEditor : edit[e].pc \in {"idle", "checked", "locked", "saved"}
  BY <1>1 DEF EditState, NoEdit
<1>3. sync.pc \in {"idle", "writing"}
  BY DEF CoursesInv, CourseTypes, SyncState, NoEdit
<1>4. CoursesTypeOK
  BY <1>2, <1>3 DEF CoursesInv, CourseTypes, CoursesTypeOK, CourseTable
<1>5. CoursesSound
  BY DEF CoursesInv, KeptInv, SheetInv, CoursesSound, KeptListIsCurrent
<1> QED
  BY <1>4, <1>5

\* The greatest of some bounded numbers.
LEMMA GreatestStamp ==
  ASSUME NEW S \in SUBSET Nat, S # {}, NEW n \in Nat, \A x \in S : x <= n
  PROVE  Max(S) \in S /\ \A x \in S : x <= Max(S)
<1> DEFINE Bound == {m \in Nat : \A x \in S : x <= m}
<1>1. IsWellFoundedOn(OpToRel(<, Nat), Nat)
  BY NatLessThanWellFounded
<1>2. PICK m \in Bound : \A k \in Bound : ~(<<k, m>> \in OpToRel(<, Nat))
  BY <1>1, WFMin
<1>3. m \in Nat /\ (\A x \in S : x <= m) /\ \A k \in Bound : k \in Nat /\ ~(k < m)
  BY <1>2 DEF OpToRel
<1>4. m \in S
  <2> SUFFICES ASSUME m \notin S PROVE FALSE
    OBVIOUS
  <2>1. \A x \in S : x < m
    BY <1>3
  <2>2. PICK x \in S : TRUE
    OBVIOUS
  <2>3. m - 1 \in Nat /\ \A y \in S : y <= m - 1
    BY <1>3, <2>1, <2>2
  <2> QED
    BY <1>3, <2>3
<1> QED
  BY <1>3, <1>4 DEF Max

\* A course given a name and a flag has them, and is stamped anew if that changes it.
LEMMA UpdatedTyped ==
  ASSUME CourseTypes, NEW row \in CourseRow, NEW name \in CourseName, NEW flag \in BOOLEAN
  PROVE  /\ UpdatedCourse(row, name, flag) \in CourseRow
         /\ UpdatedCourse(row, name, flag).name = name
         /\ UpdatedCourse(row, name, flag).deleted = flag
         /\ UpdatedCourse(row, name, flag) # row =>
              UpdatedCourse(row, name, flag).at = second
<1>1. second \in Nat
  BY CoursesAssumption DEF CourseTypes
<1>2. CASE row.name = name /\ row.deleted = flag
  <2>1. UpdatedCourse(row, name, flag) = row
    BY <1>2 DEF UpdatedCourse
  <2> QED
    BY <1>2, <2>1
<1>3. CASE ~(row.name = name /\ row.deleted = flag)
  <2>1. UpdatedCourse(row, name, flag) = [name |-> name, deleted |-> flag, at |-> second]
    BY <1>3 DEF UpdatedCourse
  <2> QED
    BY <1>1, <2>1 DEF CourseRow
<1> QED
  BY <1>2, <1>3

\* A sheet names courses of the table's indexes.
LEMMA SheetTyped ==
  ASSUME NEW sheet \in CourseSheet
  PROVE  DOMAIN sheet \subseteq CourseIdx /\ \A i \in DOMAIN sheet : sheet[i] \in CourseName
<1>1. PICK S \in SUBSET CourseIdx : sheet \in [S -> CourseName]
  BY CoursesAssumption
<1> QED
  BY <1>1

\* Rows, by what they are made of.
LEMMA RowsTyped ==
  ASSUME NEW rows
  PROVE  rows \in CourseRows <=>
           /\ rows = [i \in DOMAIN rows |-> rows[i]] /\ DOMAIN rows \subseteq CourseIdx
           /\ \A i \in DOMAIN rows : rows[i] \in CourseRow
<1>1. ASSUME rows \in CourseRows
      PROVE  /\ rows = [i \in DOMAIN rows |-> rows[i]] /\ DOMAIN rows \subseteq CourseIdx
             /\ \A i \in DOMAIN rows : rows[i] \in CourseRow
  <2>1. PICK S \in SUBSET CourseIdx : rows \in [S -> CourseRow]
    BY <1>1 DEF CourseRows
  <2> QED
    BY <2>1
<1>2. ASSUME rows = [i \in DOMAIN rows |-> rows[i]], DOMAIN rows \subseteq CourseIdx,
             \A i \in DOMAIN rows : rows[i] \in CourseRow
      PROVE  rows \in CourseRows
  <2>1. rows \in [DOMAIN rows -> CourseRow]
    BY <1>2
  <2> QED
    BY <1>2, <2>1 DEF CourseRows
<1> QED
  BY <1>1, <1>2

\* Rows written over rows are rows, and over a table a table.
LEMMA WrittenTyped ==
  ASSUME NEW rows \in CourseRows
  PROVE  /\ \A more \in CourseRows : WrittenOver(rows, more) \in CourseRows
         /\ \A table \in CourseTable : WrittenOver(table, rows) \in CourseTable
<1> USE RowsTyped
<1>1. ASSUME NEW more \in CourseRows PROVE WrittenOver(rows, more) \in CourseRows
  <2> DEFINE both == WrittenOver(rows, more)
  <2>1. /\ DOMAIN both = DOMAIN more \cup DOMAIN rows
        /\ both = [i \in DOMAIN both |-> both[i]]
        /\ \A i \in DOMAIN both : both[i] = IF i \in DOMAIN more THEN more[i] ELSE rows[i]
    BY DEF WrittenOver
  <2>2. DOMAIN both \subseteq CourseIdx /\ \A i \in DOMAIN both : both[i] \in CourseRow
    BY <2>1
  <2> QED
    BY <2>1, <2>2
<1>2. ASSUME NEW table \in CourseTable PROVE WrittenOver(table, rows) \in CourseTable
  <2>1. DOMAIN table = CourseIdx /\ DOMAIN rows \subseteq CourseIdx
    BY DEF CourseTable
  <2>2. \A i \in CourseIdx : (IF i \in DOMAIN rows THEN rows[i] ELSE table[i])
                               \in CourseRow \cup {NoCourse}
    BY DEF CourseTable
  <2> QED
    BY <2>1, <2>2 DEF CourseTable, WrittenOver
<1> QED
  BY <1>1, <1>2

\* What an edit has, by how far it is.
LEMMA EditIs ==
  ASSUME CourseTypes, NEW e \in CourseEditor
  PROVE  /\ edit[e].pc \in {"idle", "checked", "locked", "saved"}
         /\ edit[e].pc # "idle" => edit[e].idx \in CourseIdx
         /\ edit[e].pc = "checked" => edit[e].name \in CourseName
         /\ edit[e].pc \in {"locked", "saved"} => edit[e].row \in CourseRow
         /\ edit[e].pc = "saved" =>
              edit[e].given[1] \in CourseName /\ edit[e].given[2] \in BOOLEAN
<1>1. edit[e] \in EditState
  BY DEF CourseTypes
<1> QED
  BY <1>1 DEF EditState, NoEdit

\* What a batch has while it writes.
LEMMA SyncIs ==
  ASSUME CourseTypes
  PROVE  /\ sync.pc \in {"idle", "writing"}
         /\ sync.pc = "writing" =>
              /\ sync = [pc |-> "writing", seen |-> sync.seen, sheet |-> sync.sheet,
                         left |-> sync.left, written |-> sync.written]
              /\ sync.seen \in CourseTable /\ sync.sheet \in CourseSheet
              /\ sync.left \in SUBSET CourseIdx /\ sync.written \in CourseRows
<1>1. sync \in SyncState
  BY DEF CourseTypes
<1> QED
  BY <1>1 DEF SyncState, NoEdit

\* The time of a stamp, and who took it, whether or not a step takes one.
LEMMA StampTyped ==
  ASSUME CourseTypes, NEW who \in CourseEditor \cup {"batch"}
  PROVE  /\ StampsCourse(who) \/ UNCHANGED <<latest, blurred>> =>
              /\ latest' \in [at : Nat, by : CourseEditor \cup {"batch", "nobody"}]
              /\ blurred' \in BOOLEAN
         /\ \A rows : CommitsCourses(who, rows) =>
              /\ latest' \in [at : Nat, by : CourseEditor \cup {"batch", "nobody"}]
              /\ blurred' \in BOOLEAN
<1>1. second \in Nat /\ latest \in [at : Nat, by : CourseEditor \cup {"batch", "nobody"}]
  BY CoursesAssumption DEF CourseTypes
<1>2. CASE StampsCourse(who)
  BY <1>1, <1>2 DEF StampsCourse, CourseTypes
<1>3. ASSUME NEW rows, CommitsCourses(who, rows)
      PROVE  /\ latest' \in [at : Nat, by : CourseEditor \cup {"batch", "nobody"}]
             /\ blurred' \in BOOLEAN
  BY <1>1, <1>3 DEF CommitsCourses, CourseTypes
<1> QED
  BY <1>1, <1>2, <1>3 DEF CourseTypes

\* A step of an editor keeps the types.
LEMMA EditorTyped ==
  ASSUME CourseTypes, NEW e \in CourseEditor,
         \/ LookUpIdx(e) \/ CreateCourse(e) \/ LockCourse(e) \/ SaveCourse(e)
         \/ CommitCourse(e) \/ RollBackCourse(e)
  PROVE  CourseTypes'
<1> DEFINE i == edit[e].idx
<1>1. /\ sync' = sync /\ second' = second /\ kept' = kept
  BY DEF LookUpIdx, CreateCourse, LockCourse, SaveCourse, CommitCourse, RollBackCourse
<1>2. started' \in 0 .. MaxCourseTxs
  BY CoursesAssumption DEF StartsCourseTx, LookUpIdx, CreateCourse, LockCourse, SaveCourse,
     CommitCourse, RollBackCourse, CourseTypes
<1>3. \A x \in EditState : [edit EXCEPT ![e] = x] \in [CourseEditor -> EditState]
  BY DEF CourseTypes
<1>4. \A x : applied' = [applied EXCEPT !.touched = x] /\ x \in SUBSET CourseIdx =>
        applied' \in [sheet : CourseSheet \cup {NoCourses}, touched : SUBSET CourseIdx]
  BY DEF CourseTypes
<1>5. NoEdit \in EditState
  BY DEF EditState
<1>6. CASE LookUpIdx(e)
  <2>1. PICK j \in CourseIdx, name \in CourseName :
          edit' = [edit EXCEPT ![e] = [pc |-> "checked", idx |-> j, name |-> name]]
    BY <1>6 DEF LookUpIdx
  <2>2. [pc |-> "checked", idx |-> j, name |-> name] \in EditState
    BY DEF EditState
  <2>3. edit' \in [CourseEditor -> EditState]
    BY <1>3, <2>1, <2>2
  <2>4. UNCHANGED <<courses, applied, latest, blurred>>
    BY <1>6 DEF LookUpIdx
  <2> QED
    BY <1>1, <1>2, <2>3, <2>4 DEF CourseTypes
<1>7. CASE CreateCourse(e)
  <2>1. edit' \in [CourseEditor -> EditState]
    BY <1>3, <1>5, <1>7 DEF CreateCourse
  <2>2. i \in CourseIdx /\ edit[e].name \in CourseName /\ second \in Nat
    BY <1>7, EditIs, CoursesAssumption DEF CreateCourse, CourseTypes
  <2>3. CASE courses[i] # NoCourse
    <3>1. UNCHANGED <<courses, applied, latest, blurred>>
      BY <1>7, <2>3 DEF CreateCourse
    <3> QED
      BY <1>1, <1>2, <2>1, <3>1 DEF CourseTypes
  <2>4. CASE courses[i] = NoCourse
    <3>1. /\ courses' = [courses EXCEPT ![i] = [name |-> edit[e].name, deleted |-> FALSE,
                                              at |-> second]]
          /\ applied' = [applied EXCEPT !.touched = @ \cup {i}]
          /\ latest' = [at |-> second, by |-> "nobody"]
          /\ blurred' = (blurred \/ latest.at = second \/ CourseUncommitted(e))
      BY <1>7, <2>4 DEF CreateCourse, TouchesCourse
    <3>2. courses' \in CourseTable
      BY <2>2, <3>1 DEF CourseTypes, CourseTable, CourseRow
    <3>3. applied' \in [sheet : CourseSheet \cup {NoCourses}, touched : SUBSET CourseIdx]
      BY <2>2, <3>1 DEF CourseTypes
    <3>4. /\ latest' \in [at : Nat, by : CourseEditor \cup {"batch", "nobody"}]
          /\ blurred' \in BOOLEAN
      BY <2>2, <3>1 DEF CourseTypes
    <3> QED
      BY <1>1, <1>2, <2>1, <3>2, <3>3, <3>4 DEF CourseTypes
  <2> QED
    BY <2>3, <2>4
<1>8. CASE LockCourse(e)
  <2>1. PICK j \in Existing(courses) :
          edit' = [edit EXCEPT ![e] = [pc |-> "locked", idx |-> j, row |-> courses[j]]]
    BY <1>8 DEF LockCourse
  <2>2. j \in CourseIdx /\ courses[j] \in CourseRow
    BY DEF Existing, CourseTypes, CourseTable
  <2>3. [pc |-> "locked", idx |-> j, row |-> courses[j]] \in EditState
    BY <2>2 DEF EditState
  <2>4. edit' \in [CourseEditor -> EditState]
    BY <1>3, <2>1, <2>3
  <2>5. UNCHANGED <<courses, applied, latest, blurred>>
    BY <1>8 DEF LockCourse
  <2> QED
    BY <1>1, <1>2, <2>4, <2>5 DEF CourseTypes
<1>9. CASE SaveCourse(e)
  <2>1. PICK given \in {<<name, edit[e].row.deleted, "name">> : name \in CourseName}
                         \cup {<<edit[e].row.name, flag, "deleted">> : flag \in BOOLEAN} :
          LET new == UpdatedCourse(edit[e].row, given[1], given[2])
          IN /\ edit' = [edit EXCEPT ![e] = [pc |-> "saved", idx |-> i, row |-> new,
                                             given |-> given]]
             /\ IF new = edit[e].row THEN UNCHANGED <<latest, blurred>> ELSE StampsCourse(e)
    BY <1>9 DEF SaveCourse
  <2>2. i \in CourseIdx /\ edit[e].row \in CourseRow
    BY <1>9, EditIs DEF SaveCourse
  <2>3. given \in CourseName \X BOOLEAN \X {"name", "deleted"}
    BY <2>2 DEF CourseRow
  <2>4. given[1] \in CourseName /\ given[2] \in BOOLEAN
    BY <2>3
  <2>5. UpdatedCourse(edit[e].row, given[1], given[2]) \in CourseRow
    BY <2>2, <2>4, UpdatedTyped
  <2>6. \A new \in CourseRow :
          [pc |-> "saved", idx |-> i, row |-> new, given |-> given] \in EditState
    BY <2>2, <2>3 DEF EditState
  <2>7. edit' \in [CourseEditor -> EditState]
    BY <1>3, <2>1, <2>5, <2>6
  <2>8. UNCHANGED <<courses, applied>>
    BY <1>9 DEF SaveCourse
  <2>9. /\ latest' \in [at : Nat, by : CourseEditor \cup {"batch", "nobody"}]
        /\ blurred' \in BOOLEAN
    BY <2>1, StampTyped
  <2> QED
    BY <1>1, <1>2, <2>7, <2>8, <2>9 DEF CourseTypes
<1>10. CASE CommitCourse(e)
  <2>1. edit' \in [CourseEditor -> EditState]
    BY <1>3, <1>5, <1>10 DEF CommitCourse
  <2>2. i \in CourseIdx /\ edit[e].row \in CourseRow
    BY <1>10, EditIs DEF CommitCourse
  <2>3. /\ courses' = [courses EXCEPT ![i] = edit[e].row]
        /\ applied' = [applied EXCEPT !.touched = @ \cup {i}]
        /\ CommitsCourses(e, [courses EXCEPT ![i] = edit[e].row])
    BY <1>10 DEF CommitCourse, CommitsCourses, TouchesCourse
  <2>4. courses' \in CourseTable
    BY <2>2, <2>3 DEF CourseTypes, CourseTable
  <2>5. applied' \in [sheet : CourseSheet \cup {NoCourses}, touched : SUBSET CourseIdx]
    BY <2>2, <2>3 DEF CourseTypes
  <2>6. /\ latest' \in [at : Nat, by : CourseEditor \cup {"batch", "nobody"}]
        /\ blurred' \in BOOLEAN
    BY <2>3, StampTyped
  <2> QED
    BY <1>1, <1>2, <2>1, <2>4, <2>5, <2>6 DEF CourseTypes
<1>11. CASE RollBackCourse(e)
  <2>1. edit' \in [CourseEditor -> EditState]
    BY <1>3, <1>5, <1>11 DEF RollBackCourse
  <2>2. UNCHANGED <<courses, applied, latest, blurred>>
    BY <1>11 DEF RollBackCourse
  <2> QED
    BY <1>1, <1>2, <2>1, <2>2 DEF CourseTypes
<1> QED
  BY <1>6, <1>7, <1>8, <1>9, <1>10, <1>11

\* What the batch knows of a course it updates.
LEMMA SeenIs ==
  ASSUME CourseTypes, CourseLocks, NEW i \in sync.left \cap Existing(sync.seen),
         sync.pc = "writing", sync.left \subseteq DOMAIN sync.sheet
  PROVE  /\ i \in CourseIdx /\ courses[i] \in CourseRow /\ sync.seen[i] \in CourseRow
         /\ sync.sheet[i] \in CourseName
<1>1. i \in CourseIdx /\ sync.seen[i] \in CourseRow
  BY SyncIs DEF Existing, CourseTable
<1>2. courses[i] \in CourseRow
  BY <1>1 DEF CourseLocks, CourseTypes, CourseTable
<1>3. sync.sheet[i] \in CourseName
  BY SyncIs, SheetTyped
<1> QED
  BY <1>1, <1>2, <1>3

\* A batch, in parts: what its steps make of its transaction.
LEMMA SyncSteps ==
  ASSUME CourseTypes, sync.pc = "writing", NEW left \in SUBSET CourseIdx, NEW written \in CourseRows
  PROVE  /\ [sync EXCEPT !.left = left] \in SyncState
         /\ [sync EXCEPT !.left = left].pc = "writing"
         /\ [sync EXCEPT !.left = left].seen = sync.seen
         /\ [sync EXCEPT !.left = left].sheet = sync.sheet
         /\ [sync EXCEPT !.left = left].left = left
         /\ [sync EXCEPT !.left = left].written = sync.written
         /\ [sync EXCEPT !.left = left, !.written = written] \in SyncState
         /\ [sync EXCEPT !.left = left, !.written = written].pc = "writing"
         /\ [sync EXCEPT !.left = left, !.written = written].seen = sync.seen
         /\ [sync EXCEPT !.left = left, !.written = written].sheet = sync.sheet
         /\ [sync EXCEPT !.left = left, !.written = written].left = left
         /\ [sync EXCEPT !.left = left, !.written = written].written = written
<1>1. PICK seen \in CourseTable, sheet \in CourseSheet, l \in SUBSET CourseIdx, w \in CourseRows :
        sync = [pc |-> "writing", seen |-> seen, sheet |-> sheet, left |-> l, written |-> w]
  BY SyncIs
<1>2. [sync EXCEPT !.left = left]
        = [pc |-> "writing", seen |-> seen, sheet |-> sheet, left |-> left, written |-> w]
  BY <1>1
<1>3. [sync EXCEPT !.left = left, !.written = written]
        = [pc |-> "writing", seen |-> seen, sheet |-> sheet, left |-> left, written |-> written]
  <2> DEFINE r == [pc |-> "writing", seen |-> seen, sheet |-> sheet, left |-> l, written |-> w]
  <2>1. [r EXCEPT !["left"] = left, !["written"] = written]
          = [pc |-> "writing", seen |-> seen, sheet |-> sheet, left |-> left, written |-> written]
    OBVIOUS
  <2>2. [sync EXCEPT !.left = left, !.written = written]
          = [sync EXCEPT !["left"] = left, !["written"] = written]
    OBVIOUS
  <2>3. sync = r
    BY <1>1
  <2> HIDE DEF r
  <2> QED
    BY Zenon, <2>1, <2>2, <2>3
<1>4. \A l2 \in SUBSET CourseIdx, w2 \in CourseRows :
        [pc |-> "writing", seen |-> seen, sheet |-> sheet, left |-> l2, written |-> w2] \in SyncState
  BY <1>1 DEF SyncState
<1> QED
  BY <1>1, <1>2, <1>3, <1>4

\* The latest of the stamps of a table.
Newest(table) == Max({table[i].at : i \in Existing(table)})

\* The newest stamp of a table that has rows is one of theirs.
LEMMA NewestIs ==
  ASSUME NEW table \in CourseTable, Existing(table) # {}, NEW n \in Nat,
         \A i \in Existing(table) : table[i].at <= n
  PROVE  /\ Newest(table) \in Nat
         /\ \E i \in Existing(table) : Newest(table) = table[i].at
         /\ \A i \in Existing(table) : table[i].at <= Newest(table)
<1> DEFINE stamps == {table[i].at : i \in Existing(table)}
<1>1. \A i \in Existing(table) : table[i].at \in Nat
  BY DEF Existing, CourseTable, CourseRow
<1>2. stamps \in SUBSET Nat /\ stamps # {} /\ \A x \in stamps : x <= n
  BY <1>1
<1>3. Max(stamps) \in stamps /\ \A x \in stamps : x <= Max(stamps)
  <2> HIDE DEF stamps
  <2> QED
    BY <1>2, GreatestStamp
<1> QED
  BY <1>2, <1>3 DEF Newest

\* What GET /internal/courses/updated-at answers.
LEMMA LatestIs ==
  ASSUME CourseTypes, StampsInv
  PROVE  /\ LatestUpdatedAt \in CourseStamp
         /\ LatestUpdatedAt = IF Existing(courses) = {} THEN NoCourse ELSE Newest(courses)
<1>1. latest.at \in Nat /\ \A i \in Existing(courses) : courses[i].at <= latest.at
  BY DEF CourseTypes, StampsInv
<1>2. LatestUpdatedAt = IF Existing(courses) = {} THEN NoCourse ELSE Newest(courses)
  BY DEF LatestUpdatedAt, Newest
<1>3. courses \in CourseTable
  BY DEF CourseTypes
<1> QED
  BY <1>1, <1>2, <1>3, NewestIs DEF CourseStamp

\* A step of a batch, of a client or of the clock keeps the types.
LEMMA OthersTyped ==
  ASSUME CourseTypes, CourseLocks, SheetInv, StampsInv,
         \/ BeginCourseSync \/ UpdateSeenCourse \/ InsertNewCourses
         \/ CommitCourseSync \/ AbortCourseSync
         \/ AskUpdatedAt \/ FetchCourses \/ CoursesTick
  PROVE  CourseTypes'
<1>1. edit' = edit
  BY DEF BeginCourseSync, UpdateSeenCourse, InsertNewCourses, CommitCourseSync, AbortCourseSync,
     AskUpdatedAt, FetchCourses, CoursesTick
<1>2. NoEdit \in SyncState /\ NoCourses \in CourseRows
  <2>1. NoCourses \in CourseRows
    BY RowsTyped DEF NoCourses
  <2> QED
    BY <2>1 DEF SyncState
<1>3. NoBatch \in [sheet : CourseSheet \cup {NoCourses}, touched : SUBSET CourseIdx]
  BY DEF NoBatch
<1>4. CASE BeginCourseSync
  <2>1. PICK sheet \in CourseSheet :
          sync' = [pc |-> "writing", seen |-> courses, sheet |-> sheet, left |-> DOMAIN sheet,
                   written |-> NoCourses]
    BY <1>4 DEF BeginCourseSync
  <2>2. sync' \in SyncState
    BY <1>2, <2>1, SheetTyped DEF SyncState, CourseTypes
  <2>3. applied' \in [sheet : CourseSheet \cup {NoCourses}, touched : SUBSET CourseIdx]
    BY <1>4 DEF BeginCourseSync
  <2>4. started' \in 0 .. MaxCourseTxs
    BY <1>4, CoursesAssumption DEF BeginCourseSync, StartsCourseTx, CourseTypes
  <2>5. UNCHANGED <<courses, second, kept, latest, blurred>>
    BY <1>4 DEF BeginCourseSync
  <2> QED
    BY <1>1, <2>2, <2>3, <2>4, <2>5 DEF CourseTypes
<1>5. CASE UpdateSeenCourse
  <2>1. PICK i \in sync.left \cap Existing(sync.seen) :
          LET new == UpdatedCourse(courses[i], sync.sheet[i], FALSE)
          IN IF sync.seen[i].name = sync.sheet[i] /\ ~sync.seen[i].deleted
             THEN sync' = [sync EXCEPT !.left = @ \ {i}] /\ UNCHANGED <<latest, blurred>>
             ELSE /\ sync' = [sync EXCEPT !.left = @ \ {i},
                                          !.written = WrittenOver(@, [j \in {i} |-> new])]
                  /\ IF new = courses[i] THEN UNCHANGED <<latest, blurred>>
                     ELSE StampsCourse("batch")
    BY <1>5 DEF UpdateSeenCourse
  <2> DEFINE new == UpdatedCourse(courses[i], sync.sheet[i], FALSE)
  <2>2. sync.pc = "writing"
    BY <1>5 DEF UpdateSeenCourse
  <2>3. i \in CourseIdx /\ new \in CourseRow
    BY <2>2, SeenIs, UpdatedTyped DEF SheetInv
  <2>4. [j \in {i} |-> new] \in CourseRows
    <3> HIDE DEF new
    <3> QED
      BY <2>3, RowsTyped
  <2>5. WrittenOver(sync.written, [j \in {i} |-> new]) \in CourseRows
    BY <2>2, <2>4, SyncIs, WrittenTyped
  <2>6. sync.left \ {i} \in SUBSET CourseIdx
    BY <2>2, SyncIs
  <2>7. sync' \in SyncState
    <3> HIDE DEF new
    <3>1. CASE sync' = [sync EXCEPT !.left = @ \ {i}]
      BY <2>2, <2>5, <2>6, <3>1, SyncSteps
    <3>2. CASE sync' = [sync EXCEPT !.left = @ \ {i},
                                    !.written = WrittenOver(@, [j \in {i} |-> new])]
      BY <2>2, <2>5, <2>6, <3>2, SyncSteps
    <3> QED
      BY <2>1, <3>1, <3>2 DEF new
  <2>8. /\ latest' \in [at : Nat, by : CourseEditor \cup {"batch", "nobody"}]
        /\ blurred' \in BOOLEAN
    BY <2>1, StampTyped
  <2>9. UNCHANGED <<courses, second, kept, started, applied>>
    BY <1>5 DEF UpdateSeenCourse
  <2> QED
    BY <1>1, <2>7, <2>8, <2>9 DEF CourseTypes
<1>6. CASE InsertNewCourses
  <2> DEFINE rows == [i \in sync.left |-> [name |-> sync.sheet[i], deleted |-> FALSE,
                                           at |-> second]]
  <2>1. /\ sync.pc = "writing"
        /\ IF \E i \in sync.left : courses[i] # NoCourse
           THEN sync' = NoEdit /\ applied' = NoBatch /\ UNCHANGED <<latest, blurred>>
           ELSE /\ sync' = [sync EXCEPT !.left = {}, !.written = WrittenOver(@, rows)]
                /\ StampsCourse("batch") /\ UNCHANGED applied
        /\ UNCHANGED <<courses, second, kept, started>>
    BY <1>6 DEF InsertNewCourses
  <2>2. second \in Nat /\ \A i \in sync.left : i \in CourseIdx /\ sync.sheet[i] \in CourseName
    BY <2>1, SyncIs, SheetTyped, CoursesAssumption DEF CourseTypes, SheetInv
  <2>3. rows \in CourseRows
    <3>1. DOMAIN rows = sync.left /\ \A i \in DOMAIN rows : rows[i] \in CourseRow
      BY <2>2 DEF CourseRow
    <3>2. rows = [i \in DOMAIN rows |-> rows[i]]
      OBVIOUS
    <3> HIDE DEF rows
    <3> QED
      BY <2>2, <3>1, <3>2, RowsTyped
  <2>4. WrittenOver(sync.written, rows) \in CourseRows
    BY <2>1, <2>3, SyncIs, WrittenTyped
  <2>5. sync' \in SyncState
    <3> HIDE DEF rows
    <3>1. CASE sync' = [sync EXCEPT !.left = {}, !.written = WrittenOver(@, rows)]
      BY <2>1, <2>4, <3>1, SyncSteps
    <3> QED
      BY <1>2, <2>1, <3>1
  <2>6. /\ latest' \in [at : Nat, by : CourseEditor \cup {"batch", "nobody"}]
        /\ blurred' \in BOOLEAN
    BY <2>1, StampTyped
  <2>7. applied' \in [sheet : CourseSheet \cup {NoCourses}, touched : SUBSET CourseIdx]
    BY <1>3, <2>1 DEF CourseTypes
  <2> QED
    BY <1>1, <2>1, <2>5, <2>6, <2>7 DEF CourseTypes
<1>7. CASE CommitCourseSync
  <2>1. /\ sync.pc = "writing" /\ sync' = NoEdit
        /\ CommitsCourses("batch", WrittenOver(courses, sync.written))
        /\ applied' = [applied EXCEPT !.sheet = sync.sheet]
        /\ UNCHANGED <<second, kept, started>>
    BY <1>7 DEF CommitCourseSync
  <2>2. courses' \in CourseTable
    BY <2>1, SyncIs, WrittenTyped DEF CommitsCourses, CourseTypes
  <2>3. applied' \in [sheet : CourseSheet \cup {NoCourses}, touched : SUBSET CourseIdx]
    BY <2>1, SyncIs DEF CourseTypes
  <2>4. /\ latest' \in [at : Nat, by : CourseEditor \cup {"batch", "nobody"}]
        /\ blurred' \in BOOLEAN
    BY <2>1, StampTyped
  <2> QED
    BY <1>1, <1>2, <2>1, <2>2, <2>3, <2>4 DEF CourseTypes
<1>8. CASE AbortCourseSync
  BY <1>1, <1>2, <1>3, <1>8 DEF AbortCourseSync, CourseTypes
<1>9. CASE AskUpdatedAt
  <2>1. kept' = [kept EXCEPT !.asked = LatestUpdatedAt]
    BY <1>9 DEF AskUpdatedAt
  <2>2. kept' \in [at : CourseStamp, rows : SUBSET (CourseIdx \X CourseName), asked : CourseStamp]
    BY <2>1, LatestIs DEF CourseTypes
  <2>3. UNCHANGED <<courses, sync, second, started, applied, latest, blurred>>
    BY <1>9 DEF AskUpdatedAt
  <2> QED
    BY <1>1, <2>2, <2>3 DEF CourseTypes
<1>10. CASE FetchCourses
  <2>1. kept' = [kept EXCEPT !.at = kept.asked, !.rows = ListedCourses]
    BY <1>10 DEF FetchCourses
  <2>2. ListedCourses \in SUBSET (CourseIdx \X CourseName)
    BY DEF ListedCourses, Existing, CourseTypes, CourseTable, CourseRow
  <2>3. kept' \in [at : CourseStamp, rows : SUBSET (CourseIdx \X CourseName), asked : CourseStamp]
    BY <2>1, <2>2 DEF CourseTypes
  <2>4. UNCHANGED <<courses, sync, second, started, applied, latest, blurred>>
    BY <1>10 DEF FetchCourses
  <2> QED
    BY <1>1, <2>3, <2>4 DEF CourseTypes
<1>11. CASE CoursesTick
  <2>1. second' \in 1 .. MaxCourseSecond
    BY <1>11, CoursesAssumption DEF CoursesTick, CourseTypes
  <2>2. UNCHANGED <<courses, sync, kept, started, applied, latest, blurred>>
    BY <1>11 DEF CoursesTick
  <2> QED
    BY <1>1, <2>1, <2>2 DEF CourseTypes
<1> QED
  BY <1>4, <1>5, <1>6, <1>7, <1>8, <1>9, <1>10, <1>11

\* An editor that gives up its lock, and changes at most what it had locked, disturbs no other.
LEMMA ReleaseKeepsLocks ==
  ASSUME CourseTypes, CourseLocks, NEW e \in CourseEditor,
         edit'[e].pc \in {"idle", "checked"}, \A f \in CourseEditor \ {e} : edit'[f] = edit[f],
         sync' = sync,
         \A j \in CourseIdx : courses[j] # NoCourse => courses'[j] # NoCourse,
         \A f \in CourseEditor \ {e}, j \in CourseIdx : LockedBy(f, j) => courses'[j] = courses[j]
  PROVE  CourseLocks'
<1>2. \A f \in CourseEditor, j \in CourseIdx :
        LockedBy(f, j)' => f # e /\ LockedBy(f, j)
  BY DEF LockedBy
<1>3. ASSUME NEW f \in CourseEditor, edit'[f].pc \in {"locked", "saved"} PROVE EditedRow(f)'
  <2>1. f # e /\ edit'[f] = edit[f] /\ EditedRow(f)
    BY <1>3 DEF CourseLocks
  <2>2. edit[f].idx \in CourseIdx /\ LockedBy(f, edit[f].idx)
    BY <1>3, <2>1, EditIs DEF LockedBy
  <2>3. courses'[edit[f].idx] = courses[edit[f].idx]
    BY <2>1, <2>2
  <2> QED
    BY <2>1, <2>3 DEF EditedRow
<1>4. \A f \in CourseEditor, j \in CourseIdx : LockedBy(f, j)' => ~WrittenBySync(j)'
  BY <1>2 DEF CourseLocks, WrittenBySync
<1>5. \A f, g \in CourseEditor, j \in CourseIdx : LockedBy(f, j)' /\ LockedBy(g, j)' => f = g
  BY <1>2 DEF CourseLocks
<1>6. sync'.pc = "writing" => \A i \in Existing(sync'.seen) : courses'[i] # NoCourse
  BY DEF CourseLocks, Existing
<1> QED
  BY <1>3, <1>4, <1>5, <1>6 DEF CourseLocks

\* An editor locks a row that nobody holds, and saves what differs from it in what he gave.
LEMMA EditorLocks ==
  ASSUME CourseTypes, CourseLocks, NEW e \in CourseEditor,
         \/ LookUpIdx(e) \/ CreateCourse(e) \/ LockCourse(e) \/ SaveCourse(e)
         \/ CommitCourse(e) \/ RollBackCourse(e)
  PROVE  CourseLocks'
<1> DEFINE i == edit[e].idx
<1>1. sync' = sync
  BY DEF LookUpIdx, CreateCourse, LockCourse, SaveCourse, CommitCourse, RollBackCourse
<1>2. edit' = [edit EXCEPT ![e] = NoEdit] =>
        edit'[e].pc = "idle" /\ \A f \in CourseEditor \ {e} : edit'[f] = edit[f]
  BY DEF NoEdit, CourseTypes
<1>3. CASE LookUpIdx(e)
  <2>1. PICK j \in CourseIdx, name \in CourseName :
          edit' = [edit EXCEPT ![e] = [pc |-> "checked", idx |-> j, name |-> name]]
    BY <1>3 DEF LookUpIdx
  <2>2. courses' = courses
    BY <1>3 DEF LookUpIdx
  <2>3. edit'[e].pc = "checked" /\ \A f \in CourseEditor \ {e} : edit'[f] = edit[f]
    BY <2>1 DEF CourseTypes
  <2> QED
    BY <1>1, <2>2, <2>3, ReleaseKeepsLocks
<1>4. CASE CreateCourse(e)
  <2>1. edit' = [edit EXCEPT ![e] = NoEdit] /\ i \in CourseIdx
    BY <1>4, EditIs DEF CreateCourse
  <2>2. \A j \in CourseIdx : courses[j] # NoCourse => courses'[j] = courses[j]
    BY <1>4 DEF CreateCourse, CourseTypes, CourseTable
  <2>3. \A f \in CourseEditor, j \in CourseIdx : LockedBy(f, j) => courses[j] # NoCourse
    BY DEF CourseLocks, LockedBy, EditedRow
  <2> QED
    BY <1>1, <1>2, <2>1, <2>2, <2>3, ReleaseKeepsLocks
<1>5. CASE LockCourse(e)
  <2>1. PICK j \in Existing(courses) :
          /\ FreeFor(e, j)
          /\ edit' = [edit EXCEPT ![e] = [pc |-> "locked", idx |-> j, row |-> courses[j]]]
    BY <1>5 DEF LockCourse
  <2>2. courses' = courses
    BY <1>5 DEF LockCourse
  <2>3. /\ edit'[e] = [pc |-> "locked", idx |-> j, row |-> courses[j]]
        /\ \A f \in CourseEditor \ {e} : edit'[f] = edit[f]
    BY <2>1 DEF CourseTypes
  <2>4. \A f \in CourseEditor, k \in CourseIdx :
          LockedBy(f, k)' => IF f = e THEN k = j ELSE LockedBy(f, k)
    BY <2>3 DEF LockedBy
  <2>5. \A f \in CourseEditor : edit'[f].pc \in {"locked", "saved"} => EditedRow(f)'
    BY <2>1, <2>2, <2>3 DEF CourseLocks, EditedRow, Existing
  <2>6. \A f, g \in CourseEditor, k \in CourseIdx : LockedBy(f, k)' /\ LockedBy(g, k)' => f = g
    BY <2>1, <2>4 DEF CourseLocks, FreeFor
  <2>7. \A f \in CourseEditor, k \in CourseIdx : LockedBy(f, k)' => ~WrittenBySync(k)'
    BY <1>1, <2>1, <2>4 DEF CourseLocks, FreeFor, WrittenBySync
  <2>8. sync'.pc = "writing" => \A k \in Existing(sync'.seen) : courses'[k] # NoCourse
    BY <1>1, <2>2 DEF CourseLocks
  <2> QED
    BY <2>5, <2>6, <2>7, <2>8 DEF CourseLocks
<1>6. CASE SaveCourse(e)
  <2>1. PICK given \in {<<name, edit[e].row.deleted, "name">> : name \in CourseName}
                         \cup {<<edit[e].row.name, flag, "deleted">> : flag \in BOOLEAN} :
          edit' = [edit EXCEPT ![e] =
                     [pc |-> "saved", idx |-> i,
                      row |-> UpdatedCourse(edit[e].row, given[1], given[2]), given |-> given]]
    BY <1>6 DEF SaveCourse
  <2> DEFINE new == UpdatedCourse(edit[e].row, given[1], given[2])
  <2>2. courses' = courses /\ edit[e].pc = "locked"
    BY <1>6 DEF SaveCourse
  <2>3. /\ edit'[e] = [pc |-> "saved", idx |-> i, row |-> new, given |-> given]
        /\ \A f \in CourseEditor \ {e} : edit'[f] = edit[f]
    BY <2>1 DEF CourseTypes
  <2>4. \A f \in CourseEditor, k \in CourseIdx : LockedBy(f, k)' => LockedBy(f, k)
    BY <2>2, <2>3 DEF LockedBy
  <2>5. courses[i] # NoCourse /\ edit[e].row = courses[i] /\ edit[e].row \in CourseRow
    BY <2>2, EditIs DEF CourseLocks, EditedRow
  <2>6. given[1] \in CourseName /\ given[2] \in BOOLEAN
    BY <2>1, <2>5 DEF CourseRow
  <2>7. new.name = given[1] /\ new.deleted = given[2]
    BY <2>5, <2>6, UpdatedTyped
  <2>8. IF given[3] = "name" THEN given[2] = courses[i].deleted ELSE given[1] = courses[i].name
    <3>1. CASE given \in {<<name, edit[e].row.deleted, "name">> : name \in CourseName}
      BY <2>5, <3>1
    <3>2. CASE given \in {<<edit[e].row.name, flag, "deleted">> : flag \in BOOLEAN}
      BY <2>5, <3>2
    <3> QED
      BY <2>1, <3>1, <3>2
  <2>9. EditedRow(e)'
    <3> HIDE DEF new
    <3>1. /\ edit'[e].idx = i /\ edit'[e].row = new /\ edit'[e].given = given
          /\ edit'[e].pc = "saved"
      BY <2>3
    <3> QED
      BY <2>2, <2>5, <2>7, <2>8, <3>1 DEF EditedRow
  <2>10. \A f \in CourseEditor : edit'[f].pc \in {"locked", "saved"} => EditedRow(f)'
    BY <2>2, <2>3, <2>9 DEF CourseLocks, EditedRow
  <2>11. \A f, g \in CourseEditor, k \in CourseIdx : LockedBy(f, k)' /\ LockedBy(g, k)' => f = g
    BY <2>4 DEF CourseLocks
  <2>12. \A f \in CourseEditor, k \in CourseIdx : LockedBy(f, k)' => ~WrittenBySync(k)'
    BY <1>1, <2>4 DEF CourseLocks, WrittenBySync
  <2>13. sync'.pc = "writing" => \A k \in Existing(sync'.seen) : courses'[k] # NoCourse
    BY <1>1, <2>2 DEF CourseLocks
  <2> QED
    BY <2>10, <2>11, <2>12, <2>13 DEF CourseLocks
<1>7. CASE CommitCourse(e)
  <2>1. /\ edit[e].pc = "saved" /\ edit' = [edit EXCEPT ![e] = NoEdit]
        /\ courses' = [courses EXCEPT ![i] = edit[e].row]
    BY <1>7 DEF CommitCourse, CommitsCourses
  <2>2. i \in CourseIdx /\ edit[e].row \in CourseRow /\ LockedBy(e, i)
    BY <2>1, EditIs DEF LockedBy
  <2>3. \A j \in CourseIdx : courses[j] # NoCourse => courses'[j] # NoCourse
    BY <2>1, <2>2, NoCourseIsNoRow DEF CourseTypes, CourseTable
  <2>4. \A f \in CourseEditor \ {e}, j \in CourseIdx : LockedBy(f, j) => j # i
    BY <2>2 DEF CourseLocks
  <2>5. \A f \in CourseEditor \ {e}, j \in CourseIdx : LockedBy(f, j) => courses'[j] = courses[j]
    BY <2>1, <2>4 DEF CourseTypes, CourseTable
  <2> QED
    BY <1>1, <1>2, <2>1, <2>3, <2>5, ReleaseKeepsLocks
<1>8. CASE RollBackCourse(e)
  <2>1. edit' = [edit EXCEPT ![e] = NoEdit] /\ courses' = courses
    BY <1>8 DEF RollBackCourse
  <2> QED
    BY <1>1, <1>2, <2>1, ReleaseKeepsLocks
<1> QED
  BY <1>3, <1>4, <1>5, <1>6, <1>7, <1>8

\* What a step of a batch leaves and does: its rows are those it had, and perhaps one that no
\* editor has locked, or those that were not there.
LEMMA OthersLocks ==
  ASSUME CourseTypes, CourseLocks, SheetInv,
         \/ BeginCourseSync \/ UpdateSeenCourse \/ InsertNewCourses
         \/ CommitCourseSync \/ AbortCourseSync
         \/ AskUpdatedAt \/ FetchCourses \/ CoursesTick
  PROVE  CourseLocks'
<1>1. edit' = edit
  BY DEF BeginCourseSync, UpdateSeenCourse, InsertNewCourses, CommitCourseSync, AbortCourseSync,
     AskUpdatedAt, FetchCourses, CoursesTick
<1>2. \A e \in CourseEditor, i \in CourseIdx : LockedBy(e, i)' <=> LockedBy(e, i)
  BY <1>1 DEF LockedBy
<1>3. \A e, f \in CourseEditor, i \in CourseIdx : LockedBy(e, i)' /\ LockedBy(f, i)' => e = f
  BY <1>2 DEF CourseLocks
<1>4. \A e \in CourseEditor :
        edit[e].pc \in {"locked", "saved"} =>
          edit[e].idx \in CourseIdx /\ LockedBy(e, edit[e].idx)
  BY EditIs DEF LockedBy
<1>5. courses' = courses => \A e \in CourseEditor : edit'[e].pc \in {"locked", "saved"} =>
                              EditedRow(e)'
  BY <1>1 DEF CourseLocks, EditedRow
<1>6. NoEdit.pc = "idle"
  BY DEF NoEdit
<1>7. courses' = courses /\ sync' \in {sync, NoEdit} => CourseLocks'
  BY <1>2, <1>3, <1>5, <1>6 DEF CourseLocks, WrittenBySync
<1>8. CASE BeginCourseSync
  <2>1. PICK sheet \in CourseSheet :
          sync' = [pc |-> "writing", seen |-> courses, sheet |-> sheet, left |-> DOMAIN sheet,
                   written |-> NoCourses]
    BY <1>8 DEF BeginCourseSync
  <2>2. courses' = courses
    BY <1>8 DEF BeginCourseSync
  <2>3. sync'.seen = courses /\ DOMAIN sync'.written = {}
    BY <2>1 DEF NoCourses
  <2>4. \A i \in CourseIdx : ~WrittenBySync(i)'
    BY <2>3 DEF WrittenBySync
  <2>5. \A i \in Existing(sync'.seen) : courses'[i] # NoCourse
    BY <2>2, <2>3 DEF Existing
  <2> QED
    BY <1>3, <1>5, <2>2, <2>4, <2>5 DEF CourseLocks
<1>9. CASE UpdateSeenCourse
  <2>1. PICK i \in sync.left \cap Existing(sync.seen) :
          LET new == UpdatedCourse(courses[i], sync.sheet[i], FALSE)
          IN IF sync.seen[i].name = sync.sheet[i] /\ ~sync.seen[i].deleted
             THEN sync' = [sync EXCEPT !.left = @ \ {i}]
             ELSE /\ \A e \in CourseEditor : ~LockedBy(e, i)
                  /\ sync' = [sync EXCEPT !.left = @ \ {i},
                                          !.written = WrittenOver(@, [j \in {i} |-> new])]
    BY <1>9 DEF UpdateSeenCourse
  <2> DEFINE new == UpdatedCourse(courses[i], sync.sheet[i], FALSE)
  <2>2. sync.pc = "writing" /\ courses' = courses
    BY <1>9 DEF UpdateSeenCourse
  <2>3. i \in CourseIdx /\ new \in CourseRow
    BY <2>2, SeenIs, UpdatedTyped DEF SheetInv
  <2>4. sync.left \ {i} \in SUBSET CourseIdx /\ [j \in {i} |-> new] \in CourseRows
    <3> HIDE DEF new
    <3> QED
      BY <2>2, <2>3, SyncIs, RowsTyped
  <2>5. WrittenOver(sync.written, [j \in {i} |-> new]) \in CourseRows
    BY <2>2, <2>4, SyncIs, WrittenTyped
  <2>6. CASE sync' = [sync EXCEPT !.left = @ \ {i}]
    <3>1. sync'.pc = "writing" /\ sync'.seen = sync.seen /\ sync'.written = sync.written
      BY <2>2, <2>4, <2>6, <2>5, SyncSteps
    <3> QED
      BY <1>2, <1>3, <1>5, <2>2, <3>1 DEF CourseLocks, WrittenBySync
  <2>7. CASE /\ \A e \in CourseEditor : ~LockedBy(e, i)
             /\ sync' = [sync EXCEPT !.left = @ \ {i},
                                     !.written = WrittenOver(@, [j \in {i} |-> new])]
    <3>1. /\ sync'.pc = "writing" /\ sync'.seen = sync.seen
          /\ sync'.written = WrittenOver(sync.written, [j \in {i} |-> new])
      <4>1. PICK seen, sheet, l, w :
              sync = [pc |-> "writing", seen |-> seen, sheet |-> sheet, left |-> l, written |-> w]
        BY <2>2, SyncIs
      <4> HIDE DEF new
      <4> QED
        BY <2>7, <4>1
    <3>2. DOMAIN sync'.written = {i} \cup DOMAIN sync.written
      BY <3>1 DEF WrittenOver
    <3>3. \A e \in CourseEditor, j \in CourseIdx : LockedBy(e, j)' => ~WrittenBySync(j)'
      BY <1>2, <2>2, <2>7, <3>2 DEF CourseLocks, WrittenBySync
    <3> QED
      BY <1>3, <1>5, <2>2, <3>1, <3>3 DEF CourseLocks
  <2> QED
    BY <2>1, <2>6, <2>7
<1>10. CASE InsertNewCourses
  <2> DEFINE rows == [i \in sync.left |-> [name |-> sync.sheet[i], deleted |-> FALSE,
                                           at |-> second]]
  <2>1. /\ sync.pc = "writing" /\ courses' = courses
        /\ \/ sync' = NoEdit
           \/ /\ \A i \in sync.left : courses[i] = NoCourse
              /\ sync' = [sync EXCEPT !.left = {}, !.written = WrittenOver(@, rows)]
    BY <1>10 DEF InsertNewCourses
  <2>2. CASE sync' = NoEdit
    BY <1>7, <2>1, <2>2
  <2>3. CASE /\ \A i \in sync.left : courses[i] = NoCourse
             /\ sync' = [sync EXCEPT !.left = {}, !.written = WrittenOver(@, rows)]
    <3>1. /\ sync'.pc = "writing" /\ sync'.seen = sync.seen
          /\ DOMAIN sync'.written = sync.left \cup DOMAIN sync.written
      <4>1. PICK seen, sheet, l, w :
              sync = [pc |-> "writing", seen |-> seen, sheet |-> sheet, left |-> l, written |-> w]
        BY <2>1, SyncIs
      <4>2. /\ sync'.pc = sync.pc /\ sync'.seen = sync.seen
            /\ sync'.written = WrittenOver(sync.written, rows)
        <5> HIDE DEF rows
        <5> QED
          BY <2>3, <4>1
      <4> QED
        BY <2>1, <4>2 DEF WrittenOver
    <3>2. \A e \in CourseEditor, j \in CourseIdx : LockedBy(e, j) => courses[j] # NoCourse
      BY DEF CourseLocks, LockedBy, EditedRow
    <3>3. \A e \in CourseEditor, j \in CourseIdx : LockedBy(e, j)' => ~WrittenBySync(j)'
      BY <1>2, <2>1, <2>3, <3>1, <3>2 DEF CourseLocks, WrittenBySync
    <3> QED
      BY <1>3, <1>5, <2>1, <3>1, <3>3 DEF CourseLocks
  <2> QED
    BY <2>1, <2>2, <2>3
<1>11. CASE CommitCourseSync
  <2>1. sync.pc = "writing" /\ sync' = NoEdit /\ courses' = WrittenOver(courses, sync.written)
    BY <1>11 DEF CommitCourseSync, CommitsCourses
  <2>2. \A i \in CourseIdx : courses'[i] = IF i \in DOMAIN sync.written THEN sync.written[i]
                                           ELSE courses[i]
    BY <2>1, SyncIs, RowsTyped DEF WrittenOver, CourseTypes, CourseTable
  <2>3. \A e \in CourseEditor, j \in CourseIdx : LockedBy(e, j) => courses'[j] = courses[j]
    BY <2>1, <2>2 DEF CourseLocks, WrittenBySync
  <2>4. \A e \in CourseEditor : edit'[e].pc \in {"locked", "saved"} => EditedRow(e)'
    BY <1>1, <1>4, <2>3 DEF CourseLocks, EditedRow
  <2>5. sync'.pc = "idle"
    BY <1>6, <2>1
  <2> QED
    BY <1>3, <2>4, <2>5 DEF CourseLocks, WrittenBySync
<1>12. CASE AbortCourseSync
  BY <1>7, <1>12 DEF AbortCourseSync
<1>13. CASE AskUpdatedAt \/ FetchCourses \/ CoursesTick
  BY <1>7, <1>13 DEF AskUpdatedAt, FetchCourses, CoursesTick
<1> QED
  BY <1>8, <1>9, <1>10, <1>11, <1>12, <1>13

\* What SaveAll does with a course it has seen.
LEMMA UpdateSeenIs ==
  ASSUME CourseTypes, CourseLocks, SheetInv, UpdateSeenCourse
  PROVE  /\ sync.pc = "writing" /\ sync'.pc = "writing"
         /\ sync'.seen = sync.seen /\ sync'.sheet = sync.sheet
         /\ \E i \in sync.left \cap Existing(sync.seen) :
              /\ i \in CourseIdx /\ i \in DOMAIN sync.sheet /\ sync'.left = sync.left \ {i}
              /\ \/ /\ AsInSheet(sync.seen[i], sync.sheet[i])
                    /\ sync'.written = sync.written /\ UNCHANGED <<latest, blurred>>
                 \/ /\ DOMAIN sync'.written = DOMAIN sync.written \cup {i}
                    /\ \A j \in DOMAIN sync.written \ {i} : sync'.written[j] = sync.written[j]
                    /\ AsInSheet(sync'.written[i], sync.sheet[i])
                    /\ \/ sync'.written[i] = courses[i] /\ UNCHANGED <<latest, blurred>>
                       \/ sync'.written[i].at = second /\ StampsCourse("batch")
<1>1. PICK i \in sync.left \cap Existing(sync.seen) :
        LET new == UpdatedCourse(courses[i], sync.sheet[i], FALSE)
        IN IF sync.seen[i].name = sync.sheet[i] /\ ~sync.seen[i].deleted
           THEN sync' = [sync EXCEPT !.left = @ \ {i}] /\ UNCHANGED <<latest, blurred>>
           ELSE /\ sync' = [sync EXCEPT !.left = @ \ {i},
                                        !.written = WrittenOver(@, [j \in {i} |-> new])]
                /\ IF new = courses[i] THEN UNCHANGED <<latest, blurred>>
                   ELSE StampsCourse("batch")
  BY DEF UpdateSeenCourse
<1> DEFINE new == UpdatedCourse(courses[i], sync.sheet[i], FALSE)
           over == WrittenOver(sync.written, [j \in {i} |-> new])
<1>2. sync.pc = "writing"
  BY DEF UpdateSeenCourse
<1>3. /\ i \in CourseIdx /\ courses[i] \in CourseRow /\ sync.seen[i] \in CourseRow
      /\ sync.sheet[i] \in CourseName /\ i \in DOMAIN sync.sheet
  BY <1>2, SeenIs DEF SheetInv
<1>4. /\ new \in CourseRow /\ new.name = sync.sheet[i] /\ new.deleted = FALSE
      /\ new # courses[i] => new.at = second
  BY <1>3, UpdatedTyped
<1>5. AsInSheet(new, sync.sheet[i])
  BY <1>4, NoCourseIsNoRow DEF AsInSheet
<1>6. /\ DOMAIN over = DOMAIN sync.written \cup {i} /\ over[i] = new
      /\ \A j \in DOMAIN sync.written \ {i} : over[j] = sync.written[j]
  <2> HIDE DEF new
  <2> QED
    BY DEF WrittenOver
<1>7. PICK seen, sheet, l, w :
        sync = [pc |-> "writing", seen |-> seen, sheet |-> sheet, left |-> l, written |-> w]
  BY <1>2, SyncIs
<1>8. CASE sync.seen[i].name = sync.sheet[i] /\ ~sync.seen[i].deleted
  <2>1. sync' = [sync EXCEPT !.left = @ \ {i}] /\ UNCHANGED <<latest, blurred>>
    BY <1>1, <1>8
  <2>2. /\ sync'.pc = sync.pc /\ sync'.seen = sync.seen /\ sync'.sheet = sync.sheet
        /\ sync'.left = sync.left \ {i} /\ sync'.written = sync.written
    BY <1>7, <2>1
  <2>3. AsInSheet(sync.seen[i], sync.sheet[i])
    BY <1>3, <1>8, NoCourseIsNoRow DEF AsInSheet
  <2> QED
    BY <1>2, <1>3, <2>1, <2>2, <2>3
<1>9. CASE ~(sync.seen[i].name = sync.sheet[i] /\ ~sync.seen[i].deleted)
  <2>1. /\ sync' = [sync EXCEPT !.left = sync.left \ {i}, !.written = over]
        /\ \/ new = courses[i] /\ UNCHANGED <<latest, blurred>>
           \/ new # courses[i] /\ StampsCourse("batch")
    <3>1. /\ sync' = [sync EXCEPT !.left = @ \ {i},
                                  !.written = WrittenOver(@, [j \in {i} |-> new])]
          /\ IF new = courses[i] THEN UNCHANGED <<latest, blurred>> ELSE StampsCourse("batch")
      BY <1>1, <1>9
    <3>2. sync' = [sync EXCEPT !.left = sync.left \ {i}, !.written = over]
      BY <3>1
    <3> HIDE DEF new, over
    <3> QED
      BY <3>1, <3>2
  <2> HIDE DEF over, new
  <2>2. /\ sync'.pc = sync.pc /\ sync'.seen = sync.seen /\ sync'.sheet = sync.sheet
        /\ sync'.left = sync.left \ {i} /\ sync'.written = over
    BY <1>7, <2>1
  <2> QED
    BY <1>2, <1>3, <1>4, <1>5, <1>6, <2>1, <2>2
<1> QED
  BY <1>8, <1>9

\* And with those it has not seen.
LEMMA InsertNewIs ==
  ASSUME CourseTypes, CourseLocks, SheetInv, InsertNewCourses
  PROVE  /\ sync.pc = "writing" /\ courses' = courses
         /\ \/ sync' = NoEdit /\ applied' = NoBatch /\ UNCHANGED <<latest, blurred>>
            \/ /\ sync'.pc = "writing" /\ sync'.seen = sync.seen /\ sync'.sheet = sync.sheet
               /\ sync'.left = {} /\ applied' = applied /\ StampsCourse("batch")
               /\ DOMAIN sync'.written = DOMAIN sync.written \cup sync.left
               /\ \A j \in DOMAIN sync.written \ sync.left : sync'.written[j] = sync.written[j]
               /\ \A i \in sync.left : /\ AsInSheet(sync'.written[i], sync.sheet[i])
                                       /\ sync'.written[i].at = second
<1> DEFINE rows == [i \in sync.left |-> [name |-> sync.sheet[i], deleted |-> FALSE,
                                         at |-> second]]
           over == WrittenOver(sync.written, rows)
<1>1. /\ sync.pc = "writing" /\ courses' = courses
      /\ \/ sync' = NoEdit /\ applied' = NoBatch /\ UNCHANGED <<latest, blurred>>
         \/ /\ sync' = [sync EXCEPT !.left = {}, !.written = WrittenOver(@, rows)]
            /\ StampsCourse("batch") /\ UNCHANGED applied
  BY DEF InsertNewCourses
<1>2. second \in Nat /\ \A i \in sync.left : i \in CourseIdx /\ sync.sheet[i] \in CourseName
  BY <1>1, SyncIs, SheetTyped, CoursesAssumption DEF CourseTypes, SheetInv
<1>3. \A i \in sync.left :
        /\ rows[i].name = sync.sheet[i] /\ ~rows[i].deleted /\ rows[i].at = second
        /\ rows[i] \in CourseRow
  BY <1>2 DEF CourseRow
<1>4. \A i \in sync.left : AsInSheet(rows[i], sync.sheet[i])
  BY <1>3, NoCourseIsNoRow DEF AsInSheet
<1>5. /\ DOMAIN over = DOMAIN sync.written \cup sync.left
      /\ \A i \in sync.left : over[i] = rows[i]
      /\ \A j \in DOMAIN sync.written \ sync.left : over[j] = sync.written[j]
  BY DEF WrittenOver
<1>6. PICK seen, sheet, l, w :
        sync = [pc |-> "writing", seen |-> seen, sheet |-> sheet, left |-> l, written |-> w]
  BY <1>1, SyncIs
<1>7. CASE sync' = [sync EXCEPT !.left = {}, !.written = WrittenOver(@, rows)]
  <2>1. sync' = [sync EXCEPT !.left = {}, !.written = over]
    BY <1>7
  <2> HIDE DEF over, rows
  <2>2. /\ sync'.pc = sync.pc /\ sync'.seen = sync.seen /\ sync'.sheet = sync.sheet
        /\ sync'.left = {} /\ sync'.written = over
    BY <1>6, <2>1
  <2>3. sync' # NoEdit
    BY <1>6, <2>1 DEF NoEdit
  <2>4. /\ \A i \in sync.left : AsInSheet(over[i], sync.sheet[i])
        /\ \A i \in sync.left : over[i].at = second
    BY <1>3, <1>4, <1>5
  <2> QED
    BY <1>1, <1>5, <2>2, <2>3, <2>4
<1> QED
  BY <1>1, <1>7

\* What clients are shown is what the commits made of it.
LEMMA FieldsStep ==
  ASSUME CourseTypes, CourseLocks, FieldsKept, CoursesNext
  PROVE  FieldsKept'
<1>1. courses \in CourseTable /\ truth = [j \in CourseIdx |-> ShownCourse(courses[j])]
  BY DEF CourseTypes, CourseTable, FieldsKept, ShownCourses
<1>2. courses' = courses /\ truth' = truth => FieldsKept'
  BY DEF FieldsKept
<1>3. \A row : \A i \in CourseIdx :
        courses' = [courses EXCEPT ![i] = row] /\ truth' = [truth EXCEPT ![i] = ShownCourse(row)]
          => FieldsKept'
  BY <1>1 DEF FieldsKept, ShownCourses, CourseTable
<1>4. ASSUME NEW e \in CourseEditor, CreateCourse(e) PROVE FieldsKept'
  <2>1. edit[e].idx \in CourseIdx
    BY <1>4, EditIs DEF CreateCourse
  <2>2. CASE courses[edit[e].idx] # NoCourse
    BY <1>2, <1>4, <2>2 DEF CreateCourse
  <2>3. CASE courses[edit[e].idx] = NoCourse
    BY <1>3, <1>4, <2>1, <2>3 DEF CreateCourse
  <2> QED
    BY <2>2, <2>3
<1>5. ASSUME NEW e \in CourseEditor, CommitCourse(e) PROVE FieldsKept'
  <2> DEFINE i == edit[e].idx
             row == edit[e].row
             given == edit[e].given
  <2>1. /\ edit[e].pc = "saved" /\ courses' = [courses EXCEPT ![i] = row]
        /\ truth' = IF given[3] = "name" THEN [truth EXCEPT ![i].name = given[1]]
                    ELSE [truth EXCEPT ![i].deleted = given[2]]
    BY <1>5 DEF CommitCourse, CommitsCourses
  <2>2. /\ i \in CourseIdx /\ row \in CourseRow /\ courses[i] \in CourseRow
        /\ row.name = given[1] /\ row.deleted = given[2]
        /\ IF given[3] = "name" THEN row.deleted = courses[i].deleted
           ELSE row.name = courses[i].name
    BY <1>1, <2>1, EditIs DEF CourseLocks, EditedRow, CourseTable
  <2>3. /\ ShownCourse(row) = [name |-> given[1], deleted |-> given[2]]
        /\ truth[i] = [name |-> courses[i].name, deleted |-> courses[i].deleted]
    BY <1>1, <2>2, NoCourseIsNoRow DEF ShownCourse
  <2>4. truth' = [truth EXCEPT ![i] = ShownCourse(row)]
    <3>1. CASE given[3] = "name"
      <4>1. truth' = [truth EXCEPT ![i] = [truth[i] EXCEPT !.name = given[1]]]
        BY <2>1, <3>1
      <4>2. [truth[i] EXCEPT !.name = given[1]] = ShownCourse(row)
        BY <2>2, <2>3, <3>1
      <4> QED
        BY <4>1, <4>2
    <3>2. CASE given[3] # "name"
      <4>1. truth' = [truth EXCEPT ![i] = [truth[i] EXCEPT !.deleted = given[2]]]
        BY <2>1, <3>2
      <4>2. [truth[i] EXCEPT !.deleted = given[2]] = ShownCourse(row)
        BY <2>2, <2>3, <3>2
      <4> QED
        BY <4>1, <4>2
    <3> QED
      BY <3>1, <3>2
  <2> QED
    BY <1>3, <2>1, <2>2, <2>4
<1>6. CASE CommitCourseSync
  <2>1. /\ sync.pc = "writing" /\ courses' = WrittenOver(courses, sync.written)
        /\ truth' = WrittenOver(truth, ShownCourses(sync.written))
    BY <1>6 DEF CommitCourseSync, CommitsCourses
  <2>2. DOMAIN sync.written \subseteq CourseIdx
    BY <2>1, SyncIs, RowsTyped
  <2>3. courses' = [j \in CourseIdx |-> IF j \in DOMAIN sync.written THEN sync.written[j]
                                        ELSE courses[j]]
    BY <1>1, <2>1, <2>2 DEF WrittenOver, CourseTable
  <2>4. truth' = [j \in CourseIdx |-> IF j \in DOMAIN sync.written THEN ShownCourse(sync.written[j])
                                      ELSE ShownCourse(courses[j])]
    <3>1. truth' = [j \in DOMAIN sync.written \cup CourseIdx |->
                      IF j \in DOMAIN sync.written THEN ShownCourses(sync.written)[j] ELSE truth[j]]
      BY <1>1, <2>1 DEF WrittenOver, ShownCourses
    <3>2. DOMAIN sync.written \cup CourseIdx = CourseIdx
      BY <2>2
    <3> QED
      BY <1>1, <3>1, <3>2 DEF ShownCourses
  <2> QED
    BY <2>3, <2>4 DEF FieldsKept, ShownCourses
<1>7. ASSUME NEW e \in CourseEditor, LookUpIdx(e) \/ LockCourse(e) \/ SaveCourse(e) \/ RollBackCourse(e)
      PROVE  FieldsKept'
  BY <1>2, <1>7 DEF LookUpIdx, LockCourse, SaveCourse, RollBackCourse
<1>8. CASE \/ BeginCourseSync \/ UpdateSeenCourse \/ InsertNewCourses \/ AbortCourseSync
           \/ AskUpdatedAt \/ FetchCourses \/ CoursesTick
  BY <1>2, <1>8 DEF BeginCourseSync, UpdateSeenCourse, InsertNewCourses, AbortCourseSync,
     AskUpdatedAt, FetchCourses, CoursesTick
<1> QED
  BY <1>4, <1>5, <1>6, <1>7, <1>8 DEF CoursesNext

\* A batch leaves the courses of its sheet as they are there.
LEMMA SheetStep ==
  ASSUME CourseTypes, CourseLocks, SheetInv, CoursesNext
  PROVE  SheetInv'
<1>1. NoBatch.sheet = NoCourses /\ NoBatch.touched = CourseIdx /\ DOMAIN NoCourses = {}
  BY DEF NoBatch, NoCourses
<1>2. SheetInv <=>
        /\ sync.pc = "writing" =>
             /\ applied.sheet = NoCourses
             /\ sync.left \subseteq DOMAIN sync.sheet /\ DOMAIN sync.written \subseteq DOMAIN sync.sheet
             /\ \A i \in CourseIdx \ applied.touched : courses[i] = sync.seen[i]
             /\ \A i \in DOMAIN sync.written : AsInSheet(sync.written[i], sync.sheet[i])
             /\ \A i \in DOMAIN sync.sheet \ (sync.left \cup DOMAIN sync.written) :
                  AsInSheet(sync.seen[i], sync.sheet[i])
        /\ \A i \in DOMAIN applied.sheet \ applied.touched :
             AsInSheet(courses[i], applied.sheet[i])
  BY DEF SheetInv, SheetApplied, AsInSheet
<1>3. ASSUME NEW T, sync' = sync, applied' = [applied EXCEPT !.touched = T],
             applied.touched \subseteq T, \A i \in CourseIdx \ T : courses'[i] = courses[i]
      PROVE  SheetInv'
  <2>1. applied'.sheet = applied.sheet /\ applied'.touched = T
    BY <1>3 DEF CourseTypes
  <2>2. DOMAIN applied.sheet \subseteq CourseIdx
    BY <1>1, SheetTyped DEF CourseTypes
  <2>3. SheetApplied'
    BY <1>3, <2>1, <2>2 DEF SheetInv, SheetApplied
  <2> QED
    BY <1>3, <2>1, <2>3 DEF SheetInv
<1>4. sync' = sync /\ applied' = applied /\ courses' = courses => SheetInv'
  BY DEF SheetInv, SheetApplied
<1>5. sync' = NoEdit /\ applied' = NoBatch => SheetInv'
  BY <1>1 DEF SheetInv, SheetApplied, NoEdit
<1>6. ASSUME NEW e \in CourseEditor, CreateCourse(e) \/ CommitCourse(e) PROVE SheetInv'
  <2> DEFINE i == edit[e].idx
  <2>1. sync' = sync
    BY <1>6 DEF CreateCourse, CommitCourse
  <2>2. CASE UNCHANGED <<courses, applied>>
    BY <1>4, <2>1, <2>2
  <2>3. CASE ~UNCHANGED <<courses, applied>>
    <3>1. \E row : courses' = [courses EXCEPT ![i] = row]
      BY <1>6, <2>3 DEF CreateCourse, CommitCourse, CommitsCourses
    <3>2. applied' = [applied EXCEPT !.touched = applied.touched \cup {i}]
      BY <1>6, <2>3 DEF CreateCourse, CommitCourse, TouchesCourse
    <3>3. \A j \in CourseIdx \ (applied.touched \cup {i}) : courses'[j] = courses[j]
      BY <3>1 DEF CourseTypes, CourseTable
    <3> QED
      BY <1>3, <2>1, <3>2, <3>3
  <2> QED
    BY <2>2, <2>3
<1>7. CASE BeginCourseSync
  <2>1. PICK sheet \in CourseSheet :
          sync' = [pc |-> "writing", seen |-> courses, sheet |-> sheet, left |-> DOMAIN sheet,
                   written |-> NoCourses]
    BY <1>7 DEF BeginCourseSync
  <2>2. courses' = courses /\ applied' = [sheet |-> NoCourses, touched |-> {}]
    BY <1>7 DEF BeginCourseSync
  <2> QED
    BY <1>1, <2>1, <2>2 DEF SheetInv, SheetApplied
<1>8. CASE UpdateSeenCourse
  <2>1. courses' = courses /\ applied' = applied
    BY <1>8 DEF UpdateSeenCourse
  <2>2. SheetApplied'
    BY <2>1 DEF SheetInv, SheetApplied
  <2> QED
    BY <1>8, <2>1, <2>2, UpdateSeenIs DEF SheetInv
<1>9. CASE InsertNewCourses
  <2>1. courses' = courses
    BY <1>9, InsertNewIs
  <2>2. applied' = applied => SheetApplied'
    BY <2>1 DEF SheetInv, SheetApplied
  <2> QED
    BY <1>5, <1>9, <2>1, <2>2, InsertNewIs DEF SheetInv
<1>10. CASE CommitCourseSync
  <2>1. /\ sync.pc = "writing" /\ sync.left = {} /\ sync' = NoEdit
        /\ courses' = WrittenOver(courses, sync.written)
        /\ applied' = [applied EXCEPT !.sheet = sync.sheet]
    BY <1>10 DEF CommitCourseSync, CommitsCourses
  <2>2. applied'.sheet = sync.sheet /\ applied'.touched = applied.touched
    BY <2>1 DEF CourseTypes
  <2>3. DOMAIN sync.sheet \subseteq CourseIdx
    BY <2>1, SyncIs, SheetTyped
  <2>4. \A i \in CourseIdx : courses'[i] = IF i \in DOMAIN sync.written THEN sync.written[i]
                                           ELSE courses[i]
    BY <2>1, SyncIs, RowsTyped DEF WrittenOver, CourseTypes, CourseTable
  <2>5. ASSUME NEW i \in DOMAIN sync.sheet \ applied.touched
        PROVE  AsInSheet(courses'[i], sync.sheet[i])
    <3>1. CASE i \in DOMAIN sync.written
      BY <2>1, <2>3, <2>4, <3>1 DEF SheetInv
    <3>2. CASE i \notin DOMAIN sync.written
      <4>1. AsInSheet(sync.seen[i], sync.sheet[i])
        BY <2>1, <3>2 DEF SheetInv
      <4>2. courses'[i] = sync.seen[i]
        BY <2>1, <2>3, <2>4, <3>2 DEF SheetInv
      <4> QED
        BY <4>1, <4>2
    <3> QED
      BY <3>1, <3>2
  <2>6. SheetApplied'
    BY <2>2, <2>5 DEF SheetApplied, AsInSheet
  <2> QED
    BY <2>1, <2>6 DEF SheetInv, NoEdit
<1>11. CASE AbortCourseSync
  BY <1>5, <1>11 DEF AbortCourseSync
<1>12. ASSUME NEW e \in CourseEditor, LookUpIdx(e) \/ LockCourse(e) \/ SaveCourse(e) \/ RollBackCourse(e)
       PROVE  SheetInv'
  BY <1>4, <1>12 DEF LookUpIdx, LockCourse, SaveCourse, RollBackCourse
<1>13. CASE AskUpdatedAt \/ FetchCourses \/ CoursesTick
  BY <1>4, <1>13 DEF AskUpdatedAt, FetchCourses, CoursesTick
<1> QED
  BY <1>6, <1>7, <1>8, <1>9, <1>10, <1>11, <1>12, <1>13 DEF CoursesNext

\* A stamp is after all that is committed, unless seconds blur.
LEMMA StampIsLast ==
  ASSUME CourseTypes, StampsInv, NEW who \in CourseEditor \cup {"batch"}, StampsCourse(who)
  PROVE  /\ latest'.at = second /\ latest'.by = who /\ latest.at <= latest'.at
         /\ ~blurred' => ~blurred /\ \A i \in Existing(courses) : courses[i].at < second
<1>1. /\ second \in Nat /\ latest.at \in Nat /\ blurred \in BOOLEAN
      /\ \A i \in Existing(courses) : courses[i].at \in Nat
  BY CoursesAssumption DEF CourseTypes, Existing, CourseTable, CourseRow
<1>2. latest' = [at |-> second, by |-> who]
  BY DEF StampsCourse
<1>3. ASSUME ~blurred'
      PROVE  ~blurred /\ \A i \in Existing(courses) : courses[i].at < second
  <2>1. ~blurred /\ (latest.at # second \/ latest.by = who)
    BY <1>3 DEF StampsCourse
  <2>2. who # "nobody"
    BY CoursesAssumption
  <2>3. CASE latest.at # second
    BY <1>1, <2>1, <2>3 DEF StampsInv
  <2>4. CASE latest.at = second /\ latest.by = who
    BY <1>1, <2>1, <2>2, <2>4 DEF StampsInv
  <2> QED
    BY <2>1, <2>3, <2>4
<1> QED
  BY <1>1, <1>2, <1>3 DEF StampsInv

\* A commit that blurs nothing has nothing beside it.
LEMMA CommitIsAlone ==
  ASSUME CourseTypes, NEW who \in CourseEditor \cup {"batch"}, NEW rows, CommitsCourses(who, rows)
  PROVE  /\ latest'.at = latest.at /\ latest'.by = "nobody" /\ courses' = rows
         /\ ~blurred' =>
              /\ ~blurred
              /\ who # "batch" => sync.pc # "writing" \/ DOMAIN sync.written = {}
              /\ \A e \in CourseEditor : edit[e].pc = "saved" => e = who
<1>1. latest' = [latest EXCEPT !.by = "nobody"]
  BY DEF CommitsCourses
<1>2. blurred' = (blurred \/ CourseUncommitted(who)) /\ courses' = rows
  BY DEF CommitsCourses
<1> QED
  BY <1>1, <1>2 DEF CourseUncommitted, CourseTypes

\* A step that stamps and commits nothing, and takes nothing into a transaction.
LEMMA QuietStamps ==
  ASSUME CourseTypes, StampsInv, UNCHANGED <<courses, latest, blurred>>,
         second' \in Nat, second <= second',
         \A f \in CourseEditor : edit'[f].pc = "saved" => edit'[f] = edit[f],
         sync' = sync \/ sync'.pc # "writing" \/ DOMAIN sync'.written = {}
  PROVE  StampsInv'
<1>1. second \in Nat /\ latest.at \in Nat
  BY CoursesAssumption DEF CourseTypes
<1>2. latest'.at <= second'
  BY <1>1 DEF StampsInv
<1>3. courses' = courses /\ latest' = latest /\ (blurred' <=> blurred)
  OBVIOUS
<1>4. \A row, i : StampedLast(row, i) =>
        row = courses'[i] \/ \A j \in Existing(courses') : courses'[j].at < row.at
  BY <1>3 DEF StampedLast
<1>5. ASSUME NEW f \in CourseEditor, edit'[f].pc = "saved"
      PROVE  /\ edit'[f].row.at <= latest'.at
             /\ ~blurred' => StampedLast(edit[f].row, edit[f].idx)'
  BY <1>3, <1>4, <1>5 DEF StampsInv, StampedLast
<1>6. ASSUME sync'.pc = "writing", NEW i \in DOMAIN sync'.written
      PROVE  /\ sync'.written[i].at <= latest'.at
             /\ ~blurred' => StampedLast(sync.written[i], i)'
  BY <1>3, <1>4, <1>6 DEF StampsInv, StampedLast
<1>7. /\ \A i \in Existing(courses') : courses'[i].at <= latest'.at
      /\ ~blurred' /\ latest'.by # "nobody" =>
           \A i \in Existing(courses') : courses'[i].at < latest'.at
  BY <1>3 DEF StampsInv
<1> QED
  BY <1>2, <1>5, <1>6, <1>7 DEF StampsInv

\* Numbers, where they are needed.
LEMMA StampsAreNumbers ==
  ASSUME CourseTypes
  PROVE  /\ second \in Nat /\ latest.at \in Nat /\ blurred \in BOOLEAN
         /\ \A i \in Existing(courses) : i \in CourseIdx /\ courses[i].at \in Nat
         /\ \A e \in CourseEditor : edit[e].pc \in {"locked", "saved"} => edit[e].row.at \in Nat
         /\ sync.pc = "writing" => \A i \in DOMAIN sync.written : sync.written[i].at \in Nat
<1>1. second \in Nat /\ latest.at \in Nat /\ blurred \in BOOLEAN
  BY CoursesAssumption DEF CourseTypes
<1>2. \A i \in Existing(courses) : i \in CourseIdx /\ courses[i].at \in Nat
  BY DEF CourseTypes, Existing, CourseTable, CourseRow
<1>3. \A e \in CourseEditor : edit[e].pc \in {"locked", "saved"} => edit[e].row.at \in Nat
  BY EditIs DEF CourseRow
<1>4. sync.pc = "writing" => \A i \in DOMAIN sync.written : sync.written[i].at \in Nat
  BY SyncIs, RowsTyped DEF CourseRow
<1> QED
  BY <1>1, <1>2, <1>3, <1>4

\* Once a commit has ended alone, nothing that is stamped waits for its commit.
LEMMA AloneStamps ==
  ASSUME CourseTypes, StampsInv, latest'.by = "nobody", latest.at <= latest'.at,
         latest'.at \in Nat, latest'.at <= second',
         \A i \in Existing(courses') : courses'[i].at <= latest'.at,
         \A f \in CourseEditor : edit'[f].pc = "saved" => edit'[f] = edit[f] /\ blurred',
         sync'.pc = "writing" => sync' = sync /\ (blurred' \/ DOMAIN sync.written = {})
  PROVE  StampsInv'
<1>1. \A f \in CourseEditor : edit'[f].pc = "saved" => edit'[f].row.at <= latest'.at
  BY StampsAreNumbers DEF StampsInv
<1>2. sync'.pc = "writing" => \A i \in DOMAIN sync'.written : sync'.written[i].at <= latest'.at
  BY StampsAreNumbers DEF StampsInv
<1>3. ~blurred' => /\ \A f \in CourseEditor : edit'[f].pc # "saved"
                   /\ sync'.pc = "writing" => DOMAIN sync'.written = {}
  OBVIOUS
<1> QED
  BY <1>1, <1>2, <1>3 DEF StampsInv

\* A step of an editor: what it stamps is after everything that is committed.
LEMMA EditorStamps ==
  ASSUME CourseTypes, CourseLocks, StampsInv, NEW e \in CourseEditor,
         \/ LookUpIdx(e) \/ CreateCourse(e) \/ LockCourse(e) \/ SaveCourse(e)
         \/ CommitCourse(e) \/ RollBackCourse(e)
  PROVE  StampsInv'
<1> DEFINE i == edit[e].idx
<1>1. sync' = sync /\ second' = second
  BY DEF LookUpIdx, CreateCourse, LockCourse, SaveCourse, CommitCourse, RollBackCourse
<1>2. \A f \in CourseEditor \ {e} : edit'[f] = edit[f]
  BY DEF LookUpIdx, CreateCourse, LockCourse, SaveCourse, CommitCourse, RollBackCourse, CourseTypes
<1>3. edit' = [edit EXCEPT ![e] = NoEdit] => edit'[e].pc = "idle"
  BY DEF NoEdit, CourseTypes
<1>4. UNCHANGED <<courses, latest, blurred>> /\ edit'[e].pc # "saved" => StampsInv'
  BY <1>1, <1>2, QuietStamps, StampsAreNumbers
<1>5. CASE LookUpIdx(e) \/ LockCourse(e) \/ RollBackCourse(e)
  <2>1. edit'[e].pc \in {"checked", "locked", "idle"}
    BY <1>3, <1>5 DEF LookUpIdx, LockCourse, RollBackCourse, CourseTypes
  <2>2. UNCHANGED <<courses, latest, blurred>>
    BY <1>5 DEF LookUpIdx, LockCourse, RollBackCourse
  <2> QED
    BY <1>4, <2>1, <2>2
<1>6. CASE CreateCourse(e)
  <2>1. edit'[e].pc = "idle" /\ i \in CourseIdx /\ edit[e].pc = "checked"
    BY <1>3, <1>6, EditIs DEF CreateCourse
  <2>2. CASE courses[i] # NoCourse
    <3>1. UNCHANGED <<courses, latest, blurred>>
      BY <1>6, <2>2 DEF CreateCourse
    <3> QED
      BY <1>4, <2>1, <3>1
  <2>3. CASE courses[i] = NoCourse
    <3>1. /\ courses' = [courses EXCEPT ![i] = [name |-> edit[e].name, deleted |-> FALSE,
                                              at |-> second]]
          /\ latest' = [at |-> second, by |-> "nobody"]
          /\ blurred' = (blurred \/ latest.at = second \/ CourseUncommitted(e))
      BY <1>6, <2>3 DEF CreateCourse
    <3>2. latest'.at = second /\ latest'.by = "nobody" /\ latest.at <= second
      BY <3>1 DEF StampsInv
    <3>3. \A j \in Existing(courses') : courses'[j].at <= second
      <4>1. \A j \in CourseIdx \ {i} : courses'[j] = courses[j]
        BY <3>1 DEF CourseTypes, CourseTable
      <4>2. courses'[i].at = second
        BY <2>1, <3>1 DEF CourseTypes, CourseTable
      <4> QED
        BY <3>2, <4>1, <4>2, StampsAreNumbers DEF StampsInv, Existing
    <3>4. CourseUncommitted(e) => blurred'
      BY <3>1
    <3>5. \A f \in CourseEditor : edit'[f].pc = "saved" => edit'[f] = edit[f] /\ blurred'
      BY <1>2, <2>1, <3>4 DEF CourseUncommitted
    <3>6. sync'.pc = "writing" => sync' = sync /\ (blurred' \/ DOMAIN sync.written = {})
      BY <1>1, <3>4, CoursesAssumption DEF CourseUncommitted
    <3> QED
      BY <1>1, <3>2, <3>3, <3>5, <3>6, AloneStamps, StampsAreNumbers
  <2> QED
    BY <2>2, <2>3
<1>7. CASE SaveCourse(e)
  <2>1. PICK given \in {<<name, edit[e].row.deleted, "name">> : name \in CourseName}
                         \cup {<<edit[e].row.name, flag, "deleted">> : flag \in BOOLEAN} :
          LET new == UpdatedCourse(edit[e].row, given[1], given[2])
          IN /\ edit' = [edit EXCEPT ![e] = [pc |-> "saved", idx |-> i, row |-> new,
                                             given |-> given]]
             /\ IF new = edit[e].row THEN UNCHANGED <<latest, blurred>> ELSE StampsCourse(e)
    BY <1>7 DEF SaveCourse
  <2> DEFINE new == UpdatedCourse(edit[e].row, given[1], given[2])
  <2>2. courses' = courses /\ edit[e].pc = "locked"
    BY <1>7 DEF SaveCourse
  <2>3. edit[e].row = courses[i] /\ i \in Existing(courses) /\ edit[e].row \in CourseRow
    BY <2>2, EditIs DEF CourseLocks, EditedRow, Existing
  <2>4. given[1] \in CourseName /\ given[2] \in BOOLEAN
    BY <2>1, <2>3 DEF CourseRow
  <2>5. new # edit[e].row => new.at = second
    BY <2>3, <2>4, UpdatedTyped
  <2>6. edit'[e].row = new /\ edit'[e].idx = i
    BY <2>1 DEF CourseTypes
  <2>7. \/ new = edit[e].row /\ UNCHANGED <<latest, blurred>>
        \/ new.at = second /\ StampsCourse(e)
    <3>1. IF new = edit[e].row THEN UNCHANGED <<latest, blurred>> ELSE StampsCourse(e)
      BY <2>1
    <3> HIDE DEF new
    <3> QED
      BY <3>1, <2>5
  <2> HIDE DEF new
  <2>8. /\ latest'.at <= second /\ latest.at <= latest'.at /\ latest'.at \in Nat
        /\ new.at <= latest'.at
        /\ ~blurred' =>
             /\ ~blurred
             /\ new = courses[i] \/ \A j \in Existing(courses) : courses[j].at < new.at
             /\ latest'.by # "nobody" => \A j \in Existing(courses) : courses[j].at < latest'.at
    <3>1. CASE new = edit[e].row /\ UNCHANGED <<latest, blurred>>
      <4>1. latest' = latest /\ (blurred' <=> blurred) /\ new = courses[i]
        BY <2>3, <3>1
      <4>2. latest.at <= second /\ new.at <= latest.at
        BY <2>3, <4>1 DEF StampsInv
      <4>3. ~blurred' /\ latest'.by # "nobody" =>
              \A j \in Existing(courses) : courses[j].at < latest'.at
        BY <4>1 DEF StampsInv
      <4> QED
        BY <4>1, <4>2, <4>3, StampsAreNumbers
    <3>2. CASE new.at = second /\ StampsCourse(e)
      BY <3>2, StampIsLast, StampsAreNumbers
    <3> QED
      BY <2>7, <3>1, <3>2
  <2>9. \A f \in CourseEditor : edit'[f].pc = "saved" => edit'[f].row.at <= latest'.at
    BY <1>2, <2>6, <2>8, StampsAreNumbers DEF StampsInv
  <2>10. sync'.pc = "writing" => \A j \in DOMAIN sync'.written : sync'.written[j].at <= latest'.at
    BY <1>1, <2>8, StampsAreNumbers DEF StampsInv
  <2>11. \A j \in Existing(courses') : courses'[j].at <= latest'.at
    BY <2>2, <2>8, StampsAreNumbers DEF StampsInv
  <2>12. ASSUME ~blurred', NEW f \in CourseEditor, edit'[f].pc = "saved"
         PROVE  StampedLast(edit[f].row, edit[f].idx)'
    <3>1. CASE f = e
      BY <2>2, <2>6, <2>8, <2>12, <3>1 DEF StampedLast
    <3>2. CASE f # e
      BY <1>2, <2>2, <2>8, <2>12, <3>2 DEF StampedLast, StampsInv
    <3> QED
      BY <3>1, <3>2
  <2>13. ASSUME ~blurred', sync'.pc = "writing", NEW j \in DOMAIN sync'.written
         PROVE  StampedLast(sync.written[j], j)'
    BY <1>1, <2>2, <2>8, <2>13 DEF StampedLast, StampsInv
  <2>14. ~blurred' /\ latest'.by # "nobody" =>
           \A j \in Existing(courses') : courses'[j].at < latest'.at
    BY <2>2, <2>8
  <2> QED
    BY <1>1, <2>8, <2>9, <2>10, <2>11, <2>12, <2>13, <2>14 DEF StampsInv
<1>8. CASE CommitCourse(e)
  <2>1. /\ edit[e].pc = "saved" /\ edit'[e].pc = "idle"
        /\ CommitsCourses(e, [courses EXCEPT ![i] = edit[e].row])
    BY <1>3, <1>8 DEF CommitCourse
  <2>2. i \in CourseIdx
    BY <2>1, EditIs
  <2>3. /\ latest'.at = latest.at /\ latest'.by = "nobody"
        /\ courses' = [courses EXCEPT ![i] = edit[e].row]
        /\ ~blurred' =>
             /\ sync.pc # "writing" \/ DOMAIN sync.written = {}
             /\ \A f \in CourseEditor : edit[f].pc = "saved" => f = e
    BY <2>1, CommitIsAlone, CoursesAssumption
  <2>4. \A j \in Existing(courses') : courses'[j].at <= latest'.at
    <3>1. \A j \in CourseIdx \ {i} : courses'[j] = courses[j]
      BY <2>3 DEF CourseTypes, CourseTable
    <3>2. courses'[i] = edit[e].row
      BY <2>2, <2>3 DEF CourseTypes, CourseTable
    <3> QED
      BY <2>1, <2>3, <3>1, <3>2 DEF StampsInv, Existing
  <2>5. \A f \in CourseEditor : edit'[f].pc = "saved" => edit'[f] = edit[f] /\ blurred'
    <3>1. \A f \in CourseEditor : edit'[f].pc = "saved" => edit'[f] = edit[f] /\ f # e
      BY <1>2, <2>1
    <3> QED
      BY <2>3, <3>1
  <2>6. sync'.pc = "writing" => sync' = sync /\ (blurred' \/ DOMAIN sync.written = {})
    BY <1>1, <2>3
  <2>7. latest.at <= second' /\ latest.at <= latest.at
    BY <1>1, StampsAreNumbers DEF StampsInv
  <2> QED
    BY <2>3, <2>4, <2>5, <2>6, <2>7, AloneStamps, StampsAreNumbers
<1> QED
  BY <1>5, <1>6, <1>7, <1>8

\* A batch that writes rows, stamped with this second or as they are committed.
LEMMA BatchStamps ==
  ASSUME CourseTypes, StampsInv, courses' = courses, edit' = edit, second' = second,
         sync.pc = "writing", sync'.pc = "writing", NEW S,
         S = {} \/ StampsCourse("batch"), S = {} => UNCHANGED <<latest, blurred>>,
         \A i \in DOMAIN sync'.written :
           \/ i \in DOMAIN sync.written /\ sync'.written[i] = sync.written[i]
           \/ i \in CourseIdx /\ sync'.written[i] = courses[i] /\ courses[i] # NoCourse
           \/ i \in S /\ sync'.written[i].at = second
  PROVE  StampsInv'
<1>1. /\ latest'.at <= second /\ latest.at <= latest'.at /\ latest'.at \in Nat
      /\ S # {} => latest'.at = second
      /\ ~blurred' =>
           /\ ~blurred
           /\ S # {} => \A j \in Existing(courses) : courses[j].at < second
           /\ latest'.by # "nobody" => \A j \in Existing(courses) : courses[j].at < latest'.at
  <2>1. CASE S = {}
    <3>1. latest' = latest /\ (blurred' <=> blurred)
      BY <2>1
    <3> QED
      BY <2>1, <3>1, StampsAreNumbers DEF StampsInv
  <2>2. CASE StampsCourse("batch")
    BY <2>2, StampIsLast, StampsAreNumbers
  <2> QED
    BY <2>1, <2>2
<1>2. \A f \in CourseEditor : edit'[f].pc = "saved" => edit'[f].row.at <= latest'.at
  BY <1>1, StampsAreNumbers DEF StampsInv
<1>3. \A j \in Existing(courses') : courses'[j].at <= latest'.at
  BY <1>1, StampsAreNumbers DEF StampsInv
<1>4. \A j \in DOMAIN sync'.written : sync'.written[j].at <= latest'.at
  BY <1>1, <1>3, StampsAreNumbers DEF StampsInv, Existing
<1>5. ASSUME ~blurred', NEW f \in CourseEditor, edit'[f].pc = "saved"
      PROVE  StampedLast(edit[f].row, edit[f].idx)'
  BY <1>1, <1>5 DEF StampedLast, StampsInv
<1>6. ASSUME ~blurred', NEW j \in DOMAIN sync'.written PROVE StampedLast(sync.written[j], j)'
  <2>1. CASE j \in DOMAIN sync.written /\ sync'.written[j] = sync.written[j]
    BY <1>1, <1>6, <2>1 DEF StampedLast, StampsInv
  <2>2. CASE sync'.written[j] = courses[j]
    BY <2>2 DEF StampedLast
  <2>3. CASE j \in S /\ sync'.written[j].at = second
    BY <1>1, <1>6, <2>3 DEF StampedLast
  <2> QED
    BY <2>1, <2>2, <2>3
<1> QED
  BY <1>1, <1>2, <1>3, <1>4, <1>5, <1>6 DEF StampsInv

\* A step of a batch, of a client or of the clock leaves what is stamped last in its place.
LEMMA OthersStamps ==
  ASSUME CourseTypes, CourseLocks, SheetInv, StampsInv,
         \/ BeginCourseSync \/ UpdateSeenCourse \/ InsertNewCourses
         \/ CommitCourseSync \/ AbortCourseSync
         \/ AskUpdatedAt \/ FetchCourses \/ CoursesTick
  PROVE  StampsInv'
<1>1. edit' = edit
  BY DEF BeginCourseSync, UpdateSeenCourse, InsertNewCourses, CommitCourseSync, AbortCourseSync,
     AskUpdatedAt, FetchCourses, CoursesTick
<1>2. second' \in Nat /\ second <= second'
  <2>1. second' = second \/ second' = second + 1
    BY DEF BeginCourseSync, UpdateSeenCourse, InsertNewCourses, CommitCourseSync,
       AbortCourseSync, AskUpdatedAt, FetchCourses, CoursesTick
  <2> QED
    BY <2>1, StampsAreNumbers
<1>3. NoEdit.pc # "writing"
  BY DEF NoEdit
<1>4. CASE BeginCourseSync
  <2>1. UNCHANGED <<courses, latest, blurred>> /\ DOMAIN sync'.written = {}
    BY <1>4 DEF BeginCourseSync, NoCourses
  <2> QED
    BY <1>1, <1>2, <2>1, QuietStamps
<1>5. CASE AbortCourseSync \/ AskUpdatedAt \/ FetchCourses \/ CoursesTick
  <2>1. UNCHANGED <<courses, latest, blurred>> /\ (sync' = sync \/ sync'.pc # "writing")
    BY <1>3, <1>5 DEF AbortCourseSync, AskUpdatedAt, FetchCourses, CoursesTick
  <2> QED
    BY <1>1, <1>2, <2>1, QuietStamps
<1>6. CASE UpdateSeenCourse
  <2>1. courses' = courses /\ second' = second
    BY <1>6 DEF UpdateSeenCourse
  <2>2. PICK i \in sync.left \cap Existing(sync.seen) :
          /\ i \in CourseIdx
          /\ \/ sync'.written = sync.written /\ UNCHANGED <<latest, blurred>>
             \/ /\ DOMAIN sync'.written = DOMAIN sync.written \cup {i}
                /\ \A j \in DOMAIN sync.written \ {i} : sync'.written[j] = sync.written[j]
                /\ AsInSheet(sync'.written[i], sync.sheet[i])
                /\ \/ sync'.written[i] = courses[i] /\ UNCHANGED <<latest, blurred>>
                   \/ sync'.written[i].at = second /\ StampsCourse("batch")
    BY <1>6, UpdateSeenIs
  <2>3. sync.pc = "writing" /\ sync'.pc = "writing"
    BY <1>6, UpdateSeenIs
  <2>4. CASE UNCHANGED <<latest, blurred>> /\ (sync'.written = sync.written \/
             /\ DOMAIN sync'.written = DOMAIN sync.written \cup {i}
             /\ \A j \in DOMAIN sync.written \ {i} : sync'.written[j] = sync.written[j]
             /\ AsInSheet(sync'.written[i], sync.sheet[i]) /\ sync'.written[i] = courses[i])
    <3>1. \A j \in DOMAIN sync'.written :
            \/ j \in DOMAIN sync.written /\ sync'.written[j] = sync.written[j]
            \/ j \in CourseIdx /\ sync'.written[j] = courses[j] /\ courses[j] # NoCourse
            \/ j \in {} /\ sync'.written[j].at = second
      BY <2>2, <2>4 DEF AsInSheet
    <3> QED
      BY <1>1, <2>1, <2>3, <2>4, <3>1, BatchStamps
  <2>5. CASE /\ DOMAIN sync'.written = DOMAIN sync.written \cup {i}
             /\ \A j \in DOMAIN sync.written \ {i} : sync'.written[j] = sync.written[j]
             /\ sync'.written[i].at = second /\ StampsCourse("batch")
    <3>1. \A j \in DOMAIN sync'.written :
            \/ j \in DOMAIN sync.written /\ sync'.written[j] = sync.written[j]
            \/ j \in CourseIdx /\ sync'.written[j] = courses[j] /\ courses[j] # NoCourse
            \/ j \in {i} /\ sync'.written[j].at = second
      BY <2>5
    <3>2. {i} # {}
      OBVIOUS
    <3> QED
      BY <1>1, <2>1, <2>3, <2>5, <3>1, <3>2, BatchStamps
  <2> QED
    BY <2>2, <2>4, <2>5
<1>7. CASE InsertNewCourses
  <2>1. courses' = courses /\ second' = second /\ sync.pc = "writing" /\ sync.left # {}
    BY <1>7 DEF InsertNewCourses
  <2>2. CASE sync' = NoEdit /\ UNCHANGED <<latest, blurred>>
    BY <1>1, <1>2, <1>3, <2>1, <2>2, QuietStamps
  <2>3. CASE ~(sync' = NoEdit /\ UNCHANGED <<latest, blurred>>)
    <3>1. /\ sync'.pc = "writing" /\ StampsCourse("batch")
          /\ DOMAIN sync'.written = DOMAIN sync.written \cup sync.left
          /\ \A j \in DOMAIN sync.written \ sync.left : sync'.written[j] = sync.written[j]
          /\ \A i \in sync.left : sync'.written[i].at = second
      BY <1>7, <2>3, InsertNewIs
    <3>2. \A j \in DOMAIN sync'.written :
            \/ j \in DOMAIN sync.written /\ sync'.written[j] = sync.written[j]
            \/ j \in CourseIdx /\ sync'.written[j] = courses[j] /\ courses[j] # NoCourse
            \/ j \in sync.left /\ sync'.written[j].at = second
      BY <3>1
    <3> QED
      BY <1>1, <2>1, <3>1, <3>2, BatchStamps
  <2> QED
    BY <2>2, <2>3
<1>8. CASE CommitCourseSync
  <2>1. /\ sync.pc = "writing" /\ sync' = NoEdit
        /\ CommitsCourses("batch", WrittenOver(courses, sync.written))
    BY <1>8 DEF CommitCourseSync
  <2>2. /\ latest'.at = latest.at /\ latest'.by = "nobody"
        /\ courses' = WrittenOver(courses, sync.written)
        /\ ~blurred' => \A f \in CourseEditor : edit[f].pc = "saved" => f = "batch"
    BY <2>1, CommitIsAlone
  <2>3. \A f \in CourseEditor : edit'[f].pc = "saved" => edit'[f] = edit[f] /\ blurred'
    BY <1>1, <2>2, CoursesAssumption
  <2>4. \A i \in CourseIdx : courses'[i] = IF i \in DOMAIN sync.written THEN sync.written[i]
                                           ELSE courses[i]
    BY <2>1, <2>2, SyncIs, RowsTyped DEF WrittenOver, CourseTypes, CourseTable
  <2>5. \A j \in Existing(courses') : courses'[j].at <= latest'.at
    BY <2>1, <2>2, <2>4 DEF StampsInv, Existing
  <2>6. latest.at <= second' /\ latest.at <= latest.at
    BY <1>2, StampsAreNumbers DEF StampsInv
  <2> QED
    BY <1>3, <2>1, <2>2, <2>3, <2>5, <2>6, AloneStamps, StampsAreNumbers
<1> QED
  BY <1>4, <1>5, <1>6, <1>7, <1>8

\* A commit of rows that are stamped last moves the latest stamp, if it changes anything.
LEMMA NewestGrows ==
  ASSUME NEW old \in CourseTable, NEW new \in CourseTable, NEW n \in Nat,
         \A i \in Existing(old) : old[i].at <= n, \A i \in Existing(new) : new[i].at <= n,
         \A i \in CourseIdx :
           \/ new[i] = old[i]
           \/ new[i] # NoCourse /\ \A j \in Existing(old) : old[j].at < new[i].at,
         Existing(old) # {}
  PROVE  /\ Existing(new) # {} /\ Newest(old) \in Nat /\ Newest(new) \in Nat
         /\ new = old \/ Newest(old) < Newest(new)
<1>1. \A i \in Existing(old) : i \in Existing(new)
  BY DEF Existing
<1>2. Existing(new) # {}
  BY <1>1
<1>3. Newest(old) \in Nat /\ \E j \in Existing(old) : Newest(old) = old[j].at
  BY NewestIs
<1>4. Newest(new) \in Nat /\ \A i \in Existing(new) : new[i].at <= Newest(new)
  BY <1>2, NewestIs
<1>5. \A i \in Existing(new) : new[i].at \in Nat
  BY DEF Existing, CourseTable, CourseRow
<1>6. ASSUME new # old PROVE Newest(old) < Newest(new)
  <2>1. PICK i \in CourseIdx : new[i] # old[i]
    BY <1>6 DEF CourseTable
  <2>2. i \in Existing(new) /\ Newest(old) < new[i].at
    BY <1>3, <2>1 DEF Existing
  <2> QED
    BY <1>3, <1>4, <1>5, <2>2
<1> QED
  BY <1>2, <1>3, <1>4, <1>6

\* What a client keeps, when rows that are stamped last are committed.
LEMMA CommitKept ==
  ASSUME CourseTypes, CourseTypes', StampsInv, StampsInv', KeptInv, kept' = kept,
         ~blurred' => /\ ~blurred
                      /\ \A i \in CourseIdx :
                           \/ courses'[i] = courses[i]
                           \/ /\ courses'[i] # NoCourse
                              /\ \A j \in Existing(courses) : courses[j].at < courses'[i].at
  PROVE  KeptInv'
<1> SUFFICES ASSUME ~blurred'
             PROVE  /\ NotAfter(kept'.asked, LatestUpdatedAt') /\ NotAfter(kept'.at, LatestUpdatedAt')
                    /\ kept'.at # NoCourse /\ kept'.at = LatestUpdatedAt' => kept'.rows = ListedCourses'
  BY DEF KeptInv, KeptListIsCurrent, NotAfter
<1>1. /\ NotAfter(kept.asked, LatestUpdatedAt) /\ NotAfter(kept.at, LatestUpdatedAt)
      /\ kept.at # NoCourse /\ kept.at = LatestUpdatedAt => kept.rows = ListedCourses
  BY DEF KeptInv, KeptListIsCurrent
<1>2. LatestUpdatedAt = IF Existing(courses) = {} THEN NoCourse ELSE Newest(courses)
  BY LatestIs
<1>3. LatestUpdatedAt' = IF Existing(courses') = {} THEN NoCourse ELSE Newest(courses')
  BY DEF LatestUpdatedAt, Newest
<1>4. kept.at \in Nat \cup {NoCourse} /\ kept.asked \in Nat \cup {NoCourse}
  BY DEF CourseTypes, CourseStamp
<1>5. CASE Existing(courses) = {}
  <2>1. kept.at = NoCourse /\ kept.asked = NoCourse
    BY <1>1, <1>2, <1>5 DEF NotAfter
  <2> QED
    BY <2>1 DEF NotAfter
<1>6. CASE Existing(courses) # {}
  <2>1. PICK n \in Nat : /\ \A i \in Existing(courses) : courses[i].at <= n
                         /\ \A i \in Existing(courses') : courses'[i].at <= n
    <3>1. latest.at \in Nat /\ latest'.at \in Nat
      BY DEF CourseTypes
    <3>2. /\ \A i \in Existing(courses) : courses[i].at <= latest.at /\ courses[i].at \in Nat
          /\ \A i \in Existing(courses') : courses'[i].at <= latest'.at /\ courses'[i].at \in Nat
      BY DEF StampsInv, CourseTypes, Existing, CourseTable, CourseRow
    <3>3. latest.at + latest'.at \in Nat
      BY <3>1
    <3> QED
      BY <3>1, <3>2, <3>3
  <2>2. /\ courses \in CourseTable /\ courses' \in CourseTable
    BY DEF CourseTypes
  <2>3. /\ Existing(courses') # {} /\ Newest(courses) \in Nat /\ Newest(courses') \in Nat
        /\ courses' = courses \/ Newest(courses) < Newest(courses')
    BY <1>6, <2>1, <2>2, NewestGrows
  <2>4. LatestUpdatedAt = Newest(courses) /\ LatestUpdatedAt' = Newest(courses')
    BY <1>2, <1>3, <1>6, <2>3
  <2>5. /\ kept.asked = NoCourse \/ kept.asked <= Newest(courses)
        /\ kept.at = NoCourse \/ kept.at <= Newest(courses)
    BY <1>1, <2>4 DEF NotAfter
  <2>6. courses' = courses => ListedCourses' = ListedCourses
    BY DEF ListedCourses, Existing
  <2>7. Newest(courses') # NoCourse
    BY <2>3, NoCourseIsNoRow
  <2>8. NotAfter(kept'.asked, LatestUpdatedAt') /\ NotAfter(kept'.at, LatestUpdatedAt')
    BY <1>4, <2>3, <2>4, <2>5, <2>7 DEF NotAfter
  <2>9. ASSUME kept'.at # NoCourse, kept'.at = LatestUpdatedAt' PROVE kept'.rows = ListedCourses'
    <3>1. courses' = courses
      BY <1>4, <2>3, <2>4, <2>5, <2>9
    <3> QED
      BY <1>1, <2>4, <2>6, <2>9, <3>1
  <2> QED
    BY <2>8, <2>9
<1> QED
  BY <1>5, <1>6

\* A client who asks is told of the last stamp, unless seconds or transactions blur.
LEMMA KeptStep ==
  ASSUME CourseTypes, CourseTypes', CourseLocks, StampsInv, StampsInv', KeptInv, CoursesNext
  PROVE  KeptInv'
<1>0. /\ blurred' = blurred => (~blurred' => ~blurred)
      /\ \A who : StampsCourse(who) => (~blurred' => ~blurred)
  BY Zenon DEF StampsCourse
<1>1. courses' = courses => LatestUpdatedAt' = LatestUpdatedAt /\ ListedCourses' = ListedCourses
  BY DEF LatestUpdatedAt, ListedCourses, Existing
<1>2. ASSUME NEW e \in CourseEditor,
             LookUpIdx(e) \/ LockCourse(e) \/ SaveCourse(e) \/ RollBackCourse(e)
      PROVE  courses' = courses /\ kept' = kept /\ (~blurred' => ~blurred)
  <2>1. courses' = courses /\ kept' = kept
    BY <1>2 DEF LookUpIdx, LockCourse, SaveCourse, RollBackCourse
  <2>2. blurred' = blurred \/ StampsCourse(e)
    BY <1>2 DEF LookUpIdx, LockCourse, SaveCourse, RollBackCourse
  <2> QED
    BY <1>0, <2>1, <2>2
<1>3. ASSUME BeginCourseSync \/ UpdateSeenCourse \/ InsertNewCourses \/ AbortCourseSync \/ CoursesTick
      PROVE  courses' = courses /\ kept' = kept /\ (~blurred' => ~blurred)
  <2>1. CASE UpdateSeenCourse
    <3>1. courses' = courses /\ kept' = kept
      BY <2>1 DEF UpdateSeenCourse
    <3>2. blurred' = blurred \/ StampsCourse("batch")
      BY <2>1 DEF UpdateSeenCourse
    <3> QED
      BY <1>0, <3>1, <3>2
  <2>2. CASE BeginCourseSync \/ InsertNewCourses \/ AbortCourseSync \/ CoursesTick
    <3>1. courses' = courses /\ kept' = kept
      BY <2>2 DEF BeginCourseSync, InsertNewCourses, AbortCourseSync, CoursesTick
    <3>2. blurred' = blurred \/ StampsCourse("batch")
      BY <2>2 DEF BeginCourseSync, InsertNewCourses, AbortCourseSync, CoursesTick
    <3> QED
      BY <1>0, <3>1, <3>2
  <2> QED
    BY <1>3, <2>1, <2>2
<1>4. courses' = courses /\ kept' = kept /\ (~blurred' => ~blurred) => KeptInv'
  BY <1>1 DEF KeptInv, KeptListIsCurrent
<1>5. CASE AskUpdatedAt
  <2>1. /\ kept' = [kept EXCEPT !.asked = LatestUpdatedAt]
        /\ courses' = courses /\ (blurred' <=> blurred)
    BY <1>5 DEF AskUpdatedAt
  <2>2. kept'.asked = LatestUpdatedAt /\ kept'.at = kept.at /\ kept'.rows = kept.rows
    BY <2>1 DEF CourseTypes
  <2>3. NotAfter(LatestUpdatedAt, LatestUpdatedAt)
    BY LatestIs DEF NotAfter, CourseStamp
  <2> QED
    BY <1>1, <2>1, <2>2, <2>3 DEF KeptInv, KeptListIsCurrent
<1>6. CASE FetchCourses
  <2>1. /\ kept' = [kept EXCEPT !.at = kept.asked, !.rows = ListedCourses]
        /\ courses' = courses /\ (blurred' <=> blurred)
    BY <1>6 DEF FetchCourses
  <2>2. kept'.asked = kept.asked /\ kept'.at = kept.asked /\ kept'.rows = ListedCourses
    BY <2>1 DEF CourseTypes
  <2> QED
    BY <1>1, <2>1, <2>2 DEF KeptInv, KeptListIsCurrent
<1>7. ASSUME NEW e \in CourseEditor, CreateCourse(e) PROVE KeptInv'
  <2> DEFINE i == edit[e].idx
  <2>1. i \in CourseIdx /\ kept' = kept
    BY <1>7, EditIs DEF CreateCourse
  <2>2. CASE courses[i] # NoCourse
    <3>1. UNCHANGED <<courses, latest, blurred>>
      BY <1>7, <2>2 DEF CreateCourse
    <3> QED
      BY <1>4, <2>1, <3>1
  <2>3. CASE courses[i] = NoCourse
    <3>1. /\ courses' = [courses EXCEPT ![i] = [name |-> edit[e].name, deleted |-> FALSE,
                                              at |-> second]]
          /\ blurred' = (blurred \/ latest.at = second \/ CourseUncommitted(e))
      BY <1>7, <2>3 DEF CreateCourse
    <3>2. /\ \A j \in CourseIdx \ {i} : courses'[j] = courses[j]
          /\ courses'[i] = [name |-> edit[e].name, deleted |-> FALSE, at |-> second]
      BY <2>1, <3>1 DEF CourseTypes, CourseTable
    <3>3. courses'[i].at = second /\ courses'[i] # NoCourse
      <4>1. edit[e].name \in CourseName /\ second \in Nat
        BY <1>7, EditIs, StampsAreNumbers DEF CreateCourse
      <4>2. courses'[i] \in CourseRow
        BY <3>2, <4>1 DEF CourseRow
      <4> QED
        <5>1. courses'[i].at = second
          BY <3>2
        <5>2. courses'[i] # NoCourse
          BY <4>2, NoCourseIsNoRow
        <5> QED
          BY <5>1, <5>2
    <3>4. ~blurred' => ~blurred /\ \A j \in Existing(courses) : courses[j].at < second
      <4>1. ~blurred' => ~blurred /\ latest.at # second
        BY <3>1
      <4> QED
        BY <4>1, StampsAreNumbers DEF StampsInv
    <3> QED
      BY <2>1, <3>2, <3>3, <3>4, CommitKept
  <2> QED
    BY <2>2, <2>3
<1>8. ASSUME NEW e \in CourseEditor, CommitCourse(e) PROVE KeptInv'
  <2> DEFINE i == edit[e].idx
  <2>1. /\ edit[e].pc = "saved" /\ kept' = kept
        /\ CommitsCourses(e, [courses EXCEPT ![i] = edit[e].row])
    BY <1>8 DEF CommitCourse
  <2>2. i \in CourseIdx /\ edit[e].row \in CourseRow
    BY <2>1, EditIs
  <2>3. courses' = [courses EXCEPT ![i] = edit[e].row] /\ (~blurred' => ~blurred)
    BY <2>1, CommitIsAlone
  <2>4. /\ \A j \in CourseIdx \ {i} : courses'[j] = courses[j]
        /\ courses'[i] = edit[e].row /\ courses'[i] # NoCourse
    BY <2>2, <2>3, NoCourseIsNoRow DEF CourseTypes, CourseTable
  <2>5. ~blurred => StampedLast(edit[e].row, i)
    BY <2>1 DEF StampsInv
  <2> QED
    BY <2>1, <2>3, <2>4, <2>5, CommitKept DEF StampedLast
<1>9. CASE CommitCourseSync
  <2>1. /\ sync.pc = "writing" /\ kept' = kept
        /\ CommitsCourses("batch", WrittenOver(courses, sync.written))
    BY <1>9 DEF CommitCourseSync
  <2>2. courses' = WrittenOver(courses, sync.written) /\ (~blurred' => ~blurred)
    BY <2>1, CommitIsAlone
  <2>3. \A i \in CourseIdx : courses'[i] = IF i \in DOMAIN sync.written THEN sync.written[i]
                                           ELSE courses[i]
    BY <2>1, <2>2, SyncIs, RowsTyped DEF WrittenOver, CourseTypes, CourseTable
  <2>4. \A i \in DOMAIN sync.written : sync.written[i] # NoCourse
    BY <2>1, SyncIs, RowsTyped, NoCourseIsNoRow
  <2>5. ~blurred => \A i \in DOMAIN sync.written : StampedLast(sync.written[i], i)
    BY <2>1 DEF StampsInv
  <2> QED
    BY <2>1, <2>2, <2>3, <2>4, <2>5, CommitKept DEF StampedLast
<1> QED
  BY <1>2, <1>3, <1>4, <1>5, <1>6, <1>7, <1>8, <1>9 DEF CoursesNext

\* Some courses may be there, unedited, and nobody has asked.
LEMMA CoursesInitInv == CoursesInit => CoursesInv
<1> SUFFICES ASSUME CoursesInit PROVE CoursesInv
  OBVIOUS
<1>1. FirstCourse \in CourseRow
  BY CoursesAssumption DEF FirstCourse, CourseRow
<1>2. PICK S \in SUBSET CourseIdx :
        courses = [i \in CourseIdx |-> IF i \in S THEN FirstCourse ELSE NoCourse]
  BY DEF CoursesInit
<1>3. /\ edit = [e \in CourseEditor |-> NoEdit] /\ sync = NoEdit /\ second = 1 /\ started = 0
      /\ kept = [at |-> NoCourse, rows |-> {}, asked |-> NoCourse]
      /\ truth = ShownCourses(courses) /\ applied = NoBatch
      /\ latest = [at |-> 0, by |-> "nobody"] /\ blurred = FALSE
  BY DEF CoursesInit
<1>4. NoEdit.pc = "idle" /\ NoBatch.sheet = NoCourses /\ DOMAIN NoCourses = {}
  BY DEF NoEdit, NoBatch, NoCourses
<1>5. CourseTypes
  <2>1. courses \in CourseTable
    BY <1>1, <1>2 DEF CourseTable
  <2>2. edit \in [CourseEditor -> EditState] /\ sync \in SyncState
    BY <1>3 DEF EditState, SyncState
  <2>3. applied \in [sheet : CourseSheet \cup {NoCourses}, touched : SUBSET CourseIdx]
    BY <1>3 DEF NoBatch
  <2>4. kept \in [at : CourseStamp, rows : SUBSET (CourseIdx \X CourseName), asked : CourseStamp]
    BY <1>3 DEF CourseStamp
  <2>5. second \in 1 .. MaxCourseSecond /\ started \in 0 .. MaxCourseTxs
    BY <1>3, CoursesAssumption
  <2> QED
    BY <1>3, <2>1, <2>2, <2>3, <2>4, <2>5 DEF CourseTypes
<1>6. CourseLocks
  BY <1>3, <1>4 DEF CourseLocks, LockedBy
<1>7. SheetInv
  BY <1>3, <1>4 DEF SheetInv, SheetApplied
<1>8. StampsInv
  <2>1. \A i \in Existing(courses) : courses[i] = FirstCourse
    BY <1>2 DEF Existing
  <2>2. FirstCourse.at = 0
    BY DEF FirstCourse
  <2> QED
    BY <1>3, <1>4, <2>1, <2>2 DEF StampsInv
<1>9. KeptInv
  BY <1>3 DEF KeptInv, KeptListIsCurrent, NotAfter
<1> QED
  BY <1>3, <1>5, <1>6, <1>7, <1>8, <1>9 DEF CoursesInv, FieldsKept

\* The invariant is kept by every step.
LEMMA CoursesStepInv == CoursesInv /\ [CoursesNext]_coursesVars => CoursesInv'
<1> SUFFICES ASSUME CoursesInv, [CoursesNext]_coursesVars PROVE CoursesInv'
  OBVIOUS
<1>1. CASE CoursesNext
  <2>1. CourseTypes' /\ CourseLocks' /\ StampsInv'
    BY <1>1, EditorTyped, OthersTyped, EditorLocks, OthersLocks, EditorStamps, OthersStamps
       DEF CoursesInv, CoursesNext
  <2>2. FieldsKept' /\ SheetInv'
    BY <1>1, FieldsStep, SheetStep DEF CoursesInv
  <2>3. KeptInv'
    BY <1>1, <2>1, KeptStep DEF CoursesInv
  <2> QED
    BY <2>1, <2>2, <2>3 DEF CoursesInv
<1>2. CASE UNCHANGED coursesVars
  <2> USE <1>2 DEF coursesVars
  <2>1. CourseTypes'
    BY DEF CoursesInv, CourseTypes
  <2>2. CourseLocks' /\ FieldsKept'
    BY DEF CoursesInv, CourseLocks, EditedRow, LockedBy, WrittenBySync, Existing, FieldsKept,
       ShownCourses
  <2>3. SheetInv' /\ StampsInv'
    BY DEF CoursesInv, SheetInv, SheetApplied, StampsInv, StampedLast, Existing
  <2>4. KeptInv'
    BY DEF CoursesInv, KeptInv, KeptListIsCurrent, LatestUpdatedAt, ListedCourses, Existing
  <2> QED
    BY <2>1, <2>2, <2>3, <2>4 DEF CoursesInv
<1> QED
  BY <1>1, <1>2

\* However edits of courses, a batch and clients interleave: rows are locked by one, what is
\* saved differs from the committed row in what was given, stamps follow one another, and a
\* batch has what it saw of the rows that nobody has edited since (course_usecase.go, SaveAll).
THEOREM SpecCoursesInv == CoursesSpec => []CoursesInv
BY CoursesInitInv, CoursesStepInv, PTL DEF CoursesSpec

\* For any courses, sheets and editors: an edit keeps what it was not given, a sheet is applied
\* whole or not at all, and a client that compares the newest updated-at with the one it keeps
\* has every change, unless two commits share a second or overlap (course_usecase.go, SaveAll,
\* GetUpdatedAt; docs/API.md:3433 and 3502).
THEOREM SpecCoursesHold == CoursesSpec => [](CoursesTypeOK /\ CoursesSound)
BY CoursesInvHolds, SpecCoursesInv, PTL

-----------------------------------------------------------------------------
\* What a song batch and the administrators beside it are promised, part for part: the
\* downloads, the songs and the courses go on independently of one another, for any
\* sources, sheets and edits (inputsFromDownload, importInputs, SyncToMySQL,
\* version_range_lock.go, course_usecase.go).
THEOREM SpecSongBatchHolds == DownloadsSpec /\ MasterSpec /\ CoursesSpec => []SongBatchHolds
<1>1. DownloadsHold /\ (MasterTypeOK /\ SyncSound /\ VersionRangeHeld)
         /\ (CoursesTypeOK /\ CoursesSound) => SongBatchHolds
  BY DEF SongBatchHolds
<1>. QED
  BY <1>1, SpecDownloadsHold, SpecMasterHolds, SpecCoursesHold, PTL
=============================================================================
