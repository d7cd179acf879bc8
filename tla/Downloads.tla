------------------------------ MODULE Downloads -------------------------------
(***************************************************************************)
(* How a song batch gets at its sources: they are resolved, downloaded     *)
(* side by side into a directory of this run, and read back.  The two      *)
(* sheets of Google share one gate, which lets one request through at a    *)
(* time; a server that is busy is asked again after a rest.  The run goes  *)
(* on without a source that only completes, and counts it.                 *)
(*                                                                         *)
(* The rows of an answer are told apart by what is done to them: "good",   *)
(* "faulty" (a field that must be there is not), "faulty course", and      *)
(* "zero", a constant of 0, that the parser of a sheet does not mind.      *)
(* One run at a time in a process (BatchJobs), so that the gate is the     *)
(* only thing a run leaves to the next.                                    *)
(***************************************************************************)
EXTENDS Integers, FiniteSets

CONSTANTS
  Source,    \* of the five, those that are configured at times
  Attempts   \* downloadRetryAttempts

ASSUME DownloadsAssumption ==
  /\ Source \subseteq {"official", "additional", "st1027", "mainframe", "otoge"}
  /\ {"official", "additional", "mainframe"} \subseteq Source
  /\ Attempts \in Nat \ {0}

VARIABLES
  execution,  \* the execution: its stage, its mode, its warnings, what it has imported
  download,   \* of each source, where its download is
  file,       \* of each source, the file in the directory of the run
  gate,       \* googleSheetsGate: the source that is in it
  cancelled   \* the context of the run has ended

downloadsVars == <<execution, download, file, gate, cancelled>>

NoOne == "no one"
Gone == {"no file"}
Torn == {"torn"}          \* written in part
Garbled == {"no JSON"}

TheRow == {"good", "faulty", "faulty course", "zero"}
Sheets == {"additional", "mainframe"}

TargetSources(mode) ==
  IF mode = "major" THEN {"official", "additional"} ELSE Source
Needed(mode) ==
  IF mode = "major" THEN {"official", "additional"} ELSE {"official", "additional", "mainframe"}

DownloadsTypeOK ==
  /\ execution.stage \in {"idle", "downloading", "importing", "consolidating", "done", "failed"}
  /\ execution.mode \in {"normal", "major"} /\ execution.warnings \in 0 .. Cardinality(Source)
  /\ DOMAIN execution.taken \subseteq Source
  /\ \A s \in Source :
       /\ download[s].pc \in {"none", "ready", "waiting", "asking names", "asking", "resting",
                              "fetched", "lost"}
       /\ download[s].attempt \in 1 .. Attempts
       /\ file[s] \in (SUBSET TheRow) \cup {Gone, Torn, Garbled}
  /\ gate \in Sheets \cup {NoOne} /\ cancelled \in BOOLEAN
-----------------------------------------------------------------------------
\* The directory is made, the sources are resolved: the environment lacks some of them.
BeginDownloads ==
  /\ execution.stage \in {"idle", "done", "failed"}
  /\ \E mode \in {"normal", "major"} : \E resolved \in SUBSET TargetSources(mode) :
       IF Needed(mode) \subseteq resolved
       THEN /\ execution' = [stage |-> "downloading", mode |-> mode, taken |-> <<>>,
                       warnings |-> Cardinality(TargetSources(mode) \ resolved)]
            /\ download' = [s \in Source |-> [pc |-> IF s \in resolved THEN "ready" ELSE "none",
                                              attempt |-> 1]]
       ELSE /\ execution' = [execution EXCEPT !.stage = "failed", !.mode = mode, !.taken = <<>>,
                                  !.warnings = 0]
            /\ download' = [s \in Source |-> [pc |-> "none", attempt |-> 1]]
  /\ file' = [s \in Source |-> Gone]
  /\ cancelled' = FALSE
  /\ UNCHANGED gate

Turns(s, pc) == download' = [download EXCEPT ![s].pc = pc]

\* retryDownload begins an attempt, unless the context has ended.
BeginAttempt(s) ==
  /\ download[s].pc = "ready"
  /\ Turns(s, IF cancelled THEN "lost" ELSE IF s \in Sheets THEN "waiting" ELSE "asking")
  /\ UNCHANGED <<execution, file, gate, cancelled>>

\* withGoogleSheetsGate; the sheet of the constants is asked for the names of its pages first.
EnterGate(s) ==
  /\ download[s].pc = "waiting" /\ gate = NoOne
  /\ gate' = s
  /\ Turns(s, IF s = "mainframe" THEN "asking names" ELSE "asking")
  /\ UNCHANGED <<execution, file, cancelled>>
LeaveQueue(s) ==
  /\ download[s].pc = "waiting" /\ cancelled
  /\ Turns(s, "lost")
  /\ UNCHANGED <<execution, file, gate, cancelled>>

\* The attempt is over, however it went.
Freed(s) == IF gate = s THEN NoOne ELSE gate

\* An answer of status 429, 502, 503 or 504.
Busy(s) ==
  /\ download[s].pc \in {"asking names", "asking"}
  /\ Turns(s, IF download[s].attempt < Attempts THEN "resting" ELSE "lost")
  /\ gate' = Freed(s)
  /\ UNCHANGED <<execution, file, cancelled>>

\* Another status, no answer, an answer too large or cut off, the end of the context, or, of a
\* sheet, no JSON: that is final.
Declined(s) ==
  /\ download[s].pc \in {"asking names", "asking"}
  /\ Turns(s, "lost")
  /\ gate' = Freed(s)
  /\ UNCHANGED <<execution, file, cancelled>>

Names(s) ==
  /\ download[s].pc = "asking names"
  /\ Turns(s, "asking")
  /\ UNCHANGED <<execution, file, gate, cancelled>>

\* What can be saved of an answer: the sheets leave out faulty rows, and the additional one is
\* refused as a whole for a faulty course; the others are saved as they are.
Parses(s, rows) == s = "additional" => "faulty course" \notin rows
Saved(s, rows) == IF s \in Sheets THEN rows \ {"faulty"} ELSE rows

AnswerOf(s) ==
  (SUBSET (CASE s = "additional" -> {"good", "faulty", "faulty course"}
             [] s = "mainframe" -> {"good", "faulty", "zero"}
             [] OTHER -> {"good", "faulty"}))
    \cup (IF s \in Sheets THEN {} ELSE {Garbled})

\* An answer is written, or, when the disk is full, a part of it.
Answered(s) ==
  /\ download[s].pc = "asking"
  /\ \E rows \in AnswerOf(s) :
       \/ /\ Parses(s, rows)
          /\ \/ Turns(s, "fetched") /\ file' = [file EXCEPT ![s] = Saved(s, rows)]
             \/ Turns(s, "lost") /\ file' = [file EXCEPT ![s] = Torn]
       \/ ~Parses(s, rows) /\ Turns(s, "lost") /\ UNCHANGED file
  /\ gate' = Freed(s)
  /\ UNCHANGED <<execution, cancelled>>

Rested(s) ==
  /\ download[s].pc = "resting"
  /\ \/ cancelled /\ Turns(s, "lost")
     \/ download' = [download EXCEPT ![s] = [pc |-> "ready", attempt |-> @.attempt + 1]]
  /\ UNCHANGED <<execution, file, gate, cancelled>>

\* The server stops, or the time of the run is over.
CancelRun ==
  /\ execution.stage = "downloading" /\ ~cancelled
  /\ cancelled' = TRUE
  /\ UNCHANGED <<execution, download, file, gate>>
-----------------------------------------------------------------------------
RunFails == [execution EXCEPT !.stage = "failed"]

\* All downloads are over: DownloadAll returns, and its results are looked through.
Gather ==
  /\ execution.stage = "downloading"
  /\ \A s \in Source : download[s].pc \in {"none", "fetched", "lost"}
  /\ LET lost == {s \in Source : download[s].pc = "lost"}
     IN IF lost \cap Needed(execution.mode) # {}
        THEN execution' = RunFails /\ file' = [s \in Source |-> Gone]
        ELSE /\ execution' = [execution EXCEPT !.stage = "importing", !.warnings = @ + Cardinality(lost)]
             /\ UNCHANGED file
  /\ UNCHANGED <<download, gate, cancelled>>

\* An importer refuses a file with a row that is not as it should be, or with none; the
\* additional sheet may be empty.
Imports(s, rows) ==
  /\ rows \notin {Gone, Torn, Garbled}
  /\ s # "additional" => rows = {"good"}

\* importInputs
ImportFiles ==
  /\ execution.stage = "importing"
  /\ LET inputs == {s \in Source : download[s].pc = "fetched"}
         taken == {s \in inputs : Imports(s, file[s])}
     IN IF Needed(execution.mode) \subseteq taken
        THEN /\ execution' = [execution EXCEPT !.stage = "consolidating",
                          !.warnings = @ + Cardinality(inputs \ taken),
                          !.taken = [s \in taken |-> file[s]]]
             /\ UNCHANGED file
        ELSE execution' = RunFails /\ file' = [s \in Source |-> Gone]
  /\ UNCHANGED <<download, gate, cancelled>>

\* Consolidate (SongMaster) goes well or not; Execute removes the directory.
EndRun ==
  /\ execution.stage = "consolidating"
  /\ \E stage \in {"done", "failed"} : execution' = [execution EXCEPT !.stage = stage, !.taken = <<>>]
  /\ file' = [s \in Source |-> Gone]
  /\ UNCHANGED <<download, gate, cancelled>>

DownloadsInit ==
  /\ execution = [stage |-> "idle", mode |-> "normal", warnings |-> 0, taken |-> <<>>]
  /\ download = [s \in Source |-> [pc |-> "none", attempt |-> 1]]
  /\ file = [s \in Source |-> Gone]
  /\ gate = NoOne
  /\ cancelled = FALSE

DownloadsNext ==
  \/ BeginDownloads \/ CancelRun \/ Gather \/ ImportFiles \/ EndRun
  \/ \E s \in Source : BeginAttempt(s) \/ Answered(s) \/ Busy(s) \/ Declined(s) \/ Rested(s)
  \/ \E s \in Sheets : EnterGate(s) \/ LeaveQueue(s) \/ Names(s)

DownloadsSpec == DownloadsInit /\ [][DownloadsNext]_downloadsVars
-----------------------------------------------------------------------------
\* What goes into the consolidation is whole, whatever was lost, cut off or refused on the
\* way; all that the mode needs is there, and every source it does without was counted.
\* (inputsFromDownload, importInputs)
TakenIsWhole ==
  execution.stage = "consolidating" =>
    /\ Needed(execution.mode) \subseteq DOMAIN execution.taken
    /\ execution.warnings = Cardinality(TargetSources(execution.mode) \ DOMAIN execution.taken)
    /\ \A s \in DOMAIN execution.taken :
         /\ execution.taken[s] \subseteq {"good"}
         /\ execution.taken[s] = {} => s = "additional"

\* The sheets are asked one at a time, and nobody waits for a gate that nobody will open,
\* in this run or in the next: whoever is in it is asking.
\* (withGoogleSheetsGate, retryDownload)
GateServes ==
  /\ \A s, t \in Sheets :
       {download[s].pc, download[t].pc} \subseteq {"asking names", "asking"} => s = t
  /\ gate # NoOne => execution.stage = "downloading" /\ download[gate].pc \in {"asking names", "asking"}

\* What the downloads promise to the consolidation and to the next execution.
DownloadsSound == TakenIsWhole /\ GateServes

\* The same, with the types of what an execution has.
DownloadsHold == DownloadsTypeOK /\ DownloadsSound
=============================================================================
