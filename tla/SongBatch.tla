------------------------------ MODULE SongBatch ------------------------------
(***************************************************************************)
(* What is promised of a song batch and of the administrators beside it,   *)
(* part for part: its downloads, the songs, the courses.  The parts share  *)
(* no variable: what an import takes from a file is SongSources', and the  *)
(* courses are written in the transaction of the songs but in tables of    *)
(* their own.                                                              *)
(***************************************************************************)
EXTENDS SongMaster, Downloads, Courses

\* A batch takes whole sources or none and opens the gate of the sheets again; songs and
\* version ranges agree with one another and with the last run; courses are as the last
\* sheet and the edits since left them, and a feed that was asked since has every change.
\* (inputsFromDownload, importInputs, SyncToMySQL, version_range_lock.go, course_usecase.go)
SongBatchHolds ==
  /\ DownloadsHold
  /\ MasterTypeOK /\ SyncSound /\ VersionRangeHeld
  /\ CoursesTypeOK /\ CoursesSound
=============================================================================
