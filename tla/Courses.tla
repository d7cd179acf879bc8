------------------------------- MODULE Courses -------------------------------
(***************************************************************************)
(* The table of courses.  Administrators create, change, delete and        *)
(* restore courses, each under the lock of its row; a song batch brings    *)
(* the courses of a sheet, from what it read when its transaction began.   *)
(* Clients keep the list of courses and ask for the latest updated_at to   *)
(* know whether it is still good.                                          *)
(*                                                                         *)
(* A row is stamped with the second of the statement that changes it, not  *)
(* with that of the commit.  A name stands for a course's name and class;  *)
(* an invalid name or class ends a transaction, as RollBackCourse and      *)
(* AbortCourseSync do.  Display ids are random and stand for the course.   *)
(***************************************************************************)
EXTENDS Integers, FiniteSetsExt

CONSTANTS
  CourseIdx,      \* courses.official_idx
  CourseName,
  CourseSheet,          \* what the sheet may hold: [some indexes -> names]
  CourseEditor,         \* requests of administrators that may run at a time
  NoCourse,
  MaxCourseSecond,      \* bounds the time
  MaxCourseTxs    \* and the transactions

ASSUME CoursesAssumption ==
  /\ {MaxCourseSecond, MaxCourseTxs} \subseteq Nat /\ MaxCourseSecond # 0
  /\ CourseName # {}
  /\ CourseSheet \subseteq UNION {[S -> CourseName] : S \in SUBSET CourseIdx}
  /\ {"batch", "nobody"} \cap CourseEditor = {}

VARIABLES
  courses,    \* the committed rows
  edit,       \* what each request of an administrator is doing
  sync,       \* the transaction of a batch, as far as it is about courses
  second,     \* the clock of the database
  kept,       \* a client's list and the updated_at it asked before
  started,    \* number of transactions
  truth,      \* history: what the commits so far have made of each course
  applied,    \* history: the sheet of the last batch, and what was edited since it began
  latest,     \* history: second and transaction of the last stamp
  blurred     \* history: two transactions overlapped, or stamped in one second

coursesVars ==
  <<courses, edit, sync, second, kept, started, truth, applied, latest, blurred>>

NoEdit == [pc |-> "idle"]
NoCourses == [i \in {} |-> NoCourse]

FirstCourse == [name |-> CHOOSE name \in CourseName : TRUE, deleted |-> FALSE, at |-> 0]
NoBatch == [sheet |-> NoCourses, touched |-> CourseIdx]

CourseRow == [name : CourseName, deleted : BOOLEAN, at : Nat]
ASSUME NoCourseIsNoRow == NoCourse \notin Nat \cup CourseRow

CoursesTypeOK ==
  /\ courses \in [CourseIdx -> CourseRow \cup {NoCourse}]
  /\ \A e \in CourseEditor : edit[e].pc \in {"idle", "checked", "locked", "saved"}
  /\ sync.pc \in {"idle", "writing"}
  /\ second \in 1 .. MaxCourseSecond /\ started \in 0 .. MaxCourseTxs

\* What clients see of rows.
ShownCourse(row) ==
  IF row = NoCourse THEN NoCourse ELSE [name |-> row.name, deleted |-> row.deleted]
ShownCourses(rows) == [i \in DOMAIN rows |-> ShownCourse(rows[i])]

\* A table, or part of one, with rows written over it.
WrittenOver(table, rows) ==
  [i \in DOMAIN rows \cup DOMAIN table |-> IF i \in DOMAIN rows THEN rows[i] ELSE table[i]]

CoursesInit ==
  /\ \E S \in SUBSET CourseIdx :
       courses = [i \in CourseIdx |-> IF i \in S THEN FirstCourse ELSE NoCourse]
  /\ edit = [e \in CourseEditor |-> NoEdit] /\ sync = NoEdit /\ second = 1 /\ started = 0
  /\ kept = [at |-> NoCourse, rows |-> {}, asked |-> NoCourse]
  /\ truth = ShownCourses(courses) /\ applied = NoBatch
  /\ latest = [at |-> 0, by |-> "nobody"] /\ blurred = FALSE
-----------------------------------------------------------------------------
Existing(S) == {i \in CourseIdx : S[i] # NoCourse}

\* Courses that are not deleted, without their stamps; FindAll.
ListedCourses == {<<i, courses[i].name>> : i \in {j \in Existing(courses) : ~courses[j].deleted}}

\* FindLatestUpdatedAt: of all courses, deleted ones too.
LatestUpdatedAt ==
  IF Existing(courses) = {} THEN NoCourse ELSE Max({courses[i].at : i \in Existing(courses)})

\* The row with new values; updated_at is ON UPDATE CURRENT_TIMESTAMP.
UpdatedCourse(row, name, deleted) ==
  IF row.name = name /\ row.deleted = deleted THEN row
  ELSE [name |-> name, deleted |-> deleted, at |-> second]

\* A row is locked by who has read it FOR UPDATE, and by who has written it.
LockedBy(e, i) == edit[e].pc \in {"locked", "saved"} /\ edit[e].idx = i
WrittenBySync(i) == sync.pc = "writing" /\ i \in DOMAIN sync.written
FreeFor(e, i) == ~WrittenBySync(i) /\ \A f \in CourseEditor \ {e} : ~LockedBy(f, i)

StartsCourseTx == started < MaxCourseTxs /\ started' = started + 1

\* A statement of a transaction stamps a row; a transaction commits, while others
\* have stamped theirs.
StampsCourse(who) ==
  /\ latest' = [at |-> second, by |-> who]
  /\ blurred' = (blurred \/ (latest.at = second /\ latest.by # who))
CourseUncommitted(who) ==
  \/ who # "batch" /\ sync.pc = "writing" /\ DOMAIN sync.written # {}
  \/ \E e \in CourseEditor : who # e /\ edit[e].pc = "saved"
CommitsCourses(who, rows) ==
  /\ courses' = rows
  /\ latest' = [latest EXCEPT !.by = "nobody"]
  /\ blurred' = (blurred \/ CourseUncommitted(who))
TouchesCourse(i) == applied' = [applied EXCEPT !.touched = @ \cup {i}]
-----------------------------------------------------------------------------
\* Create: the index is looked up first, and the row inserted without a transaction.
LookUpIdx(e) ==
  /\ edit[e].pc = "idle" /\ StartsCourseTx
  /\ \E i \in CourseIdx \ Existing(courses), name \in CourseName :
       edit' = [edit EXCEPT ![e] = [pc |-> "checked", idx |-> i, name |-> name]]
  /\ UNCHANGED <<courses, sync, second, kept, truth, applied, latest, blurred>>

\* A row that has come meanwhile is a duplicate; one that is not committed is waited for.
CreateCourse(e) ==
  LET i == edit[e].idx
      row == [name |-> edit[e].name, deleted |-> FALSE, at |-> second]
  IN /\ edit[e].pc = "checked" /\ ~WrittenBySync(i)
     /\ edit' = [edit EXCEPT ![e] = NoEdit]
     /\ IF courses[i] # NoCourse
        THEN UNCHANGED <<courses, truth, applied, latest, blurred>>
        ELSE /\ courses' = [courses EXCEPT ![i] = row]
             /\ truth' = [truth EXCEPT ![i] = ShownCourse(row)] /\ TouchesCourse(i)
             /\ latest' = [at |-> second, by |-> "nobody"]
             /\ blurred' = (blurred \/ latest.at = second \/ CourseUncommitted(e))
     /\ UNCHANGED <<sync, second, kept, started>>

\* FindByDisplayIDForUpdate
LockCourse(e) ==
  /\ edit[e].pc = "idle" /\ StartsCourseTx
  /\ \E i \in Existing(courses) :
       /\ FreeFor(e, i)
       /\ edit' = [edit EXCEPT ![e] = [pc |-> "locked", idx |-> i, row |-> courses[i]]]
  /\ UNCHANGED <<courses, sync, second, kept, truth, applied, latest, blurred>>

\* Update gives the row a name, Delete and Restore a flag; Save writes all of the row.
SaveCourse(e) ==
  LET row == edit[e].row
  IN /\ edit[e].pc = "locked"
     /\ \E given \in {<<name, row.deleted, "name">> : name \in CourseName}
                       \cup {<<row.name, flag, "deleted">> : flag \in BOOLEAN} :
          LET new == UpdatedCourse(row, given[1], given[2])
          IN /\ edit' = [edit EXCEPT ![e] = [pc |-> "saved", idx |-> @.idx, row |-> new,
                                             given |-> given]]
             /\ IF new = row THEN UNCHANGED <<latest, blurred>> ELSE StampsCourse(e)
     /\ UNCHANGED <<courses, sync, second, kept, started, truth, applied>>

CommitCourse(e) ==
  LET i == edit[e].idx
      given == edit[e].given
  IN /\ edit[e].pc = "saved"
     /\ edit' = [edit EXCEPT ![e] = NoEdit]
     /\ CommitsCourses(e, [courses EXCEPT ![i] = edit[e].row])
     /\ truth' = IF given[3] = "name" THEN [truth EXCEPT ![i].name = given[1]]
                 ELSE [truth EXCEPT ![i].deleted = given[2]]
     /\ TouchesCourse(i)
     /\ UNCHANGED <<sync, second, kept, started>>

RollBackCourse(e) ==
  /\ edit[e].pc # "idle"
  /\ edit' = [edit EXCEPT ![e] = NoEdit]
  /\ UNCHANGED <<courses, sync, second, kept, started, truth, applied, latest, blurred>>
-----------------------------------------------------------------------------
\* SyncToMySQL reads the songs: from now on the transaction reads this snapshot.
BeginCourseSync ==
  /\ sync.pc = "idle" /\ StartsCourseTx
  /\ \E sheet \in CourseSheet :
       sync' = [pc |-> "writing", seen |-> courses, sheet |-> sheet, left |-> DOMAIN sheet,
                written |-> NoCourses]
  /\ applied' = [sheet |-> NoCourses, touched |-> {}]
  /\ UNCHANGED <<courses, edit, second, kept, truth, latest, blurred>>

\* SaveAll: a course that was not as in the sheet is updated as it is now, and revived.
UpdateSeenCourse ==
  /\ sync.pc = "writing"
  /\ \E i \in sync.left \cap Existing(sync.seen) :
       LET seen == sync.seen[i]
           new == UpdatedCourse(courses[i], sync.sheet[i], FALSE)
       IN IF seen.name = sync.sheet[i] /\ ~seen.deleted
          THEN sync' = [sync EXCEPT !.left = @ \ {i}] /\ UNCHANGED <<latest, blurred>>
          ELSE /\ \A e \in CourseEditor : ~LockedBy(e, i)
               /\ sync' = [sync EXCEPT !.left = @ \ {i},
                                       !.written = WrittenOver(@, [j \in {i} |-> new])]
               /\ IF new = courses[i] THEN UNCHANGED <<latest, blurred>> ELSE StampsCourse("batch")
  /\ UNCHANGED <<courses, edit, second, kept, started, truth, applied>>

\* The courses it did not see are inserted by one statement, in vain if one is there by now.
InsertNewCourses ==
  LET new == sync.left
      rows == [i \in new |-> [name |-> sync.sheet[i], deleted |-> FALSE, at |-> second]]
  IN /\ sync.pc = "writing" /\ new # {} /\ new \cap Existing(sync.seen) = {}
     /\ IF \E i \in new : courses[i] # NoCourse
        THEN sync' = NoEdit /\ applied' = NoBatch /\ UNCHANGED <<latest, blurred>>
        ELSE /\ sync' = [sync EXCEPT !.left = {}, !.written = WrittenOver(@, rows)]
             /\ StampsCourse("batch") /\ UNCHANGED applied
     /\ UNCHANGED <<courses, edit, second, kept, started, truth>>

CommitCourseSync ==
  /\ sync.pc = "writing" /\ sync.left = {}
  /\ sync' = NoEdit
  /\ CommitsCourses("batch", WrittenOver(courses, sync.written))
  /\ truth' = WrittenOver(truth, ShownCourses(sync.written))
  /\ applied' = [applied EXCEPT !.sheet = sync.sheet]
  /\ UNCHANGED <<edit, second, kept, started>>

\* An unknown class, a lost connection, a song that could not be written.
AbortCourseSync ==
  /\ sync.pc = "writing"
  /\ sync' = NoEdit /\ applied' = NoBatch
  /\ UNCHANGED <<courses, edit, second, kept, started, truth, latest, blurred>>
-----------------------------------------------------------------------------
\* GetCoursesUpdatedAt; the client then asks for the list, if it has none of that time.
AskUpdatedAt ==
  /\ kept' = [kept EXCEPT !.asked = LatestUpdatedAt]
  /\ UNCHANGED <<courses, edit, sync, second, started, truth, applied, latest, blurred>>

FetchCourses ==
  /\ kept.asked # kept.at
  /\ kept' = [kept EXCEPT !.at = kept.asked, !.rows = ListedCourses]
  /\ UNCHANGED <<courses, edit, sync, second, started, truth, applied, latest, blurred>>

CoursesTick ==
  /\ second < MaxCourseSecond /\ second' = second + 1
  /\ UNCHANGED <<courses, edit, sync, kept, started, truth, applied, latest, blurred>>

CoursesNext ==
  \/ \E e \in CourseEditor : LookUpIdx(e) \/ CreateCourse(e) \/ LockCourse(e) \/ SaveCourse(e)
                         \/ CommitCourse(e) \/ RollBackCourse(e)
  \/ BeginCourseSync \/ UpdateSeenCourse \/ InsertNewCourses
  \/ CommitCourseSync \/ AbortCourseSync
  \/ AskUpdatedAt \/ FetchCourses \/ CoursesTick

CoursesSpec == CoursesInit /\ [][CoursesNext]_coursesVars
-----------------------------------------------------------------------------
\* docs/API.md:3433: updated-at tells whether a kept list is still good.  It does, as far
\* as transactions neither overlap nor stamp in one second: deletions count too.
KeptListIsCurrent ==
  ~blurred /\ kept.at # NoCourse /\ kept.at = LatestUpdatedAt => kept.rows = ListedCourses

\* docs/API.md:3502: an edit of a name keeps what deletions and restorations have done,
\* and they keep the name, however they overlap with each other and with a batch.
FieldsKept ==
  ShownCourses(courses) = truth

\* A batch leaves the courses of its sheet as they are there, but for what was edited
\* since it began (SaveAll skips what it has seen unchanged).
SheetApplied ==
  \A i \in DOMAIN applied.sheet \ applied.touched :
    courses[i] # NoCourse /\ courses[i].name = applied.sheet[i] /\ ~courses[i].deleted

\* What is promised of courses.
CoursesSound == KeptListIsCurrent /\ FieldsKept /\ SheetApplied
=============================================================================
