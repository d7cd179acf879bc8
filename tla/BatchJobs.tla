----------------------------- MODULE BatchJobs -----------------------------
(***************************************************************************)
(* The song batch as a recorded job.  Every start path, the command line   *)
(* (cron) and the admin API, takes one MySQL advisory lock, turns the jobs *)
(* a dead process left RUNNING into INTERRUPTED, records its own job,      *)
(* executes the batch, records the outcome and releases the lock.          *)
(*                                                                         *)
(* An advisory lock belongs to a database session, so an attempt is named  *)
(* by the pooled connection it holds.  The chart statistics batch has the  *)
(* same job runner with one difference (no process cache to invalidate),   *)
(* which this module abstracts from.                                       *)
(***************************************************************************)
EXTENDS Naturals, FiniteSets

CONSTANTS
  Server,             \* API processes (StartFromAdmin, Wait)
  Cli,                \* command-line processes (RunFromCLI)
  Conn,               \* database connections, over all the processes
  OwnerOf,            \* OwnerOf[c] is the process whose pool holds c
  None,               \* no connection
  MaxJobs,            \* bound of the model: how many jobs are ever recorded
  HistoryLimit,       \* info.SongBatchJobHistoryLimit
  Fault               \* the faults a behaviour may be exposed to, of:
                      \*   "drop"    MySQL ends the session that holds the lock
                      \*   "expire"  recording the outcome uses up finalizeCtx
                      \*   "ack"     a commit is applied and reported as failed

Process == Server \cup Cli

ASSUME BatchAssumption ==
  /\ Server \cap Cli = {}
  /\ OwnerOf \in [Conn -> Process]
  /\ None \notin Conn
  /\ MaxJobs \in Nat
  /\ HistoryLimit \in Nat \ {0}
  /\ Fault \subseteq {"drop", "expire", "ack"}

Jobs == 1 .. MaxJobs   \* numbered by started_at

Terminal == {"SUCCEEDED", "SUCCEEDED_WITH_WARNINGS", "FAILED", "INTERRUPTED"}
Status == {"ABSENT", "RUNNING"} \cup Terminal

VARIABLES
  faults,     \* the faults this behaviour is exposed to
  up,         \* processes that run
  cancelled,  \* processes whose background context is cancelled
  closed,     \* servers whose Wait has stopped accepting jobs
  mu,         \* the attempt inside StartFromAdmin's critical section, per server
  lock,       \* the advisory lock: session that owns it and how many times
  pc,         \* what the attempt on a connection does
  job,        \* the job an attempt has recorded (0 before it has)
  orphans,    \* RUNNING jobs the attempt has read and not yet interrupted
  result,     \* what Execute returned
  rows,       \* the table song_batch_jobs
  synced,     \* jobs whose synchronisation transaction is committed
  next        \* started_at of the next job

vars == <<faults, up, cancelled, closed, mu, lock, pc, job, orphans, result,
          rows, synced, next>>
processVars == <<up, cancelled, closed>>
tableVars == <<rows, synced, next>>
localVars == <<job, orphans, result>>

Pooled == {"closed", "idle"}
Beginning == {"acquired", "cleaning", "aborting"}
Running == {"executing", "executed", "saved", "expired"}
Active == Beginning \cup Running

TypeOK ==
  /\ faults \subseteq Fault
  /\ up \subseteq Process
  /\ cancelled \subseteq Process
  /\ closed \subseteq Server
  /\ mu \in [Server -> Conn \cup {None}]
  /\ lock \in [owner : Conn \cup {None}, depth : Nat]
  /\ pc \in [Conn -> Pooled \cup Active]
  /\ job \in [Conn -> 0 .. MaxJobs]
  /\ orphans \in [Conn -> SUBSET Jobs]
  /\ result \in [Conn -> {"none", "ok", "warnings", "error"}]
  /\ rows \in [Jobs -> Status]
  /\ synced \subseteq Jobs
  /\ next \in 1 .. MaxJobs + 1

Init ==
  /\ faults \in SUBSET Fault
  /\ up = Process
  /\ cancelled = {}
  /\ closed = {}
  /\ mu = [p \in Server |-> None]
  /\ lock = [owner |-> None, depth |-> 0]
  /\ pc = [c \in Conn |-> "closed"]
  /\ job = [c \in Conn |-> 0]
  /\ orphans = [c \in Conn |-> {}]
  /\ result = [c \in Conn |-> "none"]
  /\ rows = [j \in Jobs |-> "ABSENT"]
  /\ synced = {}
  /\ next = 1

-----------------------------------------------------------------------------
(* The table song_batch_jobs *)

\* insertAndTrim keeps the HistoryLimit rows with the newest started_at.
Trim(r) ==
  [j \in Jobs |->
     IF Cardinality({k \in Jobs : k > j /\ r[k] # "ABSENT"}) >= HistoryLimit
       THEN "ABSENT" ELSE r[j]]

\* Mutant: the UPDATE does not ask for RUNNING.
SaveConflicts_Never(j) == FALSE

\* Save updates the row only while it is RUNNING; otherwise it inserts, which
\* fails on the primary key when the row exists in a terminal status.
SaveConflicts(j) == rows[j] \in Terminal
SaveRow(j, status) ==
  IF rows[j] = "RUNNING"
    THEN [rows EXCEPT ![j] = status]
    ELSE Trim([rows EXCEPT ![j] = status])

-----------------------------------------------------------------------------
(* The advisory lock *)

\* Mutant: the answer 0 of GET_LOCK is taken for success.
LockAvailable_Always(c) == TRUE

\* GET_LOCK(name, 0) succeeds when the lock is free or this session has it.
LockAvailable(c) == lock.owner \in {None, c}
Acquire(c) == lock' = [owner |-> c, depth |-> lock.depth + 1]
Unlock ==
  lock' = IF lock.depth = 1 THEN [owner |-> None, depth |-> 0]
                            ELSE [lock EXCEPT !.depth = @ - 1]

\* The session of a connection ends: MySQL frees the locks it owns.
FreeIfOwnedBy(C) ==
  lock' = IF lock.owner \in C THEN [owner |-> None, depth |-> 0] ELSE lock

-----------------------------------------------------------------------------
(* Starting a job *)

\* TryAcquire on a pooled connection; a refused attempt gives it back.
TryAcquire(c) ==
  /\ pc[c] \in Pooled
  /\ \/ /\ LockAvailable(c)
        /\ next <= MaxJobs
        /\ Acquire(c)
        /\ pc' = [pc EXCEPT ![c] = "acquired"]
     \/ /\ ~ LockAvailable(c)
        /\ pc' = [pc EXCEPT ![c] = "idle"]
        /\ UNCHANGED lock
  /\ UNCHANGED <<processVars, localVars, tableVars>>

\* The mutex covers the check of closed, begin and the WaitGroup registration.
StartFromAdmin(c) ==
  /\ OwnerOf[c] \in up \cap Server
  /\ mu[OwnerOf[c]] = None
  /\ OwnerOf[c] \notin closed \cup cancelled
  /\ TryAcquire(c)
  /\ mu' = IF LockAvailable(c) THEN [mu EXCEPT ![OwnerOf[c]] = c] ELSE mu

RunFromCLI(c) ==
  /\ OwnerOf[c] \in up \cap Cli
  /\ \A d \in Conn : OwnerOf[d] = OwnerOf[c] => pc[d] \notin Active
  /\ TryAcquire(c)
  /\ UNCHANGED mu

\* Mutant: begin does not look for orphans.
FindRunning_Skipped(c) ==
  /\ pc[c] = "acquired"
  /\ pc' = [pc EXCEPT ![c] = "cleaning"]
  /\ UNCHANGED <<processVars, mu, lock, localVars, tableVars>>

FindRunning(c) ==
  /\ pc[c] = "acquired"
  /\ pc' = [pc EXCEPT ![c] = "cleaning"]
  /\ orphans' = [orphans EXCEPT ![c] = {j \in Jobs : rows[j] = "RUNNING"}]
  /\ UNCHANGED <<processVars, mu, lock, job, result, tableVars>>

InterruptOrphan(c, j) ==
  /\ pc[c] = "cleaning"
  /\ j \in orphans[c]
  /\ orphans' = [orphans EXCEPT ![c] = @ \ {j}]
  /\ IF SaveConflicts(j)
       THEN pc' = [pc EXCEPT ![c] = "aborting"] /\ UNCHANGED rows
       ELSE rows' = SaveRow(j, "INTERRUPTED") /\ UNCHANGED pc
  /\ UNCHANGED <<processVars, mu, lock, job, result, synced, next>>

\* The goroutine is registered before the mutex is released.
LeaveCriticalSection(c) ==
  mu' = [p \in Server |-> IF mu[p] = c THEN None ELSE mu[p]]

RecordJob(c) ==
  /\ pc[c] = "cleaning"
  /\ orphans[c] = {}
  /\ next <= MaxJobs
  /\ rows' = Trim([rows EXCEPT ![next] = "RUNNING"])
  /\ job' = [job EXCEPT ![c] = next]
  /\ next' = next + 1
  /\ pc' = [pc EXCEPT ![c] = "executing"]
  /\ LeaveCriticalSection(c)
  /\ UNCHANGED <<processVars, lock, orphans, result, synced>>

\* A repository error while beginning.  The row of the new job may exist all
\* the same when the commit was applied and its answer lost.
BeginFails(c) ==
  /\ pc[c] \in {"acquired", "cleaning"}
  /\ pc' = [pc EXCEPT ![c] = "aborting"]
  /\ \/ UNCHANGED <<rows, next>>
     \/ /\ "ack" \in faults
        /\ pc[c] = "cleaning" /\ orphans[c] = {} /\ next <= MaxJobs
        /\ rows' = Trim([rows EXCEPT ![next] = "RUNNING"])
        /\ next' = next + 1
  /\ orphans' = [orphans EXCEPT ![c] = {}]
  /\ UNCHANGED <<processVars, mu, lock, job, result, synced>>

\* The attempt gives its connection back and forgets its job.
Forget(c) ==
  /\ job' = [job EXCEPT ![c] = 0]
  /\ orphans' = [orphans EXCEPT ![c] = {}]
  /\ result' = [result EXCEPT ![c] = "none"]

\* RELEASE_LOCK on the connection, which then returns to the pool; on a
\* session MySQL has ended it fails and the connection is discarded.
Release(c) ==
  /\ IF lock.owner = c
       THEN Unlock /\ pc' = [pc EXCEPT ![c] = "idle"]
       ELSE pc' = [pc EXCEPT ![c] = "closed"] /\ UNCHANGED lock
  /\ Forget(c)

\* Mutant: the failure path returns without unlocking mu.
ReleaseAfterFailure_KeepsMutex(c) ==
  /\ pc[c] = "aborting"
  /\ Release(c)
  /\ UNCHANGED <<processVars, mu, tableVars>>

ReleaseAfterFailure(c) ==
  /\ pc[c] = "aborting"
  /\ Release(c)
  /\ LeaveCriticalSection(c)
  /\ UNCHANGED <<processVars, tableVars>>

-----------------------------------------------------------------------------
(* Running a job *)

\* The synchronisation is one transaction and the last thing Execute does.
ExecuteCommits(c) ==
  /\ pc[c] = "executing"
  /\ pc' = [pc EXCEPT ![c] = "executed"]
  /\ synced' = synced \cup {job[c]}
  /\ \E r \in {"ok", "warnings"} \cup (IF "ack" \in faults THEN {"error"} ELSE {}) :
       result' = [result EXCEPT ![c] = r]
  /\ UNCHANGED <<processVars, mu, lock, job, orphans, rows, next>>

\* A required source, the consolidation or the cancelled context fails it.
ExecuteFails(c) ==
  /\ pc[c] = "executing"
  /\ pc' = [pc EXCEPT ![c] = "executed"]
  /\ result' = [result EXCEPT ![c] = "error"]
  /\ UNCHANGED <<processVars, mu, lock, job, orphans, tableVars>>

Outcome(c) ==
  CASE result[c] = "ok" -> "SUCCEEDED"
    [] result[c] = "warnings" -> "SUCCEEDED_WITH_WARNINGS"
    [] result[c] = "error" /\ OwnerOf[c] \in cancelled -> "INTERRUPTED"
    [] OTHER -> "FAILED"

\* A failed Save is only logged: the row stays RUNNING for the next attempt.
\* When it has used up finalizeCtx, the release that follows has no time left.
SaveOutcome(c) ==
  /\ pc[c] = "executed"
  /\ \/ /\ ~ SaveConflicts(job[c])
        /\ rows' = SaveRow(job[c], Outcome(c))
        /\ pc' = [pc EXCEPT ![c] = "saved"]
     \/ /\ rows' = rows
        /\ pc' = [pc EXCEPT ![c] = "saved"]
     \/ /\ "expire" \in faults
        /\ rows' = rows
        /\ pc' = [pc EXCEPT ![c] = "expired"]
  /\ UNCHANGED <<processVars, mu, lock, localVars, synced, next>>

ReleaseLock(c) ==
  /\ pc[c] = "saved"
  /\ Release(c)
  /\ UNCHANGED <<processVars, mu, tableVars>>

\* With finalizeCtx expired the driver refuses RELEASE_LOCK without sending it,
\* and Close returns the connection, its session intact, to the pool.
ReleaseExpired(c) ==
  /\ pc[c] = "expired"
  /\ pc' = [pc EXCEPT ![c] = IF lock.owner = c THEN "idle" ELSE "closed"]
  /\ Forget(c)
  /\ UNCHANGED <<processVars, mu, lock, tableVars>>

-----------------------------------------------------------------------------
(* Processes and sessions *)

ConnsOf(p) == {c \in Conn : OwnerOf[c] = p}

\* SIGTERM: the CLI context, or the server's cancelBatchJobs.
Signal(p) ==
  /\ p \in up \ cancelled
  /\ cancelled' = cancelled \cup {p}
  /\ UNCHANGED <<up, closed, mu, lock, pc, localVars, tableVars>>

\* Mutant: closed is set without taking the mutex.
Wait_NoMutex(p) ==
  /\ p \in (up \cap cancelled \cap Server) \ closed
  /\ closed' = closed \cup {p}
  /\ UNCHANGED <<up, cancelled, mu, lock, pc, localVars, tableVars>>

Wait(p) ==
  /\ p \in (up \cap cancelled \cap Server) \ closed
  /\ mu[p] = None
  /\ closed' = closed \cup {p}
  /\ UNCHANGED <<up, cancelled, mu, lock, pc, localVars, tableVars>>

Terminate(p) ==
  /\ up' = up \ {p}
  /\ FreeIfOwnedBy(ConnsOf(p))
  /\ pc' = [c \in Conn |-> IF c \in ConnsOf(p) THEN "closed" ELSE pc[c]]
  /\ job' = [c \in Conn |-> IF c \in ConnsOf(p) THEN 0 ELSE job[c]]
  /\ orphans' = [c \in Conn |-> IF c \in ConnsOf(p) THEN {} ELSE orphans[c]]
  /\ result' = [c \in Conn |-> IF c \in ConnsOf(p) THEN "none" ELSE result[c]]
  /\ mu' = [q \in Server |-> IF q = p THEN None ELSE mu[q]]
  /\ UNCHANGED <<cancelled, closed, tableVars>>

\* The orderly end: Wait has seen every registered goroutine return and the
\* database handle is closed, or the command has nothing left to run.
Exit(p) ==
  /\ p \in up
  /\ p \in Cli \/ p \in closed
  /\ \A c \in ConnsOf(p) :
        pc[c] \notin (IF p \in Server THEN Running ELSE Active)
  /\ Terminate(p)

\* The process dies, or its shutdown deadline passes before the job ends.
Crash(p) == p \in up /\ Terminate(p)

Restart(p) ==
  /\ p \in Process \ up
  /\ up' = up \cup {p}
  /\ cancelled' = cancelled \ {p}
  /\ closed' = closed \ {p}
  /\ UNCHANGED <<mu, lock, pc, localVars, tableVars>>

\* MySQL ends the session that holds the lock; its process does not notice.
SessionDrops(c) ==
  /\ "drop" \in faults
  /\ pc[c] \in Active
  /\ lock.owner = c
  /\ FreeIfOwnedBy({c})
  /\ UNCHANGED <<processVars, mu, pc, localVars, tableVars>>

\* An idle pooled connection is closed (pool size, wait_timeout).
IdleCloses(c) ==
  /\ pc[c] = "idle"
  /\ pc' = [pc EXCEPT ![c] = "closed"]
  /\ FreeIfOwnedBy({c})
  /\ UNCHANGED <<processVars, mu, localVars, tableVars>>

-----------------------------------------------------------------------------
Step(c) ==
  \/ StartFromAdmin(c) \/ RunFromCLI(c)
  \/ FindRunning(c) \/ \E j \in Jobs : InterruptOrphan(c, j)
  \/ RecordJob(c) \/ BeginFails(c) \/ ReleaseAfterFailure(c)
  \/ ExecuteCommits(c) \/ ExecuteFails(c)
  \/ SaveOutcome(c) \/ ReleaseLock(c) \/ ReleaseExpired(c)
  \/ SessionDrops(c) \/ IdleCloses(c)
ProcessStep(p) == Signal(p) \/ Wait(p) \/ Exit(p) \/ Crash(p) \/ Restart(p)

Next == /\ \/ \E c \in Conn : Step(c)
           \/ \E p \in Process : ProcessStep(p)
        /\ UNCHANGED faults

Spec == Init /\ [][Next]_vars

Begin(c) == /\ \/ FindRunning(c) \/ \E j \in Jobs : InterruptOrphan(c, j)
               \/ RecordJob(c) \/ BeginFails(c) \/ ReleaseAfterFailure(c)
            /\ UNCHANGED faults
Execute(c) == (ExecuteCommits(c) \/ ExecuteFails(c)) /\ UNCHANGED faults
Finalize(c) == /\ SaveOutcome(c) \/ ReleaseLock(c) \/ ReleaseExpired(c)
               /\ UNCHANGED faults
Stop(p) == (Wait(p) \/ Exit(p)) /\ UNCHANGED faults

\* Goroutines are scheduled, statements answer or fail, downloads time out.
Fairness ==
  /\ \A c \in Conn : WF_vars(Begin(c)) /\ WF_vars(Execute(c)) /\ WF_vars(Finalize(c))
  /\ \A p \in Process : WF_vars(Stop(p))
FairSpec == Spec /\ Fairness

-----------------------------------------------------------------------------
(* Properties *)

\* At most one batch executes, as the comment on SongBatchJobUsecase and the
\* README promise of all the start paths together.
AlwaysOneBatch ==
  \A c, d \in Conn : pc[c] = "executing" /\ pc[d] = "executing" => c = d

\* What the lock provides while the session of its holder lives: at most one
\* attempt, of any process, is between taking the lock and releasing it.
OneBatchAtATime ==
  "drop" \notin faults =>
    \A c, d \in Conn : pc[c] \in Active /\ pc[d] \in Active => c = d

\* begin clears every job a dead process left behind before a batch executes:
\* while one executes, its row is the only RUNNING row of the history.
OnlyRunningRowIsMine ==
  "drop" \notin faults =>
    \A c \in Conn : pc[c] \in {"executing", "executed"} =>
       \A j \in Jobs : rows[j] = "RUNNING" <=> j = job[c]

\* Save never rewrites a finished row, whatever a process that lost its lock
\* still tries to record: a row only goes RUNNING, then finished, then trimmed.
FinishedRowsAreFinal ==
  [][\A j \in Jobs : rows[j] \in Terminal => rows'[j] \in {rows[j], "ABSENT"}]_vars

\* The trim after an insert removes finished jobs only, never one that runs.
TrimSparesRunning ==
  [][\A j \in Jobs : rows[j] = "RUNNING" /\ "drop" \notin faults
                       => rows'[j] # "ABSENT"]_vars

\* A job that left the history does not come back when a process that lost its
\* lock saves the outcome late and finds no row to update.
TrimmedStaysTrimmed ==
  [][\A j \in Jobs : j < next /\ rows[j] = "ABSENT" => rows'[j] = "ABSENT"]_vars

\* The trim takes finished jobs, for good.
HistoryTrimmed == TrimSparesRunning /\ TrimmedStaysTrimmed

\* The history tells the truth about MySQL: success is recorded only after the
\* synchronisation committed, and FAILED says nothing was updated.
HistoryTruthful ==
  \A j \in Jobs :
    /\ rows[j] \in {"SUCCEEDED", "SUCCEEDED_WITH_WARNINGS"} => j \in synced
    /\ rows[j] = "FAILED" /\ "ack" \notin faults => j \notin synced

\* run records the result and releases the lock: no session keeps the lock once
\* its attempt is over.
LockAlwaysReturned == lock.owner # None => pc[lock.owner] \in Active

\* The same, when the outcome is recorded within the finalize timeout.
LockReturned == "expire" \notin faults => LockAlwaysReturned

\* Once Wait has stopped the acceptance, no admin job of that process is still
\* to be registered: what Wait waits for is complete.
NoJobAfterWait ==
  \A c \in Conn : OwnerOf[c] \in closed => pc[c] \notin Beginning

\* A job is accounted for: the history says what became of it, its lock is given back, and
\* a shutdown does not miss it.  (song_batch_job_usecase.go)
JobsAccountedFor == TypeOK /\ HistoryTruthful /\ LockReturned /\ NoJobAfterWait

\* After SIGTERM the server stops: Wait does not wait for ever on a job or on
\* the mutex of StartFromAdmin.
ShutdownCompletes ==
  \A p \in Server : p \in up /\ p \in cancelled ~> p \notin up

\* Every acquired lock is released, whichever way the attempt ends.
LockIsReleased ==
  \A c \in Conn : lock.owner = c /\ "expire" \notin faults ~> lock.owner # c

\* A shutdown ends, and so does the holding of the lock.
EverythingEnds == ShutdownCompletes /\ LockIsReleased
=============================================================================
