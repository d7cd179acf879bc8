-------------------------- MODULE BatchJobsProofs --------------------------
(***************************************************************************)
(* What the job runner guarantees for any number of processes, connections *)
(* and jobs: the lock serialises the attempts while its session lives, a   *)
(* batch executes with its own row as the only RUNNING one, and a finished *)
(* row is final even for a process that has lost the lock.                 *)
(***************************************************************************)
EXTENDS BatchJobs, FiniteSetTheorems, TLAPS

\* The lock is counted, and while its session cannot be lost every attempt in
\* progress owns it.
LockInv ==
  /\ lock.owner = None <=> lock.depth = 0
  /\ "drop" \notin faults => \A c \in Conn : pc[c] \in Active => lock.owner = c

\* Rows exist for recorded jobs only; an attempt that has read the orphans still
\* holds every RUNNING row among them until it interrupts it.
RowInv ==
  /\ \A j \in Jobs : j >= next => rows[j] = "ABSENT"
  /\ \A c \in Conn : job[c] < next /\ \A j \in orphans[c] : j < next
  /\ \A c \in Conn : pc[c] \in {"executing", "executed"} => job[c] # 0
  /\ "drop" \notin faults =>
       \A c \in Conn : pc[c] = "cleaning" =>
          \A j \in Jobs : rows[j] = "RUNNING" => j \in orphans[c]
  /\ OnlyRunningRowIsMine

IInv == TypeOK /\ LockInv /\ RowInv

-----------------------------------------------------------------------------
(* The table operators *)

\* Trimming removes rows and changes none.
LEMMA TrimResult ==
  ASSUME NEW r \in [Jobs -> Status]
  PROVE  /\ Trim(r) \in [Jobs -> Status]
         /\ \A j \in Jobs : Trim(r)[j] \in {r[j], "ABSENT"}
BY DEF Trim, Status

\* The newest row survives the trim.
LEMMA TrimKeepsNewest ==
  ASSUME NEW r \in [Jobs -> Status], NEW j \in Jobs,
         \A k \in Jobs : k > j => r[k] = "ABSENT"
  PROVE  Trim(r)[j] = r[j]
<1>1. {k \in Jobs : k > j /\ r[k] # "ABSENT"} = {}
  OBVIOUS
<1>2. Cardinality({k \in Jobs : k > j /\ r[k] # "ABSENT"}) = 0
  BY <1>1, FS_EmptySet
<1>3. ~ (Cardinality({k \in Jobs : k > j /\ r[k] # "ABSENT"}) >= HistoryLimit)
  BY <1>2, BatchAssumption
<1> QED
  BY <1>3, Zenon DEF Trim

\* Saving a finished status touches no other row except by trimming, and leaves
\* no RUNNING row that was not there.
LEMMA SaveRowResult ==
  ASSUME rows \in [Jobs -> Status], NEW j \in Jobs, NEW s \in Terminal
  PROVE  /\ SaveRow(j, s) \in [Jobs -> Status]
         /\ \A k \in Jobs : SaveRow(j, s)[k] \in {rows[k], s, "ABSENT"}
         /\ \A k \in Jobs \ {j} : SaveRow(j, s)[k] \in {rows[k], "ABSENT"}
         /\ SaveRow(j, s)[j] \in {s, "ABSENT"}
<1> DEFINE r == [rows EXCEPT ![j] = s]
<1>1. r \in [Jobs -> Status]
  BY DEF Status
<1>2. /\ Trim(r) \in [Jobs -> Status]
      /\ \A k \in Jobs : Trim(r)[k] \in {r[k], "ABSENT"}
  BY <1>1, TrimResult
<1>3. SaveRow(j, s) = r \/ SaveRow(j, s) = Trim(r)
  BY DEF SaveRow
<1> QED
  BY <1>1, <1>2, <1>3

LEMMA OutcomeTerminal ==
  ASSUME NEW c \in Conn
  PROVE  Outcome(c) \in Terminal
BY DEF Outcome, Terminal

-----------------------------------------------------------------------------
(* The inductive invariant, one lemma per group of actions *)

LEMMA InitIInv == Init => IInv
BY BatchAssumption
   DEF Init, IInv, TypeOK, LockInv, RowInv, OnlyRunningRowIsMine, Jobs, Status,
       Active, Beginning, Running, Pooled

\* Taking the lock: nobody else is in progress when it is free or already ours.
LEMMA TryAcquireIInv ==
  ASSUME IInv, NEW c \in Conn, StartFromAdmin(c) \/ RunFromCLI(c), faults' = faults
  PROVE  IInv'
<1> USE BatchAssumption DEF Active, Beginning, Running, Pooled
<1>1. TryAcquire(c) /\ mu' \in [Server -> Conn \cup {None}]
  BY DEF StartFromAdmin, RunFromCLI, IInv, TypeOK
<1>2. TypeOK'
  BY <1>1 DEF IInv, TypeOK, TryAcquire, Acquire, processVars, localVars, tableVars
<1>3. LockInv'
  BY <1>1 DEF IInv, TypeOK, LockInv, TryAcquire, Acquire, LockAvailable
<1>4. RowInv'
  BY <1>1 DEF IInv, TypeOK, RowInv, OnlyRunningRowIsMine, TryAcquire,
              processVars, localVars, tableVars
<1> QED
  BY <1>2, <1>3, <1>4 DEF IInv

LEMMA FindRunningIInv ==
  ASSUME IInv, NEW c \in Conn, FindRunning(c), faults' = faults
  PROVE  IInv'
<1> USE BatchAssumption DEF Active, Beginning, Running, Pooled, FindRunning
<1>1. TypeOK'
  BY DEF IInv, TypeOK, processVars, tableVars
<1>2. LockInv'
  BY DEF IInv, TypeOK, LockInv
<1>3. RowInv'
  BY DEF IInv, TypeOK, RowInv, OnlyRunningRowIsMine, tableVars, Jobs
<1> QED
  BY <1>1, <1>2, <1>3 DEF IInv

LEMMA InterruptOrphanIInv ==
  ASSUME IInv, NEW c \in Conn, NEW j \in Jobs, InterruptOrphan(c, j), faults' = faults
  PROVE  IInv'
<1> USE BatchAssumption DEF Active, Beginning, Running, Pooled, InterruptOrphan
<1>1. "INTERRUPTED" \in Terminal /\ rows \in [Jobs -> Status]
  BY DEF Terminal, IInv, TypeOK
<1>2. /\ rows' \in [Jobs -> Status]
      /\ \A k \in Jobs \ {j} : rows'[k] \in {rows[k], "ABSENT"}
      /\ SaveConflicts(j) \/ rows'[j] \in {"INTERRUPTED", "ABSENT"}
  BY <1>1, SaveRowResult
<1>3. TypeOK'
  BY <1>2 DEF IInv, TypeOK, processVars
<1>4. LockInv'
  BY DEF IInv, TypeOK, LockInv
<1>5. RowInv'
  <2>1. (\A k \in Jobs : k >= next => rows[k] = "ABSENT")'
    BY <1>2 DEF IInv, TypeOK, RowInv, Jobs
  <2>2. (\A d \in Conn : job[d] < next /\ \A k \in orphans[d] : k < next)'
    BY DEF IInv, TypeOK, RowInv
  <2>3. (\A d \in Conn : pc[d] \in {"executing", "executed"} => job[d] # 0)'
    BY DEF IInv, TypeOK, RowInv
  <2>4. ASSUME "drop" \notin faults, NEW d \in Conn, d # c
        PROVE  pc[d] \notin Active /\ pc'[d] = pc[d]
    BY <2>4 DEF IInv, TypeOK, LockInv
  <2>5. ASSUME "drop" \notin faults', NEW d \in Conn, pc'[d] = "cleaning",
               NEW k \in Jobs, rows'[k] = "RUNNING"
        PROVE  k \in orphans'[d]
    <3>1. d = c
      BY <2>4, <2>5
    <3>2. ~ SaveConflicts(j)
      BY <2>5, <3>1 DEF IInv, TypeOK
    <3>3. rows[k] = "RUNNING" /\ k # j
      BY <1>2, <2>5, <3>2
    <3> QED
      BY <2>5, <3>1, <3>2, <3>3 DEF IInv, TypeOK, RowInv
  <2>6. OnlyRunningRowIsMine'
    BY <2>4 DEF IInv, TypeOK, OnlyRunningRowIsMine
  <2> QED
    BY <2>1, <2>2, <2>3, <2>5, <2>6 DEF RowInv
<1> QED
  BY <1>3, <1>4, <1>5 DEF IInv

\* A new row is the newest and survives its own trim; the others do not run,
\* since the attempt has interrupted every RUNNING row it read.
LEMMA NewRow ==
  ASSUME IInv, next \in Jobs
  PROVE  LET r == Trim([rows EXCEPT ![next] = "RUNNING"])
         IN  /\ r \in [Jobs -> Status]
             /\ r[next] = "RUNNING"
             /\ \A k \in Jobs \ {next} : r[k] \in {rows[k], "ABSENT"}
<1> DEFINE q == [rows EXCEPT ![next] = "RUNNING"]
<1>1. q \in [Jobs -> Status] /\ q[next] = "RUNNING"
  BY DEF IInv, TypeOK, Status
<1>2. \A k \in Jobs : k > next => q[k] = "ABSENT"
  BY DEF IInv, TypeOK, RowInv, Jobs
<1>3. Trim(q)[next] = "RUNNING"
  BY <1>1, <1>2, TrimKeepsNewest
<1>4. Trim(q) \in [Jobs -> Status] /\ \A k \in Jobs : Trim(q)[k] \in {q[k], "ABSENT"}
  BY <1>1, TrimResult
<1> QED
  BY <1>3, <1>4 DEF IInv, TypeOK

LEMMA RecordJobIInv ==
  ASSUME IInv, NEW c \in Conn, RecordJob(c), faults' = faults
  PROVE  IInv'
<1> USE BatchAssumption DEF Active, Beginning, Running, Pooled
<1>1. next \in Jobs /\ next' = next + 1 /\ next' \in 1 .. MaxJobs + 1
  BY DEF IInv, TypeOK, Jobs, RecordJob
<1>2. /\ rows' \in [Jobs -> Status]
      /\ rows'[next] = "RUNNING"
      /\ \A k \in Jobs \ {next} : rows'[k] \in {rows[k], "ABSENT"}
  BY <1>1, NewRow DEF RecordJob
<1>3. /\ pc[c] = "cleaning" /\ orphans[c] = {}
      /\ pc' = [pc EXCEPT ![c] = "executing"] /\ job' = [job EXCEPT ![c] = next]
      /\ mu' \in [Server -> Conn \cup {None}]
      /\ UNCHANGED <<up, cancelled, closed, lock, orphans, result, synced>>
  BY DEF RecordJob, LeaveCriticalSection, processVars, IInv, TypeOK
<1>4. next \in 0 .. MaxJobs
  BY <1>1 DEF Jobs
<1>5. TypeOK'
  BY <1>1, <1>2, <1>3, <1>4 DEF IInv, TypeOK
<1>6. LockInv'
  BY <1>3 DEF IInv, TypeOK, LockInv
<1>7. RowInv'
  <2>1. ASSUME NEW k \in Jobs, k >= next'
        PROVE  rows'[k] = "ABSENT"
    <3>1. k >= next /\ k # next
      BY <1>1, <2>1 DEF Jobs
    <3> QED
      BY <1>2, <3>1 DEF IInv, RowInv
  <2>2. (\A d \in Conn : job[d] < next /\ \A k \in orphans[d] : k < next)'
    BY <1>1, <1>3 DEF IInv, TypeOK, RowInv, Jobs
  <2>3. (\A d \in Conn : pc[d] \in {"executing", "executed"} => job[d] # 0)'
    BY <1>1, <1>3 DEF IInv, TypeOK, RowInv, Jobs
  <2>4. ASSUME "drop" \notin faults, NEW d \in Conn, d # c
        PROVE  pc[d] \notin Active /\ pc'[d] = pc[d]
    BY <1>3, <2>4 DEF IInv, TypeOK, LockInv
  <2>5. ASSUME "drop" \notin faults, NEW k \in Jobs
        PROVE  rows'[k] = "RUNNING" <=> k = next
    BY <1>2, <1>3, <2>5 DEF IInv, TypeOK, RowInv
  <2>6. pc'[c] = "executing" /\ job'[c] = next
    BY <1>3 DEF IInv, TypeOK
  <2>7. OnlyRunningRowIsMine'
    BY <2>4, <2>5, <2>6 DEF OnlyRunningRowIsMine
  <2>8. ("drop" \notin faults =>
          \A d \in Conn : pc[d] = "cleaning" =>
             \A j \in Jobs : rows[j] = "RUNNING" => j \in orphans[d])'
    BY <2>4, <2>6
  <2> QED
    BY <2>1, <2>2, <2>3, <2>7, <2>8 DEF RowInv
<1> QED
  BY <1>5, <1>6, <1>7 DEF IInv

LEMMA BeginFailsIInv ==
  ASSUME IInv, NEW c \in Conn, BeginFails(c), faults' = faults
  PROVE  IInv'
<1> USE BatchAssumption DEF Active, Beginning, Running, Pooled
<1>1. CASE UNCHANGED <<rows, next>>
  BY <1>1 DEF BeginFails, IInv, TypeOK, LockInv, RowInv, OnlyRunningRowIsMine, processVars
<1>2. CASE /\ next <= MaxJobs /\ next' = next + 1
           /\ rows' = Trim([rows EXCEPT ![next] = "RUNNING"])
  <2>1. next \in Jobs /\ next' \in 1 .. MaxJobs + 1
    BY <1>2 DEF IInv, TypeOK, Jobs
  <2>2. /\ rows' \in [Jobs -> Status]
        /\ \A k \in Jobs \ {next} : rows'[k] \in {rows[k], "ABSENT"}
    BY <1>2, <2>1, NewRow
  <2>3. /\ pc[c] \in {"acquired", "cleaning"} /\ pc' = [pc EXCEPT ![c] = "aborting"]
        /\ orphans' = [orphans EXCEPT ![c] = {}]
        /\ UNCHANGED <<up, cancelled, closed, mu, lock, job, result, synced>>
    BY DEF BeginFails, processVars
  <2>4. TypeOK'
    BY <2>1, <2>2, <2>3 DEF IInv, TypeOK
  <2>5. LockInv'
    BY <2>3 DEF IInv, TypeOK, LockInv
  <2>6. ASSUME NEW k \in Jobs, k >= next'
        PROVE  rows'[k] = "ABSENT"
    <3>1. k >= next /\ k # next
      BY <1>2, <2>1, <2>6 DEF Jobs
    <3> QED
      BY <2>2, <3>1 DEF IInv, RowInv
  <2>7. (\A d \in Conn : job[d] < next /\ \A k \in orphans[d] : k < next)'
    BY <1>2, <2>1, <2>3 DEF IInv, TypeOK, RowInv, Jobs
  <2>8. (\A d \in Conn : pc[d] \in {"executing", "executed"} => job[d] # 0)'
    BY <2>3 DEF IInv, TypeOK, RowInv
  <2>9. ASSUME "drop" \notin faults, NEW d \in Conn
        PROVE  pc'[d] \notin {"cleaning", "executing", "executed"}
    BY <2>3, <2>9 DEF IInv, TypeOK, LockInv
  <2>10. RowInv'
    BY <2>6, <2>7, <2>8, <2>9 DEF RowInv, OnlyRunningRowIsMine
  <2> QED
    BY <2>4, <2>5, <2>10 DEF IInv
<1> QED
  BY <1>1, <1>2 DEF BeginFails

\* Giving the lock back, after a failure or at the end of a run.
LEMMA ReleaseIInv ==
  ASSUME IInv, NEW c \in Conn, faults' = faults,
         ReleaseAfterFailure(c) \/ ReleaseLock(c) \/ ReleaseExpired(c)
  PROVE  IInv'
<1> USE BatchAssumption DEF Active, Beginning, Running, Pooled,
      ReleaseAfterFailure, ReleaseLock, ReleaseExpired
<1>1. /\ job' = [job EXCEPT ![c] = 0]
      /\ orphans' = [orphans EXCEPT ![c] = {}]
      /\ result' = [result EXCEPT ![c] = "none"]
      /\ UNCHANGED <<up, cancelled, closed, rows, synced, next>>
      /\ \E s \in {"idle", "closed"} : pc' = [pc EXCEPT ![c] = s]
  BY DEF Release, Forget, processVars, tableVars
<1>2. mu' \in [Server -> Conn \cup {None}]
  BY DEF IInv, TypeOK, LeaveCriticalSection
<1>3. /\ lock' \in [owner : Conn \cup {None}, depth : Nat]
      /\ lock'.owner = None <=> lock'.depth = 0
      /\ lock' = lock \/ lock.owner = c
  BY DEF IInv, TypeOK, LockInv, Release, Unlock
<1>4. TypeOK'
  BY <1>1, <1>2, <1>3 DEF IInv, TypeOK
<1>5. LockInv'
  BY <1>1, <1>3 DEF IInv, TypeOK, LockInv
<1>6. RowInv'
  BY <1>1 DEF IInv, TypeOK, RowInv, OnlyRunningRowIsMine, Jobs
<1> QED
  BY <1>4, <1>5, <1>6 DEF IInv

LEMMA ExecuteIInv ==
  ASSUME IInv, NEW c \in Conn, ExecuteCommits(c) \/ ExecuteFails(c), faults' = faults
  PROVE  IInv'
<1> USE BatchAssumption DEF Active, Beginning, Running, Pooled
<1>1. /\ pc[c] = "executing" /\ pc' = [pc EXCEPT ![c] = "executed"]
      /\ UNCHANGED <<up, cancelled, closed, mu, lock, job, orphans, rows, next>>
      /\ synced' = synced \/ synced' = synced \cup {job[c]}
      /\ \E r \in {"ok", "warnings", "error"} : result' = [result EXCEPT ![c] = r]
  BY DEF ExecuteCommits, ExecuteFails, processVars, tableVars
<1>2. job[c] \in Jobs
  BY <1>1 DEF IInv, TypeOK, RowInv, Jobs
<1>3. TypeOK'
  BY <1>1, <1>2 DEF IInv, TypeOK
<1>4. LockInv'
  BY <1>1 DEF IInv, TypeOK, LockInv
<1>5. RowInv'
  BY <1>1 DEF IInv, TypeOK, RowInv, OnlyRunningRowIsMine
<1> QED
  BY <1>3, <1>4, <1>5 DEF IInv

LEMMA SaveOutcomeIInv ==
  ASSUME IInv, NEW c \in Conn, SaveOutcome(c), faults' = faults
  PROVE  IInv'
<1> USE BatchAssumption DEF Active, Beginning, Running, Pooled
<1>1. /\ pc[c] = "executed"
      /\ \E s \in {"saved", "expired"} : pc' = [pc EXCEPT ![c] = s]
      /\ UNCHANGED <<up, cancelled, closed, mu, lock, job, orphans, result, synced, next>>
  BY DEF SaveOutcome, processVars, localVars
<1>2. job[c] \in Jobs /\ job[c] < next
  BY <1>1 DEF IInv, TypeOK, RowInv, Jobs
<1>3. /\ rows' \in [Jobs -> Status]
      /\ \A k \in Jobs \ {job[c]} : rows'[k] \in {rows[k], "ABSENT"}
  BY <1>2, OutcomeTerminal, SaveRowResult DEF IInv, TypeOK, SaveOutcome
<1>4. TypeOK'
  BY <1>1, <1>3 DEF IInv, TypeOK
<1>5. LockInv'
  BY <1>1 DEF IInv, TypeOK, LockInv
<1>6. RowInv'
  <2>1. (\A k \in Jobs : k >= next => rows[k] = "ABSENT")'
    BY <1>1, <1>2, <1>3 DEF IInv, TypeOK, RowInv, Jobs
  <2>2. ASSUME "drop" \notin faults, NEW d \in Conn
        PROVE  pc'[d] \notin {"cleaning", "executing", "executed"}
    BY <1>1, <2>2 DEF IInv, TypeOK, LockInv
  <2> QED
    BY <1>1, <2>1, <2>2 DEF IInv, TypeOK, RowInv, OnlyRunningRowIsMine
<1> QED
  BY <1>4, <1>5, <1>6 DEF IInv

\* A session ends: MySQL frees its lock, no attempt that survives owned it.
LEMMA SessionIInv ==
  ASSUME IInv, NEW c \in Conn, SessionDrops(c) \/ IdleCloses(c), faults' = faults
  PROVE  IInv'
<1> USE BatchAssumption DEF Active, Beginning, Running, Pooled
<1>1. /\ lock' = IF lock.owner = c THEN [owner |-> None, depth |-> 0] ELSE lock
      /\ \/ pc' = pc /\ "drop" \in faults
         \/ pc[c] = "idle" /\ pc' = [pc EXCEPT ![c] = "closed"]
      /\ UNCHANGED <<up, cancelled, closed, mu, job, orphans, result, rows, synced, next>>
  BY DEF SessionDrops, IdleCloses, FreeIfOwnedBy, processVars, localVars, tableVars
<1>2. TypeOK'
  BY <1>1 DEF IInv, TypeOK
<1>3. LockInv'
  BY <1>1 DEF IInv, TypeOK, LockInv
<1>4. RowInv'
  BY <1>1 DEF IInv, TypeOK, RowInv, OnlyRunningRowIsMine
<1> QED
  BY <1>2, <1>3, <1>4 DEF IInv

\* A process ends: all its connections close, and with them its sessions.
LEMMA TerminateIInv ==
  ASSUME IInv, NEW p \in Process, Exit(p) \/ Crash(p), faults' = faults
  PROVE  IInv'
<1> USE BatchAssumption DEF Active, Beginning, Running, Pooled
<1>1. Terminate(p)
  BY DEF Exit, Crash
<1>2. TypeOK'
  BY <1>1 DEF IInv, TypeOK, Terminate, FreeIfOwnedBy, tableVars
<1>3. LockInv'
  BY <1>1 DEF IInv, TypeOK, LockInv, Terminate, FreeIfOwnedBy
<1>4. RowInv'
  <2>1. \A c \in Conn : \/ pc'[c] = pc[c] /\ job'[c] = job[c] /\ orphans'[c] = orphans[c]
                        \/ pc'[c] = "closed" /\ job'[c] = 0 /\ orphans'[c] = {}
    BY <1>1 DEF Terminate
  <2>2. UNCHANGED <<rows, next>> /\ next > 0
    BY <1>1 DEF Terminate, tableVars, IInv, TypeOK
  <2> QED
    BY <2>1, <2>2 DEF IInv, RowInv, OnlyRunningRowIsMine
<1> QED
  BY <1>2, <1>3, <1>4 DEF IInv

LEMMA ControlIInv ==
  ASSUME IInv, NEW p \in Process, Signal(p) \/ Wait(p) \/ Restart(p), faults' = faults
  PROVE  IInv'
BY DEF IInv, TypeOK, LockInv, RowInv, OnlyRunningRowIsMine, Signal, Wait, Restart,
       localVars, tableVars

LEMMA StepIInv == IInv /\ [Next]_vars => IInv'
<1> SUFFICES ASSUME IInv, [Next]_vars PROVE IInv'
  OBVIOUS
<1>1. CASE UNCHANGED vars
  BY <1>1 DEF vars, IInv, TypeOK, LockInv, RowInv, OnlyRunningRowIsMine
<1>2. ASSUME NEW c \in Conn, Step(c), faults' = faults
      PROVE  IInv'
  BY <1>2, TryAcquireIInv, FindRunningIInv, InterruptOrphanIInv, RecordJobIInv,
     BeginFailsIInv, ReleaseIInv, ExecuteIInv, SaveOutcomeIInv, SessionIInv DEF Step
<1>3. ASSUME NEW p \in Process, ProcessStep(p), faults' = faults
      PROVE  IInv'
  BY <1>3, TerminateIInv, ControlIInv DEF ProcessStep
<1> QED
  BY <1>1, <1>2, <1>3 DEF Next

THEOREM SpecIInv == Spec => []IInv
BY InitIInv, StepIInv, PTL DEF Spec

-----------------------------------------------------------------------------
(* The results *)

\* Every variable of the job runner keeps its type.
THEOREM SpecTypeOK == Spec => []TypeOK
<1>1. IInv => TypeOK
  BY DEF IInv
<1> QED
  BY <1>1, SpecIInv, PTL

\* TryAcquire ... releaseLock is a critical section over all processes, as long
\* as MySQL does not end the session that holds the lock.
THEOREM SpecOneBatchAtATime == Spec => []OneBatchAtATime
<1>1. IInv => OneBatchAtATime
  BY DEF IInv, LockInv, OneBatchAtATime
<1> QED
  BY <1>1, SpecIInv, PTL

\* interruptOrphanedJobs leaves no RUNNING row but the one begin records, and
\* none appears while the batch executes.
THEOREM SpecOnlyRunningRowIsMine == Spec => []OnlyRunningRowIsMine
<1>1. IInv => OnlyRunningRowIsMine
  BY DEF IInv, RowInv
<1> QED
  BY <1>1, SpecIInv, PTL

\* Save's WHERE status = 'RUNNING' and the primary key make a finished row final,
\* even for a process that lost its lock.
THEOREM SpecFinishedRowsAreFinal == Spec => FinishedRowsAreFinal
<1> DEFINE Final == \A j \in Jobs : rows[j] \in Terminal => rows'[j] \in {rows[j], "ABSENT"}
<1>1. ASSUME IInv, [Next]_vars PROVE Final
  <2>1. CASE rows' = rows
    BY <2>1
  <2>2. ASSUME NEW c \in Conn, NEW j \in Jobs, InterruptOrphan(c, j) PROVE Final
    <3>1. "INTERRUPTED" \in Terminal /\ rows \in [Jobs -> Status]
      BY <1>1 DEF Terminal, IInv, TypeOK
    <3>2. CASE SaveConflicts(j)
      BY <2>2, <3>2 DEF InterruptOrphan
    <3>3. CASE ~ SaveConflicts(j)
      BY <2>2, <3>1, <3>3, SaveRowResult DEF InterruptOrphan, SaveConflicts
    <3> QED
      BY <3>2, <3>3
  <2>3. ASSUME NEW c \in Conn, RecordJob(c) \/ BeginFails(c) PROVE Final
    <3>1. CASE rows' = rows
      BY <3>1
    <3>2. CASE next <= MaxJobs /\ rows' = Trim([rows EXCEPT ![next] = "RUNNING"])
      <4>1. next \in Jobs /\ rows[next] = "ABSENT"
        BY <1>1, <3>2, BatchAssumption DEF IInv, TypeOK, RowInv, Jobs
      <4>2. \A k \in Jobs \ {next} : rows'[k] \in {rows[k], "ABSENT"}
        BY <1>1, <3>2, <4>1, NewRow
      <4> QED
        BY <4>1, <4>2 DEF Terminal
    <3> QED
      BY <2>3, <3>1, <3>2 DEF RecordJob, BeginFails
  <2>4. ASSUME NEW c \in Conn, SaveOutcome(c) PROVE Final
    <3>1. job[c] \in Jobs /\ rows \in [Jobs -> Status]
      BY <1>1, <2>4, BatchAssumption DEF IInv, TypeOK, RowInv, Jobs, SaveOutcome
    <3>2. CASE rows' = rows
      BY <3>2
    <3>3. CASE ~ SaveConflicts(job[c]) /\ rows' = SaveRow(job[c], Outcome(c))
      BY <3>1, <3>3, OutcomeTerminal, SaveRowResult DEF SaveConflicts
    <3> QED
      BY <2>4, <3>2, <3>3 DEF SaveOutcome
  <2> QED
    BY <1>1, <2>1, <2>2, <2>3, <2>4
    DEF Next, Step, ProcessStep, vars, tableVars, StartFromAdmin, RunFromCLI, TryAcquire,
        FindRunning, ReleaseAfterFailure, ExecuteCommits, ExecuteFails, ReleaseLock,
        ReleaseExpired, SessionDrops, IdleCloses, Signal, Wait, Exit, Crash, Terminate,
        Restart
<1>2. IInv /\ [Next]_vars => [Final]_vars
  BY <1>1
<1> QED
  BY <1>2, SpecIInv, PTL DEF Spec, FinishedRowsAreFinal

-----------------------------------------------------------------------------
(* What becomes of a job: its row, the lock it ran under, the shutdown *)

\* The history holds the newest HistoryLimit jobs, and no others.
LatestRows ==
  \A j \in Jobs : rows[j] # "ABSENT" <=> (next - HistoryLimit <= j /\ j < next)

\* A job belongs to one attempt; what Execute returned agrees with what it committed,
\* and until its outcome is saved the row says nothing of an outcome.
ResultInv ==
  /\ \A c, d \in Conn : job[c] = job[d] /\ job[c] # 0 => c = d
  /\ \A j \in synced : j < next
  /\ \A c \in Conn : pc[c] = "executing" => job[c] \notin synced
  /\ \A c \in Conn : pc[c] = "executed" =>
       /\ result[c] # "none"
       /\ result[c] \in {"ok", "warnings"} => job[c] \in synced
       /\ result[c] = "error" /\ "ack" \notin faults => job[c] \notin synced
  /\ \A c \in Conn : pc[c] \in {"executing", "executed"} =>
       rows[job[c]] \in {"RUNNING", "INTERRUPTED", "ABSENT"}
  /\ HistoryTruthful

\* Only an attempt in progress has the lock, and it has it once.
ReturnInv ==
  /\ \A c \in Conn : pc[c] = "expired" => "expire" \in faults
  /\ "expire" \notin faults /\ lock.owner # None => pc[lock.owner] \in Active /\ lock.depth = 1

\* The mutex of a server is held by its attempt that is not yet registered.
MutexInv ==
  /\ \A c \in Conn : pc[c] \in Beginning /\ OwnerOf[c] \in Server => mu[OwnerOf[c]] = c
  /\ NoJobAfterWait

\* The rows that count against j when all of lo .. hi are present.
LEMMA IntervalCount ==
  ASSUME NEW lo \in Int, NEW hi \in Int, lo <= hi
  PROVE  IsFiniteSet(lo .. hi) /\ Cardinality(lo .. hi) = hi - lo + 1
BY FS_Interval

\* Trimming a history of the newest rows and perhaps one more, older row.
LEMMA TrimLatest ==
  ASSUME NEW r \in [Jobs -> Status], NEW n \in 1 .. MaxJobs + 1, NEW m \in Jobs,
         m < n, NEW low \in Int, low = n - HistoryLimit \/ low = n - HistoryLimit - 1,
         \A j \in Jobs : r[j] # "ABSENT" <=> ((low <= j /\ j < n) \/ j = m)
  PROVE  \A j \in Jobs : Trim(r)[j] # "ABSENT" <=> (n - HistoryLimit <= j /\ j < n)
<1> USE BatchAssumption DEF Jobs
<1> SUFFICES ASSUME NEW j \in Jobs
             PROVE  Trim(r)[j] # "ABSENT" <=> (n - HistoryLimit <= j /\ j < n)
  OBVIOUS
<1> DEFINE above == {k \in Jobs : k > j /\ r[k] # "ABSENT"}
<1>1. Trim(r)[j] = IF Cardinality(above) >= HistoryLimit THEN "ABSENT" ELSE r[j]
  BY DEF Trim
<1>2. IsFiniteSet(Jobs)
  BY FS_Interval
<1>3. IsFiniteSet(above) /\ above \subseteq Jobs
  BY <1>2, FS_Subset
<1>4. CASE n - HistoryLimit <= j /\ j < n
  <2>1. above \subseteq (j + 1) .. (n - 1)
    BY <1>4
  <2>2. CASE j = n - 1
    <3>1. above = {}
      BY <2>1, <2>2
    <3>2. Cardinality(above) = 0
      BY <3>1, FS_EmptySet
    <3>3. r[j] # "ABSENT"
      BY <1>4
    <3> QED
      BY <1>1, <1>4, <3>2, <3>3
  <2>3. CASE j < n - 1
    <3>1. /\ IsFiniteSet((j + 1) .. (n - 1))
          /\ Cardinality((j + 1) .. (n - 1)) = n - 1 - j
      BY <2>3, IntervalCount
    <3>2. Cardinality(above) <= n - 1 - j /\ Cardinality(above) \in Nat
      BY <1>3, <2>1, <3>1, FS_Subset, FS_CardinalityType
    <3>3. n - 1 - j < HistoryLimit
      BY <1>4
    <3> QED
      BY <1>1, <1>4, <3>2, <3>3
  <2> QED
    BY <1>4, <2>2, <2>3
<1>5. CASE j >= n
  BY <1>1, <1>5
<1>6. CASE j < n - HistoryLimit
  <2>1. ((n - HistoryLimit) .. (n - 1)) \subseteq above
    BY <1>6
  <2>2. /\ IsFiniteSet((n - HistoryLimit) .. (n - 1))
        /\ Cardinality((n - HistoryLimit) .. (n - 1)) = HistoryLimit
    BY IntervalCount
  <2>3. Cardinality(above) >= HistoryLimit
    BY <1>3, <2>1, <2>2, FS_Subset, FS_CardinalityType
  <2> QED
    BY <1>1, <1>6, <2>3
<1> QED
  BY <1>4, <1>5, <1>6

\* A new row leaves the newest rows.
LEMMA NewRowLatest ==
  ASSUME IInv, LatestRows, next \in Jobs, next' = next + 1,
         rows' = Trim([rows EXCEPT ![next] = "RUNNING"])
  PROVE  LatestRows'
<1> DEFINE r == [rows EXCEPT ![next] = "RUNNING"]
<1>1. r \in [Jobs -> Status] /\ next + 1 \in 1 .. MaxJobs + 1
  BY BatchAssumption DEF IInv, TypeOK, Status, Jobs
<1>2. \A j \in Jobs : rows[j] # "ABSENT" <=> (next - HistoryLimit <= j /\ j < next)
  BY DEF LatestRows
<1>3. next \in Int /\ next < next + 1 /\ HistoryLimit \in Int
  BY BatchAssumption DEF Jobs
<1> DEFINE n == next + 1
           low == n - HistoryLimit - 1
<1>4. n \in 1 .. MaxJobs + 1 /\ next < n /\ low \in Int
  BY <1>1, <1>3
<1>5. ASSUME NEW j \in Jobs
      PROVE  r[j] # "ABSENT" <=> ((low <= j /\ j < n) \/ j = next)
  <2>1. CASE j = next
    BY <2>1 DEF IInv, TypeOK
  <2>2. CASE j # next
    <3>1. r[j] = rows[j]
      BY <2>2 DEF IInv, TypeOK
    <3>2. j \in Int /\ (j < n <=> j < next) /\ (low <= j <=> next - HistoryLimit <= j)
      BY <1>3, <2>2 DEF Jobs
    <3> QED
      BY <1>2, <2>2, <3>1, <3>2
  <2> QED
    BY <2>1, <2>2
<1> HIDE DEF n, low, r
<1>6. low = n - HistoryLimit - 1
  BY DEF low
<1>7. \A j \in Jobs : Trim(r)[j] # "ABSENT" <=> (n - HistoryLimit <= j /\ j < n)
  BY <1>1, <1>4, <1>5, <1>6, TrimLatest
<1>8. rows' = Trim(r) /\ next' = n
  BY DEF r, n
<1> QED
  BY <1>7, <1>8 DEF LatestRows, Jobs

\* An outcome that comes after its row was trimmed is trimmed at once.
LEMMA SaveRowLatest ==
  ASSUME IInv, LatestRows, NEW j \in Jobs, j < next, NEW s \in Terminal
  PROVE  \A k \in Jobs : SaveRow(j, s)[k] # "ABSENT" <=> rows[k] # "ABSENT"
<1> DEFINE r == [rows EXCEPT ![j] = s]
<1>1. r \in [Jobs -> Status] /\ s # "ABSENT"
  BY DEF IInv, TypeOK, Status, Terminal
<1>2. CASE rows[j] = "RUNNING"
  BY <1>1, <1>2 DEF SaveRow, IInv, TypeOK
<1>3. CASE rows[j] # "RUNNING"
  <2>1. \A k \in Jobs : r[k] # "ABSENT" <=>
           ((next - HistoryLimit <= k /\ k < next) \/ k = j)
    BY <1>1 DEF LatestRows, IInv, TypeOK
  <2>2. next \in 1 .. MaxJobs + 1 /\ next - HistoryLimit \in Int
    BY BatchAssumption DEF IInv, TypeOK
  <2>3. \A k \in Jobs : Trim(r)[k] # "ABSENT" <=> (next - HistoryLimit <= k /\ k < next)
    BY <1>1, <2>1, <2>2, TrimLatest
  <2> QED
    BY <1>3, <2>3 DEF SaveRow, LatestRows
<1> QED
  BY <1>2, <1>3

\* A step leaves the table alone, saves a row that has not finished, or adds the next one.
LEMMA TableStep ==
  ASSUME IInv, [Next]_vars
  PROVE  \/ UNCHANGED <<rows, next>>
         \/ /\ next' = next
            /\ \E j \in Jobs, s \in Terminal :
                 j < next /\ ~ SaveConflicts(j) /\ rows' = SaveRow(j, s)
         \/ /\ next \in Jobs /\ next' = next + 1
            /\ rows' = Trim([rows EXCEPT ![next] = "RUNNING"])
            /\ "drop" \notin faults => \A j \in Jobs : rows[j] # "RUNNING"
<1> DEFINE Saves == /\ next' = next
                    /\ \E j \in Jobs, s \in Terminal :
                         j < next /\ ~ SaveConflicts(j) /\ rows' = SaveRow(j, s)
           Adds == /\ next \in Jobs /\ next' = next + 1
                   /\ rows' = Trim([rows EXCEPT ![next] = "RUNNING"])
                   /\ "drop" \notin faults => \A j \in Jobs : rows[j] # "RUNNING"
           Goal == UNCHANGED <<rows, next>> \/ Saves \/ Adds
<1> SUFFICES Goal
  OBVIOUS
<1>1. CASE UNCHANGED <<rows, next>>
  BY <1>1
<1>2. ASSUME NEW c \in Conn, NEW j \in Jobs, InterruptOrphan(c, j) PROVE Goal
  <2>1. "INTERRUPTED" \in Terminal /\ next' = next /\ j < next
    BY <1>2 DEF Terminal, InterruptOrphan, IInv, RowInv
  <2> QED
    BY <1>2, <2>1 DEF InterruptOrphan
<1>3. ASSUME NEW c \in Conn, RecordJob(c) \/ BeginFails(c) PROVE Goal
  <2>1. CASE UNCHANGED <<rows, next>>
    BY <2>1
  <2>2. CASE /\ pc[c] = "cleaning" /\ orphans[c] = {} /\ next <= MaxJobs /\ next' = next + 1
             /\ rows' = Trim([rows EXCEPT ![next] = "RUNNING"])
    <3>1. next \in Jobs
      BY <2>2, BatchAssumption DEF IInv, TypeOK, Jobs
    <3>2. "drop" \notin faults => \A j \in Jobs : rows[j] # "RUNNING"
      BY <2>2 DEF IInv, RowInv
    <3> QED
      BY <2>2, <3>1, <3>2
  <2> QED
    BY <1>3, <2>1, <2>2 DEF RecordJob, BeginFails
<1>4. ASSUME NEW c \in Conn, SaveOutcome(c) PROVE Goal
  <2>1. job[c] \in Jobs /\ job[c] < next /\ next' = next
    BY <1>4, BatchAssumption DEF IInv, TypeOK, RowInv, Jobs, SaveOutcome
  <2>2. CASE rows' = rows
    BY <2>1, <2>2
  <2>3. CASE ~ SaveConflicts(job[c]) /\ rows' = SaveRow(job[c], Outcome(c))
    BY <2>1, <2>3, OutcomeTerminal
  <2> QED
    BY <1>4, <2>2, <2>3 DEF SaveOutcome
<1> QED
  BY <1>1, <1>2, <1>3, <1>4
  DEF Next, Step, ProcessStep, vars, tableVars, StartFromAdmin, RunFromCLI, TryAcquire,
      FindRunning, ReleaseAfterFailure, ExecuteCommits, ExecuteFails, ReleaseLock,
      ReleaseExpired, SessionDrops, IdleCloses, Signal, Wait, Exit, Crash, Terminate,
      Restart

LEMMA InitLatest == Init => LatestRows
BY BatchAssumption DEF Init, LatestRows, Jobs

LEMMA StepLatest == IInv /\ LatestRows /\ [Next]_vars => LatestRows'
<1> SUFFICES ASSUME IInv, LatestRows, [Next]_vars PROVE LatestRows'
  OBVIOUS
<1>1. CASE UNCHANGED <<rows, next>>
  BY <1>1 DEF LatestRows
<1>2. ASSUME next' = next, NEW j \in Jobs, NEW s \in Terminal, j < next,
             rows' = SaveRow(j, s)
      PROVE  LatestRows'
  BY <1>2, SaveRowLatest DEF LatestRows
<1>3. CASE next \in Jobs /\ next' = next + 1 /\ rows' = Trim([rows EXCEPT ![next] = "RUNNING"])
  BY <1>3, NewRowLatest
<1> QED
  BY <1>1, <1>2, <1>3, TableStep

THEOREM SpecLatestRows == Spec => []LatestRows
BY SpecIInv, InitLatest, StepLatest, PTL DEF Spec

\* insertAndTrim takes finished jobs only, and a job that it has taken does not come back,
\* also when its outcome is saved late.
THEOREM SpecHistoryTrimmed == Spec => HistoryTrimmed
<1> DEFINE Spares == \A j \in Jobs : rows[j] = "RUNNING" /\ "drop" \notin faults
                                       => rows'[j] # "ABSENT"
           Stays == \A j \in Jobs : j < next /\ rows[j] = "ABSENT" => rows'[j] = "ABSENT"
<1>1. ASSUME IInv, LatestRows, [Next]_vars PROVE Spares /\ Stays
  <2>1. CASE UNCHANGED <<rows, next>>
    BY <2>1
  <2>2. ASSUME NEW j \in Jobs, NEW s \in Terminal, j < next, rows' = SaveRow(j, s)
        PROVE  Spares /\ Stays
    BY <1>1, <2>2, SaveRowLatest
  <2>3. CASE /\ next \in Jobs /\ next' = next + 1
             /\ rows' = Trim([rows EXCEPT ![next] = "RUNNING"])
             /\ "drop" \notin faults => \A j \in Jobs : rows[j] # "RUNNING"
    <3>1. \A j \in Jobs \ {next} : rows'[j] \in {rows[j], "ABSENT"}
      BY <1>1, <2>3, NewRow
    <3>2. Spares
      BY <2>3
    <3>3. ASSUME NEW j \in Jobs, j < next, rows[j] = "ABSENT" PROVE rows'[j] = "ABSENT"
      <4>1. j # next
        BY <2>3, <3>3 DEF Jobs
      <4> QED
        BY <3>1, <3>3, <4>1
    <3> QED
      BY <3>2, <3>3
  <2> QED
    BY <1>1, <2>1, <2>2, <2>3, TableStep
<1>2. IInv /\ LatestRows /\ [Next]_vars => [Spares]_vars /\ [Stays]_vars
  BY <1>1
<1>3. Spec => [][Spares]_vars /\ [][Stays]_vars
  BY <1>2, SpecIInv, SpecLatestRows, PTL DEF Spec
<1> QED
  BY <1>3 DEF HistoryTrimmed, TrimSparesRunning, TrimmedStaysTrimmed

-----------------------------------------------------------------------------
LEMMA InitAccount == Init => ResultInv /\ ReturnInv /\ MutexInv
BY BatchAssumption
   DEF Init, ResultInv, HistoryTruthful, ReturnInv, MutexInv, NoJobAfterWait,
       Beginning, Jobs

LEMMA StepExpired ==
  ASSUME IInv, [Next]_vars, \A c \in Conn : pc[c] = "expired" => "expire" \in faults
  PROVE  \A c \in Conn : pc'[c] = "expired" => "expire" \in faults'
<1> USE BatchAssumption DEF Active, Beginning, Running, Pooled
<1>1. pc \in [Conn -> Pooled \cup Active] /\ faults' = faults
  BY DEF IInv, TypeOK, Next, vars
<1>2. CASE UNCHANGED vars
  BY <1>2 DEF vars
<1>3. ASSUME NEW c \in Conn, Step(c), NEW d \in Conn, pc'[d] = "expired"
      PROVE  "expire" \in faults
  BY <1>1, <1>3
  DEF Step, StartFromAdmin, RunFromCLI, TryAcquire, FindRunning, InterruptOrphan, RecordJob,
      BeginFails, ReleaseAfterFailure, Release, ExecuteCommits, ExecuteFails, SaveOutcome,
      ReleaseLock, ReleaseExpired, SessionDrops, IdleCloses
<1>4. ASSUME NEW p \in Process, ProcessStep(p), NEW d \in Conn, pc'[d] = "expired"
      PROVE  "expire" \in faults
  BY <1>1, <1>4 DEF ProcessStep, Signal, Wait, Exit, Crash, Terminate, Restart
<1> QED
  BY <1>1, <1>2, <1>3, <1>4 DEF Next

LEMMA StepReturn == IInv /\ ReturnInv /\ [Next]_vars => ReturnInv'
<1> SUFFICES ASSUME IInv, ReturnInv, [Next]_vars, "expire" \notin faults', lock'.owner # None
             PROVE  pc'[lock'.owner] \in Active /\ lock'.depth = 1
  BY StepExpired DEF ReturnInv
<1> USE BatchAssumption DEF Active, Beginning, Running, Pooled
<1> DEFINE Goal == pc'[lock'.owner] \in Active /\ lock'.depth = 1
<1>1. /\ "expire" \notin faults
      /\ lock.owner # None => pc[lock.owner] \in Active /\ lock.depth = 1
      /\ lock.owner = None => lock.depth = 0
      /\ lock \in [owner : Conn \cup {None}, depth : Nat]
      /\ pc \in [Conn -> Pooled \cup Active]
  BY DEF Next, vars, ReturnInv, IInv, TypeOK, LockInv
<1>2. CASE UNCHANGED vars
  BY <1>1, <1>2 DEF vars
<1>3. ASSUME NEW c \in Conn, TryAcquire(c) PROVE Goal
  BY <1>1, <1>3 DEF TryAcquire, LockAvailable, Acquire
<1>4. ASSUME NEW c \in Conn, Release(c) PROVE Goal
  <2>1. CASE lock.owner = c
    BY <1>1, <1>4, <2>1 DEF Release, Unlock
  <2>2. CASE lock.owner # c
    BY <1>1, <1>4, <2>2 DEF Release
  <2> QED
    BY <2>1, <2>2
<1>5. ASSUME NEW c \in Conn, lock' = lock, pc[c] \in Active,
             \E s \in Active : pc' = [pc EXCEPT ![c] = s]
      PROVE  Goal
  BY <1>1, <1>5
<1>6. ASSUME NEW c \in Conn, FreeIfOwnedBy({c}),
             \E s \in Pooled : pc' = pc \/ pc' = [pc EXCEPT ![c] = s]
      PROVE  Goal
  BY <1>1, <1>6 DEF FreeIfOwnedBy
<1>7. ASSUME NEW p \in Process, Terminate(p) PROVE Goal
  BY <1>1, <1>7 DEF Terminate, FreeIfOwnedBy
<1>8. ASSUME UNCHANGED <<lock, pc>> PROVE Goal
  BY <1>1, <1>8
<1>9. ASSUME NEW c \in Conn, Step(c) PROVE Goal
  <2>1. CASE StartFromAdmin(c) \/ RunFromCLI(c)
    BY <1>3, <2>1 DEF StartFromAdmin, RunFromCLI
  <2>2. CASE ReleaseAfterFailure(c) \/ ReleaseLock(c)
    BY <1>4, <2>2 DEF ReleaseAfterFailure, ReleaseLock
  <2>3. CASE SessionDrops(c) \/ IdleCloses(c)
    BY <1>6, <2>3 DEF SessionDrops, IdleCloses
  <2>4. CASE FindRunning(c)
    BY <1>5, <2>4 DEF FindRunning
  <2>5. ASSUME NEW j \in Jobs, InterruptOrphan(c, j) PROVE Goal
    <3>1. CASE pc' = pc
      BY <1>8, <2>5, <3>1 DEF InterruptOrphan
    <3>2. CASE pc' = [pc EXCEPT ![c] = "aborting"]
      BY <1>5, <2>5, <3>2 DEF InterruptOrphan
    <3> QED
      BY <2>5, <3>1, <3>2 DEF InterruptOrphan
  <2>6. CASE RecordJob(c)
    BY <1>5, <2>6 DEF RecordJob
  <2>7. CASE BeginFails(c)
    BY <1>5, <2>7 DEF BeginFails
  <2>8. CASE ExecuteCommits(c) \/ ExecuteFails(c)
    BY <1>5, <2>8 DEF ExecuteCommits, ExecuteFails
  <2>9. CASE SaveOutcome(c)
    BY <1>1, <1>5, <2>9 DEF SaveOutcome
  <2>10. CASE ReleaseExpired(c)
    BY <1>1, <2>10 DEF ReleaseExpired, ReturnInv
  <2> QED
    BY <1>9, <2>1, <2>2, <2>3, <2>4, <2>5, <2>6, <2>7, <2>8, <2>9, <2>10 DEF Step
<1>10. ASSUME NEW p \in Process, ProcessStep(p) PROVE Goal
  BY <1>7, <1>8, <1>10 DEF ProcessStep, Signal, Wait, Exit, Crash, Restart
<1> QED
  BY <1>2, <1>9, <1>10 DEF Next

LEMMA StepMutex == IInv /\ MutexInv /\ [Next]_vars => MutexInv'
<1> SUFFICES ASSUME IInv, MutexInv, [Next]_vars
             PROVE  MutexInv'
  OBVIOUS
<1> USE BatchAssumption DEF Active, Beginning, Running, Pooled, Process
<1>1. /\ pc \in [Conn -> Pooled \cup Active] /\ OwnerOf \in [Conn -> Process]
      /\ mu \in [Server -> Conn \cup {None}] /\ closed \subseteq Server
  BY DEF IInv, TypeOK
<1>2. CASE UNCHANGED <<pc, mu, closed>>
  BY <1>2 DEF MutexInv, NoJobAfterWait
<1>3. ASSUME NEW c \in Conn, pc[c] \in Beginning \/ pc'[c] \notin Beginning,
             \E s \in Pooled \cup Active : pc' = [pc EXCEPT ![c] = s],
             UNCHANGED <<mu, closed>>
      PROVE  MutexInv'
  BY <1>1, <1>3 DEF MutexInv, NoJobAfterWait
<1>4. ASSUME NEW c \in Conn, LeaveCriticalSection(c), UNCHANGED closed,
             \E s \in Pooled \cup Running : pc' = [pc EXCEPT ![c] = s]
      PROVE  MutexInv'
  BY <1>1, <1>4 DEF MutexInv, NoJobAfterWait, LeaveCriticalSection
<1>5. ASSUME NEW c \in Conn, StartFromAdmin(c) PROVE MutexInv'
  BY <1>1, <1>5 DEF MutexInv, NoJobAfterWait, StartFromAdmin, TryAcquire, processVars
<1>6. ASSUME NEW c \in Conn, RunFromCLI(c) PROVE MutexInv'
  BY <1>1, <1>6 DEF MutexInv, NoJobAfterWait, RunFromCLI, TryAcquire, processVars
<1>7. ASSUME NEW p \in Process, Terminate(p) PROVE MutexInv'
  BY <1>1, <1>7 DEF MutexInv, NoJobAfterWait, Terminate, ConnsOf
<1>8. ASSUME NEW p \in Process, Wait(p) PROVE MutexInv'
  BY <1>1, <1>8 DEF MutexInv, NoJobAfterWait, Wait
<1>9. ASSUME NEW p \in Process, Restart(p) PROVE MutexInv'
  BY <1>1, <1>9 DEF MutexInv, NoJobAfterWait, Restart
<1>10. ASSUME NEW c \in Conn, Step(c) PROVE MutexInv'
  <2> USE DEF processVars, localVars, tableVars
  <2>1. CASE ReleaseAfterFailure(c) \/ RecordJob(c)
    BY <1>4, <2>1 DEF ReleaseAfterFailure, RecordJob, Release
  <2>2. CASE FindRunning(c)
    BY <1>3, <2>2 DEF FindRunning
  <2>3. ASSUME NEW j \in Jobs, InterruptOrphan(c, j) PROVE MutexInv'
    <3>1. CASE pc' = pc
      BY <1>2, <2>3, <3>1 DEF InterruptOrphan
    <3>2. CASE pc' = [pc EXCEPT ![c] = "aborting"]
      BY <1>3, <2>3, <3>2 DEF InterruptOrphan
    <3> QED
      BY <2>3, <3>1, <3>2 DEF InterruptOrphan
  <2>4. CASE BeginFails(c)
    BY <1>3, <2>4 DEF BeginFails
  <2>5. CASE ExecuteCommits(c) \/ ExecuteFails(c)
    BY <1>1, <1>3, <2>5 DEF ExecuteCommits, ExecuteFails
  <2>6. CASE SaveOutcome(c)
    BY <1>1, <1>3, <2>6 DEF SaveOutcome
  <2>7. CASE ReleaseLock(c) \/ ReleaseExpired(c)
    BY <1>1, <1>3, <2>7 DEF ReleaseLock, ReleaseExpired, Release
  <2>8. CASE SessionDrops(c)
    BY <1>2, <2>8 DEF SessionDrops
  <2>9. CASE IdleCloses(c)
    BY <1>1, <1>3, <2>9 DEF IdleCloses
  <2> QED
    BY <1>5, <1>6, <1>10, <2>1, <2>2, <2>3, <2>4, <2>5, <2>6, <2>7, <2>8, <2>9 DEF Step
<1>11. ASSUME NEW p \in Process, ProcessStep(p) PROVE MutexInv'
  BY <1>2, <1>7, <1>8, <1>9, <1>11 DEF ProcessStep, Signal, Exit, Crash
<1> QED
  BY <1>2, <1>10, <1>11 DEF Next, vars

\* Steps that touch no job in execution, and no outcome in the table.
LEMMA OtherStepsResult ==
  ASSUME IInv, ResultInv, UNCHANGED <<faults, synced>>, next' \in {next, next + 1},
         \A c \in Conn :
           \/ /\ job'[c] = job[c] /\ result'[c] = result[c]
              /\ pc'[c] = pc[c] \/ pc'[c] \notin {"executing", "executed"}
           \/ job'[c] = 0 /\ pc'[c] \notin {"executing", "executed"},
         \A j \in Jobs : rows'[j] \in {rows[j], "INTERRUPTED", "ABSENT", "RUNNING"}
  PROVE  ResultInv'
<1>1. \A c \in Conn : pc'[c] \in {"executing", "executed"} =>
        pc[c] = pc'[c] /\ job'[c] = job[c] /\ result'[c] = result[c] /\ job[c] \in Jobs
  BY BatchAssumption DEF IInv, TypeOK, RowInv, Jobs
<1>2. (\A c, d \in Conn : job[c] = job[d] /\ job[c] # 0 => c = d)'
  BY DEF ResultInv
<1>3. (\A j \in synced : j < next)'
  <2>1. next \in Int /\ \A j \in synced : j \in Int /\ j < next
    BY DEF ResultInv, IInv, TypeOK, Jobs
  <2> QED
    BY <2>1
<1>4. (\A c \in Conn : pc[c] = "executing" => job[c] \notin synced)'
  BY <1>1 DEF ResultInv
<1>5. (\A c \in Conn : pc[c] = "executed" =>
         /\ result[c] # "none"
         /\ result[c] \in {"ok", "warnings"} => job[c] \in synced
         /\ result[c] = "error" /\ "ack" \notin faults => job[c] \notin synced)'
  BY <1>1 DEF ResultInv
<1>6. (\A c \in Conn : pc[c] \in {"executing", "executed"} =>
         rows[job[c]] \in {"RUNNING", "INTERRUPTED", "ABSENT"})'
  BY <1>1 DEF ResultInv
<1>7. HistoryTruthful'
  BY DEF ResultInv, HistoryTruthful
<1> QED
  BY <1>2, <1>3, <1>4, <1>5, <1>6, <1>7 DEF ResultInv

LEMMA RecordJobResult ==
  ASSUME IInv, ResultInv, NEW c \in Conn, RecordJob(c), faults' = faults
  PROVE  ResultInv'
<1>1. /\ next \in Jobs /\ next # 0 /\ next' = next + 1
      /\ pc' = [pc EXCEPT ![c] = "executing"] /\ job' = [job EXCEPT ![c] = next]
      /\ UNCHANGED <<result, synced>>
  BY BatchAssumption DEF RecordJob, IInv, TypeOK, Jobs
<1>2. /\ rows'[next] = "RUNNING"
      /\ \A k \in Jobs \ {next} : rows'[k] \in {rows[k], "ABSENT"}
  BY <1>1, NewRow DEF RecordJob
<1>3. \A d \in Conn : job[d] \in 0 .. MaxJobs /\ job[d] < next /\ pc[d] \in Pooled \cup Active
  BY DEF IInv, TypeOK, RowInv
<1>4. \A d \in Conn : pc[d] \in {"executing", "executed"} => job[d] \in Jobs /\ job[d] # next
  BY <1>1, <1>3, BatchAssumption DEF IInv, RowInv, Jobs
<1>5. \A d \in Conn \ {c} : pc'[d] = pc[d] /\ job'[d] = job[d]
  BY <1>1 DEF IInv, TypeOK
<1>6. pc'[c] = "executing" /\ job'[c] = next
  BY <1>1 DEF IInv, TypeOK
<1>7. \A d \in Conn : job[d] # next
  BY <1>1, <1>3 DEF Jobs
<1>8. next \notin synced
  BY <1>1 DEF ResultInv, Jobs
<1>9. (\A d, e \in Conn : job[d] = job[e] /\ job[d] # 0 => d = e)'
  BY <1>5, <1>6, <1>7 DEF ResultInv
<1>10. (\A j \in synced : j < next)'
  BY <1>1 DEF ResultInv, IInv, TypeOK, Jobs
<1>11. (\A d \in Conn : pc[d] = "executing" => job[d] \notin synced)'
  BY <1>1, <1>5, <1>6, <1>8 DEF ResultInv
<1>12. (\A d \in Conn : pc[d] = "executed" =>
         /\ result[d] # "none"
         /\ result[d] \in {"ok", "warnings"} => job[d] \in synced
         /\ result[d] = "error" /\ "ack" \notin faults => job[d] \notin synced)'
  BY <1>1, <1>5, <1>6 DEF ResultInv
<1>13. (\A d \in Conn : pc[d] \in {"executing", "executed"} =>
         rows[job[d]] \in {"RUNNING", "INTERRUPTED", "ABSENT"})'
  BY <1>2, <1>4, <1>5, <1>6 DEF ResultInv
<1>14. HistoryTruthful'
  BY <1>1, <1>2, <1>8 DEF ResultInv, HistoryTruthful
<1> QED
  BY <1>9, <1>10, <1>11, <1>12, <1>13, <1>14 DEF ResultInv

LEMMA ExecuteResult ==
  ASSUME IInv, ResultInv, NEW c \in Conn, ExecuteCommits(c) \/ ExecuteFails(c), faults' = faults
  PROVE  ResultInv'
<1>1. /\ pc[c] = "executing" /\ pc' = [pc EXCEPT ![c] = "executed"]
      /\ UNCHANGED <<job, rows, next>>
  BY DEF ExecuteCommits, ExecuteFails, tableVars
<1>2. job[c] \in Jobs /\ job[c] < next /\ job[c] \notin synced /\ job[c] # 0
  BY <1>1, BatchAssumption DEF IInv, TypeOK, RowInv, ResultInv, Jobs
<1>3. rows[job[c]] \in {"RUNNING", "INTERRUPTED", "ABSENT"}
  BY <1>1 DEF ResultInv
<1>4. \A d \in Conn \ {c} : pc'[d] = pc[d] /\ result'[d] = result[d] /\ job[d] # job[c]
  BY <1>1, <1>2 DEF IInv, TypeOK, ResultInv, ExecuteCommits, ExecuteFails
<1>5. pc'[c] = "executed"
  BY <1>1 DEF IInv, TypeOK
<1>6. CASE ExecuteCommits(c)
  <2>1. /\ synced' = synced \cup {job[c]}
        /\ result'[c] \in {"ok", "warnings", "error"}
        /\ result'[c] = "error" => "ack" \in faults
    BY <1>6 DEF ExecuteCommits, IInv, TypeOK
  <2>2. (\A d \in Conn : pc[d] = "executing" => job[d] \notin synced)'
    BY <1>1, <1>4, <1>5, <2>1 DEF ResultInv
  <2>3. (\A d \in Conn : pc[d] = "executed" =>
           /\ result[d] # "none"
           /\ result[d] \in {"ok", "warnings"} => job[d] \in synced
           /\ result[d] = "error" /\ "ack" \notin faults => job[d] \notin synced)'
    BY <1>1, <1>4, <1>5, <2>1 DEF ResultInv
  <2>4. HistoryTruthful'
    BY <1>1, <1>3, <2>1 DEF ResultInv, HistoryTruthful
  <2> QED
    BY <1>1, <1>2, <1>3, <1>4, <2>1, <2>2, <2>3, <2>4 DEF ResultInv
<1>7. CASE ExecuteFails(c)
  <2>1. synced' = synced /\ result'[c] = "error"
    BY <1>7 DEF ExecuteFails, tableVars, IInv, TypeOK
  <2>2. HistoryTruthful'
    BY <1>1, <2>1 DEF ResultInv, HistoryTruthful
  <2>3. (\A d \in Conn : pc[d] = "executed" =>
           /\ result[d] # "none"
           /\ result[d] \in {"ok", "warnings"} => job[d] \in synced
           /\ result[d] = "error" /\ "ack" \notin faults => job[d] \notin synced)'
    BY <1>1, <1>2, <1>4, <2>1 DEF ResultInv
  <2> QED
    BY <1>1, <1>3, <1>4, <1>5, <2>1, <2>2, <2>3 DEF ResultInv
<1> QED
  BY <1>6, <1>7

LEMMA SaveOutcomeResult ==
  ASSUME IInv, ResultInv, NEW c \in Conn, SaveOutcome(c), faults' = faults
  PROVE  ResultInv'
<1>1. /\ pc[c] = "executed" /\ UNCHANGED <<job, result, synced, next>>
      /\ pc' = [pc EXCEPT ![c] = "saved"] \/ pc' = [pc EXCEPT ![c] = "expired"]
  BY DEF SaveOutcome, localVars
<1>2. \A d \in Conn : pc'[d] \in {"executing", "executed"} => pc[d] = pc'[d] /\ d # c
  BY <1>1 DEF IInv, TypeOK
<1>3. job[c] \in Jobs /\ job[c] # 0 /\ rows \in [Jobs -> Status]
  BY <1>1, BatchAssumption DEF IInv, TypeOK, RowInv, Jobs
<1>4. \A d \in Conn : pc'[d] \in {"executing", "executed"} =>
        job[d] \in Jobs /\ job[d] # job[c]
  BY <1>2, <1>3, BatchAssumption DEF IInv, TypeOK, RowInv, ResultInv, Jobs
<1>5. /\ \A k \in Jobs \ {job[c]} : rows'[k] \in {rows[k], "ABSENT"}
      /\ rows'[job[c]] \in {rows[job[c]], Outcome(c), "ABSENT"}
  <2>1. CASE rows' = rows
    BY <1>3, <2>1
  <2>2. CASE rows' = SaveRow(job[c], Outcome(c))
    BY <1>3, <2>2, OutcomeTerminal, SaveRowResult
  <2> QED
    BY <2>1, <2>2 DEF SaveOutcome
<1>6. /\ Outcome(c) \in {"SUCCEEDED", "SUCCEEDED_WITH_WARNINGS"} => job[c] \in synced
      /\ Outcome(c) = "FAILED" /\ "ack" \notin faults => job[c] \notin synced
  <2>1. /\ result[c] \in {"ok", "warnings", "error"}
        /\ result[c] \in {"ok", "warnings"} => job[c] \in synced
        /\ result[c] = "error" /\ "ack" \notin faults => job[c] \notin synced
    BY <1>1 DEF ResultInv, IInv, TypeOK
  <2> QED
    BY <2>1 DEF Outcome
<1>7. (\A d \in Conn : pc[d] = "executing" => job[d] \notin synced)'
  BY <1>1, <1>2 DEF ResultInv
<1>8. (\A d \in Conn : pc[d] = "executed" =>
         /\ result[d] # "none"
         /\ result[d] \in {"ok", "warnings"} => job[d] \in synced
         /\ result[d] = "error" /\ "ack" \notin faults => job[d] \notin synced)'
  BY <1>1, <1>2 DEF ResultInv
<1>9. (\A d \in Conn : pc[d] \in {"executing", "executed"} =>
         rows[job[d]] \in {"RUNNING", "INTERRUPTED", "ABSENT"})'
  BY <1>1, <1>2, <1>4, <1>5 DEF ResultInv
<1>10. HistoryTruthful'
  BY <1>1, <1>5, <1>6 DEF ResultInv, HistoryTruthful
<1> QED
  BY <1>1, <1>7, <1>8, <1>9, <1>10 DEF ResultInv

\* Interrupting orphans and failing to begin, which may leave a RUNNING row behind.
LEMMA BeginResult ==
  ASSUME IInv, ResultInv, NEW c \in Conn, faults' = faults,
         BeginFails(c) \/ \E j \in Jobs : InterruptOrphan(c, j)
  PROVE  ResultInv'
<1>1. /\ UNCHANGED <<job, result, synced>> /\ next' \in {next, next + 1}
      /\ pc' = pc \/ pc' = [pc EXCEPT ![c] = "aborting"]
  BY DEF BeginFails, InterruptOrphan
<1>2. \A d \in Conn : pc'[d] = pc[d] \/ pc'[d] \notin {"executing", "executed"}
  BY <1>1 DEF IInv, TypeOK
<1>3. \A j \in Jobs : rows'[j] \in {rows[j], "INTERRUPTED", "ABSENT", "RUNNING"}
  <2>1. rows \in [Jobs -> Status] /\ "INTERRUPTED" \in Terminal
    BY DEF IInv, TypeOK, Terminal
  <2>2. CASE rows' = rows
    BY <2>2
  <2>3. ASSUME NEW j \in Jobs, rows' = SaveRow(j, "INTERRUPTED")
        PROVE  \A k \in Jobs : rows'[k] \in {rows[k], "INTERRUPTED", "ABSENT", "RUNNING"}
    BY <2>1, <2>3, SaveRowResult
  <2>4. CASE next <= MaxJobs /\ rows' = Trim([rows EXCEPT ![next] = "RUNNING"])
    <3>1. next \in Jobs
      BY <2>4, BatchAssumption DEF IInv, TypeOK, Jobs
    <3>2. /\ rows'[next] = "RUNNING"
          /\ \A k \in Jobs \ {next} : rows'[k] \in {rows[k], "ABSENT"}
      BY <2>4, <3>1, NewRow
    <3> QED
      BY <3>2
  <2> QED
    BY <2>2, <2>3, <2>4 DEF BeginFails, InterruptOrphan
<1> QED
  BY <1>1, <1>2, <1>3, OtherStepsResult

\* A process that ends forgets the jobs of its attempts.
LEMMA TerminateResult ==
  ASSUME IInv, ResultInv, NEW p \in Process, Terminate(p), faults' = faults
  PROVE  ResultInv'
<1>1. UNCHANGED <<rows, synced, next>>
  BY DEF Terminate, tableVars
<1>2. \A d \in Conn :
        \/ pc'[d] = pc[d] /\ job'[d] = job[d] /\ result'[d] = result[d]
        \/ job'[d] = 0 /\ pc'[d] = "closed"
  BY DEF Terminate
<1> QED
  BY <1>1, <1>2, OtherStepsResult

LEMMA StepResult == IInv /\ ResultInv /\ [Next]_vars => ResultInv'
<1> SUFFICES ASSUME IInv, ResultInv, [Next]_vars PROVE ResultInv'
  OBVIOUS
<1>0. faults' = faults
  BY DEF Next, vars
<1>1. ASSUME UNCHANGED <<rows, synced, next>>,
             \A d \in Conn :
               \/ /\ job'[d] = job[d] /\ result'[d] = result[d]
                  /\ pc'[d] = pc[d] \/ pc'[d] \notin {"executing", "executed"}
               \/ job'[d] = 0 /\ pc'[d] \notin {"executing", "executed"}
      PROVE  ResultInv'
  BY <1>0, <1>1, OtherStepsResult
<1>2. CASE UNCHANGED vars
  BY <1>1, <1>2 DEF vars
<1>3. ASSUME NEW c \in Conn, Step(c) PROVE ResultInv'
  <2> USE DEF localVars, tableVars
  <2>1. CASE \/ StartFromAdmin(c) \/ RunFromCLI(c) \/ FindRunning(c)
             \/ SessionDrops(c) \/ IdleCloses(c)
    BY <1>1, <2>1 DEF StartFromAdmin, RunFromCLI, TryAcquire, FindRunning, SessionDrops,
                      IdleCloses, IInv, TypeOK
  <2>2. CASE ReleaseAfterFailure(c) \/ ReleaseLock(c) \/ ReleaseExpired(c)
    BY <1>1, <2>2 DEF ReleaseAfterFailure, ReleaseLock, ReleaseExpired, Release, Forget,
                      IInv, TypeOK
  <2>3. CASE BeginFails(c) \/ \E j \in Jobs : InterruptOrphan(c, j)
    BY <1>0, <2>3, BeginResult
  <2> QED
    BY <1>0, <1>3, <2>1, <2>2, <2>3, RecordJobResult, ExecuteResult, SaveOutcomeResult DEF Step
<1>4. ASSUME NEW p \in Process, ProcessStep(p) PROVE ResultInv'
  <2>1. CASE Signal(p) \/ Wait(p) \/ Restart(p)
    BY <1>1, <2>1 DEF Signal, Wait, Restart, localVars, tableVars
  <2> QED
    BY <1>0, <1>4, <2>1, TerminateResult DEF ProcessStep, Exit, Crash
<1> QED
  BY <1>2, <1>3, <1>4 DEF Next

\* A job is accounted for: success is recorded only after the synchronisation committed and
\* FAILED only when it did not, the lock is given back by every attempt that records its
\* outcome in time, and Wait misses no job that StartFromAdmin has accepted.
THEOREM SpecJobsAccountedFor == Spec => []JobsAccountedFor
<1>1. Init => ResultInv /\ ReturnInv /\ MutexInv
  BY InitAccount
<1>2. IInv /\ (ResultInv /\ ReturnInv /\ MutexInv) /\ [Next]_vars
        => (ResultInv /\ ReturnInv /\ MutexInv)'
  BY StepResult, StepReturn, StepMutex
<1>3. IInv /\ (ResultInv /\ ReturnInv /\ MutexInv) => JobsAccountedFor
  BY DEF IInv, ResultInv, ReturnInv, MutexInv, JobsAccountedFor, LockReturned,
         LockAlwaysReturned
<1> QED
  BY <1>1, <1>2, <1>3, SpecIInv, PTL DEF Spec
=============================================================================
