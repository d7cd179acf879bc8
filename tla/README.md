# TLA+ specifications of chunisupport-api

chunisupport-api is the backend of a score tracker for a rhythm game: a Go service
(Echo, MySQL/InnoDB) with one API process or several and four batch commands. A
player's client registers the scores it has collected; everything else is computed
from them or is small data a user keeps (friends, goals, tokens, locked songs). The
hard parts are not only the computations but what runs at the same time: several servers
and batches on the same rows, a job that outlives the request that started it, and
state that a process keeps in memory.

This directory holds the specifications (`*.tla`), the TLC configurations (`*.cfg`),
the proofs (`*Proofs.tla`) and `PROJECT.json`, which lists runs, mutants, theorems,
hazards and, definition by definition, the source lines that are modelled.

    tlc -workers 2 -config BatchJobs.cfg MCBatchJobs
    tlc -workers 2 -config Server.cfg MCServer
    tlc -workers 2 -config Users.cfg MCUsers
    tlapm BatchJobsProofs.tla

Paths below are relative to `internal/`.

## 1. Inventory

"Tx" is a database transaction, REPEATABLE READ unless said otherwise
(`infra/transaction/transaction_manager.go`); no transaction is retried.

| Component | State | Operations | Hard behaviour | What makes it correct | Module |
| --- | --- | --- | --- | --- | --- |
| Song-batch jobs (`usecase/song_batch_job_usecase.go`) | `GET_LOCK` in a MySQL session; table `song_batch_jobs`; `mu`, `closed`, `wg` of the process | StartFromAdmin, RunFromCLI, run, Wait | lost sessions, crashes, shutdown against accept, a shared timeout | one batch at a time; history true, bounded, final; shutdown ends; lock given back | `BatchJobs` |
| Song-batch consolidation (`infra/songbatch`, `usecase/song_batch_usecase.go`) | files of a run, a SQLite workspace, then `songs`, `charts`, ... in one Tx | resolve, download, import, consolidate, merge, commit | busy or faulty sources, conflicting sources, administrators who edit meanwhile | what is taken is whole; what an administrator corrected survives; run twice, it changes nothing more | `Downloads`, `SongSources`, `SongMerge`, `SongMaster`, `Courses` |
| Song administration (`usecase/song_usecase_impl.go`, worldsend, course, honor, version) | master tables | create, edit, delete, restore | deletes that touch players; a version checked and then deleted | players' values become stale visibly; no song loses its version; a kept list is known to be old | `SongMaster`, `Courses`, `PlayerData`, `Registration`, `Honors` |
| Registration (`usecase/player_data_usecase_impl.go`) | `players`, `player_records`, histories, `player_latest_updates`, `users.player_id`, honors | Register, Delete | two devices, out-of-order and repeated data, histories keyed by whole seconds, unique keys that wait for others | newest data shown; one player per user; what is told is what happened; the next body is let in | `PlayerData`, `Registration`, `Honors` |
| Locked songs (`usecase/player_locked_song_usecase_impl.go`) | `player_locked_songs`, OVER POWER of the player | Lock, Unlock, Batch | races with deletion of the song, with registration, with recalculation | OVER POWER always that of the rows | `PlayerData`, `RatingSlots` |
| Recalculation (`usecase/player_data_recalculation_batch.go`) | `players.recalculated_master_fingerprint` | Execute, ProcessPlayer | pages over moving rows, skips by fingerprint | skips only what is up to date; misses nobody; run again, changes nothing | `PlayerData`, `RatingSlots` |
| Rating and OVER POWER (`domain/service`) | none | functions on records | bands that must meet, truncation, ties | monotone, within their maximum | `Rating` |
| Temporary player data (`usecase/temporary_player_data_usecase_impl.go`) | maps, a heap and a byte count under a mutex | Create, Commit | claim and release against expiry and retry | counts exact; one commit at a time; a failed one can be repeated | `TempData`, `TempStore` |
| Friendships (`usecase/friendship_usecase_impl.go`) | `friendships`, one row per direction | SendRequest, Accept, Reject, Cancel, Remove | crossing requests, accept against reject or removal | accepted both ways or not at all; the limit holds | `Friendships` |
| API tokens, goals, goal groups, record filters, favorites | one table each, limits per user | create, rename, arrange, delete | count-then-insert, positions in a list | limits hold; lists have no gaps, so that they can be exported | `UserResources` |
| Goals' contents (`usecase/goal_usecase_impl.go`) | `goals`, referring to versions, genres and charts | validate, bound, export, import | the master changes under a goal that has been checked | a goal that is accepted can be reached; a file says what the goal says | `Goals` |
| Data transfer (`usecase/user_data_transfer_usecase.go`) | everything a user owns | Export, Validate, Import | what is stored must be valid as a file | exportable whatever happened; import loses nothing | `Transfer`, `UserResources`, `Goals` |
| Accounts (`usecase/user_usecase_impl.go`, signup, credentials, permissions) | `users`, Firebase | sign up, link, change, delete, set role | two systems, no common transaction; checks before locks | an administrator remains; nobody loses the account he signs in with | `Accounts` |
| Pages of a user (`usecase/user_usecase_impl.go`, player records, privacy) | none of their own | profile, records, rating, updated-at | five reads outside of any transaction | a page is the rows of its time; private stays private | `Profiles` |
| Rankings and comparisons (`usecase/friend_chart_ranking_usecase.go`, ...) | none | ranking among friends, of administrators, comparison of two | ties, unplayed, friends who change | the answers agree with each other | `Rankings` |
| Best-slot pages (`infra/repository/best_slot_ranking_query_service_impl.go`) | none; the cursor | next page | tables replaced between pages | in order, nothing skipped that has not moved | `SlotPages` |
| Chart statistics (`usecase/chart_stats_batch_usecase.go`) | three tables; an advisory lock | calculate, replace, export | players go on; exports read during a replacement | all of one moment, never going back | `ChartStats` |
| Static export (`app/staticdataexport`) | objects, copies in a CDN, an advisory lock per database | export, purge | runs that fail half-way or overlap | a success leaves one run's files, and no stale copy | `StaticExport` |
| System maintenance (`usecase/system_maintenance_usecase.go`) | one row and an atomic pointer per process | Update, Current | Save unheard, updates side by side | what is published is what is stored | `ServerCaches`, `Gate` |
| Master caches (`infra/masterdata/cache.go`, `overpower_denominator_provider_impl.go`) | copies in memory | reload, invalidate, expire | fill against invalidate, failed reloads | no reader sees the old copy after the writer has returned | `ServerCaches` |
| Authentication, rate limits, routing (`app/router.go`, `app/middleware`) | counters by key and window | the chain of each group of routes | roles and sessions that change midway, windows | who is let through was allowed to; limits hold per window | `Gate` |
| Compatibility APIs (chunirec, reiwa), DTOs, logs | none | formats | - | - | - |

How they meet. An administrator's request starts a song batch in the API process; the
same batch runs from the command line; both take one advisory lock. A song batch, and
song administration, change the master; the recalculation brings every player to the
current master. Registration, locked songs, deletion of a song and the recalculation
all write `players`, each in its own Tx, and meet only in row locks. Friendships, tokens
and goals lock the user's row before they count. The process-wide caches are told of
changes by calls within the process only. Pages, rankings and exports only read, with one
statement, one snapshot or several statements as each section says.

The hazards this leads to are in `PROJECT.json` under `hazards`, each at its line, with
the properties that would notice.

## 2. How the modules fit together, and what is planned

    BatchJobs                MCBatchJobs    the runner of batches
    PlayerData               MCPlayerData   the writers of a player
    TempStore <- TempData    MCTempData     uploads; TempData implements TempStore
    SongSources <- SongMerge <- SongMaster; SongMaster, Downloads, Courses <- SongBatch,
    ServerCaches, ChartStats, Rating <- RatingSlots, Rating <- Goals, SlotPages, StaticExport
                             MCServer       the server's own state, part by part
    Friendships, UserResources, Accounts, Registration <- Transfer, Honors, Rankings,
    Rating <- Profiles, Gate MCUsers        what belongs to users, part by part

An arrow is an EXTENDS. Components that write the same rows are in one module (the writers
of `players` in `PlayerData`, batch and administrators in `SongMaster`, registration and
transfer in `Registration` and `Transfer`). The parts of `MCServer` and of
`MCUsers` share no variable: their product would show nothing that the parts do not, so a
variable `part` is chosen at the start, one part moves and the others stand still. Every part is
explored from all of its own initial states, and its invariants are looked at where it moves.

The proofs are in eight modules: `BatchJobsProofs`, `PlayerDataProofs` and `TempDataProofs`
each extend the module of their name, `GateProofs` has `Gate` with `Profiles`, `TransferProofs` has `Transfer` with
`Registration`, `SongProofs` has `Downloads`, `SongMaster`, `Courses` and `SongBatch`, `ServerProofs` has `ServerCaches`,
`ChartStats`, `StaticExport` and `Rating`, `UsersProofs` has `Accounts`, `Honors`, `UserResources`
and `Friendships`.

## 3. BatchJobs

Source: `usecase/song_batch_job_usecase.go`, `infra/repository/song_batch_job_repository_impl.go`,
`infra/db/advisory_lock.go`, `domain/entity/song_batch_job.go`, `app/server.go`, `cmd/song-batch/main.go`.

A process is an API server (`Server`), which starts batches in the background and can be
told to stop, or a command (`Cli`), which runs one in the foreground. Each has pooled
connections (`Conn`); the advisory lock belongs to the session of a connection. A process
goes through the calls of `begin` and `run` in their order: try the lock (`TryAcquire`), settle
orphans one by one (`FindRunning`, `InterruptOrphan`), record the job (`RecordJob`), execute
(`ExecuteCommits`, `ExecuteFails`), save the result (`SaveOutcome`), release
(`ReleaseLock`, `ReleaseExpired`); `BeginFails` is any of the error returns. `StartFromAdmin`
holds the mutex from its check of `closed` until the job has its goroutine, which `Wait` relies
on. The history is a sequence of rows; `SaveRow` is the conditional UPDATE, or else the INSERT
with its trimming in one transaction.

`Fault` says what may go wrong besides ordinary errors, signals, crashes and restarts:
`"drop"` (the session of the lock is lost while its process lives), `"expire"` (the result uses
up the finalize timeout) and `"ack"` (the synchronisation commits and the acknowledgement is
lost).

| Run | Question | Bounds |
| --- | --- | --- |
| `BatchJobs.cfg` | is every job accounted for (`JobsAccountedFor`: types, `HistoryTruthful`, `LockReturned`, `NoJobAfterWait`), is the history trimmed and final, one batch at a time; under all faults | one server with two connections, one command with one, two jobs ever, history of one row |
| `BatchJobsLive.cfg` | does a shutdown end and is the lock given back (`EverythingEnds`); are all orphans settled (`OnlyRunningRowIsMine`) | three jobs, history of two rows, no fault |
| `BatchJobsOneAtATime.cfg` | is "always one batch" true (finding) | `Fault = {"drop"}` |
| `BatchJobsLockLeak.cfg` | is the lock released when a run ends (finding) | `Fault = {"expire"}` |

Two jobs are enough for a job and its successor; a history of one row makes every insert trim.
It would also trim an orphan that nobody settled, so that question is asked with two rows and
three jobs. A third actor would only repeat the second's part. `OneBatchAtATime` and
`OnlyRunningRowIsMine` are about processes whose lock session is alive: the first finding shows
that without that condition the documented claim is false. Fairness: each process's own
steps are weakly fair (goroutines and statements go on; every statement has a timeout), signals
and crashes and new requests are not; in the liveness run the faults are off because a lock
whose release was never sent is given back only when the pool closes the connection.

Proved (`BatchJobsProofs`), for all processes, connections and bounds: types, mutual
exclusion of the processes whose lock session lives, and every other invariant and action
property of `BatchJobs.cfg`. The argument: the session that holds the
lock is one connection; a process past `TryAcquire` either has that very connection or has lost
its session; hence two processes with live sessions are one. `OnlyRunningRowIsMine` needs
in addition that the orphans a process still has to settle are all the RUNNING rows there are,
which is stable because only a lock holder with a live session inserts RUNNING rows.
`FinishedRowsAreFinal` follows from the status test in the UPDATE's condition.
`HistoryTrimmed` needs `LatestRows`: the finished rows are the latest there can be, because
trimming takes the oldest; a job whose outcome is saved after its row was trimmed comes in as a new row
and is trimmed again in the same transaction. `JobsAccountedFor` needs `ResultInv` (what
Execute returned agrees with what it committed, until it is saved no row says so, and a job
belongs to one attempt), `ReturnInv` (only an attempt in progress has the lock, and has it
once) and `MutexInv` (a server's mutex is held by its attempt that has no goroutine yet; `Wait`
closes only without it).

## 4. PlayerData

Source: `usecase/player_data_usecase_impl.go`, `usecase/player_locked_song_usecase_impl.go`,
`usecase/song_usecase_impl.go`, `usecase/player_data_recalculation_batch.go` and their
repositories, `domain/entity/player.go`, `domain/entity/player_latest_update.go`.

A transaction is cut where another one can come in: at the row locks it takes or waits for.
`tx[r]` is the transaction of request r with what it has read (`draft`, `live`); it installs its
writes when it commits. A registration locks the user's row, then the player's, checks the
order of its data (`Conflict`), and commits scores, slots, values and the link; an edit of the locked
songs locks the player; the deletion of a song locks the song, then every holder. `DeletePlayer`,
`RestoreSong` and `NewVersion` are single steps (one statement, or locks nobody waits
behind). `RollBack` is every failure: errors, lost clients, deadlock victims; nothing retries them. The batch loads its
snapshot (`BatchLoadsSnapshot`), pages through the keys, and locks, recalculates and saves one player
at a time, skipping those that were registered again.

Data is abstracted to what the properties tell apart: a value (rating, OVER POWER) is the
set of (song, score) pairs it is computed from, a fingerprint is the master it hashes, a chart and its
song are one thing. Times are ticks, `TicksPerSecond` to the second, because one column keeps
fractions and the other does not. `batch.touched` is a history variable.

| Run | Question | Bounds |
| --- | --- | --- |
| `PlayerData.cfg` | soundness of fingerprints, newest data shown and linked (`ShownAndLinked`), monotone `data_collected_at` | one user, one song, two concurrent requests of any kind, an empty and a full body, five instants that round to three seconds, two player rows, two versions |
| `PlayerDataPages.cfg` | does the recalculation miss a player | two users, one request, pages of one |
| `PlayerDataFraction.cfg` | is newer data accepted (finding) | one request, times with fractions |

Two requests and the batch are every pair of writers and the batch; a second player row is
needed for delete-and-register; the instants are on both sides of a half second. With one song
a deletion and a restoration make the whole ABA of the fingerprint.

Proved (`PlayerDataProofs`): types, `FingerprintSound`, `ShownAndLinked`,
`CollectedNeverGoesBack` and `BatchMissesNobody`, everything that `PlayerData.cfg` and
`PlayerDataPages.cfg` check. The invariant adds `LockInv` (a
transaction that is in progress has the locks its stage implies, so no two have one player) and
`FreshInv` (the draft of a transaction that has locked a player is that player's row, and what
the batch has locked it has read). `FingerprintSound` alone is not inductive: a transaction saves a
row it read some steps earlier, and only the locks say that the row is still what it was.

`ShownAndLinked` is stable only with what a registration carries from its first lock to its commit
(`Drafts`: the user has no player or the locked one, and the order check still holds of its row) and
with whole seconds in `data_collected_at` and nothing in a row that nobody owns (`OwnedRows`). Its proof showed that the earlier form of `NewestDataShown`
was true only of the instants it was checked on: it spoke of the last time accepted, but two bodies
whose times round to one second are both accepted, and the order of their fractions does not
matter to the code. It now says that what is shown is one of the results of the last second,
and the run has three instants that round to one second, and one on either side. `CollectedNeverGoesBack`
is the monotonicity of the rounding. `BatchMissesNobody` has `CoverInv`: a player that was there
when the batch loaded its master is ahead of the cursor, on the page or locked, or done with;
only the order of ids, in which rows are inserted and pages read, keeps it so.

## 5. TempData

Source: `usecase/temporary_player_data_usecase_impl.go`, `infra/repository/temporary_player_data_repository_impl.go`,
`domain/entity/temporary_player_data.go`.

`store` is the repository: the entries by token, the claimed tokens, the tokens by address, the
heap (as a set, since only its smallest expiries matter) and the byte count. Every operation of the
repository runs under the mutex and is a step, and drops what has expired first
(`Cleaned`). `Create` inserts or is refused; a commit is `Claim`, `RegisterSucceeds` or
`RegisterFails`, then `Delete` or `Release`, which also happen when the client has gone. `Sweep` is
any call that only cleans: a claim in vain, a client that goes. Time passes between any two
steps (`Tick`), also between the making of a token and its insertion. `Restart` empties
everything. `issued` and `succeeded` are history variables. The registration itself is
`PlayerData`; a panic in it, which would leave the claim until the upload expires, is not
modelled.

`TempStore` is what the client is promised, upload by upload: open until taken, then spent or open
again, lost when it expires, never taken twice. `KeepsPromise` is the refinement, with `UploadState` as
mapping. An upload lost under its commit may still be spent by it: the registration has its own copy
of the payload.

| Run | Question | Bounds |
| --- | --- | --- |
| `TempData.cfg` | are the counts exact and the limits kept (`StoreSound`), is a commit alone with its upload, can a failed one be repeated, does the store implement `TempStore` | three tokens, two addresses, two commits, sizes 1 and 2, two entries per address, three bytes in all, expiry after two of four ticks |

Two entries of one address reach its limit while the third token tries; the bytes overflow with two
large uploads; four ticks let one upload expire and its place be used again.

Proved (`TempDataProofs`), for any tokens, addresses, requests and limits: `OneCommitPerUpload`,
`RetryPossible`, `ExpiredIsNotTaken` and the refinement. None is inductive: that a claim cannot be
stolen needs that an upload which expires under its commit can be neither claimed nor issued again,
that a claim always has a commit that will give it back, and that a spent upload which is
still stored has its commit about to delete it (`CommitInv`, `UploadInv`). `StoreSound` (the counts are
exact and within the limits) speaks of a sum over the stored entries. Its definition is by recursion
over sets, so the proofs first establish that there is one such function on the finite sets of
tokens (induction on cardinality, in the form of a smallest counterexample), and that it grows and
shrinks with the entries that are put in and dropped; `dropAll` drops several at once, hence the lemma for a
difference of sets. From the assumptions: sizes are natural numbers.

## 6. Friendships

Source: `usecase/friendship_usecase_impl.go`, `infra/repository/friendship_repository_impl.go`,
`domain/entity/friendship.go`, `usecase/user_lock.go`, and the deletion of users in
`usecase/user_usecase_impl.go` and `usecase/user_credential_usecase.go`.

`rows[u][v]` is the row with `user_id` u and `friend_user_id` v. A transaction looks up its two users
(`Begin`), locks their rows in the order of ids (`LockFirst`, `LockSecond`), reads (`seen`, the
snapshot of its first plain SELECT, which comes after the second lock), and commits
(`Befriend`, `SendRequest`, `RejectRequest`, `CancelRequest`, `DeleteUser`) or rolls back. The
writes apply to the rows as they are at that time: `Save` is an upsert, `DeletePending` is conditional.
`Remove` and `DeleteOwnAccount` are single steps, the first without any user lock. The status
`blocked` is reserved and no operation writes it.

| Run | Question | Bounds |
| --- | --- | --- |
| `Users.cfg`, part `friendships` | are friendships mutual, does the limit hold, do the locks never close a circle | three users, limit one, two transactions |
| `FriendshipsRemoval.cfg` | do friendships come out of a request that is still there (finding) | two users, one transaction |

With a limit of one and three users every user can be at the limit with one friend while the
third asks. Two transactions make every pair of operations; removals and deletions come
on top of them without limit. Users may all be gone at the end, hence no deadlock check;
`NoDeadlock` says what matters about the locks.

Proved (`UsersProofs`), for any users, transactions and limit: types, `Mutual`, `LimitHolds` and
`NoDeadlock` for groups of any size. The invariant `SeenInv` says what is left of a snapshot: the rows
of both users are those read, or gone. Locks alone do not give that, since `Remove` takes none;
but it only takes rows away, which neither breaks mutuality nor the limit. What it does break is
finding 4. `NoDeadlock` follows from the order of the locks: who is waited for and waits wants a
larger id, and ids are bounded.

## 7. The song master: `Downloads`, `SongSources`, `SongMerge`, `SongMaster`, `Courses`

Source: `infra/songbatch`, `domain/songbatch`, `usecase/song_batch_usecase.go`,
`usecase/song_usecase_impl.go`, `usecase/version_usecase_impl.go`, their repositories.

`Downloads` is the beginning of an execution: sources are resolved, downloaded side by side (the two
sheets of Google behind one gate, which is a channel of one place), retried while a server is
busy, written to files, and read back. A normal run goes on without a source that only
completes, and counts a warning; a faulty source, or no official list, ends it.
`SongSources` builds the workspace from what was read: it matches, completes and refuses
(moved indexes). `SongMerge` is what a row of MySQL becomes given the workspace's row,
for a normal run and for a major update. `SongMaster` has the tables, with the batch
(`BuildBatch`, `BeginSync`, `CommitSync`, `AbortBatch`) and the administrators' edits side by
side. Titles, artists and genres are one value; the normalisation of titles and of folder
names is not modelled.

`Courses` is the table that the same transaction of a batch writes last (`BeginCourseSync`,
`UpdateSeenCourse`, `InsertNewCourses`, `CommitCourseSync`), next to administrators who look up and
insert without a transaction, or lock, save and commit, and clients who keep the list and ask for
`updated-at`. A row is stamped with the second of its statement, not of the commit.

The invariants (`SongBatchHolds`, which `SongBatch` puts together): what is taken from a source is whole and the gate serves
(`DownloadsSound`); every song of WORLD'S END has its chart and a batch that is run again changes
nothing more (`SyncSound`); no song enters the time of a version whose deletion has passed its
check, except by the batch, which the mutex of the process does not reach
(`VersionRangeHeld`). `ManualKept` is what a commit must leave of an administrator's corrections.
Only charts that nobody has edited since the batch's snapshot are covered for constants: for the
others the rule is broken (`SongsKnownConstant.cfg`, finding 5).

`CoursesSound`, of the same invariant: an edit of a course keeps what deletions and restorations did, and they
keep its name, beside each other and beside a batch (`FieldsKept`; `docs/API.md:3502`); a batch leaves
the courses of its sheet as they are there, but for those edited since it began
(`SheetApplied`); a client whose `updated-at` is the current one has the current list
(`KeptListIsCurrent`; `docs/API.md:3433`), as far as no two transactions overlap or stamp in one
second. Without that condition it is false: the client asks between two changes of one second, or while
an earlier stamp is not committed, and never hears of the other. The same query serves songs.

Proved (`SongProofs`), for any configuration of the sources and any number of attempts:
`DownloadsHold`. Whoever asks for a sheet of Google is in the gate, and the gate holds no one
else (`GateInv`), so nobody waits for a gate that is not opened; no faulty row of the
additional sheet is fetched and imported (`FilesInv`), and what an execution goes on without was counted
(`CountInv`).

Proved too, for any songs, sources and edits (`FeedAssumption`: an importer returns values of its
types, which `TLC` checks of the feeds of the run): the types of the tables, `SyncSound`,
`VersionRangeHeld` and `ManualKept`. Each source leaves the workspace sound (`WorkspaceSound`: charts are of songs, a
song of WORLD'S END has its chart, the flags are as MySQL takes them), whatever it has. Rows are
never deleted from the tables, so what a batch saw in its snapshot is still there, perhaps edited, when
it commits (`SeenInv`); it updates what it saw and inserts only what it did not. That a second run
changes nothing is shown row by row and case by case: what the first run wrote is what the
second computes from it. `VersionRangeHeld` rests on the mutex, which every edit of a date holds.

And for any courses, sheets and editors (`CoursesAssumption`: a sheet names courses of the table; the
clock begins at one): `CoursesSound`. The invariant (`CoursesInv`) says why. A row is locked by one
editor, or written by the batch (`CourseLocks`), so what an editor is about to commit differs from the
committed row only in what he was given, and `FieldsKept` survives his commit. Rows that
nobody has touched since the batch began are as the batch saw them, and what it has passed over is as in
the sheet (`SheetInv`), whence `SheetApplied`. And unless two stamps share a second or transactions overlap
(`blurred`), a row that is stamped and not yet committed is later than all that are committed
(`StampsInv`), so that a commit that changes anything moves the latest `updated-at`: a client that has
been told of the last one cannot have missed a change (`KeptInv`). `KeptListIsCurrent` alone is not inductive:
it says nothing of the stamps that wait. `SpecSongBatchHolds` puts the three together.

Bounds: two indexes, two difficulties and three downloads that cover a new song, a song that is
completed by every source, a level that changes and an index that moves; two runs and two
edits. `Downloads` has four of the five sources (the fifth, otoge, goes the way of st1027) and two
attempts; three attempts were explored alone. Two courses, two names, two requests, three transactions
and two seconds: an edit, another and a batch all overlap (three seconds were explored alone).

Worth knowing: an additional sheet that answers with empty pages is accepted as empty; one row with
constant 0 in the sheet of constants passes the parser and makes the importer refuse the whole
source, so that every normal run fails until the sheet is corrected; a song whose only chart
is ULTIMA makes `buildSnapshot` of the recalculation fail; a batch brings back a deleted course that
is still in the sheet; a course that is entered by hand after the batch's snapshot, and is in the
sheet, makes the whole batch fail on its index.

## 8. `ServerCaches`

Source: `infra/masterdata/cache.go`, `infra/repository/overpower_denominator_provider_impl.go`,
`usecase/system_maintenance_usecase.go`.

The content of a table is its generation, the number of commits to it. A client edits versions,
songs or the notice, or reads one of the caches; a commit may be answered with an error. The
versions are reloaded by their writer and, after a failed reload, by any reader; denominators are built
by a reader under a mutex, dropped by writers of songs and after ten minutes (`Expire`, at any time);
the notice is loaded at the start and published when it has been saved, under its mutex. `Restart`
empties everything. `CachesSound` is `ServedFresh` (whoever asks after a writer was answered is
served what that writer wrote or newer, except versions whose own reload fails) and
`PublishedIsStored`, with the types. A cache tells other processes nothing: a second server is
another instance over the same database, and nothing is promised between the two
(`docs/master_data_preload_policy.md`).

Bounds: two clients, two commits to a table, two notices. One client edits or fills while the other
reads; two commits make a fill that is older than what is told.

Proved (`ServerProofs`), for any clients, notices and bounds: `CachesSound`. The
invariant: a mutex is held by who is in its section (`MutexInv`), a cache that is not
stale is at least as new as what writers were told and not newer than the table
(`CacheInv`), what a client expects was told to a writer or is its own, and what it has loaded is
not older (`ExpectInv`), and what is published is what is saved unless a Save was unheard
(`NoticeInv`). `ServedFresh` alone says nothing of a fill that is half-way; `ExpectInv` does.

## 9. `ChartStats`, `SlotPages`, `StaticExport`

`ChartStats` (`usecase/chart_stats_batch_usecase.go`, `infra/repository/chart_stats_batch_repository_impl.go`,
`domain/service`): the calculators, as functions on a sequence of records, and the batch that
reads one snapshot, computes and replaces three tables in one transaction. A table is the set
of the generations it was computed from. `StatsOfOneMoment`: one generation, in the tables and in an export
of them, and never an older one than before unless the lock was lost. The calculators keep one
pass over records that come chart by chart; `StatsByChart` (an ASSUME of `MCServer`) compares them with a
count per chart and band for all sequences of up to three records. How its jobs are recorded
is `BatchJobs` line for line, under another lock and table. Proved (`ServerProofs`), for any
processes, requests and changes: `StatsHold`. `StatsInv` says that as long as no lock was lost only
the lock's holder is between its snapshot and its commit, and that its snapshot is not older than
what is published; an export reads in one snapshot and so inherits the one generation.

`SlotPages` (`infra/repository/best_slot_ranking_query_service_impl.go` and its usecase): a page is three
statements, outside of any transaction; the cursor carries the place of the last chart. `PagesSound`:
places go up, a chart whose row and song stay as they are is shown exactly once, ranks count up when
nothing happens, a cursor that was given out is not refused. The number of players, the rows and
the charts of one page may be of three moments (`docs/API.md:3993`). Bounds: three charts of two songs,
one or two players, limits 1 and 2, one publication, one song that is deleted or restored.

`StaticExport` (`app/staticdataexport`): a run takes the lock of its mode, reads the tables, builds all
files, writes them in their order, and purges the CDN with retries; any step may fail, a call may
fail though it took effect, a process may be killed. `ExportSound`: after a success nothing older
is visible, files are replaced in order, no file is made of an empty table, and a success with no
run since leaves all files of one run. Versions are read before songs, so the files of one run need
not be of one moment, which is what `docs/static_data_export.md` says. Bounds: two runs, two
attempts, one change of a table, one fetch (alone: three runs; two fetches). Proved
(`ServerProofs`), for any runs, levels, attempts, edits and fetches: `ExportHolds`. The invariant orders the
generations: what the run at work has read is at least what is in the objects (`NewerInv`), the
files it has put come in the order of the list (`PutInv`), no object and no copy is older than what
a run has succeeded with (`KnownInv`), and a stage of a run has its steps and the lock
(`StageInv`). Not modelled: a
request of the CDN that is in flight during the purge, and the loss of the lock's connection.
Two deployments (develop and staging) share a bucket but not the database the lock is in.

## 10. `Rating` and `RatingSlots`

Source: `domain/service` (`rating_service.go`, `rating_slot_service.go`, `overpower_summary_service.go`,
`record_completion_service.go`), `usecase/player_data_recalculation_batch.go`,
`infra/repository/overpower_denominator_provider_impl.go`.

`Rating` counts in the integers the code counts in. `RatingSlots` has what is made of them: the slots that
the recalculation rebuilds with its difference to the rows, OVER POWER without locked songs, the
denominators, and the list a profile shows. `RatingsSound`: candidates are the next best,
OVER POWER stays within its denominator, a recalculation leaves valid slots and nothing for the
next one, a profile lists every live chart once. `RatingNeverFalls`: a play that beats its record, and
changes nothing else, never lowers the sum the rating is taken of, through whatever slots it moves.

Bounds: two songs with three charts, three plays (just below a band, in it, the best), constants
13.0 and 14.8, slots of one record, one change after any initial state (all assignments of plays and
constants are initial). `PercentScale` is 10 in the runs because the integers of TLC have 32 bits; the code's
is larger, and the proofs are for every value.

Proved (`ServerProofs`): a single rating is bounded and monotone in the score (the arms of the formula
meet without a fall), so is OVER POWER on charts with a constant of 5 or more, it is within the
maximum of its song, and a percentage is between 0 and 100. These are theorems about
integers: all scores, all constants.
A chart with a constant below 5.0 loses its lamp bonus below 900,000, as
`docs/overpower_calculation.md` says.

## 11. `Goals`

Source: `usecase/goal_usecase_impl.go`, `infra/repository/goal_repository_impl.go`, `domain/entity/goal.go`,
the transfer of goals in `usecase/user_data_transfer_usecase.go`.

One goal, with what it asks (type, parameters, attributes, a gauge), and the master it refers to. It
is checked (`CheckGoal`), written later (`SaveGoal`), exported and imported with names in the place of ids;
versions, songs and constants are edited meanwhile. `GoalsAttainable`: when a goal is accepted it can be
reached (the bounds of the query are those of the rating service), and the OP target of a song is one
chart. `GoalFilesSound`: whatever has happened to the master, a stored goal is valid, can be taken along
unless a version it names is gone, and its file is accepted where the goal would be and says the
same. Bounds: two songs with seven charts, eleven inputs that cover every type, three versions and one
new id, two edits.

Worth knowing: a goal that names a deleted version makes every later export of its owner fail; a song
that is deleted can make an import of old goals refuse.

## 12. `UserResources` and `Accounts`

`UserResources` (tokens, goals and groups, filters, favorites, and their transfer): requests that count lock
the user's row (favorites: the song's and the player's) and then write; others write without.
`ResourcesSound` is the limits, and that what the user has can always be exported as a file that an
import accepts: no list with a gap or a number twice, no goal in a group that is gone. Proved
(`UsersProofs`), for any users, ids, requests and limits: `ResourcesSound`. `ResourcesInv` says that goals and
groups are numbered from 1 without a gap, within the limit, and that what a request has read
under its user's lock is still so: for a writer that locks, because everybody who changes the
numbering of that user locks him too; for one that does not (rename, favorites), because it changes nothing the
others rely on. Deleting a group, moving a goal and importing a file each rewrite a numbering, and are a
lemma each about listings (`IsListing`). `ResourcesAssumption` says that ids do not run out (they are
64-bit) and that transfer files are finite and of their type, which the decoder has checked. Bounds: two
requests at a time, limits 3 goals, 2 groups, 1 of each other, ids with one to spare, four rows
in all, two files.

`Accounts` (`usecase/signup_usecase.go`, `user_credential_usecase.go`, `user_permission_usecase.go`, the
deletions in `user_usecase_impl.go`): a request verifies outside of a transaction, locks and decides in
one, and may delete the Firebase account after it. `AdminRemains`: administrators who remove each
other and each other's role leave one, unless one deletes his own account. `LoginKept`: the
account a user signs in with is not deleted under him, unless it had been another link's before
(`user_credential_usecase.go:317` accepts that). Bounds: three users, three Firebase accounts, two
requests at a time, four in all.

Proved (`UsersProofs`), for any users, accounts, roles and requests: types, `AdminRemains` and `LoginKept`.
The invariant: no two users have one Firebase account (`UniqueInv`); an account that is gone has been
left, that is, linked before and linked now only if again (`GoneInv`); and what a request knows from
before its transaction stays true in the way the transaction needs: an account about to be deleted
has been left, nobody removes himself as administrator (`CallInv`).

Worth knowing: an account that was changed just before `DeleteUser` takes its lock outlives the user.

## 13. `Registration`, `Transfer`, `Honors`

`Registration`: what a sequence of bodies leaves behind. A registration is one step here (`PlayerData` has its
interleavings): records of three kinds, slots, histories of charts and metrics with keys in whole
seconds, courses, kept results. `ToldTruly`: the timeline of a chart and the results of
updates each tell what happened, in order. `ReadyForNext`: slots are ranked 1, 2, ... and a body of a
later second is not refused. Both except a second with two bodies (`crowded`): then the keys
are used up, and the same bodies are answered 409 until their histories are trimmed.

`Transfer` takes a player along in a file, across deletions of songs and courses. `TransferSound`: what
registrations leave can be exported, and an import loses nothing: exported again it is the file that it
came from (`origin`, a history variable). It is not the last file: a player that was imported, and
exported again with a chart deleted, has more than the new file once the chart is restored. One export
hides this, so the run has two.

Proved (`TransferProofs`), for any charts, bodies, times and limits: `ToldTruly`, `ReadyForNext`,
`TransferSound` and the types. The invariant `TransferInv` says of the rows of a player, and of every
file, the same (`PlayerOK`): a chart's history is older than its record, strictly while no second was crowded, and in the
order of its times it is what was sent (`ChartsOK`); no two records of a slot have one rank
(`SlotsOK`), and the main slots have no gap once there is an update (`MainOK`); old metrics are
older than the player (`MetricsOK`); the update of the player's last second, if there is one, has a body whose
metrics and states are those that are stored (`Reflected`), which is why a body that comes again changes nothing
and takes no key of a history twice; and updates add up (`AddUp`). A registration keeps each of these in a
lemma of its own; an export is `PlayerOK` of fewer charts, an import is the file itself. The theorems are about
`AnyTimeSpec`, where a body may also come between an export and its import, and so about `TransferSpec`.

Bounds: four charts (with and without history, one of WORLD'S END), a course, five bodies
(a duplicate that raises a play, a deleted chart, a slot that moves, an order that does not start at 1), four times
in three seconds at four ticks each, a history of one row, metrics of one, two kept results, two
exports, one deletable chart; no registration between an export and its import, because an import
needs an account without a player and sees the file alone.

`Honors`: registrations find or create the honors of a body in transactions that overlap. A unique key sees
uncommitted rows of others, which the snapshot does not; two that wait for each other deadlock, and
the victim goes on without its transaction (the error of `EnsureHonor` is logged and skipped).
`NotifiedOnce`: of every honor with an image somebody is told once, and of no other, up to the first such victim.
Bounds: two players, three honors, three bodies, two registrations, one edit by an administrator.
Proved (`UsersProofs`), for any players, honors, bodies and edits: `NotifiedOnce`. `HonorsInv` follows the uncommitted
rows: each belongs to one registration in progress, which will tell of it or give it up
(`OwnRows`), what is worn is there (`WornRows`), and of an honor that was discovered the news is
out, or with exactly one registration (`NewsInv`).

Worth knowing: the same-second conflict is carried through an export and an import; metrics of
one second make an export fail; a course that was restored between two sendings of a body is written
and not told; charts of deleted songs are accepted by a registration and left out of an export.

## 14. `Profiles`, `Rankings`, `Gate`

`Profiles`: a page reads account, friendship, player, records and songs, one statement each
(`Reads`), while registrations, deletions and changes of privacy commit between them. `ViewsHonest`:
with no change on its way a page is right; a page whose time of update is the one `updated-at`
still says has the current rows, although it came from many statements, because the player is read first; of a
private account nothing is shown to who was not allowed to see it at any moment. Except: deletions
of songs since, and the deletion of a locked song, which advances `players.updated_at` by the clock of the
database, after which a registration may bring the same time again
(`player_locked_song_repository_impl.go:84`). Bounds: four charts (one pair of equal OVER POWER, WORLD'S
END, a course), two bodies, three times, two changes around the request (alone: three bodies and the
page of records by itself).

Proved (`GateProofs`), for any charts, bodies, times and changes: the types and `ViewsHonest`. The
invariant (`ViewInv`) says of every request under way that what it has read is what would be found
now, as long as nothing moved, or as long as the player it has read is still there with the time it
has read (`PiecesOf`). The second is kept because a registration brings a greater time and a
deletion an id never given again (`Moved`, `PlayerOf`); it is why the player has to be read
first, and without the exceptions above it would not hold. That the marks, chosen play by play
in pairs, are those of the greatest OVER POWER of a song is a lemma (`MarksAreRight`); that every kind of
page reads what it is made of is another (`NeedsAre`). Assumed of the catalog: charts of a song are of one
kind and differ in difficulty, and only standard charts are put into slots.

Worth knowing: a song restored between the reads of records and songs shows a played chart as not
played; a friend can be refused though always allowed, when privacy and friendship both
change between their reads; `is_op_target` ignores locks (`docs/API.md:3604`).

`Rankings`: ranks count who is better; the ranking among friends, that of administrators and the comparison of
two agree with each other (`RankingsHold`). Bounds: three users, two charts, scores 0 and 1, the
limit of administrators 2, four changes. The administrators' ranking counts before it lists, so its
total may be of another moment.

`Gate`: the middlewares of every group of routes in the order in which `router.go` puts them: maintenance,
session or token, role, permission, limits. Roles, sessions, tokens and the maintenance change
between them. `HandledRightly`: whoever is handled was, at some moment since the request came,
allowed to be; `RateHeld`: no window of a store lets more pass than the limit, and any time as
long as a window at most twice as many. `Cleanup` of old entries never opens a window early. Bounds: one person, two requests,
one change, a window of one tick, a clock of two (alone: window 2, three requests, two changes). The
compatibility APIs have stores of their own.

Proved (`GateProofs`), for any callers, limits, windows and bounds: the types and `GateHolds`. For
`HandledRightly` the invariant says of every request that what its route promises has been seen, or the
middleware that asks for it is still among those it has to pass (`OnTheWay`); that the order of the router's
lists leaves none out is a lemma about the lists. For `RateHeld` an entry of a store describes the last
window that anybody was let through in (`RateInv`): windows of one store and caller do not overlap,
none has more than the limit, and a stretch as long as a window meets at most two of them.

## 15. The composite runs

| Run | Question | Distinct states |
| --- | --- | --- |
| `Server.cfg` | sections 7 to 11 | about 1.26 million |
| `Users.cfg` | sections 6 and 12 to 14 | about 1.44 million |
| `SongsKnownConstant.cfg` | does a normal run keep known constants (finding 5) | stops at the violation |

Both say `CHECK_DEADLOCK FALSE`: every part has a bound on its changes and stops when it is used
up (what could block for good is stated as an invariant instead: `NoDeadlock`, `GateServes`). `UsersTypeOK` is the types of the users' parts; the invariants of the server's
run have the types of their part inside. In `Users.cfg` the two requests of a part are interchangeable
(`MCSymmetry`): the code tells them apart by what they ask and when, never by which they are.

None of these parts states fairness: their promises are of safety. Requests to Firebase, Google, the bucket and the CDN are external and
modelled by what the code does with their answers: they may fail, and fail though they took effect.

## 16. What is only model-checked, and what is not modelled

Only model-checked, on the instances above: liveness (`EverythingEnds`), which the prover does not
reach, and every property of `PROJECT.json` that is not under `theorems`. Sums over finite sets can be
proved about, with a smallest counterexample in the place of an induction (`TempDataProofs`); sequences that
are filtered, sorted or folded (`SelectSeq`, `SetToSortSeq`, `FoldLeft`: the calculators, `RankingsHold`,
`PagesHold`, `RatingsHold`, the files of `GoalFilesHold`) cannot, because the provers do not
see into those operators. `UsersTypeOK` joins the types of parts, of which `Accounts`, `Friendships`,
`UserResources`, `Honors` and `Transfer` are proved each for itself.

Not modelled: the normalisation of titles and of folder names, and the
creation and renaming of versions and tokens that are one guarded statement each; the files' signature, compression and size; CORS, limits of bodies, DTOs,
validation messages, logs; the chunirec and reiwa views; counts of users and the reading of
histories, which are single queries. The record of the chart-statistics jobs is the protocol of
`BatchJobs`. Lock waits have no timeout of their own (a wait that ends badly is `RollBack`). A
panic in a registration, which would leave the claim of its upload until it expires, is left out.

## 17. Findings

1. *Two batches at once.* README and comment promise that one song batch runs at a time; the
   lock is bound to a session nobody watches (`BatchJobsOneAtATime.cfg`).
2. *A lock that stays.* Recording the result and releasing the lock share one 10 second timeout
   (`BatchJobsLockLeak.cfg`).
3. *Newer data refused.* A registration with a fraction of half a second or more is compared
   with its own rounded time and refused (`PlayerDataFraction.cfg`).
4. *Friends without a request.* Removing a friend takes no lock, and an acceptance that has read
   the request re-inserts the rows that the removal has deleted (`FriendshipsRemoval.cfg`).
5. *A known constant becomes unknown.* The batch writes constants that it computed from its first
   reads; one that an administrator has entered since is overwritten
   (`SongsKnownConstant.cfg`).
