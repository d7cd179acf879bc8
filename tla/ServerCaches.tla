----------------------------- MODULE ServerCaches -----------------------------
(***************************************************************************)
(* What a server keeps in memory of tables that it and others write: the   *)
(* versions, which their writers reload and any reader reloads when a      *)
(* reload has failed; the denominators of OVER POWER, built by a reader,   *)
(* dropped by writers of songs and after ten minutes; and the state of     *)
(* maintenance, loaded at the start and replaced when it has been saved.   *)
(*                                                                         *)
(* The content of a table is its generation: the number of commits to it.  *)
(* A commit may be answered with an error (the acknowledgement is lost).   *)
(***************************************************************************)
EXTENDS Integers, FiniteSets

CONSTANTS
  Client,      \* goroutines that serve requests
  Nobody,
  Notice,      \* states of maintenance: off, or on with a comment
  Off,
  MaxCommits   \* bound on the commits to a table

ASSUME CachesAssumption == Off \in Notice /\ MaxCommits \in Nat /\ Nobody \notin Client

VARIABLES
  db,          \* generations of versions and songs, and the saved notice
  cache,       \* versions, whether they are stale; denominators or -1
  notice,      \* the published state of maintenance
  mutex,       \* holders of the mutexes
  client,      \* what each request is doing
  told,        \* generations whose writer has been answered
  doubt        \* a Save of maintenance was answered with an error

cachesVars == <<db, cache, notice, mutex, client, told, doubt>>

Mutex == {"update", "reload", "denominators", "maintenance"}
Stage == {"idle", "versionTx", "reload", "query", "publish", "read", "songTx",
          "invalidate", "denominators", "build", "store", "served"}
\* Where a request is, with the generation it wrote or may expect, and the one it read.
Work(pc, gen, loaded) == [pc |-> pc, gen |-> gen, loaded |-> loaded]
Resting == Work("idle", 0, 0)
NoSnapshot == -1

Generation == 0 .. MaxCommits

CachesTypeOK ==
  /\ db.versions \in Generation /\ db.songs \in Generation /\ db.notice \in Notice
  /\ cache.versions \in Generation /\ cache.stale \in BOOLEAN
  /\ cache.denominators \in Generation \cup {NoSnapshot}
  /\ notice \in Notice
  /\ mutex \in [Mutex -> Client \cup {Nobody}]
  /\ client \in [Client -> [pc : Stage, gen : Generation, loaded : Generation]
                            \cup [pc : {"save"}, notice : Notice]]
  /\ told.versions \in Generation /\ told.songs \in Generation
  /\ doubt \in BOOLEAN

CachesInit ==
  /\ db = [versions |-> 0, songs |-> 0, notice |-> Off]
  /\ cache = [versions |-> 0, stale |-> FALSE, denominators |-> NoSnapshot]
  /\ notice = Off
  /\ mutex = [m \in Mutex |-> Nobody]
  /\ client = [c \in Client |-> Resting]
  /\ told = [versions |-> 0, songs |-> 0]
  /\ doubt = FALSE

-----------------------------------------------------------------------------
Stands(c, pc) == client[c].pc = pc
Free(m) == mutex[m] = Nobody
Goes(c, state) == client' = [client EXCEPT ![c] = state]
Takes(c, m) == Free(m) /\ mutex' = [mutex EXCEPT ![m] = c]
Releases(ms) == mutex' = [m \in Mutex |-> IF m \in ms THEN Nobody ELSE mutex[m]]

\* Create, Rename, Delete of a version hold updateMu to the end of the reload.
BeginVersionWrite(c) ==
  /\ Stands(c, "idle") /\ Takes(c, "update")
  /\ Goes(c, Work("versionTx", 0, 0))
  /\ UNCHANGED <<db, cache, notice, told, doubt>>

CommitVersion(c) ==
  /\ Stands(c, "versionTx") /\ db.versions < MaxCommits
  /\ db' = [db EXCEPT !.versions = @ + 1]
  /\ \/ Goes(c, Work("reload", db.versions + 1, 0)) /\ UNCHANGED mutex
     \/ Goes(c, Resting) /\ Releases({"update"})    \* acknowledgement lost
  /\ UNCHANGED <<cache, notice, told, doubt>>

FailVersion(c) ==
  /\ Stands(c, "versionTx")
  /\ Goes(c, Resting) /\ Releases({"update"})
  /\ UNCHANGED <<db, cache, notice, told, doubt>>

\* AdminVersions, PublicVersionsByID
BeginVersionRead(c) ==
  /\ Stands(c, "idle")
  /\ Goes(c, Work(IF cache.stale THEN "reload" ELSE "read", told.versions, 0))
  /\ UNCHANGED <<db, cache, notice, mutex, told, doubt>>

Writes(c) == mutex["update"] = c

\* A writer answers its client, a reader goes on to read.
Reloaded(c, failed) ==
  IF Writes(c)
  THEN /\ Goes(c, Resting)
       /\ told' = [told EXCEPT !.versions = client[c].gen]
       /\ Releases({"reload", "update"})
  ELSE /\ Goes(c, Work("read", IF failed THEN 0 ELSE client[c].gen, 0))
       /\ Releases({"reload"}) /\ UNCHANGED told

\* ReloadVersions: one at a time, from before the query to the publication.
LockReload(c) ==
  /\ Stands(c, "reload") /\ Takes(c, "reload")
  /\ Goes(c, Work("query", client[c].gen, 0))
  /\ UNCHANGED <<db, cache, notice, told, doubt>>

QueryVersions(c) ==
  /\ Stands(c, "query")
  /\ Goes(c, Work("publish", client[c].gen, db.versions))
  /\ UNCHANGED <<db, cache, notice, mutex, told, doubt>>

\* An error, or VersionCacheReloadTimeout: whoever reads next tries again.
FailReload(c) ==
  /\ Stands(c, "query")
  /\ cache' = [cache EXCEPT !.stale = TRUE]
  /\ Reloaded(c, TRUE)
  /\ UNCHANGED <<db, notice, doubt>>

PublishVersions(c) ==
  /\ Stands(c, "publish")
  /\ cache' = [cache EXCEPT !.versions = client[c].loaded, !.stale = FALSE]
  /\ Reloaded(c, FALSE)
  /\ UNCHANGED <<db, notice, doubt>>

ReadVersions(c) ==
  /\ Stands(c, "read")
  /\ Goes(c, Work("served", client[c].gen, cache.versions))
  /\ UNCHANGED <<db, cache, notice, mutex, told, doubt>>

Answer(c) ==
  /\ Stands(c, "served") /\ Goes(c, Resting)
  /\ UNCHANGED <<db, cache, notice, mutex, told, doubt>>
-----------------------------------------------------------------------------
\* Any edit of a song, or a batch run by this server, commits and then invalidates.
CommitSongs(c) ==
  /\ Stands(c, "idle") /\ db.songs < MaxCommits
  /\ db' = [db EXCEPT !.songs = @ + 1]
  /\ Goes(c, Work("invalidate", db.songs + 1, 0))
  /\ UNCHANGED <<cache, notice, mutex, told, doubt>>

\* Invalidate waits for the mutex, hence for a build.
Invalidate(c) ==
  /\ Stands(c, "invalidate") /\ Free("denominators")
  /\ cache' = [cache EXCEPT !.denominators = NoSnapshot]
  /\ told' = [told EXCEPT !.songs = IF @ < client[c].gen THEN client[c].gen ELSE @]
  /\ Goes(c, Resting)
  /\ UNCHANGED <<db, notice, mutex, doubt>>

\* The batch from the command line, an edit whose acknowledgement is lost, an edit
\* of WORLD'S END: no one invalidates.
CommitElsewhere ==
  /\ db.songs < MaxCommits
  /\ db' = [db EXCEPT !.songs = @ + 1]
  /\ UNCHANGED <<cache, notice, mutex, client, told, doubt>>

\* The snapshot is older than its TTL.
Expire ==
  /\ cache.denominators # NoSnapshot
  /\ cache' = [cache EXCEPT !.denominators = NoSnapshot]
  /\ UNCHANGED <<db, notice, mutex, client, told, doubt>>

Serves(c, asked, got) ==
  Goes(c, Work("served", asked, got))

\* Snapshot, with the read lock
BeginSnapshot(c) ==
  /\ Stands(c, "idle")
  /\ IF cache.denominators # NoSnapshot
     THEN Free("denominators") /\ Serves(c, told.songs, cache.denominators)
     ELSE Goes(c, Work("denominators", told.songs, 0))
  /\ UNCHANGED <<db, cache, notice, mutex, told, doubt>>

\* Snapshot, with the lock: it looks again before it builds.
LockSnapshot(c) ==
  /\ Stands(c, "denominators") /\ Free("denominators")
  /\ IF cache.denominators # NoSnapshot
     THEN Serves(c, client[c].gen, cache.denominators) /\ UNCHANGED mutex
     ELSE /\ Takes(c, "denominators")
          /\ Goes(c, Work("build", client[c].gen, 0))
  /\ UNCHANGED <<db, cache, notice, told, doubt>>

\* buildSnapshot: one SELECT; or an error, and nothing is kept.
BuildSnapshot(c) ==
  /\ Stands(c, "build")
  /\ \/ /\ Goes(c, Work("store", client[c].gen, db.songs))
        /\ UNCHANGED mutex
     \/ Goes(c, Resting) /\ Releases({"denominators"})
  /\ UNCHANGED <<db, cache, notice, told, doubt>>

StoreSnapshot(c) ==
  /\ Stands(c, "store")
  /\ cache' = [cache EXCEPT !.denominators = client[c].loaded]
  /\ Serves(c, client[c].gen, client[c].loaded)
  /\ Releases({"denominators"})
  /\ UNCHANGED <<db, notice, told, doubt>>
-----------------------------------------------------------------------------
\* Update: a state that is published already is answered without a Save.
BeginMaintenance(c) ==
  /\ Stands(c, "idle")
  /\ \E n \in Notice \ {notice} :
       Takes(c, "maintenance") /\ Goes(c, [pc |-> "save", notice |-> n])
  /\ UNCHANGED <<db, cache, notice, told, doubt>>

\* Mutant: the state is published although Save was answered with an error.
SaveMaintenance_PublishFirst(c) ==
  /\ Stands(c, "save")
  /\ notice' = client[c].notice
  /\ \/ db' = [db EXCEPT !.notice = client[c].notice] /\ doubt' = FALSE
     \/ UNCHANGED <<db, doubt>>
     \/ db' = [db EXCEPT !.notice = client[c].notice] /\ doubt' = TRUE
  /\ Goes(c, Resting) /\ Releases({"maintenance"})
  /\ UNCHANGED <<cache, told>>

\* Save succeeds and the state is published; or fails; or succeeds unheard.
SaveMaintenance(c) ==
  /\ Stands(c, "save")
  /\ \/ /\ db' = [db EXCEPT !.notice = client[c].notice]
        /\ notice' = client[c].notice /\ doubt' = FALSE
     \/ UNCHANGED <<db, notice, doubt>>
     \/ /\ db' = [db EXCEPT !.notice = client[c].notice]
        /\ doubt' = TRUE /\ UNCHANGED notice
  /\ Goes(c, Resting) /\ Releases({"maintenance"})
  /\ UNCHANGED <<cache, told>>

\* The process stops, for whatever reason, and a new one loads what is stored.
Restart ==
  /\ cache' = [versions |-> db.versions, stale |-> FALSE, denominators |-> NoSnapshot]
  /\ notice' = db.notice /\ doubt' = FALSE
  /\ mutex' = [m \in Mutex |-> Nobody]
  /\ client' = [c \in Client |-> Resting]
  /\ UNCHANGED <<db, told>>

CachesNext ==
  \/ \E c \in Client :
       \/ BeginVersionWrite(c) \/ CommitVersion(c) \/ FailVersion(c)
       \/ BeginVersionRead(c) \/ LockReload(c) \/ QueryVersions(c) \/ FailReload(c)
       \/ PublishVersions(c) \/ ReadVersions(c) \/ Answer(c)
       \/ CommitSongs(c) \/ Invalidate(c)
       \/ BeginSnapshot(c) \/ LockSnapshot(c) \/ BuildSnapshot(c) \/ StoreSnapshot(c)
       \/ BeginMaintenance(c) \/ SaveMaintenance(c)
  \/ CommitElsewhere \/ Expire \/ Restart

CachesSpec == CachesInit /\ [][CachesNext]_cachesVars
-----------------------------------------------------------------------------
\* Whoever asks after a writer was answered is served what that writer wrote, or
\* newer: for versions, unless its own reload fails, when it gets what there is
\* (docs/master_data_preload_policy.md: hot reload within a process); for
\* denominators, none that were built before the edit was answered.
ServedFresh ==
  \A c \in Client : Stands(c, "served") => client[c].loaded >= client[c].gen

\* The published state of maintenance is the stored one, so that a restart does not
\* change it; unless a Save was made unheard and no Save was heard of since.
PublishedIsStored == Free("maintenance") /\ ~doubt => notice = db.notice

\* What this process keeps in memory can be told.
\* (masterdata/cache.go, overpower_denominator_provider_impl.go, system_maintenance_usecase.go)
CachesSound == CachesTypeOK /\ ServedFresh /\ PublishedIsStored
=============================================================================
