----------------------------- MODULE PlayerData -----------------------------
(***************************************************************************)
(* A player's scores and the values calculated from them.  Four writers    *)
(* change them, each in a transaction of its own: the registration of      *)
(* collected data, the edit of the player's locked songs, the logical      *)
(* deletion of a song (which deletes the locks on it), and the nightly     *)
(* recalculation.  The recalculation skips a player whose fingerprint says *)
(* that its calculated values come from the current master, so every other *)
(* writer must take that fingerprint away.                                 *)
(*                                                                         *)
(* A transaction is modelled by the points where another one can come in   *)
(* between: the row locks it waits for.  It reads through a snapshot       *)
(* (REPEATABLE READ) taken after its first lock, keeps what it writes to   *)
(* itself and installs it when it commits.                                 *)
(*                                                                         *)
(* A song stands for a chart with its song and its lock (song, is_ultima); *)
(* best and new slots are "slots"; candidates and slot order are left out. *)
(* A calculated value is the set of (song, score) pairs it is a function   *)
(* of.  A master is what its fingerprint hashes: the songs that are not    *)
(* deleted and the current game version.                                   *)
(***************************************************************************)
EXTENDS Naturals, FiniteSets

CONSTANTS
  User, Song,
  Request,          \* requests that run concurrently, over all the servers
  Body,             \* bodies a client may register
  Scores,           \* Scores[b][s]: score of song s in body b, 0 if absent
  Slots,            \* Slots[b]: songs of body b in a best or new slot
  Rating,           \* Rating[b]: official metrics of body b
  LastPlayed,       \* LastPlayed[b]: game version of the last play in body b
  None,
  TicksPerSecond,   \* resolution of the clients' updated_at
  PageSize,         \* playerDataBatchPageSize
  UpdateLimit,      \* info.PlayerUpdateHistoryLimit
  MaxScore,
  Time,             \* bounds of the model: the values of updated_at, in ticks,
  MaxPlayers,       \*   how many players are ever inserted,
  MaxVersion        \*   game versions

Version == 1 .. MaxVersion
Id == 1 .. MaxPlayers

ASSUME PlayerDataAssumption ==
  /\ MaxScore \in Nat /\ MaxPlayers \in Nat /\ Time \subseteq Nat \ {0}
  /\ MaxVersion \in Nat \ {0}
  /\ TicksPerSecond \in Nat \ {0}
  /\ PageSize \in Nat \ {0}
  /\ UpdateLimit \in Nat \ {0}
  /\ Scores \in [Body -> [Song -> 0 .. MaxScore]]
  /\ Slots \in [Body -> SUBSET Song]
  /\ \A b \in Body : \A s \in Slots[b] : Scores[b][s] # 0
  /\ Rating \in [Body -> Nat]
  /\ LastPlayed \in [Body -> Version]
  /\ None \notin User \cup Song \cup Request \cup {"batch"}
  /\ "batch" \notin Request

Master == [live : SUBSET Song, version : Version]
ASSUME NoneIsNoMaster == None \notin Master

Pair == Song \X (1 .. MaxScore)
Player == [owner : User \cup {None}, collected : Nat, official : Nat,
           lastPlayed : Version \cup {0}, rating : SUBSET Pair,
           op : SUBSET Pair, fp : Master \cup {None}]
Data == [records : [Song -> 0 .. MaxScore], slots : SUBSET Song,
         locked : SUBSET Song, updates : SUBSET [time : Time, body : Body]]

NoPlayer == [owner |-> None, collected |-> 0, official |-> 0, lastPlayed |-> 0,
             rating |-> {}, op |-> {}, fp |-> None]
NoData == [records |-> [s \in Song |-> 0], slots |-> {}, locked |-> {},
           updates |-> {}]

VARIABLES
  master,      \* songs and versions
  players,     \* the table players
  data,        \* the rows that belong to a player, deleted with it
  linked,      \* users.player_id, 0 for NULL
  next,        \* AUTO_INCREMENT of players
  userLock, playerLock, songLock,   \* the transaction that has a row locked
  tx,          \* the transactions of the requests
  batch        \* the recalculation

vars == <<master, players, data, linked, next, userLock, playerLock, songLock,
          tx, batch>>
tables == <<master, players, data, linked, next>>
locks == <<userLock, playerLock, songLock>>

NoBatch == [pc |-> "idle", m |-> None, upper |-> 0, after |-> 0, keys |-> {},
            id |-> 0, draft |-> NoPlayer, failed |-> {}, touched |-> {}]
NoTx == [pc |-> "idle", user |-> None, id |-> 0, time |-> 0, body |-> None,
         song |-> None, add |-> {}, del |-> {}, live |-> {},
         draft |-> NoPlayer]

\* What a transaction has done so far.
InProgress == {"ensured", "editing", "retiring", "invalidated"}

Transaction ==
  [pc : {"idle"} \cup InProgress,
   user : User \cup {None}, id : Id \cup {0}, time : Time \cup {0},
   body : Body \cup {None}, song : Song \cup {None},
   add : SUBSET Song, del : SUBSET Song, live : SUBSET Song, draft : Player]

Recalculation ==
  [pc : {"idle", "stopped", "listing", "locked"}, m : Master \cup {None},
   upper : Id \cup {0}, after : Id \cup {0},
   keys : SUBSET [id : Id, collected : Nat], id : Id \cup {0},
   draft : Player, failed : SUBSET Id, touched : SUBSET Id]

TypeOK ==
  /\ master \in Master
  /\ players \in [Id -> Player]
  /\ data \in [Id -> Data]
  /\ linked \in [User -> Id \cup {0}]
  /\ next \in 1 .. MaxPlayers + 1
  /\ userLock \in [User -> Request \cup {None}]
  /\ playerLock \in [Id -> Request \cup {"batch", None}]
  /\ songLock \in [Song -> Request \cup {None}]
  /\ tx \in [Request -> Transaction]
  /\ batch \in Recalculation

Init ==
  /\ master = [live |-> Song, version |-> 1]
  /\ players = [i \in Id |-> NoPlayer]
  /\ data = [i \in Id |-> NoData]
  /\ linked = [u \in User |-> 0]
  /\ next = 1
  /\ userLock = [u \in User |-> None]
  /\ playerLock = [i \in Id |-> None]
  /\ songLock = [s \in Song |-> None]
  /\ tx = [r \in Request |-> NoTx]
  /\ batch = NoBatch

-----------------------------------------------------------------------------
(* What is calculated from a player's rows *)

\* Mutant: a song without a record counts.
Overpower_Unplayed(d, live) == {<<s, d.records[s]>> : s \in live \ d.locked}

\* OVER POWER counts the played songs that are neither deleted nor locked.
Overpower(d, live) ==
  {<<s, d.records[s]>> : s \in {z \in live \ d.locked : d.records[z] # 0}}

\* The rating counts the records in a best or new slot.
RatingOf(records, slots, live) ==
  {<<s, records[s]>> : s \in {z \in slots \cap live : records[z] # 0}}

\* buildUpdate keeps the registered slots of a player who has played in the
\* current version and rebuilds them for any other, or when they are all empty
\* although there is something to put into them.
Eligible(d, m) == {s \in m.live : d.records[s] # 0}
Rebuilds(p, d, m) ==
  \/ p.lastPlayed < m.version
  \/ d.slots = {} /\ Eligible(d, m) # {}
NewSlots(p, d, m) == IF Rebuilds(p, d, m) THEN Eligible(d, m) ELSE d.slots

\* ChangeCalculatedRatings, ChangeOverpower, MarkRecalculated.
Recalculated(p, d, m) ==
  [p EXCEPT !.rating = RatingOf(d.records, NewSlots(p, d, m), m.live),
            !.op = Overpower(d, m.live),
            !.fp = m]

-----------------------------------------------------------------------------
(* Row locks *)

PlayersOf(u) == {i \in Id : players[i].owner = u}

Unlocked(i) == playerLock[i] = None
LockPlayer(r, i) == playerLock' = [playerLock EXCEPT ![i] = r]

Without(lock, r) == [x \in DOMAIN lock |-> IF lock[x] = r THEN None ELSE lock[x]]
ReleaseLocks(r) ==
  /\ userLock' = Without(userLock, r)
  /\ playerLock' = Without(playerLock, r)
  /\ songLock' = Without(songLock, r)
EndTx(r) == tx' = [tx EXCEPT ![r] = NoTx] /\ ReleaseLocks(r)

\* History variable: the players another writer has changed since the
\* recalculation loaded its snapshot.
Touch(I) ==
  batch' = IF batch.pc \in {"idle", "stopped"} THEN batch
           ELSE [batch EXCEPT !.touched = @ \cup I]

-----------------------------------------------------------------------------
(* Registration *)

\* timestamp columns hold whole seconds; MySQL rounds half up.
ToSeconds(t) ==
  ((2 * t + TicksPerSecond) \div (2 * TicksPerSecond)) * TicksPerSecond

\* Mutant: registrations are taken in the order they arrive.
Stale_Never(t, collected) == FALSE

\* ChangeOfficialMetrics and ValidateInputIdentity.
Stale(t, collected) == t < collected
MetricsConflict(t, b, p) == t = p.collected /\ Rating[b] # p.official
Newest(U) == {v \in U : \A w \in U : w.time <= v.time}
BodyConflict(t, b, U) == \E v \in Newest(U) : v.time = t /\ v.body # b
Conflict(t, b, p, U) ==
  Stale(t, p.collected) \/ MetricsConflict(t, b, p) \/ BodyConflict(t, b, U)

\* SaveLatestUpdate keeps the newest UpdateLimit results.
Keep(U) == {v \in U : Cardinality({w \in U : w.time > v.time}) < UpdateLimit}

\* ensurePlayer: profile and official metrics are replaced (the OVER POWER is
\* not calculated yet); the snapshot is taken right after.
Ensured(p, u, t, b) ==
  [p EXCEPT !.owner = u, !.collected = t, !.official = Rating[b],
            !.lastPlayed = LastPlayed[b], !.fp = None]
Ensure(r, u, t, b, i, p) ==
  /\ userLock' = [userLock EXCEPT ![u] = r]
  /\ LockPlayer(r, i)
  /\ tx' = [tx EXCEPT ![r] = [NoTx EXCEPT !.pc = "ensured", !.user = u,
                !.time = t, !.body = b, !.id = i, !.draft = Ensured(p, u, t, b),
                !.live = master.live]]
  /\ UNCHANGED <<master, players, data, linked, songLock, batch>>

\* The user's row is locked, then the player's.
RegisterEnsuresPlayer(r, u, t, b, i) ==
  /\ tx[r].pc = "idle"
  /\ userLock[u] = None
  /\ players[i].owner = u
  /\ Unlocked(i)
  /\ ~Conflict(t, b, players[i], data[i].updates)
  /\ Ensure(r, u, t, b, i, players[i])
  /\ UNCHANGED next

RegisterInsertsPlayer(r, u, t, b) ==
  /\ tx[r].pc = "idle"
  /\ userLock[u] = None
  /\ PlayersOf(u) = {}
  /\ next \in Id
  /\ next' = next + 1
  /\ Ensure(r, u, t, b, next, NoPlayer)

\* ensurePlayer once more, with the player as the first one has stored it; and
\* SaveLatestUpdate, which compares the body with the result of the same time.
StoredIsNewer(r) == Stale(tx[r].time, ToSeconds(tx[r].time))
SavedDifferently(r) ==
  \E v \in data[tx[r].id].updates : v.time = tx[r].time /\ v.body # tx[r].body
RegisterConflictsLate(r) ==
  /\ tx[r].pc = "ensured"
  /\ StoredIsNewer(r) \/ SavedDifferently(r)
  /\ EndTx(r)
  /\ UNCHANGED <<tables, batch>>

Link(u, i) == linked' = [linked EXCEPT ![u] = i]

Registered(d, r) ==
  [d EXCEPT !.records = [s \in Song |-> IF Scores[tx[r].body][s] # 0
                                          THEN Scores[tx[r].body][s] ELSE @[s]],
            !.slots = Slots[tx[r].body],
            !.updates = Keep(@ \cup {[time |-> tx[r].time, body |-> tx[r].body]})]

RegisteredPlayer(r, d) ==
  [tx[r].draft EXCEPT !.collected = ToSeconds(@),
                      !.op = Overpower(d, tx[r].live),
                      !.rating = RatingOf(d.records, d.slots, tx[r].live)]

\* Inserting the first record of a chart waits for an editor of its song (the
\* foreign key check reads the chart row).
RegisterCommits(r) ==
  LET i == tx[r].id
      d == Registered(data[i], r)
  IN /\ tx[r].pc = "ensured"
     /\ ~StoredIsNewer(r) /\ ~SavedDifferently(r)
     /\ \A s \in Song : d.records[s] # 0 /\ data[i].records[s] = 0
                          => songLock[s] = None
     /\ data' = [data EXCEPT ![i] = d]
     /\ players' = [players EXCEPT ![i] = RegisteredPlayer(r, d)]
     /\ Link(tx[r].user, i)
     /\ Touch({i})
     /\ EndTx(r)
     /\ UNCHANGED <<master, next>>

-----------------------------------------------------------------------------
(* Deletion of a user's player data *)

DeletePlayer(u) ==
  LET I == PlayersOf(u)
  IN /\ userLock[u] = None
     /\ I # {}
     /\ \A i \in I : Unlocked(i)
     /\ players' = [i \in Id |-> IF i \in I THEN NoPlayer ELSE players[i]]
     /\ data' = [i \in Id |-> IF i \in I THEN NoData ELSE data[i]]
     /\ linked' = [linked EXCEPT ![u] = 0]
     /\ UNCHANGED <<master, next, locks, tx, batch>>

-----------------------------------------------------------------------------
(* Locked songs: Lock adds one, Unlock takes one away, Batch does both *)

EditBegins(r, i, add, del) ==
  /\ tx[r].pc = "idle"
  /\ players[i].owner # None
  /\ Unlocked(i)
  /\ LockPlayer(r, i)
  /\ add \cup del # {}
  /\ add \subseteq master.live
  /\ tx' = [tx EXCEPT ![r] = [NoTx EXCEPT !.pc = "editing", !.id = i,
                !.add = add, !.del = del, !.draft = players[i],
                !.live = master.live]]
  /\ UNCHANGED <<tables, userLock, songLock, batch>>

\* Inserting a lock waits for an editor of its song (foreign key check).
EditCommits(r) ==
  LET i == tx[r].id
      d == [data[i] EXCEPT !.locked = (@ \cup tx[r].add) \ tx[r].del]
  IN /\ tx[r].pc = "editing"
     /\ \A s \in tx[r].add \ data[i].locked : songLock[s] = None
     /\ data' = [data EXCEPT ![i] = d]
     /\ players' = [players EXCEPT ![i] =
          [tx[r].draft EXCEPT !.op = Overpower(d, tx[r].live), !.fp = None]]
     /\ Touch({i})
     /\ EndTx(r)
     /\ UNCHANGED <<master, linked, next>>

-----------------------------------------------------------------------------
(* The master: songs are deleted (logically, with the locks on them) and        *)
(* restored, and a game version becomes the current one.                       *)

DeleteSongLocks(r, s) ==
  /\ tx[r].pc = "idle"
  /\ songLock[s] = None
  /\ songLock' = [songLock EXCEPT ![s] = r]
  /\ tx' = [tx EXCEPT ![r] = [NoTx EXCEPT !.pc = "retiring", !.song = s]]
  /\ UNCHANGED <<tables, userLock, playerLock, batch>>

Holders(s) == {i \in Id : s \in data[i].locked}

\* Mutant: the deletion of a song leaves the fingerprints as they are.
Invalidated_Kept(I) == players

\* What DeleteBySongID does to the players that have the song locked.
Invalidated(I) ==
  [i \in Id |-> IF i \in I THEN [players[i] EXCEPT !.fp = None] ELSE players[i]]

\* DeleteBySongID first updates, and so locks, the row of every player that has
\* the song locked.
DeleteSongInvalidates(r) ==
  LET I == Holders(tx[r].song)
  IN /\ tx[r].pc = "retiring"
     /\ \A i \in I : Unlocked(i)
     /\ playerLock' = [i \in Id |-> IF i \in I THEN r ELSE playerLock[i]]
     /\ tx' = [tx EXCEPT ![r].pc = "invalidated"]
     /\ UNCHANGED <<tables, userLock, songLock, batch>>

DeleteSongCommits(r) ==
  LET s == tx[r].song
      I == {i \in Id : playerLock[i] = r}
  IN /\ tx[r].pc = "invalidated"
     /\ master' = [master EXCEPT !.live = @ \ {s}]
     /\ players' = Invalidated(I)
     /\ data' = [i \in Id |-> [data[i] EXCEPT !.locked = @ \ {s}]]
     /\ Touch(I)
     /\ EndTx(r)
     /\ UNCHANGED <<linked, next>>

RestoreSong(s) ==
  /\ songLock[s] = None
  /\ s \notin master.live
  /\ master' = [master EXCEPT !.live = @ \cup {s}]
  /\ UNCHANGED <<players, data, linked, next, locks, tx, batch>>

NewVersion ==
  /\ master.version < MaxVersion
  /\ master' = [master EXCEPT !.version = @ + 1]
  /\ UNCHANGED <<players, data, linked, next, locks, tx, batch>>

\* Any transaction may fail before it commits: an error, a cancelled request, a
\* lock wait that times out, the victim of a deadlock.
RollBack(r) ==
  /\ tx[r].pc # "idle"
  /\ EndTx(r)
  /\ UNCHANGED <<tables, batch>>

-----------------------------------------------------------------------------
(* Recalculation *)

Existing == {i \in Id : players[i].owner # None}

BatchLoadsSnapshot ==
  /\ batch.pc \in {"idle", "stopped"}
  /\ \E upper \in Existing \cup {0} :
       /\ \A i \in Existing : i <= upper
       /\ batch' = [NoBatch EXCEPT !.pc = "listing", !.m = master, !.upper = upper]
  /\ UNCHANGED <<tables, locks, tx>>

\* Mutant: "<> ?" alone, which SQL does not find true of NULL.
Outdated_NotNull ==
  {i \in Existing : batch.after < i /\ i <= batch.upper
                    /\ players[i].fp \notin {batch.m, None}}

\* ListPlayerKeys: one page, in the order of the ids.
Outdated ==
  {i \in Existing : batch.after < i /\ i <= batch.upper
                    /\ players[i].fp # batch.m}
Page ==
  {i \in Outdated : Cardinality({j \in Outdated : j < i}) < PageSize}
BatchListsKeys ==
  /\ batch.pc = "listing"
  /\ batch.keys = {}
  /\ \E last \in Page :
       /\ \A i \in Page : i <= last
       /\ batch' = [batch EXCEPT !.after = last,
            !.keys = {[id |-> i, collected |-> players[i].collected] : i \in Page}]
  /\ UNCHANGED <<tables, locks, tx>>

BatchFinishes ==
  /\ batch.pc = "listing"
  /\ batch.keys = {}
  /\ Page = {}
  /\ batch' = NoBatch
  /\ UNCHANGED <<tables, locks, tx>>

IsNextKey(k) == k \in batch.keys /\ \A l \in batch.keys : k.id <= l.id

Conflicts(k) == players[k.id].collected # k.collected

\* ProcessPlayer: the row is locked and read, unless it is gone or has been
\* registered again since the page was read.
BatchSkips(k) ==
  /\ batch.pc = "listing"
  /\ IsNextKey(k)
  /\ Unlocked(k.id)
  /\ players[k.id].owner = None \/ Conflicts(k)
  /\ batch' = [batch EXCEPT !.keys = @ \ {k}]
  /\ UNCHANGED <<tables, locks, tx>>

\* Mutant: the player is read without FOR UPDATE.
BatchLocksPlayer_Unlocked(k) ==
  /\ batch.pc = "listing"
  /\ IsNextKey(k)
  /\ players[k.id].owner # None /\ ~Conflicts(k)
  /\ batch' = [batch EXCEPT !.pc = "locked", !.keys = @ \ {k}, !.id = k.id,
                            !.draft = players[k.id]]
  /\ UNCHANGED <<tables, locks, tx>>

BatchLocksPlayer(k) ==
  /\ batch.pc = "listing"
  /\ IsNextKey(k)
  /\ Unlocked(k.id)
  /\ players[k.id].owner # None /\ ~Conflicts(k)
  /\ LockPlayer("batch", k.id)
  /\ batch' = [batch EXCEPT !.pc = "locked", !.keys = @ \ {k}, !.id = k.id,
                            !.draft = players[k.id]]
  /\ UNCHANGED <<tables, userLock, songLock, tx>>

BatchSavesPlayer ==
  LET i == batch.id
  IN /\ batch.pc = "locked"
     /\ players' = [players EXCEPT ![i] =
                      Recalculated(batch.draft, data[i], batch.m)]
     /\ data' = [data EXCEPT ![i].slots =
                   NewSlots(batch.draft, data[i], batch.m)]
     /\ batch' = [batch EXCEPT !.pc = "listing", !.id = 0, !.draft = NoPlayer]
     /\ playerLock' = Without(playerLock, "batch")
     /\ UNCHANGED <<master, linked, next, userLock, songLock, tx>>

\* One player fails; the run goes on with the next one.
BatchFailsPlayer ==
  /\ batch.pc = "locked"
  /\ batch' = [batch EXCEPT !.pc = "listing", !.id = 0, !.draft = NoPlayer,
                            !.failed = @ \cup {batch.id}]
  /\ playerLock' = Without(playerLock, "batch")
  /\ UNCHANGED <<tables, userLock, songLock, tx>>

\* The context is cancelled (a signal) or the process dies.
BatchStops ==
  /\ batch.pc \in {"listing", "locked"}
  /\ batch' = [NoBatch EXCEPT !.pc = "stopped"]
  /\ playerLock' = Without(playerLock, "batch")
  /\ UNCHANGED <<tables, userLock, songLock, tx>>

-----------------------------------------------------------------------------
RegisterStep(r) ==
  \/ \E u \in User, t \in Time, b \in Body :
       \/ \E i \in Id : RegisterEnsuresPlayer(r, u, t, b, i)
       \/ RegisterInsertsPlayer(r, u, t, b)
  \/ RegisterConflictsLate(r)
  \/ RegisterCommits(r)

EditStep(r) ==
  \/ \E i \in Id, add, del \in SUBSET Song : EditBegins(r, i, add, del)
  \/ EditCommits(r)

DeleteSongStep(r) ==
  \/ \E s \in Song : DeleteSongLocks(r, s)
  \/ DeleteSongInvalidates(r)
  \/ DeleteSongCommits(r)

BatchStep ==
  \/ BatchLoadsSnapshot
  \/ BatchListsKeys
  \/ BatchFinishes
  \/ \E k \in batch.keys : BatchSkips(k) \/ BatchLocksPlayer(k)
  \/ BatchSavesPlayer
  \/ BatchFailsPlayer
  \/ BatchStops

Next ==
  \/ \E r \in Request :
       RegisterStep(r) \/ EditStep(r) \/ DeleteSongStep(r) \/ RollBack(r)
  \/ \E u \in User : DeletePlayer(u)
  \/ \E s \in Song : RestoreSong(s)
  \/ NewVersion
  \/ BatchStep

Spec == Init /\ [][Next]_vars

-----------------------------------------------------------------------------
(* Properties *)

\* A player whose fingerprint is that of a master has the values, and the
\* slots, that recalculating it with that master would give: skipping it
\* (ListPlayerKeys) loses nothing, even when a song was deleted and restored
\* and the master is the old one again.
FingerprintSound ==
  \A i \in Id : players[i].fp # None =>
    /\ Recalculated(players[i], data[i], players[i].fp) = players[i]
    /\ NewSlots(players[i], data[i], players[i].fp) = data[i].slots

\* A player shows what was collected in the last second that has a result,
\* whatever the order in which the registrations arrive and whoever else writes
\* the row.  (Within one second the results may come in any order: the column
\* data_collected_at cannot tell them apart, and the history may be full of
\* newer results of that second, so that it does not keep the shown one.)
NewestDataShown ==
  \A i \in Id : data[i].updates # {} => \E v \in [time : Time, body : Body] :
    /\ \/ v \in data[i].updates
       \/ /\ Cardinality(data[i].updates) >= UpdateLimit
          /\ \A w \in data[i].updates : w.time > v.time
    /\ \A w \in data[i].updates : ToSeconds(w.time) <= ToSeconds(v.time)
    /\ players[i].collected = ToSeconds(v.time)
    /\ players[i].official = Rating[v.body]
    /\ \A s \in Song : Scores[v.body][s] # 0
                         => data[i].records[s] = Scores[v.body][s]

\* A user has at most one player, and users.player_id says which.
LinkedBothWays ==
  \A u \in User : PlayersOf(u) = {linked[u]} \ {0}

\* A player shows the newest data, and its user has a link to it.
ShownAndLinked == NewestDataShown /\ LinkedBothWays

\* data_collected_at of a player never goes back.
CollectedNeverGoesBack ==
  [][\A i \in Id : (players[i].owner # None /\ players'[i].owner # None)
       => players'[i].collected >= players[i].collected]_vars

\* When a recalculation ends, each player that was there when it loaded the
\* master has been recalculated with it, or was changed by someone else
\* meanwhile (and waits for the next run), or has failed and was counted.
BatchMissesNobody ==
  [][(batch.pc = "listing" /\ batch'.pc = "idle")
       => \A i \in Existing : \/ i > batch.upper
                              \/ players[i].fp = batch.m
                              \/ i \in batch.touched \cup batch.failed]_vars

\* Data newer than everything the player has registered is not refused.
NewerIsAccepted ==
  \A r \in Request :
    /\ tx[r].pc = "ensured"
    /\ \A v \in data[tx[r].id].updates : v.time < tx[r].time
    => ~StoredIsNewer(r)
=============================================================================
