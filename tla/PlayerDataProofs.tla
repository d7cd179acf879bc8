-------------------------- MODULE PlayerDataProofs --------------------------
(***************************************************************************)
(* What holds of player data for any number of users, songs, requests and  *)
(* players: the types, that the fingerprint of a player can be trusted by  *)
(* the recalculation, which misses nobody, and that a player shows its     *)
(* newest data, is linked with its user and does not go back in time.      *)
(***************************************************************************)
EXTENDS PlayerData, FiniteSetTheorems, WellFoundedInduction, TLAPS

\* Whoever is going to write a player has its row locked, the recalculation
\* writes the row as it was when it locked it, and the deletion of a song has
\* locked the row of every player that has the song locked.
LockInv ==
  /\ \A r \in Request :
       /\ tx[r].pc \in {"ensured", "editing"} =>
            tx[r].id \in Id /\ playerLock[tx[r].id] = r
       /\ tx[r].pc = "ensured" =>
            /\ tx[r].user \in User /\ tx[r].body \in Body /\ tx[r].time \in Time
            /\ tx[r].draft.fp = None
       /\ tx[r].pc \in {"retiring", "invalidated"} =>
            tx[r].song \in Song /\ songLock[tx[r].song] = r
       /\ tx[r].pc = "invalidated" =>
            \A i \in Id : tx[r].song \in data[i].locked => playerLock[i] = r
  /\ batch.pc \in {"listing", "locked"} => batch.m \in Master
  /\ batch.pc = "locked" =>
       /\ batch.id \in Id /\ playerLock[batch.id] = "batch"
       /\ batch.draft = players[batch.id]

\* The ids that AUTO_INCREMENT has not given out are in no table and not locked.
FreshInv ==
  \A i \in Id : i >= next =>
    playerLock[i] = None /\ players[i].owner = None /\ data[i].locked = {}

IInv == TypeOK /\ LockInv /\ FreshInv

-----------------------------------------------------------------------------
(* The operators *)

LEMMA CalculatedTypes ==
  ASSUME NEW d \in Data, NEW live \in SUBSET Song
  PROVE  /\ Overpower(d, live) \in SUBSET Pair
         /\ RatingOf(d.records, d.slots, live) \in SUBSET Pair
BY PlayerDataAssumption DEF Overpower, RatingOf, Pair, Data

LEMMA SecondsAreNat ==
  ASSUME NEW t \in Nat
  PROVE  ToSeconds(t) \in Nat
<1>1. TicksPerSecond \in Nat \ {0}
  BY PlayerDataAssumption
<1>2. (2 * t + TicksPerSecond) \in Nat /\ (2 * TicksPerSecond) \in Nat \ {0}
  BY <1>1
<1>3. \A a \in Nat, b \in Nat \ {0} : a \div b \in Nat
  OBVIOUS
<1> DEFINE q == (2 * t + TicksPerSecond) \div (2 * TicksPerSecond)
<1>4. q \in Nat
  BY <1>2, <1>3
<1> HIDE DEF q
<1>5. q * TicksPerSecond \in Nat
  BY <1>1, <1>4
<1> QED
  BY <1>5 DEF ToSeconds, q

LEMMA NewSlotsType ==
  ASSUME NEW p \in Player, NEW d \in Data, NEW m \in Master
  PROVE  NewSlots(p, d, m) \in SUBSET Song
BY DEF NewSlots, Eligible, Master, Data

LEMMA RecalculatedType ==
  ASSUME NEW p \in Player, NEW d \in Data, NEW m \in Master
  PROVE  Recalculated(p, d, m) \in Player
<1> DEFINE e == [d EXCEPT !.slots = NewSlots(p, d, m)]
<1>1. e \in Data /\ m.live \in SUBSET Song
  BY NewSlotsType DEF Data, Master
<1>2. /\ Overpower(d, m.live) \in SUBSET Pair
      /\ RatingOf(e.records, e.slots, m.live) \in SUBSET Pair
  BY <1>1, CalculatedTypes
<1>3. e.records = d.records /\ e.slots = NewSlots(p, d, m)
  BY DEF Data
<1> HIDE DEF e
<1> QED
  BY <1>2, <1>3 DEF Recalculated, Player

\* Recalculating a player again with the same master changes nothing.
LEMMA RecalculationIsIdempotent ==
  ASSUME NEW p \in Player, NEW d \in Data, NEW m \in Master
  PROVE  LET q == Recalculated(p, d, m)
             e == [d EXCEPT !.slots = NewSlots(p, d, m)]
         IN /\ NewSlots(q, e, m) = e.slots
            /\ Recalculated(q, e, m) = q
<1> DEFINE q == Recalculated(p, d, m)
           e == [d EXCEPT !.slots = NewSlots(p, d, m)]
<1>1. /\ e.records = d.records /\ e.locked = d.locked
      /\ e.slots = NewSlots(p, d, m)
      /\ q.lastPlayed = p.lastPlayed
      /\ q.rating = RatingOf(d.records, NewSlots(p, d, m), m.live)
      /\ q.op = Overpower(d, m.live)
      /\ q.fp = m
  BY DEF Data, Player, Recalculated
<1>2. Eligible(e, m) = Eligible(d, m)
  BY <1>1 DEF Eligible
<1>3. NewSlots(q, e, m) = e.slots
  BY <1>1, <1>2 DEF NewSlots, Rebuilds
<1>4. Overpower(e, m.live) = Overpower(d, m.live)
  BY <1>1 DEF Overpower
<1>5. q \in Player
  BY RecalculatedType
<1>6. Recalculated(q, e, m) = [q EXCEPT !.rating = q.rating, !.op = q.op, !.fp = q.fp]
  BY <1>1, <1>3, <1>4 DEF Recalculated
<1> HIDE DEF q, e
<1>7. Recalculated(q, e, m) = q
  BY <1>5, <1>6 DEF Player
<1> QED
  BY <1>3, <1>7 DEF q, e

-----------------------------------------------------------------------------
(* Transactions end *)

LEMMA EndTxResult ==
  ASSUME TypeOK, NEW r \in Request, EndTx(r)
  PROVE  /\ tx' \in [Request -> Transaction]
         /\ userLock' \in [User -> Request \cup {None}]
         /\ playerLock' \in [Id -> Request \cup {"batch", None}]
         /\ songLock' \in [Song -> Request \cup {None}]
         /\ tx'[r].pc = "idle"
         /\ \A q \in Request \ {r} : tx'[q] = tx[q]
         /\ \A i \in Id : playerLock'[i] = playerLock[i] \/ playerLock[i] = r
         /\ \A s \in Song : songLock'[s] = songLock[s] \/ songLock[s] = r
<1>1. NoTx \in Transaction /\ NoTx.pc = "idle"
  BY PlayerDataAssumption
     DEF NoTx, Transaction, InProgress, NoPlayer, Player
<1>2. /\ tx' \in [Request -> Transaction]
      /\ tx'[r].pc = "idle"
      /\ \A q \in Request \ {r} : tx'[q] = tx[q]
  <2> HIDE DEF NoTx
  <2> QED
    BY <1>1 DEF TypeOK, EndTx
<1>3. /\ userLock' \in [User -> Request \cup {None}]
      /\ playerLock' \in [Id -> Request \cup {"batch", None}]
      /\ songLock' \in [Song -> Request \cup {None}]
  BY DEF TypeOK, EndTx, ReleaseLocks, Without
<1>4. \A i \in Id : playerLock'[i] = playerLock[i] \/ playerLock[i] = r
  BY DEF TypeOK, EndTx, ReleaseLocks, Without
<1>5. \A s \in Song : songLock'[s] = songLock[s] \/ songLock[s] = r
  BY DEF TypeOK, EndTx, ReleaseLocks, Without
<1> QED
  BY <1>2, <1>3, <1>4, <1>5

\* A transaction that writes nothing, or only rows of players it has locked.
LEMMA EndTxLockInv ==
  ASSUME IInv, NEW r \in Request, EndTx(r),
         batch'.pc = batch.pc, batch'.m = batch.m, batch'.id = batch.id,
         batch'.draft = batch.draft,
         \A i \in Id : playerLock[i] # r => players'[i] = players[i],
         \A i \in Id : \A s \in data'[i].locked :
           s \in data[i].locked \/ songLock[s] = None
  PROVE  LockInv'
<1>1. /\ tx'[r].pc = "idle"
      /\ \A q \in Request \ {r} : tx'[q] = tx[q]
      /\ \A i \in Id : playerLock'[i] = playerLock[i] \/ playerLock[i] = r
      /\ \A s \in Song : songLock'[s] = songLock[s] \/ songLock[s] = r
  BY EndTxResult DEF IInv
<1>2. (batch.pc \in {"listing", "locked"} => batch.m \in Master)'
  BY DEF IInv, LockInv
<1>3. (batch.pc = "locked" =>
         /\ batch.id \in Id /\ playerLock[batch.id] = "batch"
         /\ batch.draft = players[batch.id])'
  BY <1>1, PlayerDataAssumption DEF IInv, LockInv
<1>4. ASSUME NEW q \in Request, tx'[q].pc # "idle"
      PROVE  /\ q # r /\ tx'[q] = tx[q]
             /\ \A i \in Id : playerLock[i] = q => playerLock'[i] = q
             /\ \A s \in Song : songLock[s] = q => songLock'[s] = q
  BY <1>1, <1>4
<1>5. ASSUME NEW q \in Request
      PROVE  /\ (tx[q].pc \in {"ensured", "editing"} =>
                   tx[q].id \in Id /\ playerLock[tx[q].id] = q)'
             /\ (tx[q].pc = "ensured" =>
                   /\ tx[q].user \in User /\ tx[q].body \in Body
                   /\ tx[q].time \in Time /\ tx[q].draft.fp = None)'
             /\ (tx[q].pc \in {"retiring", "invalidated"} =>
                   tx[q].song \in Song /\ songLock[tx[q].song] = q)'
  BY <1>4 DEF IInv, LockInv
<1>6. ASSUME NEW q \in Request, tx'[q].pc = "invalidated", NEW i \in Id,
             tx'[q].song \in data'[i].locked
      PROVE  playerLock'[i] = q
  <2>1. tx'[q] = tx[q] /\ tx[q].song \in Song /\ songLock[tx[q].song] = q
    BY <1>4, <1>6 DEF IInv, LockInv
  <2>2. q # None
    BY PlayerDataAssumption
  <2>3. tx[q].song \in data[i].locked
    BY <1>6, <2>1, <2>2
  <2>4. playerLock[i] = q
    BY <1>6, <2>1, <2>3 DEF IInv, LockInv
  <2> QED
    BY <1>4, <1>6, <2>4
<1> QED
  BY <1>2, <1>3, <1>5, <1>6 DEF LockInv

-----------------------------------------------------------------------------
(* Transactions go on: they take locks that are free and write nothing yet *)

\* LockInv for one transaction.
TxLockInv(r) ==
  /\ tx[r].pc \in {"ensured", "editing"} =>
       tx[r].id \in Id /\ playerLock[tx[r].id] = r
  /\ tx[r].pc = "ensured" =>
       /\ tx[r].user \in User /\ tx[r].body \in Body /\ tx[r].time \in Time
       /\ tx[r].draft.fp = None
  /\ tx[r].pc \in {"retiring", "invalidated"} =>
       tx[r].song \in Song /\ songLock[tx[r].song] = r
  /\ tx[r].pc = "invalidated" =>
       \A i \in Id : tx[r].song \in data[i].locked => playerLock[i] = r

LEMMA ContinueLockInv ==
  ASSUME IInv, NEW r \in Request, UNCHANGED <<players, data, batch>>,
         \A q \in Request \ {r} : tx'[q] = tx[q],
         \A i \in Id : playerLock'[i] = playerLock[i] \/ playerLock[i] = None,
         \A s \in Song : songLock'[s] = songLock[s] \/ songLock[s] = None,
         TxLockInv(r)'
  PROVE  LockInv'
<1>1. ASSUME NEW q \in Request \ {r}
      PROVE  TxLockInv(q)'
  <2>1. q # None /\ tx'[q] = tx[q] /\ TxLockInv(q)
    BY PlayerDataAssumption DEF IInv, LockInv, TxLockInv
  <2> QED
    BY <2>1 DEF TxLockInv
<1>2. \A q \in Request : TxLockInv(q)'
  BY <1>1
<1>3. (batch.pc \in {"listing", "locked"} => batch.m \in Master)'
  BY DEF IInv, LockInv
<1>4. (batch.pc = "locked" =>
         /\ batch.id \in Id /\ playerLock[batch.id] = "batch"
         /\ batch.draft = players[batch.id])'
  BY PlayerDataAssumption DEF IInv, LockInv
<1> QED
  BY <1>2, <1>3, <1>4 DEF LockInv, TxLockInv

LEMMA NoTxType == NoTx \in Transaction
BY PlayerDataAssumption DEF NoTx, Transaction, InProgress, NoPlayer, Player

LEMMA EnsureIInv ==
  ASSUME IInv, NEW r \in Request, NEW u \in User, NEW t \in Time, NEW b \in Body,
         NEW i \in Id, NEW p \in Player, Unlocked(i), Ensure(r, u, t, b, i, p),
         next' \in 1 .. MaxPlayers + 1, next' >= next, i < next'
  PROVE  IInv'
<1> DEFINE new == [NoTx EXCEPT !.pc = "ensured", !.user = u, !.time = t, !.body = b,
                   !.id = i, !.draft = Ensured(p, u, t, b), !.live = master.live]
<1>1. Ensured(p, u, t, b) \in Player /\ Ensured(p, u, t, b).fp = None
  BY PlayerDataAssumption DEF Ensured, Player
<1>2. /\ new \in Transaction
      /\ new.pc = "ensured" /\ new.user = u /\ new.time = t /\ new.body = b
      /\ new.id = i /\ new.draft = Ensured(p, u, t, b)
  <2>1. master.live \in SUBSET Song
    BY DEF IInv, TypeOK, Master
  <2> QED
    BY <1>1, <2>1, NoTxType DEF Transaction, InProgress
<1>3. tx' = [tx EXCEPT ![r] = new]
  BY DEF Ensure
<1> HIDE DEF new
<1>4. TypeOK'
  BY <1>2, <1>3 DEF IInv, TypeOK, Ensure, LockPlayer
<1>5. TxLockInv(r)'
  BY <1>1, <1>2, <1>3 DEF IInv, TypeOK, Ensure, LockPlayer, TxLockInv
<1>6. LockInv'
  <2>1. /\ UNCHANGED <<players, data, batch, songLock>>
        /\ \A q \in Request \ {r} : tx'[q] = tx[q]
        /\ \A j \in Id : playerLock'[j] = playerLock[j] \/ playerLock[j] = None
    BY <1>3 DEF IInv, TypeOK, Ensure, LockPlayer, Unlocked
  <2> QED
    BY <1>5, <2>1, ContinueLockInv
<1>7. FreshInv'
  BY PlayerDataAssumption DEF IInv, TypeOK, FreshInv, Ensure, LockPlayer, Id
<1> QED
  BY <1>4, <1>6, <1>7 DEF IInv

LEMMA RegisterBeginsIInv ==
  ASSUME IInv, NEW r \in Request, NEW u \in User, NEW t \in Time, NEW b \in Body,
         \/ \E i \in Id : RegisterEnsuresPlayer(r, u, t, b, i)
         \/ RegisterInsertsPlayer(r, u, t, b)
  PROVE  IInv'
<1>1. ASSUME NEW i \in Id, RegisterEnsuresPlayer(r, u, t, b, i)
      PROVE  IInv'
  <2>1. players[i].owner # None
    BY <1>1, PlayerDataAssumption DEF RegisterEnsuresPlayer
  <2>2. i < next
    BY <2>1, PlayerDataAssumption DEF IInv, TypeOK, FreshInv, Id
  <2> QED
    BY <1>1, <2>2, EnsureIInv DEF RegisterEnsuresPlayer, IInv, TypeOK
<1>2. CASE RegisterInsertsPlayer(r, u, t, b)
  <2>1. NoPlayer \in Player
    BY DEF NoPlayer, Player
  <2>2. next \in Id /\ next' \in 1 .. MaxPlayers + 1 /\ next' = next + 1
    BY <1>2, PlayerDataAssumption DEF RegisterInsertsPlayer, Id
  <2>3. Unlocked(next)
    BY <2>2 DEF IInv, FreshInv, Unlocked, Id
  <2>4. next' >= next /\ next < next'
    BY <2>2 DEF Id
  <2> QED
    BY <1>2, <2>1, <2>2, <2>3, <2>4, EnsureIInv DEF RegisterInsertsPlayer
<1> QED
  BY <1>1, <1>2

LEMMA EditBeginsIInv ==
  ASSUME IInv, NEW r \in Request, NEW i \in Id, NEW add \in SUBSET Song,
         NEW del \in SUBSET Song, EditBegins(r, i, add, del)
  PROVE  IInv'
<1> DEFINE new == [NoTx EXCEPT !.pc = "editing", !.id = i, !.add = add, !.del = del,
                   !.draft = players[i], !.live = master.live]
<1>1. /\ new \in Transaction
      /\ new.pc = "editing" /\ new.id = i
  <2>1. master.live \in SUBSET Song /\ players[i] \in Player
    BY DEF IInv, TypeOK, Master
  <2> QED
    BY <2>1, NoTxType DEF Transaction, InProgress
<1>2. tx' = [tx EXCEPT ![r] = new]
  BY DEF EditBegins
<1> HIDE DEF new
<1>3. TypeOK'
  BY <1>1, <1>2 DEF IInv, TypeOK, EditBegins, LockPlayer, tables
<1>4. TxLockInv(r)'
  BY <1>1, <1>2 DEF IInv, TypeOK, EditBegins, LockPlayer, TxLockInv
<1>5. LockInv'
  <2>1. /\ UNCHANGED <<players, data, batch, songLock>>
        /\ \A q \in Request \ {r} : tx'[q] = tx[q]
        /\ \A j \in Id : playerLock'[j] = playerLock[j] \/ playerLock[j] = None
    BY <1>2 DEF IInv, TypeOK, EditBegins, LockPlayer, Unlocked, tables
  <2> QED
    BY <1>4, <2>1, ContinueLockInv
<1>6. FreshInv'
  <2>1. players[i].owner # None
    BY DEF EditBegins
  <2> QED
    BY <2>1 DEF IInv, TypeOK, FreshInv, EditBegins, LockPlayer, tables
<1> QED
  BY <1>3, <1>5, <1>6 DEF IInv

LEMMA DeleteSongLocksIInv ==
  ASSUME IInv, NEW r \in Request, NEW s \in Song, DeleteSongLocks(r, s)
  PROVE  IInv'
<1> DEFINE new == [NoTx EXCEPT !.pc = "retiring", !.song = s]
<1>1. new \in Transaction /\ new.pc = "retiring" /\ new.song = s
  BY NoTxType DEF Transaction, InProgress
<1>2. tx' = [tx EXCEPT ![r] = new]
  BY DEF DeleteSongLocks
<1> HIDE DEF new
<1>3. TypeOK'
  BY <1>1, <1>2 DEF IInv, TypeOK, DeleteSongLocks, tables
<1>4. TxLockInv(r)'
  BY <1>1, <1>2 DEF IInv, TypeOK, DeleteSongLocks, TxLockInv
<1>5. LockInv'
  <2>1. /\ UNCHANGED <<players, data, batch, playerLock>>
        /\ \A q \in Request \ {r} : tx'[q] = tx[q]
        /\ \A z \in Song : songLock'[z] = songLock[z] \/ songLock[z] = None
    BY <1>2 DEF IInv, TypeOK, DeleteSongLocks, tables
  <2> QED
    BY <1>4, <2>1, ContinueLockInv
<1>6. FreshInv'
  BY DEF IInv, FreshInv, DeleteSongLocks, tables
<1> QED
  BY <1>3, <1>5, <1>6 DEF IInv

LEMMA DeleteSongInvalidatesIInv ==
  ASSUME IInv, NEW r \in Request, DeleteSongInvalidates(r)
  PROVE  IInv'
<1> DEFINE s == tx[r].song
           new == [tx[r] EXCEPT !.pc = "invalidated"]
<1>1. s \in Song /\ songLock[s] = r
  BY DEF IInv, LockInv, DeleteSongInvalidates
<1>2. new \in Transaction /\ new.pc = "invalidated" /\ new.song = s
  <2>1. tx[r] \in Transaction
    BY DEF IInv, TypeOK
  <2> QED
    BY <2>1 DEF Transaction, InProgress
<1>3. tx' = [tx EXCEPT ![r] = new]
  BY DEF DeleteSongInvalidates
<1> HIDE DEF new, s
<1>4. \A i \in Id : playerLock'[i] = IF i \in Holders(s) THEN r ELSE playerLock[i]
  BY DEF DeleteSongInvalidates, s
<1>5. \A i \in Holders(s) : playerLock[i] = None
  BY DEF DeleteSongInvalidates, s, Unlocked
<1>6. TypeOK'
  BY <1>2, <1>3 DEF IInv, TypeOK, DeleteSongInvalidates, tables
<1>7. TxLockInv(r)'
  BY <1>1, <1>2, <1>3, <1>4
     DEF IInv, TypeOK, DeleteSongInvalidates, TxLockInv, Holders, tables
<1>8. LockInv'
  <2>1. /\ UNCHANGED <<players, data, batch, songLock>>
        /\ \A q \in Request \ {r} : tx'[q] = tx[q]
    BY <1>3 DEF IInv, TypeOK, DeleteSongInvalidates, tables
  <2>2. \A j \in Id : playerLock'[j] = playerLock[j] \/ playerLock[j] = None
    BY <1>4, <1>5
  <2> QED
    BY <1>7, <2>1, <2>2, ContinueLockInv
<1>9. FreshInv'
  BY <1>4 DEF IInv, FreshInv, DeleteSongInvalidates, Holders, tables
<1> QED
  BY <1>6, <1>8, <1>9 DEF IInv

-----------------------------------------------------------------------------
(* Transactions commit or roll back *)

\* The recalculation only notes that someone else has written.
LEMMA TouchResult ==
  ASSUME TypeOK, NEW I \in SUBSET Id, Touch(I)
  PROVE  /\ batch' \in Recalculation
         /\ batch'.pc = batch.pc /\ batch'.m = batch.m
         /\ batch'.id = batch.id /\ batch'.draft = batch.draft
BY DEF TypeOK, Touch, Recalculation

LEMMA RollBackIInv ==
  ASSUME IInv, NEW r \in Request, EndTx(r), UNCHANGED <<tables, batch>>
  PROVE  IInv'
<1>1. TypeOK'
  BY EndTxResult DEF IInv, TypeOK, tables
<1>2. LockInv'
  <2>1. /\ UNCHANGED <<players, data, batch>>
    BY DEF tables
  <2> QED
    BY <2>1, EndTxLockInv
<1>3. FreshInv'
  <2>1. \A i \in Id : playerLock'[i] = playerLock[i] \/ playerLock[i] = r
    BY EndTxResult DEF IInv
  <2> QED
    BY <2>1, PlayerDataAssumption DEF IInv, FreshInv, tables
<1> QED
  BY <1>1, <1>2, <1>3 DEF IInv

\* A commit that writes one player whose row the transaction has locked.
LEMMA CommitIInv ==
  ASSUME IInv, NEW r \in Request, NEW i \in Id, playerLock[i] = r, EndTx(r), Touch({i}),
         NEW p \in Player, NEW d \in Data,
         players' = [players EXCEPT ![i] = p], data' = [data EXCEPT ![i] = d],
         \A s \in d.locked : s \in data[i].locked \/ songLock[s] = None,
         linked' \in [User -> Id \cup {0}], UNCHANGED <<master, next>>
  PROVE  IInv'
<1>1. /\ batch' \in Recalculation
      /\ batch'.pc = batch.pc /\ batch'.m = batch.m
      /\ batch'.id = batch.id /\ batch'.draft = batch.draft
  BY TouchResult DEF IInv
<1>2. /\ players' \in [Id -> Player] /\ data' \in [Id -> Data]
      /\ \A j \in Id \ {i} : players'[j] = players[j] /\ data'[j] = data[j]
      /\ data'[i] = d
  BY DEF IInv, TypeOK
<1>3. TypeOK'
  BY <1>1, <1>2, EndTxResult DEF IInv, TypeOK
<1>4. LockInv'
  BY <1>1, <1>2, EndTxLockInv
<1>5. FreshInv'
  <2>1. r # None
    BY PlayerDataAssumption
  <2>2. \A j \in Id : playerLock'[j] = playerLock[j] \/ playerLock[j] = r
    BY EndTxResult DEF IInv
  <2>3. ~(i >= next)
    BY <2>1 DEF IInv, FreshInv
  <2> QED
    BY <1>2, <2>1, <2>2, <2>3 DEF IInv, FreshInv
<1> QED
  BY <1>3, <1>4, <1>5 DEF IInv

LEMMA KeepType ==
  ASSUME NEW U \in SUBSET [time : Time, body : Body]
  PROVE  Keep(U) \in SUBSET [time : Time, body : Body]
BY DEF Keep

LEMMA RegisteredTypes ==
  ASSUME IInv, NEW r \in Request, tx[r].pc = "ensured"
  PROVE  LET d == Registered(data[tx[r].id], r)
         IN /\ d \in Data /\ d.locked = data[tx[r].id].locked
            /\ RegisteredPlayer(r, d) \in Player /\ RegisteredPlayer(r, d).fp = None
<1> DEFINE i == tx[r].id
           d == Registered(data[i], r)
           U == data[i].updates \cup {[time |-> tx[r].time, body |-> tx[r].body]}
           records == [s \in Song |-> IF Scores[tx[r].body][s] # 0
                                        THEN Scores[tx[r].body][s]
                                        ELSE data[i].records[s]]
<1>1. /\ i \in Id /\ tx[r].body \in Body /\ tx[r].time \in Time
      /\ tx[r].draft.fp = None
  BY DEF IInv, LockInv
<1>2. /\ data[i] \in Data /\ tx[r].draft \in Player /\ tx[r].live \in SUBSET Song
  BY <1>1 DEF IInv, TypeOK, Transaction
<1>3. records \in [Song -> 0 .. MaxScore]
  BY <1>1, <1>2, PlayerDataAssumption DEF Data
<1>4. Slots[tx[r].body] \in SUBSET Song
  BY <1>1, PlayerDataAssumption
<1>5. Keep(U) \in SUBSET [time : Time, body : Body]
  <2>1. U \in SUBSET [time : Time, body : Body]
    BY <1>1, <1>2 DEF Data
  <2> QED
    BY <2>1, KeepType
<1>6. d = [data[i] EXCEPT !.records = records, !.slots = Slots[tx[r].body],
                          !.updates = Keep(U)]
  BY DEF Registered
<1>7. d \in Data /\ d.locked = data[i].locked
  <2> HIDE DEF i, d, U, records
  <2> QED
    BY <1>2, <1>3, <1>4, <1>5, <1>6 DEF Data
<1>8. /\ Overpower(d, tx[r].live) \in SUBSET Pair
      /\ RatingOf(d.records, d.slots, tx[r].live) \in SUBSET Pair
  BY <1>2, <1>7, CalculatedTypes
<1>9. ToSeconds(tx[r].draft.collected) \in Nat
  BY <1>2, SecondsAreNat DEF Player
<1>10. RegisteredPlayer(r, d) \in Player /\ RegisteredPlayer(r, d).fp = None
  <2> HIDE DEF d, i
  <2> QED
    BY <1>1, <1>2, <1>8, <1>9 DEF RegisteredPlayer, Player
<1> QED
  BY <1>7, <1>10

LEMMA RegisterCommitsIInv ==
  ASSUME IInv, NEW r \in Request, RegisterCommits(r)
  PROVE  IInv'
<1> DEFINE i == tx[r].id
           d == Registered(data[i], r)
           p == RegisteredPlayer(r, d)
<1>1. i \in Id /\ playerLock[i] = r /\ tx[r].user \in User
  BY DEF IInv, LockInv, RegisterCommits
<1>2. p \in Player /\ d \in Data /\ d.locked = data[i].locked
  BY RegisteredTypes DEF RegisterCommits
<1>3. linked' \in [User -> Id \cup {0}]
  BY <1>1 DEF IInv, TypeOK, RegisterCommits, Link
<1>4. /\ players' = [players EXCEPT ![i] = p] /\ data' = [data EXCEPT ![i] = d]
      /\ EndTx(r) /\ Touch({i}) /\ UNCHANGED <<master, next>>
  BY DEF RegisterCommits
<1> HIDE DEF i, d, p
<1> QED
  BY <1>1, <1>2, <1>3, <1>4, CommitIInv

LEMMA EditedTypes ==
  ASSUME IInv, NEW r \in Request, tx[r].pc = "editing"
  PROVE  LET d == [data[tx[r].id] EXCEPT !.locked = (@ \cup tx[r].add) \ tx[r].del]
             p == [tx[r].draft EXCEPT !.op = Overpower(d, tx[r].live), !.fp = None]
         IN /\ d \in Data
            /\ d.locked = (data[tx[r].id].locked \cup tx[r].add) \ tx[r].del
            /\ p \in Player /\ p.fp = None
<1> DEFINE d == [data[tx[r].id] EXCEPT !.locked = (@ \cup tx[r].add) \ tx[r].del]
<1>1. tx[r].id \in Id
  BY DEF IInv, LockInv
<1>2. /\ data[tx[r].id] \in Data /\ tx[r].draft \in Player
      /\ tx[r].live \in SUBSET Song /\ tx[r].add \in SUBSET Song
  BY <1>1 DEF IInv, TypeOK, Transaction
<1>3. /\ d \in Data
      /\ d.locked = (data[tx[r].id].locked \cup tx[r].add) \ tx[r].del
  BY <1>2 DEF Data
<1>4. Overpower(d, tx[r].live) \in SUBSET Pair
  BY <1>2, <1>3, CalculatedTypes
<1> HIDE DEF d
<1> QED
  BY <1>2, <1>3, <1>4 DEF Player, d

LEMMA EditCommitsIInv ==
  ASSUME IInv, NEW r \in Request, EditCommits(r)
  PROVE  IInv'
<1> DEFINE i == tx[r].id
           d == [data[i] EXCEPT !.locked = (@ \cup tx[r].add) \ tx[r].del]
           p == [tx[r].draft EXCEPT !.op = Overpower(d, tx[r].live), !.fp = None]
<1>1. i \in Id /\ playerLock[i] = r
  BY DEF IInv, LockInv, EditCommits
<1>2. /\ p \in Player /\ d \in Data
      /\ d.locked = (data[i].locked \cup tx[r].add) \ tx[r].del
  BY EditedTypes DEF EditCommits
<1>3. /\ players' = [players EXCEPT ![i] = p] /\ data' = [data EXCEPT ![i] = d]
      /\ EndTx(r) /\ Touch({i}) /\ UNCHANGED <<master, linked, next>>
      /\ \A s \in tx[r].add \ data[i].locked : songLock[s] = None
  BY DEF EditCommits
<1> HIDE DEF i, d, p
<1>4. \A s \in d.locked : s \in data[i].locked \/ songLock[s] = None
  BY <1>2, <1>3
<1>5. linked' \in [User -> Id \cup {0}]
  BY <1>3 DEF IInv, TypeOK
<1> QED
  BY <1>1, <1>2, <1>3, <1>4, <1>5, CommitIInv

\* Players the deletion has not locked do not have the song locked, and keep
\* their rows as they are.
LEMMA DeleteSongWrites ==
  ASSUME IInv, NEW r \in Request, DeleteSongCommits(r)
  PROVE  /\ players' \in [Id -> Player] /\ data' \in [Id -> Data]
         /\ \A i \in Id : playerLock[i] # r => players'[i] = players[i] /\ data'[i] = data[i]
         /\ \A i \in Id : playerLock[i] = r => players'[i].fp = None
         /\ \A i \in Id : /\ players'[i].owner = players[i].owner
                          /\ data'[i].locked \subseteq data[i].locked
<1> DEFINE s == tx[r].song
           I == {i \in Id : playerLock[i] = r}
<1>1. \A i \in Id : playerLock[i] # r => s \notin data[i].locked
  BY DEF IInv, LockInv, DeleteSongCommits
<1>2. /\ players' = Invalidated(I)
      /\ data' = [i \in Id |-> [data[i] EXCEPT !.locked = @ \ {s}]]
  BY DEF DeleteSongCommits
<1>3. ASSUME NEW i \in Id
      PROVE  /\ [players[i] EXCEPT !.fp = None] \in Player
             /\ [players[i] EXCEPT !.fp = None].fp = None
             /\ [players[i] EXCEPT !.fp = None].owner = players[i].owner
  BY DEF IInv, TypeOK, Player
<1>4. /\ players' \in [Id -> Player]
      /\ \A i \in Id : playerLock[i] # r => players'[i] = players[i]
      /\ \A i \in Id : playerLock[i] = r => players'[i].fp = None
      /\ \A i \in Id : players'[i].owner = players[i].owner
  BY <1>2, <1>3 DEF Invalidated, IInv, TypeOK
<1>5. ASSUME NEW i \in Id
      PROVE  /\ [data[i] EXCEPT !.locked = @ \ {s}] \in Data
             /\ [data[i] EXCEPT !.locked = @ \ {s}].locked = data[i].locked \ {s}
             /\ s \notin data[i].locked => [data[i] EXCEPT !.locked = @ \ {s}] = data[i]
  <2>1. data[i] \in Data
    BY DEF IInv, TypeOK
  <2>2. s \notin data[i].locked => data[i].locked \ {s} = data[i].locked
    OBVIOUS
  <2> QED
    BY <2>1, <2>2 DEF Data
<1> QED
  BY <1>1, <1>2, <1>4, <1>5

LEMMA DeleteSongCommitsIInv ==
  ASSUME IInv, NEW r \in Request, DeleteSongCommits(r)
  PROVE  IInv'
<1> DEFINE I == {i \in Id : playerLock[i] = r}
<1>1. /\ EndTx(r) /\ Touch(I) /\ UNCHANGED <<linked, next>>
      /\ master' = [master EXCEPT !.live = @ \ {tx[r].song}]
  BY DEF DeleteSongCommits
<1>2. I \in SUBSET Id
  OBVIOUS
<1> HIDE DEF I
<1>3. /\ batch' \in Recalculation
      /\ batch'.pc = batch.pc /\ batch'.m = batch.m
      /\ batch'.id = batch.id /\ batch'.draft = batch.draft
  BY <1>1, <1>2, TouchResult DEF IInv
<1>4. master' \in Master
  BY <1>1 DEF IInv, TypeOK, Master
<1>5. TypeOK'
  BY <1>1, <1>3, <1>4, EndTxResult, DeleteSongWrites DEF IInv, TypeOK
<1>6. LockInv'
  BY <1>1, <1>3, EndTxLockInv, DeleteSongWrites
<1>7. FreshInv'
  <2>1. \A i \in Id : playerLock'[i] = playerLock[i] \/ playerLock[i] = r
    BY <1>1, EndTxResult DEF IInv
  <2>2. r # None
    BY PlayerDataAssumption
  <2> QED
    BY <1>1, <2>1, <2>2, DeleteSongWrites DEF IInv, FreshInv
<1> QED
  BY <1>5, <1>6, <1>7 DEF IInv

-----------------------------------------------------------------------------
(* The other writers *)

LEMMA DeletePlayerIInv ==
  ASSUME IInv, NEW u \in User, DeletePlayer(u)
  PROVE  IInv'
<1> DEFINE I == PlayersOf(u)
<1>1. NoPlayer \in Player /\ NoData \in Data /\ NoData.locked = {} /\ NoPlayer.owner = None
  BY PlayerDataAssumption DEF NoPlayer, Player, NoData, Data
<1>2. /\ players' = [i \in Id |-> IF i \in I THEN NoPlayer ELSE players[i]]
      /\ data' = [i \in Id |-> IF i \in I THEN NoData ELSE data[i]]
      /\ linked' = [linked EXCEPT ![u] = 0]
      /\ \A i \in I : playerLock[i] = None
      /\ UNCHANGED <<master, next, locks, tx, batch>>
  BY DEF DeletePlayer, Unlocked
<1> HIDE DEF I
<1>3. TypeOK'
  BY <1>1, <1>2 DEF IInv, TypeOK, locks
<1>4. LockInv'
  <2>1. \A r \in Request : TxLockInv(r)'
    BY <1>1, <1>2 DEF IInv, LockInv, TxLockInv, locks
  <2>2. (batch.pc \in {"listing", "locked"} => batch.m \in Master)'
    BY <1>2 DEF IInv, LockInv
  <2>3. (batch.pc = "locked" =>
           /\ batch.id \in Id /\ playerLock[batch.id] = "batch"
           /\ batch.draft = players[batch.id])'
    BY <1>2, PlayerDataAssumption DEF IInv, LockInv, locks
  <2> QED
    BY <2>1, <2>2, <2>3 DEF LockInv, TxLockInv
<1>5. FreshInv'
  BY <1>1, <1>2 DEF IInv, FreshInv, locks
<1> QED
  BY <1>3, <1>4, <1>5 DEF IInv

LEMMA MasterChangesIInv ==
  ASSUME IInv, master' \in Master,
         UNCHANGED <<players, data, linked, next, locks, tx, batch>>
  PROVE  IInv'
BY DEF IInv, TypeOK, LockInv, FreshInv, locks

LEMMA RestoreSongIInv ==
  ASSUME IInv, NEW s \in Song, RestoreSong(s)
  PROVE  IInv'
<1>1. master' \in Master
  BY DEF IInv, TypeOK, RestoreSong, Master
<1> QED
  BY <1>1, MasterChangesIInv DEF RestoreSong

LEMMA NewVersionIInv ==
  ASSUME IInv, NewVersion
  PROVE  IInv'
<1>1. master \in Master /\ master.version + 1 \in Version
  BY PlayerDataAssumption DEF IInv, TypeOK, NewVersion, Master, Version
<1>2. master' \in Master
  BY <1>1 DEF NewVersion, Master
<1> QED
  BY <1>2, MasterChangesIInv DEF NewVersion

-----------------------------------------------------------------------------
(* The recalculation *)

\* Steps that write no table and take no lock.
LEMMA BatchMovesIInv ==
  ASSUME IInv, batch' \in Recalculation, batch'.pc # "locked",
         batch'.pc = "listing" => batch'.m \in Master,
         playerLock' = playerLock \/ playerLock' = Without(playerLock, "batch"),
         UNCHANGED <<tables, userLock, songLock, tx>>
  PROVE  IInv'
<1>1. \A i \in Id : playerLock'[i] = playerLock[i]
                    \/ (playerLock[i] = "batch" /\ playerLock'[i] = None)
  BY DEF Without, IInv, TypeOK
<1>2. TypeOK'
  BY DEF Without, IInv, TypeOK, tables
<1>3. LockInv'
  <2>1. \A r \in Request : TxLockInv(r)'
    BY <1>1, PlayerDataAssumption DEF IInv, LockInv, TxLockInv, tables
  <2> QED
    BY <2>1 DEF LockInv, TxLockInv
<1>4. FreshInv'
  BY <1>1, PlayerDataAssumption DEF IInv, FreshInv, tables
<1> QED
  BY <1>2, <1>3, <1>4 DEF IInv

LEMMA NoBatchType == NoBatch \in Recalculation
BY PlayerDataAssumption DEF NoBatch, Recalculation, NoPlayer, Player

LEMMA BatchLoadsSnapshotIInv ==
  ASSUME IInv, BatchLoadsSnapshot
  PROVE  IInv'
<1> PICK upper \in Existing \cup {0} :
      batch' = [NoBatch EXCEPT !.pc = "listing", !.m = master, !.upper = upper]
  BY DEF BatchLoadsSnapshot
<1>1. upper \in Id \cup {0} /\ master \in Master
  BY DEF Existing, IInv, TypeOK
<1>2. batch' \in Recalculation /\ batch'.pc = "listing" /\ batch'.m \in Master
  BY <1>1, NoBatchType DEF Recalculation
<1> QED
  BY <1>2, BatchMovesIInv DEF BatchLoadsSnapshot, locks

LEMMA BatchListsKeysIInv ==
  ASSUME IInv, BatchListsKeys
  PROVE  IInv'
<1> DEFINE keys == {[id |-> i, collected |-> players[i].collected] : i \in Page}
<1> PICK last \in Page : batch' = [batch EXCEPT !.after = last, !.keys = keys]
  BY DEF BatchListsKeys
<1>1. Page \in SUBSET Id
  BY DEF Page, Outdated, Existing
<1>2. keys \in SUBSET [id : Id, collected : Nat]
  BY <1>1 DEF IInv, TypeOK, Player
<1> HIDE DEF keys
<1>3. batch' \in Recalculation /\ batch'.pc = "listing" /\ batch'.m = batch.m
  BY <1>1, <1>2 DEF Recalculation, IInv, TypeOK, BatchListsKeys
<1>4. batch.m \in Master
  BY DEF IInv, LockInv, BatchListsKeys
<1> QED
  BY <1>3, <1>4, BatchMovesIInv DEF BatchListsKeys, locks

LEMMA BatchEndsIInv ==
  ASSUME IInv, BatchFinishes \/ BatchStops
  PROVE  IInv'
<1>1. NoBatch.pc = "idle" /\ NoBatch \in Recalculation
  BY NoBatchType DEF NoBatch
<1>2. CASE BatchFinishes
  BY <1>1, <1>2, BatchMovesIInv DEF BatchFinishes, locks
<1>3. CASE BatchStops
  <2>1. batch' \in Recalculation /\ batch'.pc = "stopped"
    BY <1>1, <1>3 DEF BatchStops, Recalculation
  <2> QED
    BY <1>3, <2>1, BatchMovesIInv DEF BatchStops
<1> QED
  BY <1>2, <1>3

LEMMA BatchSkipsIInv ==
  ASSUME IInv, NEW k \in batch.keys, BatchSkips(k)
  PROVE  IInv'
<1>1. batch' \in Recalculation /\ batch'.pc = "listing" /\ batch'.m = batch.m
  BY DEF BatchSkips, IInv, TypeOK, Recalculation
<1>2. batch.m \in Master
  BY DEF IInv, LockInv, BatchSkips
<1> QED
  BY <1>1, <1>2, BatchMovesIInv DEF BatchSkips, locks

LEMMA BatchFailsPlayerIInv ==
  ASSUME IInv, BatchFailsPlayer
  PROVE  IInv'
<1>1. batch.m \in Master /\ batch.id \in Id
  BY DEF IInv, LockInv, BatchFailsPlayer
<1>2. NoPlayer \in Player
  BY DEF NoPlayer, Player
<1>3. batch' \in Recalculation /\ batch'.pc = "listing" /\ batch'.m = batch.m
  BY <1>1, <1>2 DEF BatchFailsPlayer, IInv, TypeOK, Recalculation
<1> QED
  BY <1>1, <1>3, BatchMovesIInv DEF BatchFailsPlayer

LEMMA BatchLocksPlayerIInv ==
  ASSUME IInv, NEW k \in batch.keys, BatchLocksPlayer(k)
  PROVE  IInv'
<1>1. k \in [id : Id, collected : Nat]
  BY DEF IInv, TypeOK, Recalculation
<1>2. k.id \in Id /\ playerLock[k.id] = None /\ players[k.id].owner # None
  BY <1>1 DEF BatchLocksPlayer, Unlocked
<1>3. playerLock' = [playerLock EXCEPT ![k.id] = "batch"]
  BY DEF BatchLocksPlayer, LockPlayer
<1>4. /\ batch' \in Recalculation /\ batch'.pc = "locked" /\ batch'.m = batch.m
      /\ batch'.id = k.id /\ batch'.draft = players[k.id]
  BY <1>2 DEF BatchLocksPlayer, IInv, TypeOK, Recalculation
<1>5. TypeOK'
  BY <1>3, <1>4 DEF BatchLocksPlayer, IInv, TypeOK, tables
<1>6. LockInv'
  <2>1. \A r \in Request : TxLockInv(r)'
    BY <1>2, <1>3, PlayerDataAssumption
       DEF BatchLocksPlayer, IInv, TypeOK, LockInv, TxLockInv, tables
  <2>2. (batch.pc = "locked" =>
           /\ batch.id \in Id /\ playerLock[batch.id] = "batch"
           /\ batch.draft = players[batch.id])'
    BY <1>2, <1>3, <1>4 DEF BatchLocksPlayer, IInv, TypeOK, tables
  <2>3. batch'.m \in Master
    BY <1>4 DEF BatchLocksPlayer, IInv, LockInv
  <2> QED
    BY <2>1, <2>2, <2>3 DEF LockInv, TxLockInv
<1>7. FreshInv'
  BY <1>2, <1>3 DEF BatchLocksPlayer, IInv, FreshInv, TypeOK, tables
<1> QED
  BY <1>5, <1>6, <1>7 DEF IInv

\* What the recalculation writes.
LEMMA BatchWrites ==
  ASSUME IInv, BatchSavesPlayer
  PROVE  LET i == batch.id
             q == Recalculated(players[i], data[i], batch.m)
             e == [data[i] EXCEPT !.slots = NewSlots(players[i], data[i], batch.m)]
         IN /\ i \in Id /\ playerLock[i] = "batch" /\ batch.m \in Master
            /\ players[i] \in Player /\ data[i] \in Data
            /\ players' = [players EXCEPT ![i] = q] /\ q \in Player
            /\ data' = [data EXCEPT ![i] = e] /\ e \in Data
            /\ q.owner = players[i].owner /\ e.locked = data[i].locked
<1> DEFINE i == batch.id
           q == Recalculated(players[i], data[i], batch.m)
           e == [data[i] EXCEPT !.slots = NewSlots(players[i], data[i], batch.m)]
<1>1. /\ i \in Id /\ playerLock[i] = "batch" /\ batch.m \in Master
      /\ batch.draft = players[i]
  BY DEF IInv, LockInv, BatchSavesPlayer
<1>2. players[i] \in Player /\ data[i] \in Data
  BY <1>1 DEF IInv, TypeOK
<1>3. q \in Player
  BY <1>1, <1>2, RecalculatedType
<1>4. e \in Data /\ e.locked = data[i].locked
  BY <1>1, <1>2, NewSlotsType DEF Data
<1>5. q.owner = players[i].owner
  BY <1>2 DEF Recalculated, Player
<1>6. players' = [players EXCEPT ![i] = q] /\ data' = [data EXCEPT ![i] = e]
  BY <1>1 DEF BatchSavesPlayer
<1> QED
  BY <1>1, <1>2, <1>3, <1>4, <1>5, <1>6

LEMMA BatchSavesPlayerIInv ==
  ASSUME IInv, BatchSavesPlayer
  PROVE  IInv'
<1> DEFINE i == batch.id
<1>1. /\ i \in Id /\ playerLock[i] = "batch" /\ batch.m \in Master
      /\ players' \in [Id -> Player] /\ data' \in [Id -> Data]
      /\ \A j \in Id : players'[j].owner = players[j].owner
                       /\ data'[j].locked = data[j].locked
  BY BatchWrites DEF IInv, TypeOK
<1>2. NoPlayer \in Player
  BY DEF NoPlayer, Player
<1>3. batch' \in Recalculation /\ batch'.pc = "listing" /\ batch'.m = batch.m
  BY <1>2 DEF BatchSavesPlayer, IInv, TypeOK, Recalculation
<1>4. \A j \in Id : playerLock'[j] = playerLock[j]
                    \/ (playerLock[j] = "batch" /\ playerLock'[j] = None)
  BY DEF BatchSavesPlayer, Without, IInv, TypeOK
<1>5. TypeOK'
  BY <1>1, <1>3 DEF BatchSavesPlayer, Without, IInv, TypeOK
<1>6. LockInv'
  <2>1. ASSUME NEW r \in Request
        PROVE  TxLockInv(r)'
    <3>1. TxLockInv(r) /\ r # "batch" /\ tx' = tx /\ songLock' = songLock
      BY PlayerDataAssumption DEF IInv, LockInv, TxLockInv, BatchSavesPlayer
    <3>2. \A j \in Id : playerLock[j] = r => playerLock'[j] = r
      BY <1>4, <3>1
    <3> QED
      BY <1>1, <3>1, <3>2 DEF TxLockInv
  <2> QED
    BY <1>1, <1>3, <2>1 DEF LockInv, TxLockInv
<1>7. FreshInv'
  BY <1>1, <1>4, PlayerDataAssumption DEF BatchSavesPlayer, IInv, FreshInv
<1> QED
  BY <1>5, <1>6, <1>7 DEF IInv

-----------------------------------------------------------------------------
(* The invariant *)

LEMMA InitIInv == Init => IInv
<1> SUFFICES ASSUME Init PROVE IInv
  OBVIOUS
<1>1. NoPlayer \in Player /\ NoData \in Data /\ NoData.locked = {} /\ NoPlayer.owner = None
  BY PlayerDataAssumption DEF NoPlayer, Player, NoData, Data
<1>2. master \in Master
  BY PlayerDataAssumption DEF Init, Master, Version
<1>3. /\ NoTx.pc = "idle" /\ NoBatch.pc = "idle"
  BY DEF NoTx, NoBatch
<1>4. TypeOK
  <2> HIDE DEF NoTx, NoBatch, NoPlayer, NoData
  <2> QED
    BY <1>1, <1>2, NoTxType, NoBatchType, PlayerDataAssumption DEF Init, TypeOK
<1>5. LockInv
  <2> HIDE DEF NoTx, NoBatch
  <2> QED
    BY <1>3 DEF Init, LockInv
<1>6. FreshInv
  BY <1>1 DEF Init, FreshInv
<1> QED
  BY <1>4, <1>5, <1>6 DEF IInv

LEMMA StepIInv == IInv /\ [Next]_vars => IInv'
<1> SUFFICES ASSUME IInv, [Next]_vars PROVE IInv'
  OBVIOUS
<1>1. ASSUME NEW r \in Request, RegisterStep(r)
      PROVE  IInv'
  <2>1. CASE RegisterConflictsLate(r)
    BY <2>1, RollBackIInv DEF RegisterConflictsLate
  <2> QED
    BY <1>1, <2>1, RegisterBeginsIInv, RegisterCommitsIInv DEF RegisterStep
<1>2. ASSUME NEW r \in Request, EditStep(r)
      PROVE  IInv'
  BY <1>2, EditBeginsIInv, EditCommitsIInv DEF EditStep
<1>3. ASSUME NEW r \in Request, DeleteSongStep(r)
      PROVE  IInv'
  BY <1>3, DeleteSongLocksIInv, DeleteSongInvalidatesIInv, DeleteSongCommitsIInv
     DEF DeleteSongStep
<1>4. ASSUME NEW r \in Request, RollBack(r)
      PROVE  IInv'
  BY <1>4, RollBackIInv DEF RollBack
<1>5. ASSUME BatchStep
      PROVE  IInv'
  BY <1>5, BatchLoadsSnapshotIInv, BatchListsKeysIInv, BatchEndsIInv, BatchSkipsIInv,
     BatchLocksPlayerIInv, BatchSavesPlayerIInv, BatchFailsPlayerIInv DEF BatchStep
<1>6. CASE UNCHANGED vars
  BY <1>6 DEF vars, IInv, TypeOK, LockInv, FreshInv
<1> QED
  BY <1>1, <1>2, <1>3, <1>4, <1>5, <1>6, DeletePlayerIInv, RestoreSongIInv, NewVersionIInv
     DEF Next

THEOREM SpecIInv == Spec => []IInv
<1> QED
  BY InitIInv, StepIInv, PTL DEF Spec

\* The types of the tables, the row locks and what every transaction keeps.
THEOREM SpecTypeOK == Spec => []TypeOK
<1>1. IInv => TypeOK
  BY DEF IInv
<1> QED
  BY <1>1, SpecIInv, PTL

-----------------------------------------------------------------------------
(* The fingerprint *)

LEMMA RegisterCommitsSound ==
  ASSUME IInv, NEW r \in Request, RegisterCommits(r), FingerprintSound
  PROVE  FingerprintSound'
<1> DEFINE i == tx[r].id
           d == Registered(data[i], r)
           p == RegisteredPlayer(r, d)
<1>1. i \in Id
  BY DEF IInv, LockInv, RegisterCommits
<1>2. p.fp = None
  BY RegisteredTypes DEF RegisterCommits
<1>3. players' = [players EXCEPT ![i] = p] /\ data' = [data EXCEPT ![i] = d]
  BY DEF RegisterCommits
<1> HIDE DEF i, d, p
<1>4. players'[i].fp = None /\ \A j \in Id \ {i} : players'[j] = players[j] /\ data'[j] = data[j]
  BY <1>1, <1>2, <1>3 DEF IInv, TypeOK
<1> QED
  BY <1>4 DEF FingerprintSound

LEMMA EditCommitsSound ==
  ASSUME IInv, NEW r \in Request, EditCommits(r), FingerprintSound
  PROVE  FingerprintSound'
<1> DEFINE i == tx[r].id
           d == [data[i] EXCEPT !.locked = (@ \cup tx[r].add) \ tx[r].del]
           p == [tx[r].draft EXCEPT !.op = Overpower(d, tx[r].live), !.fp = None]
<1>1. i \in Id
  BY DEF IInv, LockInv, EditCommits
<1>2. p.fp = None
  BY EditedTypes DEF EditCommits
<1>3. players' = [players EXCEPT ![i] = p] /\ data' = [data EXCEPT ![i] = d]
  BY DEF EditCommits
<1> HIDE DEF i, d, p
<1>4. players'[i].fp = None /\ \A j \in Id \ {i} : players'[j] = players[j] /\ data'[j] = data[j]
  BY <1>1, <1>2, <1>3 DEF IInv, TypeOK
<1> QED
  BY <1>4 DEF FingerprintSound

LEMMA DeleteSongCommitsSound ==
  ASSUME IInv, NEW r \in Request, DeleteSongCommits(r), FingerprintSound
  PROVE  FingerprintSound'
BY DeleteSongWrites DEF FingerprintSound

LEMMA DeletePlayerSound ==
  ASSUME IInv, NEW u \in User, DeletePlayer(u), FingerprintSound
  PROVE  FingerprintSound'
<1>1. NoPlayer.fp = None
  BY DEF NoPlayer
<1>2. \A i \in Id : players'[i] = NoPlayer
                    \/ (players'[i] = players[i] /\ data'[i] = data[i])
  BY DEF DeletePlayer
<1> HIDE DEF NoPlayer
<1> QED
  BY <1>1, <1>2 DEF FingerprintSound

LEMMA BatchSavesPlayerSound ==
  ASSUME IInv, BatchSavesPlayer, FingerprintSound
  PROVE  FingerprintSound'
<1> DEFINE i == batch.id
           q == Recalculated(players[i], data[i], batch.m)
           e == [data[i] EXCEPT !.slots = NewSlots(players[i], data[i], batch.m)]
<1>1. /\ i \in Id /\ batch.m \in Master /\ players[i] \in Player /\ data[i] \in Data
      /\ players' = [players EXCEPT ![i] = q] /\ data' = [data EXCEPT ![i] = e]
  BY BatchWrites
<1>2. NewSlots(q, e, batch.m) = e.slots /\ Recalculated(q, e, batch.m) = q
  BY <1>1, RecalculationIsIdempotent
<1>3. q.fp = batch.m
  BY <1>1 DEF Recalculated, Player
<1> HIDE DEF i, q, e
<1>4. /\ players'[i] = q /\ data'[i] = e
      /\ \A j \in Id \ {i} : players'[j] = players[j] /\ data'[j] = data[j]
  BY <1>1 DEF IInv, TypeOK
<1> QED
  BY <1>2, <1>3, <1>4 DEF FingerprintSound

LEMMA StepSound == IInv /\ FingerprintSound /\ [Next]_vars => FingerprintSound'
<1> SUFFICES ASSUME IInv, FingerprintSound, [Next]_vars PROVE FingerprintSound'
  OBVIOUS
<1>1. CASE UNCHANGED <<players, data>>
  BY <1>1 DEF FingerprintSound
<1>2. ASSUME NEW r \in Request, RegisterStep(r)
      PROVE  FingerprintSound'
  <2>1. ASSUME NEW u \in User, NEW t \in Time, NEW b \in Body, NEW i \in Id,
               RegisterEnsuresPlayer(r, u, t, b, i)
        PROVE  UNCHANGED <<players, data>>
    BY <2>1 DEF RegisterEnsuresPlayer, Ensure
  <2>2. ASSUME NEW u \in User, NEW t \in Time, NEW b \in Body,
               RegisterInsertsPlayer(r, u, t, b)
        PROVE  UNCHANGED <<players, data>>
    BY <2>2 DEF RegisterInsertsPlayer, Ensure
  <2>3. RegisterConflictsLate(r) => UNCHANGED <<players, data>>
    BY DEF RegisterConflictsLate, tables
  <2> QED
    BY <1>1, <1>2, <2>1, <2>2, <2>3, RegisterCommitsSound DEF RegisterStep
<1>3. ASSUME NEW r \in Request, EditStep(r)
      PROVE  FingerprintSound'
  BY <1>1, <1>3, EditCommitsSound DEF EditStep, EditBegins, tables
<1>4. ASSUME NEW r \in Request, DeleteSongStep(r)
      PROVE  FingerprintSound'
  BY <1>1, <1>4, DeleteSongCommitsSound
     DEF DeleteSongStep, DeleteSongLocks, DeleteSongInvalidates, tables
<1>5. ASSUME BatchStep
      PROVE  FingerprintSound'
  BY <1>1, <1>5, BatchSavesPlayerSound
     DEF BatchStep, BatchLoadsSnapshot, BatchListsKeys, BatchFinishes, BatchSkips,
         BatchLocksPlayer, BatchFailsPlayer, BatchStops, tables
<1> QED
  BY <1>1, <1>2, <1>3, <1>4, <1>5, DeletePlayerSound
     DEF Next, RollBack, RestoreSong, NewVersion, tables, vars

\* A player that the recalculation skips already has the values and the slots it
\* would give, whatever registrations, edits of locked songs, deletions and
\* restorations of songs and failed runs happened before: the fingerprint that
\* ListPlayerKeys compares is a proof that nothing is left to do.
THEOREM SpecFingerprintSound == Spec => []FingerprintSound
<1>1. Init => FingerprintSound
  <2>1. NoPlayer.fp = None
    BY DEF NoPlayer
  <2> HIDE DEF NoPlayer
  <2> QED
    BY <2>1 DEF Init, FingerprintSound
<1> QED
  BY <1>1, SpecIInv, StepSound, PTL DEF Spec

-----------------------------------------------------------------------------
(* Rounding to seconds keeps the order and leaves whole seconds alone *)

LEMMA Quotient ==
  ASSUME NEW a \in Nat, NEW d \in Nat \ {0}
  PROVE  /\ a \div d \in Nat
         /\ d * (a \div d) <= a
         /\ a < d * (a \div d) + d
OBVIOUS

LEMMA ProductMonotone ==
  ASSUME NEW x \in Nat, NEW y \in Nat, NEW d \in Nat, x <= y
  PROVE  d * x <= d * y
OBVIOUS

LEMMA SecondsMonotone ==
  ASSUME NEW s \in Nat, NEW t \in Nat, s <= t
  PROVE  ToSeconds(s) <= ToSeconds(t)
<1> DEFINE d == 2 * TicksPerSecond
           a == 2 * s + TicksPerSecond
           b == 2 * t + TicksPerSecond
           x == a \div d
           y == b \div d
<1>1. TicksPerSecond \in Nat \ {0}
  BY PlayerDataAssumption
<1>2. d \in Nat \ {0} /\ a \in Nat /\ b \in Nat /\ a <= b
  BY <1>1
<1> HIDE DEF a, b, d
<1>3. /\ x \in Nat /\ d * x <= a
      /\ y \in Nat /\ b < d * y + d
  BY <1>2, Quotient
<1> HIDE DEF x, y
<1>4. x <= y
  <2>1. SUFFICES ASSUME x >= y + 1 PROVE FALSE
    BY <1>3
  <2>2. d * (y + 1) <= d * x
    BY <1>2, <1>3, <2>1, ProductMonotone
  <2>3. d * (y + 1) = d * y + d
    BY <1>2, <1>3
  <2> QED
    BY <1>2, <1>3, <2>2, <2>3
<1>5. TicksPerSecond * x <= TicksPerSecond * y
  BY <1>1, <1>3, <1>4, ProductMonotone
<1>6. ToSeconds(s) = x * TicksPerSecond /\ ToSeconds(t) = y * TicksPerSecond
  BY DEF ToSeconds, x, y, a, b, d
<1> QED
  BY <1>1, <1>3, <1>5, <1>6

LEMMA SecondsIdempotent ==
  ASSUME NEW t \in Nat
  PROVE  ToSeconds(ToSeconds(t)) = ToSeconds(t)
<1> DEFINE d == 2 * TicksPerSecond
           q == (2 * t + TicksPerSecond) \div d
           a == 2 * (q * TicksPerSecond) + TicksPerSecond
           x == a \div d
<1>1. TicksPerSecond \in Nat \ {0}
  BY PlayerDataAssumption
<1>2. d \in Nat \ {0} /\ 2 * t + TicksPerSecond \in Nat
  BY <1>1
<1>3. q \in Nat
  BY <1>2, Quotient
<1> HIDE DEF q
<1>4. a \in Nat /\ a = d * q + TicksPerSecond
  BY <1>1, <1>3
<1>5. TicksPerSecond < d
  BY <1>1
<1> HIDE DEF a, d
<1>6. x \in Nat /\ d * x <= a /\ a < d * x + d
  BY <1>2, <1>4, Quotient
<1> HIDE DEF x
<1>7. x <= q
  <2>1. SUFFICES ASSUME x >= q + 1 PROVE FALSE
    BY <1>3, <1>6
  <2>2. d * (q + 1) <= d * x
    BY <1>2, <1>3, <1>6, <2>1, ProductMonotone
  <2>3. d * (q + 1) = d * q + d
    BY <1>2, <1>3
  <2> QED
    BY <1>1, <1>2, <1>3, <1>4, <1>5, <1>6, <2>2, <2>3
<1>8. q <= x
  <2>1. SUFFICES ASSUME q >= x + 1 PROVE FALSE
    BY <1>3, <1>6
  <2>2. d * (x + 1) <= d * q
    BY <1>2, <1>3, <1>6, <2>1, ProductMonotone
  <2>3. d * (x + 1) = d * x + d
    BY <1>2, <1>6
  <2> QED
    BY <1>1, <1>2, <1>3, <1>4, <1>6, <2>2, <2>3
<1>9. x = q
  BY <1>3, <1>6, <1>7, <1>8
<1>10. ToSeconds(t) = q * TicksPerSecond
  BY DEF ToSeconds, q, d
<1>11. ToSeconds(q * TicksPerSecond) = x * TicksPerSecond
  BY DEF ToSeconds, x, a, d
<1> QED
  BY <1>9, <1>10, <1>11

\* A result that the history does not keep has given way to UpdateLimit newer ones.
LEMMA KeepIsFull ==
  ASSUME NEW U \in SUBSET [time : Time, body : Body], IsFiniteSet(U),
         NEW v \in U, v \notin Keep(U)
  PROVE  /\ Cardinality(Keep(U)) >= UpdateLimit
         /\ \A w \in Keep(U) : w.time > v.time
<1> DEFINE newer(w) == {z \in U : z.time > w.time}
           count(w) == Cardinality(newer(w))
           Lost == U \ Keep(U)
           Counts == {count(w) : w \in Lost}
<1>1. \A w \in U : w.time \in Nat
  BY PlayerDataAssumption
<1>2. UpdateLimit \in Nat
  BY PlayerDataAssumption
<1>3. \A w \in U : IsFiniteSet(newer(w)) /\ newer(w) \in SUBSET U
  BY FS_Subset
<1>4. \A w \in U : count(w) \in Nat
  BY <1>3, FS_CardinalityType
<1>5. \A w \in U : w \in Keep(U) <=> count(w) < UpdateLimit
  BY DEF Keep
<1>6. Counts \in SUBSET Nat /\ Counts # {}
  BY <1>4
<1>7. PICK n \in Counts : \A m \in Counts : n <= m
  <2> HIDE DEF Counts
  <2>1. IsWellFoundedOn(OpToRel(<, Nat), Nat)
    BY NatLessThanWellFounded
  <2>2. PICK n \in Counts : \A m \in Counts : <<m, n>> \notin OpToRel(<, Nat)
    BY <1>6, <2>1, WFMin
  <2>3. n \in Nat /\ Counts \subseteq Nat /\ \A m \in Counts : ~ (m < n)
    BY <1>6, <2>2 DEF OpToRel
  <2> QED
    BY <2>3
<1>8. PICK a \in Lost : n = count(a)
  OBVIOUS
<1>9. newer(a) \subseteq Keep(U)
  <2> SUFFICES ASSUME NEW w \in newer(a), w \in Lost PROVE FALSE
    BY <1>8
  <2>1. newer(w) \subseteq newer(a) /\ w \in newer(a) /\ w \notin newer(w)
    BY <1>1, <1>8
  <2>2. count(w) <= count(a) /\ count(w) # count(a)
    BY <1>3, <1>8, <2>1, FS_Subset
  <2>3. count(a) <= count(w)
    <3>1. count(w) \in Counts
      OBVIOUS
    <3> HIDE DEF Counts, count
    <3> QED
      BY <1>7, <1>8, <3>1
  <2>4. count(w) \in Nat /\ count(a) \in Nat
    BY <1>4, <1>8
  <2> HIDE DEF newer
  <2> QED
    BY <2>2, <2>3, <2>4
<1>10. Cardinality(Keep(U)) >= UpdateLimit
  <2>1. IsFiniteSet(Keep(U))
    BY FS_Subset DEF Keep
  <2>2. count(a) <= Cardinality(Keep(U)) /\ Cardinality(Keep(U)) \in Nat
    BY <1>9, <2>1, FS_Subset, FS_CardinalityType
  <2>3. count(a) >= UpdateLimit /\ count(a) \in Nat
    BY <1>2, <1>4, <1>5, <1>8
  <2> HIDE DEF newer
  <2> QED
    BY <1>2, <2>2, <2>3
<1>11. ASSUME NEW w \in Keep(U) PROVE w.time > v.time
  <2>1. w \in U
    BY DEF Keep
  <2> SUFFICES ASSUME w.time <= v.time PROVE FALSE
    BY <1>1, <2>1
  <2>2. newer(v) \subseteq newer(w)
    BY <1>1, <2>1
  <2>3. count(v) <= count(w)
    BY <1>3, <2>1, <2>2, FS_Subset
  <2>4. count(w) < UpdateLimit /\ ~(count(v) < UpdateLimit)
    BY <1>5, <2>1
  <2>5. count(w) \in Nat /\ count(v) \in Nat
    BY <1>4, <2>1
  <2> HIDE DEF newer
  <2> QED
    BY <1>2, <2>3, <2>4, <2>5
<1> QED
  BY <1>10, <1>11

-----------------------------------------------------------------------------
(* What a player shows, and the link of its user *)

\* A row that belongs to nobody is empty; data_collected_at is a whole second.
OwnedRows ==
  \A i \in Id :
    /\ players[i].owner = None => players[i] = NoPlayer /\ data[i] = NoData
    /\ ToSeconds(players[i].collected) = players[i].collected
    /\ IsFiniteSet(data[i].updates)

\* What a transaction has read is still so when it commits: the order check of a
\* registration, the only player of its user, and the row under an edit.
DraftOf(r) ==
  /\ tx[r].pc = "ensured" =>
       /\ userLock[tx[r].user] = r
       /\ tx[r].draft = Ensured(players[tx[r].id], tx[r].user, tx[r].time, tx[r].body)
       /\ players[tx[r].id].owner \in {None, tx[r].user}
       /\ PlayersOf(tx[r].user) \subseteq {tx[r].id}
       /\ tx[r].time >= players[tx[r].id].collected
  /\ tx[r].pc = "editing" =>
       tx[r].draft = players[tx[r].id] /\ players[tx[r].id].owner # None

Drafts ==
  /\ \A r \in Request : DraftOf(r)
  /\ batch.pc = "locked" => players[batch.id].owner # None

ShownInv == OwnedRows /\ Drafts /\ ShownAndLinked

\* How a step other than the commit of a registration leaves a player's rows.
SameRows(i) ==
  /\ players'[i].owner = players[i].owner
  /\ players'[i].collected = players[i].collected
  /\ players'[i].official = players[i].official
  /\ data'[i].records = data[i].records
  /\ data'[i].updates = data[i].updates
  /\ players[i].owner = None => players'[i] = players[i] /\ data'[i] = data[i]
Gone(i) == players'[i] = NoPlayer /\ data'[i] = NoData

LEMMA ZeroSeconds == ToSeconds(0) = 0
<1>1. TicksPerSecond \in Nat \ {0}
  BY PlayerDataAssumption
<1> DEFINE d == 2 * TicksPerSecond
           x == TicksPerSecond \div d
<1>2. d \in Nat \ {0} /\ TicksPerSecond < d
  BY <1>1
<1> HIDE DEF d
<1>3. x \in Nat /\ d * x <= TicksPerSecond
  BY <1>1, <1>2, Quotient
<1> HIDE DEF x
<1>4. x = 0
  <2>1. SUFFICES ASSUME 1 <= x PROVE FALSE
    BY <1>3
  <2>2. d * 1 <= d * x
    BY <1>2, <1>3, <2>1, ProductMonotone
  <2> QED
    BY <1>1, <1>2, <1>3, <2>2
<1>5. 2 * 0 + TicksPerSecond = TicksPerSecond
  BY <1>1
<1>6. ToSeconds(0) = x * TicksPerSecond
  BY <1>5 DEF ToSeconds, x, d
<1> QED
  BY <1>1, <1>4, <1>6

LEMMA Nobody ==
  /\ NoPlayer.owner = None /\ NoPlayer.collected = 0 /\ NoPlayer.fp = None
  /\ NoData.updates = {} /\ NoData.locked = {}
BY DEF NoPlayer, NoData

LEMMA RowsKept ==
  ASSUME OwnedRows, NewestDataShown, \A i \in Id : SameRows(i) \/ Gone(i)
  PROVE  OwnedRows' /\ NewestDataShown'
<1>1. ASSUME NEW i \in Id, Gone(i)
      PROVE  /\ players'[i] = NoPlayer /\ data'[i] = NoData /\ data'[i].updates = {}
             /\ ToSeconds(players'[i].collected) = players'[i].collected
             /\ IsFiniteSet(data'[i].updates)
  <2> HIDE DEF NoPlayer, NoData
  <2> QED
    BY <1>1, Nobody, ZeroSeconds, FS_EmptySet DEF Gone
<1>2. ASSUME NEW i \in Id, SameRows(i)
      PROVE  /\ players'[i].owner = None => players'[i] = NoPlayer /\ data'[i] = NoData
             /\ ToSeconds(players'[i].collected) = players'[i].collected
             /\ IsFiniteSet(data'[i].updates)
  BY <1>2 DEF SameRows, OwnedRows
<1>3. OwnedRows'
  BY <1>1, <1>2 DEF OwnedRows
<1>4. ASSUME NEW i \in Id, data'[i].updates # {}
      PROVE  SameRows(i)
  BY <1>1, <1>4
<1>5. NewestDataShown'
  BY <1>4 DEF NewestDataShown, SameRows
<1> QED
  BY <1>3, <1>5

LEMMA EditCommitsRows ==
  ASSUME IInv, OwnedRows, Drafts, NEW r \in Request, EditCommits(r)
  PROVE  \A j \in Id : SameRows(j)
<1> DEFINE i == tx[r].id
           d == [data[i] EXCEPT !.locked = (@ \cup tx[r].add) \ tx[r].del]
           p == [tx[r].draft EXCEPT !.op = Overpower(d, tx[r].live), !.fp = None]
<1>1. i \in Id /\ tx[r].draft = players[i] /\ players[i].owner # None
  BY DEF IInv, LockInv, EditCommits, Drafts, DraftOf
<1>2. players[i] \in Player /\ data[i] \in Data
  BY <1>1 DEF IInv, TypeOK
<1>3. /\ p.owner = players[i].owner /\ p.collected = players[i].collected
      /\ p.official = players[i].official
      /\ d.records = data[i].records /\ d.updates = data[i].updates
  BY <1>1, <1>2 DEF Player, Data
<1>4. players' = [players EXCEPT ![i] = p] /\ data' = [data EXCEPT ![i] = d]
  BY DEF EditCommits
<1> HIDE DEF i, d, p
<1>5. players'[i] = p /\ data'[i] = d
  BY <1>1, <1>4 DEF IInv, TypeOK
<1>6. \A j \in Id \ {i} : players'[j] = players[j] /\ data'[j] = data[j]
  BY <1>1, <1>4 DEF IInv, TypeOK
<1> QED
  BY <1>1, <1>3, <1>5, <1>6 DEF SameRows

LEMMA DeleteSongCommitsRows ==
  ASSUME IInv, OwnedRows, NEW r \in Request, DeleteSongCommits(r)
  PROVE  \A j \in Id : SameRows(j)
<1> DEFINE s == tx[r].song
<1>1. SUFFICES ASSUME NEW j \in Id PROVE SameRows(j)
  OBVIOUS
<1>2. players[j] \in Player /\ data[j] \in Data
  BY DEF IInv, TypeOK
<1>3. /\ players'[j] = players[j] \/ players'[j] = [players[j] EXCEPT !.fp = None]
      /\ data'[j] = [data[j] EXCEPT !.locked = @ \ {s}]
  BY DEF DeleteSongCommits, Invalidated
<1>4. /\ players'[j].owner = players[j].owner
      /\ players'[j].collected = players[j].collected
      /\ players'[j].official = players[j].official
      /\ players[j].fp = None => players'[j] = players[j]
  BY <1>2, <1>3 DEF Player
<1>5. /\ data'[j].records = data[j].records /\ data'[j].updates = data[j].updates
      /\ data[j].locked = {} => data'[j] = data[j]
  BY <1>2, <1>3 DEF Data
<1>6. players[j].owner = None => players[j].fp = None /\ data[j].locked = {}
  BY Nobody DEF OwnedRows
<1> QED
  BY <1>4, <1>5, <1>6 DEF SameRows

LEMMA BatchSavesPlayerRows ==
  ASSUME IInv, Drafts, BatchSavesPlayer
  PROVE  \A j \in Id : SameRows(j)
<1> DEFINE i == batch.id
           q == Recalculated(players[i], data[i], batch.m)
           e == [data[i] EXCEPT !.slots = NewSlots(players[i], data[i], batch.m)]
<1>1. /\ i \in Id /\ players[i] \in Player /\ data[i] \in Data
      /\ players' = [players EXCEPT ![i] = q] /\ data' = [data EXCEPT ![i] = e]
  BY BatchWrites
<1>2. /\ q.owner = players[i].owner /\ q.collected = players[i].collected
      /\ q.official = players[i].official
      /\ e.records = data[i].records /\ e.updates = data[i].updates
  BY <1>1 DEF Recalculated, Player, Data
<1>3. players[i].owner # None
  BY DEF Drafts, BatchSavesPlayer
<1> HIDE DEF i, q, e
<1>4. players'[i] = q /\ data'[i] = e
  BY <1>1 DEF IInv, TypeOK
<1>5. \A j \in Id \ {i} : players'[j] = players[j] /\ data'[j] = data[j]
  BY <1>1 DEF IInv, TypeOK
<1> QED
  BY <1>2, <1>3, <1>4, <1>5 DEF SameRows

\* Only the commit of a registration changes what a player shows.
LEMMA StepRows ==
  ASSUME IInv, OwnedRows, Drafts, [Next]_vars,
         \A r \in Request : ~ RegisterCommits(r)
  PROVE  \A i \in Id : SameRows(i) \/ Gone(i)
<1> DEFINE Goal == \A i \in Id : SameRows(i) \/ Gone(i)
<1>1. CASE UNCHANGED <<players, data>>
  BY <1>1 DEF SameRows
<1>2. ASSUME NEW r \in Request, RegisterStep(r)
      PROVE  UNCHANGED <<players, data>>
  BY <1>2 DEF RegisterStep, RegisterEnsuresPlayer, RegisterInsertsPlayer, Ensure,
              RegisterConflictsLate, tables
<1>3. ASSUME NEW r \in Request, EditStep(r)
      PROVE  Goal
  BY <1>1, <1>3, EditCommitsRows DEF EditStep, EditBegins, tables
<1>4. ASSUME NEW r \in Request, DeleteSongStep(r)
      PROVE  Goal
  BY <1>1, <1>4, DeleteSongCommitsRows
     DEF DeleteSongStep, DeleteSongLocks, DeleteSongInvalidates, tables
<1>5. ASSUME NEW u \in User, DeletePlayer(u)
      PROVE  Goal
  BY <1>5 DEF DeletePlayer, SameRows, Gone
<1>6. ASSUME BatchStep
      PROVE  Goal
  BY <1>1, <1>6, BatchSavesPlayerRows
     DEF BatchStep, BatchLoadsSnapshot, BatchListsKeys, BatchFinishes, BatchSkips,
         BatchLocksPlayer, BatchFailsPlayer, BatchStops, tables
<1> QED
  BY <1>1, <1>2, <1>3, <1>4, <1>5, <1>6
     DEF Next, RollBack, RestoreSong, NewVersion, tables, vars

\* What the commit of a registration writes.
LEMMA RegisterCommitsRows ==
  ASSUME IInv, OwnedRows, Drafts, NEW r \in Request, RegisterCommits(r)
  PROVE  LET i == tx[r].id
             v == [time |-> tx[r].time, body |-> tx[r].body]
         IN /\ i \in Id /\ v \in [time : Time, body : Body] /\ v.time \in Nat
            /\ players[i].collected \in Nat /\ v.time >= players[i].collected
            /\ \A j \in Id \ {i} : players'[j] = players[j] /\ data'[j] = data[j]
            /\ players'[i].owner = tx[r].user /\ tx[r].user \in User
            /\ players'[i].collected = ToSeconds(v.time)
            /\ players'[i].official = Rating[v.body]
            /\ data'[i].updates = Keep(data[i].updates \cup {v})
            /\ data[i].updates \in SUBSET [time : Time, body : Body]
            /\ \A s \in Song : Scores[v.body][s] # 0
                                 => data'[i].records[s] = Scores[v.body][s]
<1> DEFINE i == tx[r].id
           v == [time |-> tx[r].time, body |-> tx[r].body]
           d == Registered(data[i], r)
           p == RegisteredPlayer(r, d)
<1>1. /\ i \in Id /\ tx[r].body \in Body /\ tx[r].time \in Time /\ tx[r].user \in User
      /\ tx[r].draft = Ensured(players[i], tx[r].user, tx[r].time, tx[r].body)
      /\ tx[r].time >= players[i].collected
  BY DEF IInv, LockInv, RegisterCommits, Drafts, DraftOf
<1>2. players[i] \in Player /\ data[i] \in Data /\ tx[r].time \in Nat
  BY <1>1, PlayerDataAssumption DEF IInv, TypeOK
<1>3. /\ players[i].collected \in Nat
      /\ data[i].updates \in SUBSET [time : Time, body : Body]
  BY <1>2 DEF Player, Data
<1>4. v \in [time : Time, body : Body] /\ v.time = tx[r].time /\ v.body = tx[r].body
  BY <1>1
<1>5. /\ tx[r].draft.owner = tx[r].user /\ tx[r].draft.collected = tx[r].time
      /\ tx[r].draft.official = Rating[tx[r].body]
      /\ tx[r].draft \in Player
  BY <1>1, <1>2 DEF Ensured, Player, IInv, TypeOK, Transaction
<1>6. /\ p.owner = tx[r].user /\ p.collected = ToSeconds(tx[r].time)
      /\ p.official = Rating[tx[r].body]
  <2> HIDE DEF d
  <2> QED
    BY <1>5 DEF RegisteredPlayer, Player
<1>7. /\ d.updates = Keep(data[i].updates \cup {v})
      /\ \A s \in Song : Scores[tx[r].body][s] # 0
                           => d.records[s] = Scores[tx[r].body][s]
  BY <1>2 DEF Registered, Data
<1>8. players' = [players EXCEPT ![i] = p] /\ data' = [data EXCEPT ![i] = d]
  BY DEF RegisterCommits
<1> HIDE DEF i, p, d, v
<1>9. players'[i] = p /\ data'[i] = d
  BY <1>1, <1>8 DEF IInv, TypeOK
<1>10. \A j \in Id \ {i} : players'[j] = players[j] /\ data'[j] = data[j]
  BY <1>1, <1>8 DEF IInv, TypeOK
<1> QED
  BY <1>1, <1>2, <1>3, <1>4, <1>6, <1>7, <1>9, <1>10 DEF i, v

LEMMA RegisterCommitsShown ==
  ASSUME IInv, OwnedRows, Drafts, NewestDataShown, NEW r \in Request, RegisterCommits(r)
  PROVE  OwnedRows' /\ NewestDataShown'
<1> DEFINE i == tx[r].id
           v == [time |-> tx[r].time, body |-> tx[r].body]
           U == data[i].updates \cup {v}
<1>1. /\ i \in Id /\ v \in [time : Time, body : Body] /\ v.time \in Nat
      /\ players[i].collected \in Nat /\ v.time >= players[i].collected
      /\ \A j \in Id \ {i} : players'[j] = players[j] /\ data'[j] = data[j]
      /\ players'[i].owner = tx[r].user /\ tx[r].user \in User
      /\ players'[i].collected = ToSeconds(v.time)
      /\ players'[i].official = Rating[v.body]
      /\ data'[i].updates = Keep(U)
      /\ data[i].updates \in SUBSET [time : Time, body : Body]
      /\ \A s \in Song : Scores[v.body][s] # 0
                           => data'[i].records[s] = Scores[v.body][s]
  BY RegisterCommitsRows
<1> HIDE DEF i, v
<1>2. U \in SUBSET [time : Time, body : Body] /\ v \in U
  BY <1>1
<1>3. IsFiniteSet(U)
  BY <1>1, FS_AddElement DEF OwnedRows
<1>4. Keep(U) \in SUBSET U
  BY DEF Keep
<1>5. IsFiniteSet(Keep(U))
  BY <1>3, <1>4, FS_Subset
<1>6. OwnedRows'
  <2>1. ToSeconds(ToSeconds(v.time)) = ToSeconds(v.time)
    BY <1>1, SecondsIdempotent
  <2>2. tx[r].user # None
    BY <1>1, PlayerDataAssumption
  <2> QED
    BY <1>1, <1>5, <2>1, <2>2 DEF OwnedRows
<1>7. v \in Keep(U) \/ (Cardinality(Keep(U)) >= UpdateLimit /\ \A w \in Keep(U) : w.time > v.time)
  BY <1>2, <1>3, KeepIsFull
<1>8. ASSUME NEW w \in Keep(U)
      PROVE  ToSeconds(w.time) <= ToSeconds(v.time)
  <2>1. CASE w = v
    <3>1. ToSeconds(v.time) \in Nat
      BY <1>1, SecondsAreNat
    <3> QED
      BY <2>1, <3>1
  <2>2. CASE w # v
    <3>1. w \in data[i].updates /\ w.time \in Nat
      BY <1>1, <1>4, <2>2, PlayerDataAssumption
    <3>2. ToSeconds(w.time) <= players[i].collected
      BY <1>1, <3>1 DEF NewestDataShown
    <3>3. players[i].collected <= ToSeconds(v.time)
      <4>1. ToSeconds(players[i].collected) <= ToSeconds(v.time)
        BY <1>1, SecondsMonotone
      <4> QED
        BY <1>1, <4>1 DEF OwnedRows
    <3>4. ToSeconds(w.time) \in Nat /\ ToSeconds(v.time) \in Nat
      BY <1>1, <3>1, SecondsAreNat
    <3> QED
      BY <1>1, <3>2, <3>3, <3>4
  <2> QED
    BY <2>1, <2>2
<1>9. ASSUME NEW j \in Id, data'[j].updates # {}
      PROVE  \E z \in [time : Time, body : Body] :
               /\ \/ z \in data'[j].updates
                  \/ /\ Cardinality(data'[j].updates) >= UpdateLimit
                     /\ \A w \in data'[j].updates : w.time > z.time
               /\ \A w \in data'[j].updates : ToSeconds(w.time) <= ToSeconds(z.time)
               /\ players'[j].collected = ToSeconds(z.time)
               /\ players'[j].official = Rating[z.body]
               /\ \A s \in Song : Scores[z.body][s] # 0
                                    => data'[j].records[s] = Scores[z.body][s]
  <2>1. CASE j = i
    BY <1>1, <1>7, <1>8, <2>1
  <2>2. CASE j # i
    BY <1>1, <1>9, <2>2 DEF NewestDataShown
  <2> QED
    BY <2>1, <2>2
<1> QED
  BY <1>6, <1>9 DEF NewestDataShown

-----------------------------------------------------------------------------
(* The transactions in progress *)

LEMMA EndTxUserLock ==
  ASSUME TypeOK, NEW r \in Request, EndTx(r)
  PROVE  \A u \in User : userLock'[u] = userLock[u] \/ userLock[u] = r
BY DEF TypeOK, EndTx, ReleaseLocks, Without

\* A transaction that goes on has its rows locked: nobody else changes them.
LEMMA OtherDrafts ==
  ASSUME IInv, Drafts, NEW q \in Request, tx'[q] = tx[q],
         \A i \in Id : playerLock[i] = q => players'[i] = players[i],
         \A u \in User : userLock[u] = q =>
           userLock'[u] = q /\ (PlayersOf(u))' \subseteq PlayersOf(u)
  PROVE  DraftOf(q)'
<1>1. /\ DraftOf(q)
      /\ tx[q].pc \in {"ensured", "editing"} => tx[q].id \in Id /\ playerLock[tx[q].id] = q
      /\ tx[q].pc = "ensured" => tx[q].user \in User
  BY DEF Drafts, IInv, LockInv
<1>2. CASE tx[q].pc = "ensured"
  BY <1>1, <1>2 DEF DraftOf
<1>3. CASE tx[q].pc = "editing"
  BY <1>1, <1>3 DEF DraftOf
<1> QED
  BY <1>2, <1>3 DEF DraftOf

\* A transaction that ends, having written rows of its own only.
LEMMA EndTxDrafts ==
  ASSUME IInv, Drafts, NEW r \in Request, EndTx(r),
         batch'.pc = batch.pc, batch'.id = batch.id,
         \A i \in Id : playerLock[i] # r => players'[i] = players[i],
         \A i \in Id : \A u \in User : players'[i].owner = u =>
           players[i].owner = u \/ userLock[u] = r
  PROVE  Drafts'
<1>1. ASSUME NEW q \in Request \ {r} PROVE DraftOf(q)'
  <2>1. tx'[q] = tx[q]
    BY EndTxResult DEF IInv
  <2>2. \A u \in User : userLock[u] = q =>
          userLock'[u] = q /\ (PlayersOf(u))' \subseteq PlayersOf(u)
    BY EndTxUserLock DEF IInv, PlayersOf
  <2> QED
    BY <2>1, <2>2, OtherDrafts
<1>2. DraftOf(r)'
  BY EndTxResult DEF IInv, DraftOf
<1>3. (batch.pc = "locked" => players[batch.id].owner # None)'
  BY PlayerDataAssumption DEF IInv, LockInv, Drafts
<1> QED
  BY <1>1, <1>2, <1>3 DEF Drafts

\* A transaction that goes on, having written nothing.
LEMMA ContinueDrafts ==
  ASSUME IInv, Drafts, NEW r \in Request, UNCHANGED <<players, batch>>,
         \A q \in Request \ {r} : tx'[q] = tx[q],
         \A u \in User : userLock'[u] = userLock[u] \/ userLock[u] = None,
         DraftOf(r)'
  PROVE  Drafts'
<1>1. ASSUME NEW q \in Request \ {r} PROVE DraftOf(q)'
  BY OtherDrafts, PlayerDataAssumption DEF PlayersOf
<1> QED
  BY <1>1 DEF Drafts

LEMMA EnsureDrafts ==
  ASSUME IInv, Drafts, OwnedRows, NEW r \in Request, NEW u \in User, NEW t \in Time,
         NEW b \in Body,
         \/ \E i \in Id : RegisterEnsuresPlayer(r, u, t, b, i)
         \/ RegisterInsertsPlayer(r, u, t, b),
         LinkedBothWays
  PROVE  Drafts'
<1>1. PICK i \in Id :
        /\ Ensure(r, u, t, b, i, players[i]) /\ userLock[u] = None
        /\ players[i].owner \in {None, u} /\ PlayersOf(u) \subseteq {i}
        /\ t >= players[i].collected
  <2>1. ASSUME NEW i \in Id, RegisterEnsuresPlayer(r, u, t, b, i)
        PROVE  /\ Ensure(r, u, t, b, i, players[i]) /\ userLock[u] = None
               /\ players[i].owner \in {None, u} /\ PlayersOf(u) \subseteq {i}
               /\ t >= players[i].collected
    <3>1. PlayersOf(u) \subseteq {i}
      BY <2>1 DEF LinkedBothWays, RegisterEnsuresPlayer, PlayersOf
    <3>2. t \in Nat /\ players[i].collected \in Nat
      BY PlayerDataAssumption DEF IInv, TypeOK, Player
    <3> QED
      BY <2>1, <3>1, <3>2 DEF RegisterEnsuresPlayer, Conflict, Stale
  <2>2. CASE RegisterInsertsPlayer(r, u, t, b)
    <3>1. next \in Id /\ PlayersOf(u) = {}
      BY <2>2 DEF RegisterInsertsPlayer
    <3>2. players[next] = NoPlayer
      BY <3>1 DEF IInv, FreshInv, OwnedRows, Id
    <3>3. t \in Nat /\ players[next].owner = None /\ players[next].collected = 0
      BY <3>2, Nobody, PlayerDataAssumption
    <3> HIDE DEF NoPlayer
    <3> QED
      BY <2>2, <3>1, <3>2, <3>3 DEF RegisterInsertsPlayer
  <2> QED
    BY <2>1, <2>2
<1> DEFINE new == [NoTx EXCEPT !.pc = "ensured", !.user = u, !.time = t, !.body = b,
                   !.id = i, !.draft = Ensured(players[i], u, t, b), !.live = master.live]
<1>2. /\ new.pc = "ensured" /\ new.user = u /\ new.time = t /\ new.body = b
      /\ new.id = i /\ new.draft = Ensured(players[i], u, t, b)
  BY NoTxType DEF Transaction
<1>3. tx' = [tx EXCEPT ![r] = new] /\ userLock' = [userLock EXCEPT ![u] = r]
  BY <1>1 DEF Ensure
<1> HIDE DEF new
<1>4. tx'[r] = new /\ userLock'[u] = r /\ players' = players
  BY <1>1, <1>3 DEF IInv, TypeOK, Ensure
<1>5. DraftOf(r)'
  BY <1>1, <1>2, <1>4 DEF DraftOf, PlayersOf
<1>6. /\ UNCHANGED <<players, batch>>
      /\ \A q \in Request \ {r} : tx'[q] = tx[q]
      /\ \A z \in User : userLock'[z] = userLock[z] \/ userLock[z] = None
  BY <1>1, <1>3 DEF IInv, TypeOK, Ensure
<1> QED
  BY <1>5, <1>6, ContinueDrafts

LEMMA EditBeginsDrafts ==
  ASSUME IInv, Drafts, NEW r \in Request, NEW i \in Id, NEW add \in SUBSET Song,
         NEW del \in SUBSET Song, EditBegins(r, i, add, del)
  PROVE  Drafts'
<1> DEFINE new == [NoTx EXCEPT !.pc = "editing", !.id = i, !.add = add, !.del = del,
                   !.draft = players[i], !.live = master.live]
<1>1. new.pc = "editing" /\ new.id = i /\ new.draft = players[i]
  BY NoTxType DEF Transaction
<1>2. tx' = [tx EXCEPT ![r] = new]
  BY DEF EditBegins
<1> HIDE DEF new
<1>3. /\ tx'[r] = new /\ \A q \in Request \ {r} : tx'[q] = tx[q]
      /\ UNCHANGED <<players, batch, userLock>>
  BY <1>2 DEF IInv, TypeOK, EditBegins, tables
<1>4. DraftOf(r)'
  BY <1>1, <1>3 DEF DraftOf, EditBegins
<1> QED
  BY <1>3, <1>4, ContinueDrafts

LEMMA DeleteSongDrafts ==
  ASSUME IInv, Drafts, NEW r \in Request,
         (\E s \in Song : DeleteSongLocks(r, s)) \/ DeleteSongInvalidates(r)
  PROVE  Drafts'
<1>1. /\ tx'[r].pc \in {"retiring", "invalidated"}
      /\ \A q \in Request \ {r} : tx'[q] = tx[q]
      /\ UNCHANGED <<players, batch, userLock>>
  <2>1. ASSUME NEW s \in Song, DeleteSongLocks(r, s)
        PROVE  /\ tx'[r].pc = "retiring" /\ \A q \in Request \ {r} : tx'[q] = tx[q]
               /\ UNCHANGED <<players, batch, userLock>>
    BY <2>1, NoTxType DEF DeleteSongLocks, IInv, TypeOK, Transaction, tables
  <2>2. CASE DeleteSongInvalidates(r)
    BY <2>2 DEF DeleteSongInvalidates, IInv, TypeOK, Transaction, tables
  <2> QED
    BY <2>1, <2>2
<1> QED
  BY <1>1, ContinueDrafts DEF DraftOf

LEMMA CommitDrafts ==
  ASSUME IInv, Drafts, OwnedRows, NEW r \in Request,
         RegisterCommits(r) \/ EditCommits(r) \/ DeleteSongCommits(r)
  PROVE  Drafts'
<1>1. EndTx(r) /\ \E I \in SUBSET Id : Touch(I)
  <2>1. RegisterCommits(r) \/ EditCommits(r) => tx[r].id \in Id
    BY DEF IInv, LockInv, RegisterCommits, EditCommits
  <2>2. {i \in Id : playerLock[i] = r} \in SUBSET Id
    OBVIOUS
  <2> QED
    BY <2>1, <2>2 DEF RegisterCommits, EditCommits, DeleteSongCommits
<1>2. batch'.pc = batch.pc /\ batch'.id = batch.id
  BY <1>1, TouchResult DEF IInv
<1>3. CASE RegisterCommits(r)
  <2>1. /\ tx[r].id \in Id /\ playerLock[tx[r].id] = r /\ userLock[tx[r].user] = r
    BY <1>3 DEF IInv, LockInv, Drafts, DraftOf, RegisterCommits
  <2>2. /\ \A j \in Id \ {tx[r].id} : players'[j] = players[j]
        /\ players'[tx[r].id].owner = tx[r].user
    BY <1>3, RegisterCommitsRows
  <2> QED
    BY <1>1, <1>2, <2>1, <2>2, EndTxDrafts
<1>4. CASE EditCommits(r) \/ DeleteSongCommits(r)
  <2>1. \A i \in Id : players'[i].owner = players[i].owner
    BY <1>4, EditCommitsRows, DeleteSongCommitsRows DEF SameRows
  <2>2. ASSUME NEW i \in Id, playerLock[i] # r
        PROVE  players'[i] = players[i]
    <3>1. EditCommits(r) => tx[r].id # i
      BY <2>2 DEF IInv, LockInv, EditCommits
    <3> QED
      BY <1>4, <2>2, <3>1, DeleteSongWrites DEF EditCommits, IInv, TypeOK
  <2> QED
    BY <1>1, <1>2, <2>1, <2>2, EndTxDrafts
<1> QED
  BY <1>3, <1>4

LEMMA DeletePlayerDrafts ==
  ASSUME IInv, Drafts, NEW u \in User, DeletePlayer(u)
  PROVE  Drafts'
<1>1. /\ userLock[u] = None /\ \A i \in PlayersOf(u) : playerLock[i] = None
      /\ UNCHANGED <<userLock, playerLock, tx, batch>>
  BY DEF DeletePlayer, Unlocked, locks
<1>2. \A i \in Id : players'[i] = players[i] \/ (players'[i] = NoPlayer /\ i \in PlayersOf(u))
  BY DEF DeletePlayer
<1>3. \A i \in Id : \A z \in User : players'[i].owner = z => players[i].owner = z
  <2>1. \A z \in User : z # None
    BY PlayerDataAssumption
  <2> HIDE DEF NoPlayer
  <2> QED
    BY <1>2, <2>1, Nobody
<1>4. ASSUME NEW q \in Request PROVE DraftOf(q)'
  <2>1. q # None
    BY PlayerDataAssumption
  <2> QED
    BY <1>1, <1>2, <1>3, <2>1, OtherDrafts DEF PlayersOf
<1>5. (batch.pc = "locked" => players[batch.id].owner # None)'
  <2>1. batch.pc = "locked" => batch.id \in Id /\ playerLock[batch.id] # None
    BY PlayerDataAssumption DEF IInv, LockInv
  <2> QED
    BY <1>1, <1>2, <2>1 DEF Drafts
<1> QED
  BY <1>4, <1>5 DEF Drafts

LEMMA BatchDrafts ==
  ASSUME IInv, Drafts, BatchStep
  PROVE  Drafts'
<1>1. /\ UNCHANGED <<tx, userLock>>
      /\ \A i \in Id : players'[i].owner = players[i].owner
      /\ \A i \in Id : playerLock[i] \in Request => players'[i] = players[i]
  <2>1. CASE UNCHANGED <<players, tx, userLock>>
    BY <2>1
  <2>2. CASE BatchSavesPlayer
    <3>1. batch.id \in Id /\ playerLock[batch.id] \notin Request
      BY <2>2, PlayerDataAssumption DEF IInv, LockInv, BatchSavesPlayer
    <3>2. \A j \in Id : players'[j].owner = players[j].owner
      BY <2>2, BatchSavesPlayerRows DEF SameRows
    <3> QED
      BY <2>2, <3>1, <3>2 DEF BatchSavesPlayer, IInv, TypeOK
  <2> QED
    BY <2>1, <2>2
       DEF BatchStep, BatchLoadsSnapshot, BatchListsKeys, BatchFinishes, BatchSkips,
           BatchLocksPlayer, BatchFailsPlayer, BatchStops, tables, locks
<1>2. ASSUME NEW q \in Request PROVE DraftOf(q)'
  BY <1>1, OtherDrafts DEF PlayersOf
<1>3. (batch.pc = "locked" => players[batch.id].owner # None)'
  <2>1. ASSUME NEW k \in batch.keys, BatchLocksPlayer(k)
        PROVE  batch'.pc = "locked" => players'[batch'.id].owner # None
    <3>1. players[k.id].owner # None /\ players' = players /\ batch'.id = k.id
      BY <2>1 DEF BatchLocksPlayer, tables, IInv, TypeOK, Recalculation
    <3> QED
      BY <3>1
  <2>2. CASE batch'.pc # "locked"
    BY <2>2
  <2>3. \/ batch'.pc # "locked"
        \/ \E k \in batch.keys : BatchLocksPlayer(k)
    <3>1. batch \in Recalculation
      BY DEF IInv, TypeOK
    <3>2. BatchLoadsSnapshot \/ BatchFinishes \/ BatchStops => batch'.pc # "locked"
      <4>1. NoBatch \in Recalculation /\ NoBatch.pc = "idle"
        BY NoBatchType DEF NoBatch
      <4> HIDE DEF NoBatch
      <4> QED
        BY <4>1 DEF BatchLoadsSnapshot, BatchFinishes, BatchStops, Recalculation
    <3>3. BatchListsKeys => batch'.pc # "locked"
      BY <3>1 DEF BatchListsKeys, Recalculation
    <3>4. BatchSavesPlayer \/ BatchFailsPlayer => batch'.pc # "locked"
      BY <3>1 DEF BatchSavesPlayer, BatchFailsPlayer, Recalculation
    <3>5. (\E k \in batch.keys : BatchSkips(k)) => batch'.pc # "locked"
      BY <3>1 DEF BatchSkips, Recalculation
    <3> QED
      BY <3>2, <3>3, <3>4, <3>5 DEF BatchStep
  <2> QED
    BY <2>1, <2>2, <2>3
<1> QED
  BY <1>2, <1>3 DEF Drafts

LEMMA StepDrafts == IInv /\ ShownInv /\ [Next]_vars => Drafts'
<1> SUFFICES ASSUME IInv, ShownInv, [Next]_vars PROVE Drafts'
  OBVIOUS
<1>1. OwnedRows /\ Drafts /\ LinkedBothWays
  BY DEF ShownInv, ShownAndLinked
<1>2. ASSUME NEW r \in Request, EndTx(r), UNCHANGED <<tables, batch>> PROVE Drafts'
  BY <1>1, <1>2, EndTxDrafts DEF tables
<1>3. ASSUME NEW r \in Request, RegisterStep(r) PROVE Drafts'
  BY <1>1, <1>2, <1>3, EnsureDrafts, CommitDrafts DEF RegisterStep, RegisterConflictsLate
<1>4. ASSUME NEW r \in Request, EditStep(r) PROVE Drafts'
  BY <1>1, <1>4, EditBeginsDrafts, CommitDrafts DEF EditStep
<1>5. ASSUME NEW r \in Request, DeleteSongStep(r) PROVE Drafts'
  BY <1>1, <1>5, DeleteSongDrafts, CommitDrafts DEF DeleteSongStep
<1>6. ASSUME UNCHANGED <<players, playerLock, userLock, tx, batch>> PROVE Drafts'
  BY <1>1, <1>6 DEF Drafts, DraftOf, PlayersOf
<1> QED
  BY <1>1, <1>2, <1>3, <1>4, <1>5, <1>6, DeletePlayerDrafts, BatchDrafts
     DEF Next, RollBack, RestoreSong, NewVersion, locks, vars

-----------------------------------------------------------------------------
(* users.player_id *)

LEMMA RegisterCommitsLinked ==
  ASSUME IInv, OwnedRows, Drafts, LinkedBothWays, NEW r \in Request, RegisterCommits(r)
  PROVE  LinkedBothWays'
<1>1. PICK i \in Id, u \in User :
        /\ i = tx[r].id /\ u = tx[r].user /\ players'[i].owner = u
        /\ \A j \in Id \ {i} : players'[j] = players[j]
  BY RegisterCommitsRows
<1>2. players[i].owner \in {None, u} /\ PlayersOf(u) \subseteq {i}
  BY <1>1 DEF Drafts, DraftOf, RegisterCommits
<1>3. linked' = [linked EXCEPT ![u] = i]
  BY <1>1 DEF RegisterCommits, Link
<1>4. i # 0
  BY <1>1 DEF Id
<1>5. linked'[u] = i /\ \A z \in User \ {u} : linked'[z] = linked[z]
  BY <1>1, <1>3 DEF IInv, TypeOK
<1>6. (PlayersOf(u))' = {i}
  <2>1. \A j \in Id \ {i} : players'[j].owner # u
    BY <1>1, <1>2 DEF PlayersOf
  <2> QED
    BY <1>1, <2>1 DEF PlayersOf
<1>7. \A z \in User \ {u} : (PlayersOf(z))' = PlayersOf(z)
  BY <1>1, <1>2, PlayerDataAssumption DEF PlayersOf
<1>8. \A z \in User \ {u} : (PlayersOf(z))' = {linked'[z]} \ {0}
  BY <1>5, <1>7 DEF LinkedBothWays
<1>9. (PlayersOf(u))' = {linked'[u]} \ {0}
  BY <1>4, <1>5, <1>6
<1> QED
  BY <1>8, <1>9 DEF LinkedBothWays

LEMMA DeletePlayerLinked ==
  ASSUME IInv, LinkedBothWays, NEW u \in User, DeletePlayer(u)
  PROVE  LinkedBothWays'
<1>1. \A i \in Id : players'[i] = IF i \in PlayersOf(u) THEN NoPlayer ELSE players[i]
  BY DEF DeletePlayer
<1>2. linked'[u] = 0 /\ \A z \in User \ {u} : linked'[z] = linked[z]
  BY DEF DeletePlayer, IInv, TypeOK
<1>3. \A z \in User : z # None
  BY PlayerDataAssumption
<1> HIDE DEF NoPlayer
<1>4. (PlayersOf(u))' = {}
  BY <1>1, <1>3, Nobody DEF PlayersOf
<1>5. \A z \in User \ {u} : (PlayersOf(z))' = PlayersOf(z)
  BY <1>1, <1>3, Nobody DEF PlayersOf
<1> QED
  BY <1>2, <1>4, <1>5 DEF LinkedBothWays

LEMMA StepLinked == IInv /\ ShownInv /\ [Next]_vars => LinkedBothWays'
<1> SUFFICES ASSUME IInv, ShownInv, [Next]_vars PROVE LinkedBothWays'
  OBVIOUS
<1>1. OwnedRows /\ Drafts /\ LinkedBothWays
  BY DEF ShownInv, ShownAndLinked
<1>2. ASSUME linked' = linked, \A i \in Id : players'[i].owner = players[i].owner
      PROVE  LinkedBothWays'
  BY <1>1, <1>2 DEF LinkedBothWays, PlayersOf
<1>3. CASE UNCHANGED <<players, linked>>
  BY <1>2, <1>3
<1>4. ASSUME NEW r \in Request, RegisterStep(r) PROVE LinkedBothWays'
  <2>1. CASE RegisterCommits(r)
    BY <1>1, <2>1, RegisterCommitsLinked
  <2>2. CASE ~ RegisterCommits(r)
    <3>1. UNCHANGED <<players, linked>>
      BY <1>4, <2>2 DEF RegisterStep, RegisterEnsuresPlayer, RegisterInsertsPlayer, Ensure,
                        RegisterConflictsLate, tables
    <3> QED
      BY <1>3, <3>1
  <2> QED
    BY <2>1, <2>2
<1>5. ASSUME NEW r \in Request, EditStep(r) PROVE LinkedBothWays'
  <2>1. CASE EditCommits(r)
    BY <1>1, <1>2, <2>1, EditCommitsRows DEF EditCommits, SameRows
  <2> QED
    BY <1>3, <1>5, <2>1 DEF EditStep, EditBegins, tables
<1>6. ASSUME NEW r \in Request, DeleteSongStep(r) PROVE LinkedBothWays'
  <2>1. CASE DeleteSongCommits(r)
    BY <1>2, <2>1, DeleteSongWrites DEF DeleteSongCommits
  <2> QED
    BY <1>3, <1>6, <2>1 DEF DeleteSongStep, DeleteSongLocks, DeleteSongInvalidates, tables
<1>7. ASSUME BatchStep PROVE LinkedBothWays'
  <2>1. CASE BatchSavesPlayer
    BY <1>1, <1>2, <2>1, BatchSavesPlayerRows DEF BatchSavesPlayer, SameRows
  <2> QED
    BY <1>3, <1>7, <2>1
       DEF BatchStep, BatchLoadsSnapshot, BatchListsKeys, BatchFinishes, BatchSkips,
           BatchLocksPlayer, BatchFailsPlayer, BatchStops, tables
<1> QED
  BY <1>1, <1>3, <1>4, <1>5, <1>6, <1>7, DeletePlayerLinked
     DEF Next, RollBack, RestoreSong, NewVersion, tables, vars

-----------------------------------------------------------------------------
LEMMA InitShown == Init => ShownInv
<1> SUFFICES ASSUME Init PROVE ShownInv
  OBVIOUS
<1>1. OwnedRows /\ NewestDataShown
  <2> HIDE DEF NoPlayer, NoData
  <2> QED
    BY Nobody, ZeroSeconds, FS_EmptySet DEF Init, OwnedRows, NewestDataShown
<1>2. Drafts
  <2>1. NoTx.pc = "idle" /\ NoBatch.pc = "idle"
    BY DEF NoTx, NoBatch
  <2> HIDE DEF NoTx, NoBatch
  <2> QED
    BY <2>1 DEF Init, Drafts, DraftOf
<1>3. LinkedBothWays
  <2>1. \A u \in User : u # None
    BY PlayerDataAssumption
  <2> HIDE DEF NoPlayer
  <2> QED
    BY <2>1, Nobody DEF Init, LinkedBothWays, PlayersOf
<1> QED
  BY <1>1, <1>2, <1>3 DEF ShownInv, ShownAndLinked

LEMMA StepShown == IInv /\ ShownInv /\ [Next]_vars => ShownInv'
<1> SUFFICES ASSUME IInv, ShownInv, [Next]_vars PROVE ShownInv'
  OBVIOUS
<1>1. OwnedRows /\ Drafts /\ NewestDataShown
  BY DEF ShownInv, ShownAndLinked
<1>2. OwnedRows' /\ NewestDataShown'
  <2>1. CASE \E r \in Request : RegisterCommits(r)
    BY <1>1, <2>1, RegisterCommitsShown
  <2>2. CASE \A r \in Request : ~ RegisterCommits(r)
    BY <1>1, <2>2, StepRows, RowsKept
  <2> QED
    BY <2>1, <2>2
<1> QED
  BY <1>2, StepDrafts, StepLinked DEF ShownInv, ShownAndLinked

THEOREM SpecShownInv == Spec => []ShownInv
BY InitShown, StepShown, SpecIInv, PTL DEF Spec

\* A player shows the data collected in the last second that it has a result of, however
\* registrations, edits of locked songs, deletions and the recalculation interleave, and
\* users.player_id names the only player of its user.
THEOREM SpecShownAndLinked == Spec => []ShownAndLinked
<1>1. ShownInv => ShownAndLinked
  BY DEF ShownInv
<1> QED
  BY <1>1, SpecShownInv, PTL

\* No writer of a player moves its data_collected_at back.
THEOREM SpecCollectedNeverGoesBack == Spec => CollectedNeverGoesBack
<1> DEFINE Forward == \A i \in Id : players[i].owner # None /\ players'[i].owner # None
                                     => players'[i].collected >= players[i].collected
<1>1. ASSUME IInv, ShownInv, [Next]_vars PROVE Forward
  <2>1. OwnedRows /\ Drafts
    BY <1>1 DEF ShownInv
  <2>2. \A i \in Id : players[i].collected \in Nat
    BY <1>1 DEF IInv, TypeOK, Player
  <2>3. ASSUME NEW r \in Request, RegisterCommits(r) PROVE Forward
    <3> DEFINE i == tx[r].id
               v == [time |-> tx[r].time, body |-> tx[r].body]
    <3>1. /\ v.time \in Nat /\ v.time >= players[i].collected /\ i \in Id
          /\ \A j \in Id \ {i} : players'[j] = players[j]
          /\ players'[i].collected = ToSeconds(v.time)
      BY <1>1, <2>1, <2>3, RegisterCommitsRows
    <3> HIDE DEF i, v
    <3>2. ToSeconds(players[i].collected) <= ToSeconds(v.time)
      BY <2>2, <3>1, SecondsMonotone
    <3>3. ToSeconds(v.time) \in Nat
      BY <3>1, SecondsAreNat
    <3>4. players'[i].collected >= players[i].collected
      BY <2>1, <2>2, <3>1, <3>2, <3>3 DEF OwnedRows
    <3> QED
      BY <2>2, <3>1, <3>4
  <2>4. CASE \A r \in Request : ~ RegisterCommits(r)
    <3>1. \A i \in Id : SameRows(i) \/ Gone(i)
      BY <1>1, <2>1, <2>4, StepRows
    <3> HIDE DEF NoPlayer
    <3> QED
      BY <2>2, <3>1, Nobody DEF SameRows, Gone
  <2> QED
    BY <2>3, <2>4
<1>2. IInv /\ ShownInv /\ [Next]_vars => [Forward]_vars
  BY <1>1
<1> QED
  BY <1>2, SpecIInv, SpecShownInv, PTL DEF Spec, CollectedNeverGoesBack

-----------------------------------------------------------------------------
(* The recalculation passes every player *)

\* A player that was there is still ahead, or on the page, or under the row lock of the
\* recalculation; or it is done with: up to date, changed by someone else, or failed.
CoverInv ==
  batch.pc \in {"listing", "locked"} =>
    /\ \A i \in Existing :
         \/ i > batch.upper \/ i > batch.after
         \/ players[i].fp = batch.m
         \/ i \in batch.touched \cup batch.failed
         \/ \E k \in batch.keys : k.id = i
         \/ batch.pc = "locked" /\ i = batch.id
    /\ \A k \in batch.keys : \/ players[k.id].owner = None
                             \/ players[k.id].collected = k.collected
                             \/ k.id \in batch.touched

\* The page has the outdated players with the smallest ids, and nobody is left behind.
LEMMA PageIsNext ==
  ASSUME TypeOK
  PROVE  /\ \A i \in Outdated : \A last \in Page : i <= last => i \in Page
         /\ Page = {} => Outdated = {}
<1> DEFINE before(i) == {j \in Outdated : j < i}
<1>1. PageSize \in Nat \ {0} /\ Outdated \in SUBSET Nat
  BY PlayerDataAssumption DEF Outdated, Existing, Id
<1>2. IsFiniteSet(Outdated)
  <2>1. IsFiniteSet(Id) /\ Outdated \in SUBSET Id
    BY PlayerDataAssumption, FS_Interval DEF Id, Outdated, Existing
  <2> QED
    BY <2>1, FS_Subset
<1>3. \A i \in Outdated : IsFiniteSet(before(i))
  BY <1>2, FS_Subset
<1>4. \A i \in Outdated : Cardinality(before(i)) \in Nat
  BY <1>3, FS_CardinalityType
<1>5. \A i \in Outdated : i \in Page <=> Cardinality(before(i)) < PageSize
  BY DEF Page
<1> HIDE DEF Outdated
<1>6. ASSUME NEW i \in Outdated, NEW last \in Page, i <= last
      PROVE  i \in Page
  <2>1. last \in Outdated
    BY DEF Page
  <2>2. before(i) \subseteq before(last)
    <3>1. \A j \in Outdated : j \in Nat
      BY <1>1
    <3>2. ASSUME NEW j \in Outdated, j < i PROVE j < last
      BY <1>6, <2>1, <3>1, <3>2
    <3> QED
      BY <3>2
  <2>3. Cardinality(before(i)) <= Cardinality(before(last))
    BY <1>3, <2>1, <2>2, FS_Subset
  <2> HIDE DEF before
  <2> QED
    BY <1>1, <1>4, <1>5, <2>1, <2>3
<1>7. ASSUME Outdated # {}
      PROVE  Page # {}
  <2>1. IsWellFoundedOn(OpToRel(<, Nat), Nat)
    BY NatLessThanWellFounded
  <2>2. PICK i \in Outdated : \A j \in Outdated : <<j, i>> \notin OpToRel(<, Nat)
    BY <1>1, <1>7, <2>1, WFMin
  <2>3. before(i) = {}
    BY <1>1, <2>2 DEF OpToRel
  <2>4. Cardinality(before(i)) = 0
    BY <2>3, FS_EmptySet
  <2> HIDE DEF before
  <2> QED
    BY <1>1, <1>5, <2>4
<1> QED
  BY <1>6, <1>7

\* Another writer changes only players that it reports to the recalculation.
LEMMA TouchedCover ==
  ASSUME TypeOK, CoverInv, NEW I \in SUBSET Id,
         \/ Touch(I)
         \/ batch' = batch /\ I = {},
         \A i \in Id \ I : players'[i] = players[i] \/ players'[i].owner = None
  PROVE  CoverInv'
<1>1. CASE batch.pc \notin {"listing", "locked"}
  <2>1. batch' = batch
    BY <1>1 DEF Touch, TypeOK, Recalculation
  <2> QED
    BY <1>1, <2>1 DEF CoverInv
<1>2. CASE batch.pc \in {"listing", "locked"}
  <2>1. /\ batch'.pc = batch.pc /\ batch'.m = batch.m /\ batch'.upper = batch.upper
        /\ batch'.after = batch.after /\ batch'.keys = batch.keys /\ batch'.id = batch.id
        /\ batch'.failed = batch.failed /\ batch'.touched = batch.touched \cup I
    BY <1>2 DEF Touch, TypeOK, Recalculation
  <2>2. \A k \in batch.keys : k.id \in Id
    BY DEF TypeOK, Recalculation
  <2>3. ASSUME NEW i \in Id, players'[i].owner # None
        PROVE  i \in batch'.touched \/ players'[i] = players[i]
    BY <2>1, <2>3
  <2>4. (\A i \in Existing :
           \/ i > batch.upper \/ i > batch.after
           \/ players[i].fp = batch.m
           \/ i \in batch.touched \cup batch.failed
           \/ \E k \in batch.keys : k.id = i
           \/ batch.pc = "locked" /\ i = batch.id)'
    BY <1>2, <2>1, <2>3 DEF CoverInv, Existing
  <2>5. (\A k \in batch.keys : \/ players[k.id].owner = None
                               \/ players[k.id].collected = k.collected
                               \/ k.id \in batch.touched)'
    BY <1>2, <2>1, <2>2, <2>3 DEF CoverInv
  <2> QED
    BY <2>4, <2>5 DEF CoverInv
<1> QED
  BY <1>1, <1>2

LEMMA BatchListsKeysCover ==
  ASSUME IInv, CoverInv, BatchListsKeys
  PROVE  CoverInv'
<1> DEFINE keys == {[id |-> i, collected |-> players[i].collected] : i \in Page}
<1>1. PICK last \in Page : /\ \A i \in Page : i <= last
                          /\ batch' = [batch EXCEPT !.after = last, !.keys = keys]
  BY DEF BatchListsKeys
<1>2. /\ \A k \in keys : players[k.id].collected = k.collected
      /\ \A i \in Page : \E k \in keys : k.id = i
  <2>1. ASSUME NEW i \in Page
        PROVE  \E k \in keys : k.id = i
    <3>1. /\ [id |-> i, collected |-> players[i].collected] \in keys
          /\ [id |-> i, collected |-> players[i].collected].id = i
      OBVIOUS
    <3> QED
      BY <3>1
  <2>2. \A k \in keys : players[k.id].collected = k.collected
    OBVIOUS
  <2> QED
    BY <2>1, <2>2
<1> HIDE DEF keys
<1>3. /\ batch.pc = "listing" /\ batch.keys = {} /\ batch'.pc = batch.pc
      /\ batch'.m = batch.m /\ batch'.upper = batch.upper /\ batch'.after = last
      /\ batch'.keys = keys /\ batch'.failed = batch.failed
      /\ batch'.touched = batch.touched /\ players' = players
  BY <1>1 DEF BatchListsKeys, tables, IInv, TypeOK, Recalculation
<1>4. ASSUME NEW i \in Existing, i <= batch.upper, i <= last, players[i].fp # batch.m,
             i \notin batch.touched \cup batch.failed
      PROVE  i \in Page
  <2>1. i \in Id /\ batch.after \in Id \cup {0} /\ batch.upper \in Id \cup {0}
    BY DEF Existing, IInv, TypeOK, Recalculation
  <2>2. i > batch.after
    BY <1>3, <1>4, <2>1 DEF CoverInv, Id
  <2>3. i \in Outdated
    BY <1>4, <2>1, <2>2 DEF Outdated, Id
  <2> QED
    BY <1>4, <2>3, PageIsNext DEF IInv
<1>5. ASSUME NEW i \in Existing
      PROVE  \/ i > batch.upper \/ i > last \/ players[i].fp = batch.m
             \/ i \in batch.touched \cup batch.failed
             \/ \E k \in keys : k.id = i
  <2>1. i \in Nat /\ last \in Nat /\ batch.upper \in Nat
    BY DEF Existing, Page, Outdated, Id, IInv, TypeOK, Recalculation
  <2> QED
    BY <1>2, <1>4, <2>1
<1> QED
  BY <1>2, <1>3, <1>5 DEF CoverInv, Existing

LEMMA BatchStepCover ==
  ASSUME IInv, CoverInv, BatchStep
  PROVE  CoverInv'
<1>1. batch \in Recalculation /\ players \in [Id -> Player]
  BY DEF IInv, TypeOK
<1>2. CASE BatchLoadsSnapshot
  <2>1. PICK upper \in Existing \cup {0} :
          batch' = [NoBatch EXCEPT !.pc = "listing", !.m = master, !.upper = upper]
    BY <1>2 DEF BatchLoadsSnapshot
  <2>2. NoBatch \in Recalculation /\ NoBatch.after = 0 /\ NoBatch.keys = {}
    BY NoBatchType DEF NoBatch
  <2> HIDE DEF NoBatch
  <2>3. batch'.after = 0 /\ batch'.keys = {}
    BY <2>1, <2>2 DEF Recalculation
  <2>4. \A i \in Id : i > 0
    BY DEF Id
  <2> QED
    BY <2>3, <2>4 DEF CoverInv, Existing
<1>3. CASE BatchFinishes \/ BatchStops
  <2>1. NoBatch \in Recalculation /\ NoBatch.pc = "idle"
    BY NoBatchType DEF NoBatch
  <2> HIDE DEF NoBatch
  <2>2. batch'.pc \notin {"listing", "locked"}
    BY <1>3, <2>1 DEF BatchFinishes, BatchStops, Recalculation
  <2> QED
    BY <2>2 DEF CoverInv
<1>4. ASSUME NEW k \in batch.keys, BatchSkips(k)
      PROVE  CoverInv'
  <2>1. /\ batch.pc = "listing" /\ batch'.pc = "listing" /\ batch'.m = batch.m
        /\ batch'.upper = batch.upper /\ batch'.after = batch.after
        /\ batch'.keys = batch.keys \ {k} /\ batch'.failed = batch.failed
        /\ batch'.touched = batch.touched /\ players' = players
    BY <1>1, <1>4 DEF BatchSkips, tables, Recalculation
  <2>2. players[k.id].owner = None \/ k.id \in batch.touched
    BY <1>4, <2>1 DEF BatchSkips, Conflicts, CoverInv
  <2> QED
    BY <2>1, <2>2 DEF CoverInv, Existing
<1>5. ASSUME NEW k \in batch.keys, BatchLocksPlayer(k)
      PROVE  CoverInv'
  <2>1. k \in [id : Id, collected : Nat]
    BY <1>1 DEF Recalculation
  <2>2. /\ batch.pc = "listing" /\ batch'.pc = "locked" /\ batch'.m = batch.m
        /\ batch'.upper = batch.upper /\ batch'.after = batch.after
        /\ batch'.keys = batch.keys \ {k} /\ batch'.failed = batch.failed
        /\ batch'.touched = batch.touched /\ players' = players /\ batch'.id = k.id
    BY <1>1, <1>5, <2>1 DEF BatchLocksPlayer, tables, Recalculation
  <2> QED
    BY <2>2 DEF CoverInv, Existing
<1>6. CASE BatchSavesPlayer
  <2>1. /\ batch.pc = "locked" /\ batch'.pc = "listing" /\ batch'.m = batch.m
        /\ batch'.upper = batch.upper /\ batch'.after = batch.after
        /\ batch'.keys = batch.keys /\ batch'.failed = batch.failed
        /\ batch'.touched = batch.touched
    BY <1>1, <1>6 DEF BatchSavesPlayer, Recalculation
  <2>2. /\ batch.id \in Id /\ players'[batch.id].fp = batch.m
        /\ players'[batch.id].collected = players[batch.id].collected
        /\ players'[batch.id].owner = players[batch.id].owner
        /\ \A j \in Id \ {batch.id} : players'[j] = players[j]
    <3> DEFINE i == batch.id
               q == Recalculated(players[i], data[i], batch.m)
    <3>1. /\ i \in Id /\ players[i] \in Player /\ players' = [players EXCEPT ![i] = q]
      BY <1>6, BatchWrites
    <3>2. q.fp = batch.m /\ q.collected = players[i].collected /\ q.owner = players[i].owner
      BY <3>1 DEF Recalculated, Player
    <3> HIDE DEF q
    <3> QED
      BY <1>1, <3>1, <3>2
  <2>3. \A k \in batch.keys : k.id \in Id
    BY <1>1 DEF Recalculation
  <2> QED
    BY <2>1, <2>2, <2>3 DEF CoverInv, Existing
<1>7. CASE BatchFailsPlayer
  <2>1. /\ batch.pc = "locked" /\ batch'.pc = "listing" /\ batch'.m = batch.m
        /\ batch'.upper = batch.upper /\ batch'.after = batch.after
        /\ batch'.keys = batch.keys /\ batch'.failed = batch.failed \cup {batch.id}
        /\ batch'.touched = batch.touched /\ players' = players
    BY <1>1, <1>7 DEF BatchFailsPlayer, tables, Recalculation
  <2> QED
    BY <2>1 DEF CoverInv, Existing
<1> QED
  BY <1>2, <1>3, <1>4, <1>5, <1>6, <1>7, BatchListsKeysCover DEF BatchStep

LEMMA StepCover == IInv /\ CoverInv /\ [Next]_vars => CoverInv'
<1> SUFFICES ASSUME IInv, CoverInv, [Next]_vars PROVE CoverInv'
  OBVIOUS
<1>1. TypeOK
  BY DEF IInv
<1>2. CASE UNCHANGED <<players, batch>>
  BY <1>2 DEF CoverInv, Existing
<1>3. ASSUME NEW r \in Request, RegisterCommits(r) \/ EditCommits(r) PROVE CoverInv'
  <2>1. tx[r].id \in Id
    BY <1>3 DEF IInv, LockInv, RegisterCommits, EditCommits
  <2>2. Touch({tx[r].id}) /\ \A i \in Id \ {tx[r].id} : players'[i] = players[i]
    BY <1>1, <1>3, <2>1 DEF RegisterCommits, EditCommits, TypeOK
  <2> QED
    BY <1>1, <2>1, <2>2, TouchedCover
<1>4. ASSUME NEW r \in Request, DeleteSongCommits(r) PROVE CoverInv'
  <2> DEFINE I == {i \in Id : playerLock[i] = r}
  <2>1. Touch(I) /\ I \in SUBSET Id
    BY <1>4 DEF DeleteSongCommits
  <2>2. \A i \in Id \ I : players'[i] = players[i]
    BY <1>4, DeleteSongWrites
  <2> HIDE DEF I
  <2> QED
    BY <1>1, <2>1, <2>2, TouchedCover
<1>5. ASSUME NEW u \in User, DeletePlayer(u) PROVE CoverInv'
  <2>1. batch' = batch /\ \A i \in Id : players'[i] = players[i] \/ players'[i] = NoPlayer
    BY <1>5 DEF DeletePlayer
  <2> HIDE DEF NoPlayer
  <2> QED
    BY <1>1, <2>1, Nobody, TouchedCover
<1>6. ASSUME NEW r \in Request, RegisterStep(r) PROVE CoverInv'
  <2>1. CASE RegisterCommits(r)
    BY <1>3, <2>1
  <2>2. CASE ~ RegisterCommits(r)
    <3>1. UNCHANGED <<players, batch>>
      BY <1>6, <2>2 DEF RegisterStep, RegisterEnsuresPlayer, RegisterInsertsPlayer, Ensure,
                        RegisterConflictsLate, tables
    <3> QED
      BY <1>2, <3>1
  <2> QED
    BY <2>1, <2>2
<1>7. ASSUME NEW r \in Request, EditStep(r) PROVE CoverInv'
  BY <1>2, <1>3, <1>7 DEF EditStep, EditBegins, tables
<1>8. ASSUME NEW r \in Request, DeleteSongStep(r) PROVE CoverInv'
  BY <1>2, <1>4, <1>8 DEF DeleteSongStep, DeleteSongLocks, DeleteSongInvalidates, tables
<1> QED
  BY <1>2, <1>5, <1>6, <1>7, <1>8, BatchStepCover
     DEF Next, RollBack, RestoreSong, NewVersion, tables, vars

\* The pages, skips, failures and concurrent writers of a recalculation leave out no player
\* that was there when it loaded the master.
THEOREM SpecBatchMissesNobody == Spec => BatchMissesNobody
<1> DEFINE Misses == batch.pc = "listing" /\ batch'.pc = "idle" =>
                       \A i \in Existing : \/ i > batch.upper
                                           \/ players[i].fp = batch.m
                                           \/ i \in batch.touched \cup batch.failed
<1>1. Init => CoverInv
  <2>1. NoBatch.pc = "idle"
    BY DEF NoBatch
  <2> HIDE DEF NoBatch
  <2> QED
    BY <2>1 DEF Init, CoverInv
<1>2. Spec => []CoverInv
  BY <1>1, SpecIInv, StepCover, PTL DEF Spec
<1>3. ASSUME IInv, CoverInv, [Next]_vars PROVE Misses
  <2>1. CASE batch'.pc = batch.pc
    BY <2>1
  <2>2. CASE BatchFinishes
    <3>1. batch.keys = {} /\ batch.pc = "listing" /\ Outdated = {}
      BY <1>3, <2>2, PageIsNext DEF BatchFinishes, IInv
    <3>2. ASSUME NEW i \in Existing, i > batch.after, ~ (i > batch.upper)
          PROVE  players[i].fp = batch.m
      <4>1. i \in Nat /\ batch.after \in Nat /\ batch.upper \in Nat
        BY <1>3 DEF Existing, Id, IInv, TypeOK, Recalculation
      <4> QED
        BY <3>1, <3>2, <4>1 DEF Outdated
    <3> QED
      BY <1>3, <3>1, <3>2 DEF CoverInv
  <2>3. CASE BatchStep /\ ~ BatchFinishes
    <3>1. NoBatch \in Recalculation /\ batch \in Recalculation
      BY <1>3, NoBatchType DEF IInv, TypeOK
    <3> HIDE DEF NoBatch
    <3>2. BatchLoadsSnapshot => batch.pc # "listing"
      BY DEF BatchLoadsSnapshot
    <3>3. BatchListsKeys => batch'.pc # "idle"
      BY <3>1 DEF BatchListsKeys, Recalculation
    <3>4. (\E k \in batch.keys : BatchSkips(k) \/ BatchLocksPlayer(k)) => batch'.pc # "idle"
      BY <3>1 DEF BatchSkips, BatchLocksPlayer, Recalculation
    <3>5. BatchSavesPlayer \/ BatchFailsPlayer \/ BatchStops => batch'.pc # "idle"
      BY <3>1 DEF BatchSavesPlayer, BatchFailsPlayer, BatchStops, Recalculation
    <3> QED
      BY <2>3, <3>2, <3>3, <3>4, <3>5 DEF BatchStep
  <2>4. CASE \E I \in SUBSET Id : Touch(I)
    BY <1>3, <2>1, <2>4, TouchResult DEF IInv
  <2>5. \/ batch' = batch \/ BatchStep \/ \E I \in SUBSET Id : Touch(I)
    <3>1. ASSUME NEW r \in Request, RegisterCommits(r) \/ EditCommits(r)
          PROVE  \E I \in SUBSET Id : Touch(I)
      BY <1>3, <3>1 DEF IInv, LockInv, RegisterCommits, EditCommits
    <3>2. ASSUME NEW r \in Request, DeleteSongCommits(r)
          PROVE  \E I \in SUBSET Id : Touch(I)
      BY <3>2 DEF DeleteSongCommits
    <3>3. ASSUME NEW r \in Request, RegisterStep(r), ~ RegisterCommits(r) PROVE batch' = batch
      BY <3>3 DEF RegisterStep, RegisterEnsuresPlayer, RegisterInsertsPlayer, Ensure,
                  RegisterConflictsLate
    <3>4. ASSUME NEW r \in Request, EditStep(r), ~ EditCommits(r) PROVE batch' = batch
      BY <3>4 DEF EditStep, EditBegins
    <3>5. ASSUME NEW r \in Request, DeleteSongStep(r), ~ DeleteSongCommits(r)
          PROVE  batch' = batch
      BY <3>5 DEF DeleteSongStep, DeleteSongLocks, DeleteSongInvalidates
    <3> QED
      BY <1>3, <3>1, <3>2, <3>3, <3>4, <3>5
         DEF Next, RollBack, DeletePlayer, RestoreSong, NewVersion, vars
  <2> QED
    BY <2>1, <2>2, <2>3, <2>4, <2>5
<1>4. IInv /\ CoverInv /\ [Next]_vars => [Misses]_vars
  BY <1>3
<1> QED
  BY <1>2, <1>4, SpecIInv, PTL DEF Spec, BatchMissesNobody
=============================================================================
