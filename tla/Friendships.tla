----------------------------- MODULE Friendships ------------------------------
(***************************************************************************)
(* Friends by mutual consent.  A friendship is two rows, one per           *)
(* direction, both accepted; a request is one pending row.  Requesting,    *)
(* accepting, rejecting and cancelling run in a transaction that locks the *)
(* rows of both users, the smaller id first, and then reads and writes;    *)
(* so does an administrator who deletes a user.  Removing a friend is one  *)
(* DELETE of both directions that locks no user.                           *)
(*                                                                         *)
(* The locking reads of the users' rows take no snapshot: a transaction    *)
(* sees what was committed when it had its second lock.                    *)
(***************************************************************************)
EXTENDS Integers, FiniteSets

CONSTANTS
  MaxUserID,      \* largest value of users.id
  User,           \* ids of users
  Request,        \* requests to the servers
  None,
  MaxOutgoing     \* info.FriendshipMaxOutgoingActive

ASSUME FriendshipsAssumption ==
  /\ MaxUserID \in Nat /\ User \subseteq 1 .. MaxUserID
  /\ MaxOutgoing \in Nat \ {0}

VARIABLES
  users,    \* table users
  rows,     \* table friendships, by user_id and friend_user_id
  lock,     \* row locks on users
  tx        \* transactions

vars == <<users, rows, lock, tx>>

Status == {"none", "pending", "accepted"}
Op == {"send", "accept", "reject", "cancel", "delete"}

\* What a transaction has read: its two rows and its count of outgoing ones.
Seen == [outgoing : Status, incoming : Status, count : Nat]
Nothing == [outgoing |-> "none", incoming |-> "none", count |-> 0]

Transaction == [pc : {"begun", "locking", "locked"}, op : Op,
                me : User, other : User, seen : Seen]
ASSUME NoneIsNobody == None \notin Transaction /\ None \notin Request

\* There are rows only between two different users.
TypeOK ==
  /\ users \subseteq User
  /\ rows \in [User -> [User -> Status]]
  /\ \A u, v \in User : rows[u][v] # "none" => u # v /\ {u, v} \subseteq users
  /\ lock \in [User -> Request \cup {None}]
  /\ tx \in [Request -> Transaction \cup {None}]

Init ==
  /\ users = User
  /\ rows = [u \in User |-> [v \in User |-> "none"]]
  /\ lock = [u \in User |-> None]
  /\ tx = [r \in Request |-> None]

-----------------------------------------------------------------------------
\* The users that a user has asked or is friends with.
Active(u) == {v \in User : rows[u][v] # "none"}

\* ensureOutgoingSlot
HasSlot(seen) == seen.count < MaxOutgoing

\* Mutants: the caller's row first; the caller's row only.
LockOrder_CallerFirst(t) == <<t.me, t.other>>
LockOrder_OnlyCaller(t) == <<t.me, t.me>>

\* lockUsers, lockRequesterAndTarget
LockOrder(t) == IF t.me < t.other THEN <<t.me, t.other>> ELSE <<t.other, t.me>>

At(r, pc) == tx[r] # None /\ tx[r].pc = pc

\* COMMIT or ROLLBACK.
End(r) ==
  /\ tx' = [tx EXCEPT ![r] = None]
  /\ lock' = [u \in User |-> IF lock[u] = r THEN None ELSE lock[u]]

\* The names are looked up before the transaction begins.
Begin(r) ==
  /\ tx[r] = None
  /\ \E op \in Op, me, other \in users :
       /\ me # other
       /\ tx' = [tx EXCEPT ![r] = [pc |-> "begun", op |-> op, me |-> me,
                                   other |-> other, seen |-> Nothing]]
  /\ UNCHANGED <<users, rows, lock>>

LocksUser(r, u) ==
  /\ u \in users /\ lock[u] \in {None, r}
  /\ lock' = [lock EXCEPT ![u] = r]
  /\ UNCHANGED <<users, rows>>

LockFirst(r) ==
  /\ At(r, "begun")
  /\ LocksUser(r, LockOrder(tx[r])[1])
  /\ tx' = [tx EXCEPT ![r].pc = "locking"]

\* The first plain SELECT follows, and with it the snapshot.
LockSecond(r) ==
  LET me == tx[r].me
      other == tx[r].other
  IN /\ At(r, "locking")
     /\ LocksUser(r, LockOrder(tx[r])[2])
     /\ tx' = [tx EXCEPT
          ![r].pc = "locked",
          ![r].seen = [outgoing |-> rows[me][other], incoming |-> rows[other][me],
                       count |-> Cardinality(Active(me))]]

\* Save and DeletePending, on the rows as they are now.
Put(u, v, status) == rows' = [rows EXCEPT ![u][v] = status]
DeletePending(u, v) == Put(u, v, IF rows[u][v] = "pending" THEN "none" ELSE rows[u][v])

\* Two Saves, each an upsert, whatever has become of the request meanwhile.
AcceptMutual(me, other) ==
  rows' = [rows EXCEPT ![other][me] = "accepted", ![me][other] = "accepted"]

\* Mutant: a mutual request does not ask for a place.
Befriend_NoSlot(r) ==
  LET t == tx[r]
  IN /\ At(r, "locked")
     /\ t.op = "accept" \/ (t.op = "send" /\ t.seen.outgoing = "none")
     /\ t.seen.incoming = "pending" /\ (t.op = "accept" => HasSlot(t.seen))
     /\ AcceptMutual(t.me, t.other)
     /\ End(r)
     /\ UNCHANGED users

\* An acceptance, or a request that crosses another.
Befriend(r) ==
  LET t == tx[r]
  IN /\ At(r, "locked")
     /\ t.op = "accept" \/ (t.op = "send" /\ t.seen.outgoing = "none")
     /\ t.seen.incoming = "pending" /\ HasSlot(t.seen)
     /\ AcceptMutual(t.me, t.other)
     /\ End(r)
     /\ UNCHANGED users

SendRequest(r) ==
  LET t == tx[r]
  IN /\ At(r, "locked") /\ t.op = "send"
     /\ t.seen.outgoing = "none" /\ t.seen.incoming = "none" /\ HasSlot(t.seen)
     /\ Put(t.me, t.other, "pending")
     /\ End(r)
     /\ UNCHANGED users

RejectRequest(r) ==
  LET t == tx[r]
  IN /\ At(r, "locked") /\ t.op = "reject"
     /\ t.seen.incoming = "pending"
     /\ DeletePending(t.other, t.me)
     /\ End(r)
     /\ UNCHANGED users

CancelRequest(r) ==
  LET t == tx[r]
  IN /\ At(r, "locked") /\ t.op = "cancel"
     /\ t.seen.outgoing = "pending"
     /\ DeletePending(t.me, t.other)
     /\ End(r)
     /\ UNCHANGED users

\* DELETE FROM users, with ON DELETE CASCADE.
Erase(u) ==
  /\ users' = users \ {u}
  /\ rows' = [x \in User |-> [y \in User |-> IF u \in {x, y} THEN "none" ELSE rows[x][y]]]

DeleteUser(r) ==
  /\ At(r, "locked") /\ tx[r].op = "delete"
  /\ Erase(tx[r].other)
  /\ End(r)

\* Only the user's own row is locked.
DeleteOwnAccount(u) ==
  /\ u \in users /\ lock[u] = None
  /\ Erase(u)
  /\ UNCHANGED <<lock, tx>>

\* DeletePair, in no transaction and whatever the status is.
Remove(me, other) ==
  /\ {me, other} \subseteq users /\ me # other
  /\ rows' = [rows EXCEPT ![me][other] = "none", ![other][me] = "none"]
  /\ UNCHANGED <<users, lock, tx>>

\* A refusal, a user who is gone, an error, a client who is gone.
RollBack(r) ==
  /\ tx[r] # None
  /\ End(r)
  /\ UNCHANGED <<users, rows>>

RequestStep(r) ==
  \/ Begin(r) \/ LockFirst(r) \/ LockSecond(r)
  \/ Befriend(r) \/ SendRequest(r) \/ RejectRequest(r) \/ CancelRequest(r)
  \/ DeleteUser(r) \/ RollBack(r)

Next ==
  \/ \E r \in Request : RequestStep(r)
  \/ \E me, other \in User : Remove(me, other)
  \/ \E u \in User : DeleteOwnAccount(u)

Spec == Init /\ [][Next]_vars

-----------------------------------------------------------------------------
(* Properties *)

\* Who is a friend of somebody has them as a friend, and two requests never
\* cross: crossed requests become a friendship, in whatever order the requests,
\* answers, removals and deletions of both sides arrive.
Mutual ==
  \A u, v \in User :
    /\ rows[u][v] = "accepted" => rows[v][u] = "accepted"
    /\ rows[u][v] = "pending" => rows[v][u] = "none"

\* Nobody gets more outgoing rows than the limit, although the limit is checked by
\* counting and the acceptance of one side writes a row of the other.
LimitHolds == \A u \in User : Cardinality(Active(u)) <= MaxOutgoing

\* The user whose row a request waits for.
Wanted(r) == LockOrder(tx[r])[IF tx[r].pc = "begun" THEN 1 ELSE 2]
WaitsFor(r, s) ==
  /\ At(r, "begun") \/ At(r, "locking")
  /\ r # s /\ lock[Wanted(r)] = s

\* The requests of any group never all wait for each other: nothing retries the
\* one that InnoDB would roll back.
NoDeadlock ==
  \A S \in (SUBSET Request) \ {{}} : \E r \in S : \A s \in S : ~WaitsFor(r, s)

\* "One asks, and they are friends when the other accepts": two users become
\* friends only out of a request that is still there.
FormedFromRequest ==
  [][\A u, v \in User : (rows[u][v] # "accepted" /\ rows'[u][v] = "accepted")
       => "pending" \in {rows[u][v], rows[v][u]}]_vars
=============================================================================
