------------------------------- MODULE Accounts -------------------------------
(***************************************************************************)
(* Users, their roles and the Firebase accounts they sign in with.  The    *)
(* rows of users are the server's, a Firebase account is not: it is        *)
(* verified before a transaction and deleted after one, and the deletion   *)
(* may fail or never be sent.                                              *)
(*                                                                         *)
(* A request first verifies or reads, without a lock; then a transaction   *)
(* locks the rows it decides on, checks them and writes: one step.  Two    *)
(* rows are always locked in the order of their ids.                       *)
(***************************************************************************)
EXTENDS Integers, FiniteSets

CONSTANTS
  UserId,     \* ids of users, never reused
  Uid,        \* Firebase accounts
  Role,       \* account types
  Admin, Player,
  NoUid, NoUser,
  Caller,     \* requests that may run at a time
  FirstUsers, \* users there are at the beginning
  MaxCalls    \* bound on the requests

ASSUME AccountsAssumption ==
  /\ {Admin, Player} \subseteq Role /\ Admin # Player
  /\ NoUid \notin Uid /\ MaxCalls \in Nat
  /\ FirstUsers \in [UserId -> [role : Role, uid : Uid \cup {NoUid}] \cup {NoUser}]
  /\ NoUser \notin [role : Role, uid : Uid \cup {NoUid}]
  /\ \E u \in UserId : FirstUsers[u] # NoUser /\ FirstUsers[u].role = Admin
  /\ \A u, v \in UserId :
       FirstUsers[u] # NoUser /\ FirstUsers[v] # NoUser /\ FirstUsers[u].uid = FirstUsers[v].uid
         => u = v \/ FirstUsers[u].uid = NoUid

VARIABLES
  userRows,     \* the rows
  departed,  \* ids of deleted rows
  firebase,  \* the accounts that exist
  call,      \* what each request is doing
  calls,     \* number of requests so far
  used,      \* history: accounts that have been linked
  reused,    \* history: accounts that have been linked more than once
  resigned   \* history: an administrator deleted his own account

accountsVars == <<userRows, departed, firebase, call, calls, used, reused, resigned>>

Row == [role : Role, uid : Uid \cup {NoUid}]
Exists(u) == userRows[u] # NoUser
LinkedUids == {userRows[u].uid : u \in {v \in UserId : Exists(v)}} \ {NoUid}

AccountsTypeOK ==
  /\ userRows \in [UserId -> Row \cup {NoUser}]
  /\ departed \subseteq UserId /\ \A u \in departed : ~Exists(u)
  /\ firebase \subseteq Uid /\ reused \subseteq used /\ used \subseteq Uid
  /\ LinkedUids \subseteq used
  /\ calls \in 0 .. MaxCalls /\ resigned \in BOOLEAN
  /\ \A c \in Caller :
       call[c].pc \in {"idle", "signup", "link", "change", "leave", "remove", "permit", "firebase"}

Done == [pc |-> "idle"]

AccountsInit ==
  /\ userRows = FirstUsers /\ departed = {} /\ firebase = Uid
  /\ call = [c \in Caller |-> Done] /\ calls = 0
  /\ used = LinkedUids /\ reused = {} /\ resigned = FALSE
-----------------------------------------------------------------------------
\* A request arrives, and is what is known before its transaction.
Arrives(c, state) ==
  /\ call[c].pc = "idle" /\ calls < MaxCalls
  /\ call' = [call EXCEPT ![c] = state] /\ calls' = calls + 1
  /\ UNCHANGED <<userRows, departed, firebase, used, reused, resigned>>

\* VerifyIDToken, VerifyRecentSignIn: deleted accounts are refused.
Verified(uid) == uid \in firebase

Signup(c) == \E x \in Uid : Verified(x) /\ Arrives(c, [pc |-> "signup", new |-> x])

LinkFirebaseUID(c) ==
  \E u \in UserId, x \in Uid :
    Exists(u) /\ Verified(x) /\ Arrives(c, [pc |-> "link", user |-> u, new |-> x])

\* The user signs in again with the present account, and with the new one.
ChangeFirebaseAccount(c) ==
  \E u \in UserId, x, y \in Uid :
    /\ Exists(u) /\ userRows[u].uid = x /\ Verified(x) /\ Verified(y)
    /\ Arrives(c, [pc |-> "change", user |-> u, old |-> x, new |-> y])

OwnerDeletes(c) ==
  \E u \in UserId, x \in Uid :
    /\ Exists(u) /\ userRows[u].uid = x /\ Verified(x)
    /\ Arrives(c, [pc |-> "leave", user |-> u, old |-> x])

\* An administrator is authenticated and names a user, who is read.
IsAdmin(u) == Exists(u) /\ userRows[u].role = Admin

AdminDeletes(c) ==
  \E a, u \in UserId :
    /\ IsAdmin(a) /\ Exists(u) /\ u # a
    /\ Arrives(c, [pc |-> "remove", by |-> a, user |-> u, old |-> userRows[u].uid])

ChangePermission(c) ==
  \E a, u \in UserId, role \in Role :
    /\ IsAdmin(a) /\ Exists(u)
    /\ Arrives(c, [pc |-> "permit", by |-> a, user |-> u, role |-> role])

\* Whatever is refused, or fails, before its commit.
Refuse(c) ==
  /\ call[c].pc \notin {"idle", "firebase"}
  /\ call' = [call EXCEPT ![c] = Done]
  /\ UNCHANGED <<userRows, departed, firebase, calls, used, reused, resigned>>
-----------------------------------------------------------------------------
\* The transactions.  users.firebase_uid is unique.

InTx(c, pc) == call[c].pc = pc /\ UNCHANGED <<firebase, calls>>
Then(c, state) == call' = [call EXCEPT ![c] = state]

\* A row gets an account that no row has.
Gets(u, row) ==
  /\ row.uid \notin LinkedUids
  /\ userRows' = [userRows EXCEPT ![u] = row]
  /\ used' = used \cup {row.uid}
  /\ reused' = reused \cup ({row.uid} \cap used)
  /\ UNCHANGED <<departed, resigned>>

\* After the commit the account is to be deleted.
Discards(c, uid) ==
  Then(c, IF uid = NoUid THEN Done ELSE [pc |-> "firebase", old |-> uid])

Loses(u) ==
  /\ userRows' = [userRows EXCEPT ![u] = NoUser] /\ departed' = departed \cup {u}
  /\ UNCHANGED <<used, reused>>

InsertUser(c) ==
  \E u \in UserId \ departed :
    /\ InTx(c, "signup") /\ ~Exists(u)
    /\ Gets(u, [role |-> Player, uid |-> call[c].new])
    /\ Then(c, Done)

LinkUser(c) ==
  LET u == call[c].user
  IN /\ InTx(c, "link") /\ Exists(u) /\ userRows[u].uid = NoUid
     /\ Gets(u, [userRows[u] EXCEPT !.uid = call[c].new])
     /\ Then(c, Done)

\* Mutant: the old account is deleted although the new one is taken.
RelinkUser_DiscardAnyway(c) ==
  LET u == call[c].user
  IN /\ InTx(c, "change") /\ Exists(u) /\ userRows[u].uid = call[c].old
     /\ \/ Gets(u, [userRows[u] EXCEPT !.uid = call[c].new])
        \/ call[c].new \in LinkedUids /\ UNCHANGED <<userRows, departed, used, reused, resigned>>
     /\ Discards(c, call[c].old)

\* The account must still be the one that was verified.
RelinkUser(c) ==
  LET u == call[c].user
  IN /\ InTx(c, "change") /\ Exists(u) /\ userRows[u].uid = call[c].old
     /\ Gets(u, [userRows[u] EXCEPT !.uid = call[c].new])
     /\ Discards(c, call[c].old)

Leave(c) ==
  LET u == call[c].user
  IN /\ InTx(c, "leave") /\ Exists(u) /\ userRows[u].uid = call[c].old
     /\ Loses(u) /\ resigned' = (resigned \/ userRows[u].role = Admin)
     /\ Discards(c, call[c].old)

\* performPhysicalUserDeletion.  The account is the one read before the lock.
RemoveUser(c) ==
  /\ InTx(c, "remove") /\ IsAdmin(call[c].by) /\ Exists(call[c].user)
  /\ Loses(call[c].user) /\ UNCHANGED resigned
  /\ Discards(c, call[c].old)

\* Mutant: whether the requester is an administrator is not checked again.
SetRole_Unchecked(c) ==
  LET u == call[c].user
  IN /\ InTx(c, "permit") /\ Exists(call[c].by) /\ Exists(u)
     /\ u = call[c].by => call[c].role = Admin
     /\ userRows' = [userRows EXCEPT ![u].role = call[c].role]
     /\ Then(c, Done) /\ UNCHANGED <<departed, used, reused, resigned>>

\* No administrator takes the role from himself.
SetRole(c) ==
  LET u == call[c].user
  IN /\ InTx(c, "permit") /\ IsAdmin(call[c].by) /\ Exists(u)
     /\ u = call[c].by => call[c].role = Admin
     /\ userRows' = [userRows EXCEPT ![u].role = call[c].role]
     /\ Then(c, Done) /\ UNCHANGED <<departed, used, reused, resigned>>

\* Firebase deletes the account; or not, which is only logged.
DiscardAccount(c) ==
  /\ call[c].pc = "firebase" /\ Then(c, Done)
  /\ firebase' \in {firebase \ {call[c].old}, firebase}
  /\ UNCHANGED <<userRows, departed, calls, used, reused, resigned>>

AccountsNext ==
  \E c \in Caller :
    \/ Signup(c) \/ LinkFirebaseUID(c) \/ ChangeFirebaseAccount(c)
    \/ OwnerDeletes(c) \/ AdminDeletes(c) \/ ChangePermission(c)
    \/ Refuse(c)
    \/ InsertUser(c) \/ LinkUser(c) \/ RelinkUser(c) \/ Leave(c)
    \/ RemoveUser(c) \/ SetRole(c)
    \/ DiscardAccount(c)

AccountsSpec == AccountsInit /\ [][AccountsNext]_accountsVars
-----------------------------------------------------------------------------
\* However administrators remove each other and each other's role, one remains,
\* unless an administrator has deleted his own account.
\* (user_usecase_impl.go:387, user_permission_usecase.go:36)
AdminRemains == resigned \/ \E u \in UserId : IsAdmin(u)

\* Nobody loses the account he signs in with, though accounts are deleted outside of
\* transactions; unless it had been another link's before, whose deletion may be under
\* way.  (user_credential_usecase.go:317 accepts this)
LoginKept ==
  \A u \in UserId : Exists(u) /\ userRows[u].uid \notin reused \cup {NoUid} =>
    Verified(userRows[u].uid)
=============================================================================
