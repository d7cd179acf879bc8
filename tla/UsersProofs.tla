----------------------------- MODULE UsersProofs ------------------------------
(***************************************************************************)
(* Proofs about what belongs to users: an administrator remains and nobody *)
(* loses the account he signs in with; of every new honor somebody is told *)
(* once; and what a user has is within its limits, numbered without gaps   *)
(* and fit for a transfer.  For any users, accounts, requests, players,    *)
(* honors, ids and limits.                                                 *)
(***************************************************************************)
EXTENDS Accounts, Honors, UserResources, Friendships, FiniteSetTheorems, WellFoundedInduction,
        TLAPS

-----------------------------------------------------------------------------
(* Accounts *)

\* What a request may know.
CallState ==
  [pc : {"idle"}]
    \cup [pc : {"signup"}, new : Uid]
    \cup [pc : {"link"}, user : UserId, new : Uid]
    \cup [pc : {"change"}, user : UserId, old : Uid, new : Uid]
    \cup [pc : {"leave"}, user : UserId, old : Uid]
    \cup [pc : {"remove"}, by : UserId, user : UserId, old : Uid \cup {NoUid}]
    \cup [pc : {"permit"}, by : UserId, user : UserId, role : Role]
    \cup [pc : {"firebase"}, old : Uid]

TypeInv == AccountsTypeOK /\ call \in [Caller -> CallState]

\* users.firebase_uid is unique.
UniqueInv ==
  \A u, v \in UserId :
    Exists(u) /\ Exists(v) /\ userRows[u].uid = userRows[v].uid /\ userRows[u].uid # NoUid => u = v

\* An account that has been linked, and is linked now only if again.
Left(x) == x \in used /\ (x \in LinkedUids => x \in reused)

\* So is every account that is gone.
GoneInv == \A x \in Uid \ firebase : Left(x)

\* What a request knows remains true in the way its transaction needs: an account
\* that is about to be deleted has been left; one that will be with its user has
\* been linked, and nobody else has it but by a new link; and no administrator is
\* about to remove himself.
CallInv(k) ==
  /\ k.pc = "firebase" => Left(k.old)
  /\ k.pc \in {"change", "leave", "remove"} => k.old \in used \cup {NoUid}
  /\ k.pc = "remove" =>
       /\ k.by # k.user
       /\ \A v \in UserId : Exists(v) /\ userRows[v].uid = k.old /\ k.old # NoUid =>
            v = k.user \/ k.old \in reused

RequestInv == \A c \in Caller : CallInv(call[c])

UidInv == UniqueInv /\ GoneInv /\ RequestInv

AccountsIInv == TypeInv /\ AdminRemains /\ UidInv
-----------------------------------------------------------------------------
\* What a step means for links: they come from unlinked accounts only, and an account
\* that has been linked before is reused.
LinksGrow ==
  /\ used \subseteq used' /\ reused \subseteq reused'
  /\ \A v \in UserId : Exists(v)' /\ userRows'[v].uid \in used =>
       \/ Exists(v) /\ userRows[v].uid = userRows'[v].uid
       \/ userRows'[v].uid \in reused'

LEMMA LinkedBy ==
  \A x : x \in LinkedUids <=> x # NoUid /\ \E u \in UserId : Exists(u) /\ userRows[u].uid = x
BY DEF LinkedUids

LEMMA LinkedByNext ==
  \A x : x \in LinkedUids' <=> x # NoUid /\ \E u \in UserId : Exists(u)' /\ userRows'[u].uid = x
BY DEF LinkedUids, Exists

\* What has been left stays so.
LEMMA LeftKept ==
  ASSUME LinksGrow, NEW x, Left(x)
  PROVE  Left(x)'
<1>1. x \in used' /\ (x \in reused => x \in reused')
  BY DEF LinksGrow, Left
<1>2. SUFFICES ASSUME x \in LinkedUids' PROVE x \in reused'
  BY <1>1 DEF Left
<1>3. PICK u \in UserId : x # NoUid /\ Exists(u)' /\ userRows'[u].uid = x
  BY <1>2, LinkedByNext
<1>4. x \in used
  BY DEF Left
<1>5. CASE userRows'[u].uid \in reused'
  BY <1>3, <1>5
<1>6. CASE Exists(u) /\ userRows[u].uid = userRows'[u].uid
  <2>1. x \in LinkedUids
    BY <1>3, <1>6, LinkedBy
  <2> QED
    BY <2>1, <1>1 DEF Left
<1> QED
  BY <1>3, <1>4, <1>5, <1>6 DEF LinksGrow

\* What other requests know survives a step that only links unlinked accounts.
LEMMA CallKept ==
  ASSUME LinksGrow, NEW k, CallInv(k)
  PROVE  CallInv(k)'
<1>1. k.pc = "firebase" => Left(k.old)'
  BY LeftKept DEF CallInv
<1>2. k.pc \in {"change", "leave", "remove"} => k.old \in used' \cup {NoUid}
  BY DEF CallInv, LinksGrow
<1>3. ASSUME k.pc = "remove", NEW v \in UserId, Exists(v)', userRows'[v].uid = k.old,
             k.old # NoUid
      PROVE  v = k.user \/ k.old \in reused'
  <2>1. k.old \in used
    BY <1>3 DEF CallInv
  <2>2. \/ Exists(v) /\ userRows[v].uid = k.old
        \/ k.old \in reused'
    BY <2>1, <1>3 DEF LinksGrow
  <2> QED
    BY <2>2, <1>3 DEF CallInv, LinksGrow
<1> QED
  BY <1>1, <1>2, <1>3 DEF CallInv

LEMMA RequestsKept ==
  ASSUME TypeInv, RequestInv, LinksGrow, NEW c \in Caller, NEW k,
         call' = [call EXCEPT ![c] = k], CallInv(k)'
  PROVE  RequestInv'
<1> SUFFICES ASSUME NEW d \in Caller PROVE CallInv(call[d])'
  BY DEF RequestInv
<1>1. CASE d = c
  <2>1. call'[d] = k
    BY <1>1 DEF TypeInv
  <2> QED
    BY <2>1 DEF CallInv, Left
<1>2. CASE d # c
  <2>1. call'[d] = call[d]
    BY <1>2 DEF TypeInv
  <2>2. CallInv(call[d])'
    <3>1. \A l : l = call[d] => CallInv(l)
      BY DEF RequestInv
    <3>2. \A l : l = call[d] => CallInv(l)'
      BY <3>1, CallKept
    <3>3. ASSUME NEW l, l = call[d] PROVE l = call'[d] /\ CallInv(l)'
      BY <2>1, <3>2, <3>3
    <3> QED
      BY <3>3 DEF CallInv, Left
  <2> QED
    BY <2>2
<1> QED
  BY <1>1, <1>2

LEMMA GoneKept ==
  ASSUME GoneInv, LinksGrow, firebase' = firebase
  PROVE  GoneInv'
BY LeftKept DEF GoneInv

\* The next state has the types, given what the step changes.
LEMMA CallTyped ==
  ASSUME TypeInv, NEW c \in Caller, NEW k \in CallState, call' = [call EXCEPT ![c] = k]
  PROVE  call' \in [Caller -> CallState]
BY DEF TypeInv
-----------------------------------------------------------------------------
\* A step that leaves users, links and accounts alone.
LEMMA Standing ==
  ASSUME AccountsIInv, UNCHANGED <<userRows, departed, firebase, used, reused, resigned>>,
         calls' \in 0 .. MaxCalls,
         NEW c \in Caller, NEW k \in CallState, call' = [call EXCEPT ![c] = k], CallInv(k)'
  PROVE  AccountsIInv'
<1>1. LinksGrow
  BY DEF LinksGrow, Exists
<1>2. RequestInv' /\ GoneInv'
  BY <1>1, RequestsKept, GoneKept DEF AccountsIInv, UidInv
<1>3. call' \in [Caller -> CallState]
  BY CallTyped DEF AccountsIInv
<1>4. \A d \in Caller :
        call'[d].pc \in {"idle", "signup", "link", "change", "leave", "remove", "permit", "firebase"}
  BY <1>3 DEF CallState
<1>5. AccountsTypeOK'
  BY <1>4 DEF AccountsIInv, TypeInv, AccountsTypeOK, Row, Exists, LinkedUids
<1>6. UniqueInv' /\ AdminRemains'
  BY DEF AccountsIInv, UidInv, UniqueInv, AdminRemains, IsAdmin, Exists
<1> QED
  BY <1>2, <1>3, <1>5, <1>6 DEF AccountsIInv, TypeInv, UidInv
-----------------------------------------------------------------------------
\* A row gets an account that no row has, and the one it had, if any, is discarded.
LEMMA LinkStep ==
  ASSUME AccountsIInv, NEW u \in UserId, NEW row \in Row, row.uid # NoUid, u \notin departed,
         Exists(u) => row.role = userRows[u].role,
         Gets(u, row), UNCHANGED <<firebase, calls>>,
         NEW c \in Caller, NEW k \in CallState, call' = [call EXCEPT ![c] = k],
         \/ k.pc = "idle"
         \/ k.pc = "firebase" /\ Exists(u) /\ userRows[u].uid = k.old /\ k.old # NoUid
  PROVE  AccountsIInv'
<1>1. /\ userRows' = [userRows EXCEPT ![u] = row] /\ userRows \in [UserId -> Row \cup {NoUser}]
      /\ used' = used \cup {row.uid} /\ reused' = reused \cup ({row.uid} \cap used)
      /\ row.uid \notin LinkedUids /\ row.uid \in Uid /\ row # NoUser
      /\ departed' = departed /\ resigned' = resigned
  BY AccountsAssumption DEF Gets, AccountsIInv, TypeInv, AccountsTypeOK, Row
<1>2. \A v \in UserId : userRows'[v] = IF v = u THEN row ELSE userRows[v]
  BY <1>1
<1>3. LinksGrow
  BY <1>1, <1>2 DEF LinksGrow, Exists
<1>4. \A v \in UserId : Exists(v) => userRows[v].uid # row.uid
  BY <1>1, LinkedBy
<1>5. UniqueInv'
  BY <1>1, <1>2, <1>4 DEF UniqueInv, AccountsIInv, UidInv, Exists
<1>6. LinkedUids' \subseteq LinkedUids \cup {row.uid}
  BY <1>2, LinkedBy, LinkedByNext DEF Exists
<1>7. CallInv(k)'
  <2>1. CASE k.pc = "idle"
    BY <2>1 DEF CallInv
  <2>2. CASE k.pc = "firebase" /\ Exists(u) /\ userRows[u].uid = k.old /\ k.old # NoUid
    <3>1. k.old \in LinkedUids
      BY <2>2, LinkedBy
    <3>2. k.old \in used'
      BY <3>1, <1>1 DEF AccountsIInv, TypeInv, AccountsTypeOK
    <3>3. k.old # row.uid
      BY <3>1, <1>1
    <3>4. \A v \in UserId : Exists(v)' => userRows'[v].uid # k.old
      BY <1>2, <2>2, <3>3 DEF AccountsIInv, UidInv, UniqueInv, Exists
    <3>5. k.old \notin LinkedUids'
      BY <3>4, LinkedByNext
    <3> QED
      BY <2>2, <3>2, <3>5 DEF CallInv, Left
  <2> QED
    BY <2>1, <2>2
<1>8. RequestInv' /\ GoneInv'
  BY <1>3, <1>7, RequestsKept, GoneKept DEF AccountsIInv, UidInv
<1>9. call' \in [Caller -> CallState]
  BY CallTyped DEF AccountsIInv
<1>10. AccountsTypeOK'
  <2>1. \A d \in Caller :
          call'[d].pc \in {"idle", "signup", "link", "change", "leave", "remove", "permit", "firebase"}
    BY <1>9 DEF CallState
  <2>2. userRows' \in [UserId -> Row \cup {NoUser}]
    BY <1>1
  <2>3. \A v \in departed' : ~Exists(v)'
    BY <1>1, <1>2 DEF AccountsIInv, TypeInv, AccountsTypeOK, Exists
  <2>4. LinkedUids' \subseteq used'
    BY <1>1, <1>6 DEF AccountsIInv, TypeInv, AccountsTypeOK
  <2> QED
    BY <1>1, <2>1, <2>2, <2>3, <2>4 DEF AccountsIInv, TypeInv, AccountsTypeOK
<1>11. AdminRemains'
  BY <1>1, <1>2 DEF AccountsIInv, AdminRemains, IsAdmin, Exists
<1> QED
  BY <1>5, <1>8, <1>9, <1>10, <1>11 DEF AccountsIInv, TypeInv, UidInv

\* A row is deleted, and the account that was its own, which is no other row's but by a
\* new link, is discarded.
LEMMA LossStep ==
  ASSUME AccountsIInv, NEW u \in UserId, Loses(u), UNCHANGED <<firebase, calls>>, AdminRemains',
         resigned' \in BOOLEAN,
         NEW old \in Uid \cup {NoUid}, old \in used \cup {NoUid},
         \A v \in UserId : Exists(v) /\ userRows[v].uid = old /\ old # NoUid =>
           v = u \/ old \in reused,
         NEW c \in Caller, Discards(c, old)
  PROVE  AccountsIInv'
<1> DEFINE k == IF old = NoUid THEN Done ELSE [pc |-> "firebase", old |-> old]
<1>1. /\ userRows' = [userRows EXCEPT ![u] = NoUser] /\ userRows \in [UserId -> Row \cup {NoUser}]
      /\ departed' = departed \cup {u} /\ used' = used /\ reused' = reused
  BY DEF Loses, AccountsIInv, TypeInv, AccountsTypeOK
<1>2. \A v \in UserId : userRows'[v] = IF v = u THEN NoUser ELSE userRows[v]
  BY <1>1
<1>3. LinksGrow
  BY <1>1, <1>2 DEF LinksGrow, Exists
<1>4. k \in CallState /\ call' = [call EXCEPT ![c] = k]
  BY DEF CallState, Discards, Then, Done
<1>5. UniqueInv'
  BY <1>2 DEF UniqueInv, AccountsIInv, UidInv, Exists
<1>6. LinkedUids' \subseteq LinkedUids
  BY <1>2, LinkedBy, LinkedByNext DEF Exists
<1>7. CallInv(k)'
  <2>1. CASE old = NoUid
    BY <2>1 DEF CallInv, Done
  <2>2. CASE old # NoUid
    <3>1. old \in used'
      BY <1>1, <2>2
    <3>2. ASSUME old \in LinkedUids' PROVE old \in reused'
      <4>1. PICK v \in UserId : Exists(v)' /\ userRows'[v].uid = old
        BY <3>2, LinkedByNext
      <4>2. v # u /\ Exists(v) /\ userRows[v].uid = old
        BY <4>1, <1>2 DEF Exists
      <4> QED
        BY <4>2, <2>2, <1>1
    <3>3. k.pc = "firebase" /\ k.old = old
      BY <2>2
    <3> QED
      BY <3>1, <3>2, <3>3 DEF CallInv, Left
  <2> QED
    BY <2>1, <2>2
<1>8. RequestInv' /\ GoneInv'
  BY <1>3, <1>4, <1>7, RequestsKept, GoneKept DEF AccountsIInv, UidInv
<1>9. call' \in [Caller -> CallState]
  BY <1>4, CallTyped DEF AccountsIInv
<1>10. AccountsTypeOK'
  <2>1. \A d \in Caller :
          call'[d].pc \in {"idle", "signup", "link", "change", "leave", "remove", "permit", "firebase"}
    BY <1>9 DEF CallState
  <2>2. userRows' \in [UserId -> Row \cup {NoUser}]
    BY <1>1
  <2>3. \A v \in departed' : ~Exists(v)'
    BY <1>1, <1>2 DEF AccountsIInv, TypeInv, AccountsTypeOK, Exists
  <2> QED
    BY <1>1, <1>6, <2>1, <2>2, <2>3 DEF AccountsIInv, TypeInv, AccountsTypeOK
<1> QED
  BY <1>5, <1>8, <1>9, <1>10 DEF AccountsIInv, TypeInv, UidInv

\* A role changes, and an administrator remains.
LEMMA RoleStep ==
  ASSUME AccountsIInv, NEW c \in Caller, SetRole(c)
  PROVE  AccountsIInv'
<1>1. call[c].pc = "permit" /\ call[c] \in CallState
  BY DEF SetRole, InTx, AccountsIInv, TypeInv
<1>2. PICK by \in UserId, u \in UserId, role \in Role :
        /\ call[c].by = by /\ call[c].user = u /\ call[c].role = role
        /\ Exists(u) /\ IsAdmin(by) /\ (u = by => role = Admin)
        /\ userRows' = [userRows EXCEPT ![u] = [userRows[u] EXCEPT !.role = role]]
  <2>1. call[c].by \in UserId /\ call[c].user \in UserId /\ call[c].role \in Role
    BY <1>1 DEF CallState
  <2> QED
    BY <2>1 DEF SetRole
<1>3. /\ userRows \in [UserId -> Row \cup {NoUser}] /\ userRows[u] \in Row
      /\ UNCHANGED <<departed, firebase, calls, used, reused, resigned>>
      /\ call' = [call EXCEPT ![c] = Done]
  BY <1>2 DEF SetRole, InTx, Then, AccountsIInv, TypeInv, AccountsTypeOK, Exists
<1>4. userRows'[u] \in Row /\ userRows'[u].role = role /\ userRows'[u].uid = userRows[u].uid
  BY <1>2, <1>3 DEF Row
<1>5. \A v \in UserId : v # u => userRows'[v] = userRows[v]
  BY <1>2, <1>3
<1>6. \A v \in UserId : Exists(v)' <=> Exists(v)
  BY <1>2, <1>4, <1>5, AccountsAssumption DEF Exists, Row
<1>7. \A v \in UserId : Exists(v) => userRows'[v].uid = userRows[v].uid
  BY <1>4, <1>5
<1>8. LinksGrow
  BY <1>3, <1>6, <1>7 DEF LinksGrow
<1>9. Done \in CallState /\ CallInv(Done)'
  BY DEF CallState, Done, CallInv
<1>10. RequestInv' /\ GoneInv'
  BY <1>3, <1>8, <1>9, RequestsKept, GoneKept DEF AccountsIInv, UidInv
<1>11. UniqueInv'
  <2> SUFFICES ASSUME NEW v \in UserId, NEW w \in UserId, Exists(v)', Exists(w)',
                      userRows'[v].uid = userRows'[w].uid, userRows'[v].uid # NoUid
               PROVE  v = w
    BY DEF UniqueInv
  <2>1. Exists(v) /\ Exists(w) /\ userRows[v].uid = userRows[w].uid /\ userRows[v].uid # NoUid
    BY <1>6, <1>7
  <2> QED
    BY <2>1 DEF AccountsIInv, UidInv, UniqueInv
<1>12. LinkedUids' \subseteq LinkedUids
  BY <1>6, <1>7, LinkedBy, LinkedByNext
<1>13. call' \in [Caller -> CallState]
  BY <1>3, <1>9, CallTyped DEF AccountsIInv
<1>14. AccountsTypeOK'
  <2>1. \A d \in Caller :
          call'[d].pc \in {"idle", "signup", "link", "change", "leave", "remove", "permit", "firebase"}
    BY <1>13 DEF CallState
  <2>2. userRows' \in [UserId -> Row \cup {NoUser}]
    BY <1>2, <1>3, <1>4, <1>5
  <2>3. \A v \in departed' : ~Exists(v)'
    BY <1>3, <1>6 DEF AccountsIInv, TypeInv, AccountsTypeOK
  <2> QED
    BY <1>3, <1>12, <2>1, <2>2, <2>3 DEF AccountsIInv, TypeInv, AccountsTypeOK
<1>15. Exists(by)' /\ userRows'[by].role = Admin
  BY <1>2, <1>4, <1>5, <1>6 DEF IsAdmin
<1>16. AdminRemains'
  BY <1>15 DEF AdminRemains, IsAdmin, Exists
<1> QED
  BY <1>10, <1>11, <1>13, <1>14, <1>16 DEF AccountsIInv, TypeInv, UidInv
-----------------------------------------------------------------------------
\* A request that arrives knows what is true.
LEMMA ArrivalStep ==
  ASSUME AccountsIInv, NEW c \in Caller, NEW k \in CallState, Arrives(c, k), CallInv(k)
  PROVE  AccountsIInv'
<1>1. /\ UNCHANGED <<userRows, departed, firebase, used, reused, resigned>>
      /\ call' = [call EXCEPT ![c] = k]
  BY DEF Arrives
<1>2. calls' \in 0 .. MaxCalls
  BY AccountsAssumption DEF Arrives, AccountsIInv, TypeInv, AccountsTypeOK
<1>3. LinksGrow
  BY <1>1 DEF LinksGrow, Exists
<1>4. CallInv(k)'
  BY <1>3, CallKept
<1> QED
  BY <1>1, <1>2, <1>4, Standing

LEMMA ArrivalsStep ==
  ASSUME AccountsIInv, NEW c \in Caller,
         \/ Signup(c) \/ LinkFirebaseUID(c) \/ ChangeFirebaseAccount(c)
         \/ OwnerDeletes(c) \/ AdminDeletes(c) \/ ChangePermission(c)
  PROVE  AccountsIInv'
<1>0. \A u \in UserId : Exists(u) => userRows[u] \in Row /\ userRows[u].uid \in used \cup {NoUid}
  <2> SUFFICES ASSUME NEW u \in UserId, Exists(u)
               PROVE  userRows[u] \in Row /\ userRows[u].uid \in used \cup {NoUid}
    OBVIOUS
  <2>1. userRows[u] \in Row
    BY DEF Exists, AccountsIInv, TypeInv, AccountsTypeOK
  <2>2. userRows[u].uid # NoUid => userRows[u].uid \in LinkedUids
    BY LinkedBy
  <2> QED
    BY <2>1, <2>2 DEF AccountsIInv, TypeInv, AccountsTypeOK
<1>1. CASE Signup(c)
  <2>1. PICK x \in Uid : Arrives(c, [pc |-> "signup", new |-> x])
    BY <1>1 DEF Signup
  <2> DEFINE k == [pc |-> "signup", new |-> x]
  <2>2. k \in CallState /\ CallInv(k)
    BY DEF CallState, CallInv
  <2> QED
    BY <2>1, <2>2, ArrivalStep
<1>2. CASE LinkFirebaseUID(c)
  <2>1. PICK u \in UserId, x \in Uid : Arrives(c, [pc |-> "link", user |-> u, new |-> x])
    BY <1>2 DEF LinkFirebaseUID
  <2> DEFINE k == [pc |-> "link", user |-> u, new |-> x]
  <2>2. k \in CallState /\ CallInv(k)
    BY DEF CallState, CallInv
  <2> QED
    BY <2>1, <2>2, ArrivalStep
<1>3. CASE ChangeFirebaseAccount(c)
  <2>1. PICK u \in UserId, x \in Uid, y \in Uid :
          /\ Exists(u) /\ userRows[u].uid = x
          /\ Arrives(c, [pc |-> "change", user |-> u, old |-> x, new |-> y])
    BY <1>3 DEF ChangeFirebaseAccount
  <2> DEFINE k == [pc |-> "change", user |-> u, old |-> x, new |-> y]
  <2>2. k \in CallState /\ CallInv(k)
    BY <2>1, <1>0 DEF CallState, CallInv
  <2> QED
    BY <2>1, <2>2, ArrivalStep
<1>4. CASE OwnerDeletes(c)
  <2>1. PICK u \in UserId, x \in Uid :
          /\ Exists(u) /\ userRows[u].uid = x
          /\ Arrives(c, [pc |-> "leave", user |-> u, old |-> x])
    BY <1>4 DEF OwnerDeletes
  <2> DEFINE k == [pc |-> "leave", user |-> u, old |-> x]
  <2>2. k \in CallState /\ CallInv(k)
    BY <2>1, <1>0 DEF CallState, CallInv
  <2> QED
    BY <2>1, <2>2, ArrivalStep
<1>5. CASE AdminDeletes(c)
  <2>1. PICK a \in UserId, u \in UserId :
          /\ Exists(u) /\ u # a
          /\ Arrives(c, [pc |-> "remove", by |-> a, user |-> u, old |-> userRows[u].uid])
    BY <1>5 DEF AdminDeletes
  <2>2. PICK x \in Uid \cup {NoUid} : x = userRows[u].uid
    BY <2>1, <1>0 DEF Row
  <2> DEFINE k == [pc |-> "remove", by |-> a, user |-> u, old |-> x]
  <2>3. k \in CallState
    BY DEF CallState
  <2>4. CallInv(k)
    BY <2>1, <2>2, <1>0 DEF CallInv, AccountsIInv, UidInv, UniqueInv
  <2>5. Arrives(c, k)
    BY <2>1, <2>2
  <2> QED
    BY <2>3, <2>4, <2>5, ArrivalStep
<1>6. CASE ChangePermission(c)
  <2>1. PICK a \in UserId, u \in UserId, role \in Role :
          Arrives(c, [pc |-> "permit", by |-> a, user |-> u, role |-> role])
    BY <1>6 DEF ChangePermission
  <2> DEFINE k == [pc |-> "permit", by |-> a, user |-> u, role |-> role]
  <2>2. k \in CallState /\ CallInv(k)
    BY DEF CallState, CallInv
  <2> QED
    BY <2>1, <2>2, ArrivalStep
<1> QED
  BY <1>1, <1>2, <1>3, <1>4, <1>5, <1>6

LEMMA DoneOK == Done \in CallState /\ CallInv(Done) /\ Done.pc = "idle"
BY DEF CallState, Done, CallInv

LEMMA RefuseStep ==
  ASSUME AccountsIInv, NEW c \in Caller, Refuse(c)
  PROVE  AccountsIInv'
<1>1. /\ UNCHANGED <<userRows, departed, firebase, calls, used, reused, resigned>>
      /\ call' = [call EXCEPT ![c] = Done]
  BY DEF Refuse
<1>2. LinksGrow
  BY <1>1 DEF LinksGrow, Exists
<1>3. CallInv(Done)'
  BY <1>2, DoneOK, CallKept
<1>4. calls' \in 0 .. MaxCalls
  BY <1>1 DEF AccountsIInv, TypeInv, AccountsTypeOK
<1> QED
  BY <1>1, <1>3, <1>4, DoneOK, Standing

LEMMA LinkingStep ==
  ASSUME AccountsIInv, NEW c \in Caller, InsertUser(c) \/ LinkUser(c) \/ RelinkUser(c)
  PROVE  AccountsIInv'
<1>1. call[c] \in CallState /\ UNCHANGED <<firebase, calls>>
  BY DEF AccountsIInv, TypeInv, InsertUser, LinkUser, RelinkUser, InTx
<1>2. CASE InsertUser(c)
  <2>1. PICK u \in UserId \ departed :
          /\ call[c].pc = "signup" /\ ~Exists(u)
          /\ Gets(u, [role |-> Player, uid |-> call[c].new]) /\ Then(c, Done)
    BY <1>2 DEF InsertUser, InTx
  <2>2. PICK x \in Uid : x = call[c].new
    BY <1>1, <2>1 DEF CallState
  <2> DEFINE row == [role |-> Player, uid |-> x]
  <2>3. row \in Row /\ row.uid # NoUid /\ Gets(u, row)
    BY <2>1, <2>2, AccountsAssumption DEF Row
  <2> HIDE DEF row
  <2> QED
    BY <1>1, <2>1, <2>3, DoneOK, LinkStep DEF Then
<1>3. CASE LinkUser(c) \/ RelinkUser(c)
  <2>1. call[c].pc \in {"link", "change"}
    BY <1>3 DEF LinkUser, RelinkUser, InTx
  <2>2. PICK u \in UserId, x \in Uid : u = call[c].user /\ x = call[c].new
    BY <1>1, <2>1 DEF CallState
  <2>3. Exists(u) /\ userRows[u] \in Row /\ u \notin departed
    BY <1>3, <2>2 DEF LinkUser, RelinkUser, Exists, AccountsIInv, TypeInv, AccountsTypeOK
  <2> DEFINE row == [userRows[u] EXCEPT !.uid = x]
  <2>4. row \in Row /\ row.uid # NoUid /\ row.role = userRows[u].role
    BY <2>3, AccountsAssumption DEF Row
  <2>5. Gets(u, row)
    BY <1>3, <2>2 DEF LinkUser, RelinkUser
  <2> HIDE DEF row
  <2>6. CASE LinkUser(c)
    BY <1>1, <2>3, <2>4, <2>5, <2>6, DoneOK, LinkStep DEF Then, LinkUser
  <2>7. CASE RelinkUser(c)
    <3>1. PICK old \in Uid : old = call[c].old
      BY <1>1, <2>1, <2>7 DEF CallState, RelinkUser, InTx
    <3>2. userRows[u].uid = old /\ old # NoUid
      BY <2>2, <2>7, <3>1, AccountsAssumption DEF RelinkUser
    <3> DEFINE k == [pc |-> "firebase", old |-> old]
    <3>3. k \in CallState /\ k.pc = "firebase" /\ k.old = old
      BY DEF CallState
    <3>4. call' = [call EXCEPT ![c] = k]
      BY <2>7, <3>1, <3>2 DEF RelinkUser, Discards, Then
    <3> HIDE DEF k
    <3> QED
      BY <1>1, <2>3, <2>4, <2>5, <3>2, <3>3, <3>4, LinkStep
  <2> QED
    BY <1>3, <2>6, <2>7
<1> QED
  BY <1>2, <1>3

\* An administrator who stays remains one; he who leaves has resigned.
LEMMA LeaveStep ==
  ASSUME AccountsIInv, NEW c \in Caller, Leave(c)
  PROVE  AccountsIInv'
<1>1. call[c].pc = "leave" /\ call[c] \in CallState /\ UNCHANGED <<firebase, calls>>
  BY DEF AccountsIInv, TypeInv, Leave, InTx
<1>2. PICK u \in UserId, old \in Uid : u = call[c].user /\ old = call[c].old
  BY <1>1 DEF CallState
<1>3. /\ Exists(u) /\ userRows[u].uid = old /\ Loses(u) /\ Discards(c, old)
      /\ resigned' = (resigned \/ userRows[u].role = Admin)
  BY <1>2 DEF Leave
<1>4. CallInv(call[c])
  BY DEF AccountsIInv, UidInv, RequestInv
<1>5. old \in used \cup {NoUid}
  BY <1>1, <1>2, <1>4 DEF CallInv
<1>6. \A v \in UserId : Exists(v) /\ userRows[v].uid = old /\ old # NoUid => v = u
  BY <1>3 DEF AccountsIInv, UidInv, UniqueInv
<1>7. AdminRemains'
  <2>1. CASE resigned \/ userRows[u].role = Admin
    BY <1>3, <2>1 DEF AdminRemains
  <2>2. CASE ~resigned /\ userRows[u].role # Admin
    <3>1. PICK w \in UserId : IsAdmin(w)
      BY <2>2 DEF AccountsIInv, AdminRemains
    <3>2. w # u /\ userRows'[w] = userRows[w]
      BY <2>2, <3>1, <1>3 DEF IsAdmin, Loses, AccountsIInv, TypeInv, AccountsTypeOK
    <3> QED
      BY <3>1, <3>2 DEF AdminRemains, IsAdmin, Exists
  <2> QED
    BY <2>1, <2>2
<1>8. resigned' \in BOOLEAN
  BY <1>3
<1> QED
  BY <1>1, <1>3, <1>5, <1>6, <1>7, <1>8, LossStep

LEMMA RemoveStep ==
  ASSUME AccountsIInv, NEW c \in Caller, RemoveUser(c)
  PROVE  AccountsIInv'
<1>1. call[c].pc = "remove" /\ call[c] \in CallState /\ UNCHANGED <<firebase, calls>>
  BY DEF AccountsIInv, TypeInv, RemoveUser, InTx
<1>2. PICK by \in UserId, u \in UserId, old \in Uid \cup {NoUid} :
        by = call[c].by /\ u = call[c].user /\ old = call[c].old
  BY <1>1 DEF CallState
<1>3. IsAdmin(by) /\ Loses(u) /\ Discards(c, old) /\ resigned' = resigned
  BY <1>2 DEF RemoveUser
<1>4. CallInv(call[c])
  BY DEF AccountsIInv, UidInv, RequestInv
<1>5. /\ by # u /\ old \in used \cup {NoUid}
      /\ \A v \in UserId : Exists(v) /\ userRows[v].uid = old /\ old # NoUid =>
           v = u \/ old \in reused
  BY <1>1, <1>2, <1>4 DEF CallInv
<1>6. userRows'[by] = userRows[by]
  BY <1>3, <1>5 DEF Loses, AccountsIInv, TypeInv, AccountsTypeOK
<1>7. AdminRemains'
  BY <1>3, <1>6 DEF AdminRemains, IsAdmin, Exists
<1>8. resigned' \in BOOLEAN
  BY <1>3 DEF AccountsIInv, TypeInv, AccountsTypeOK
<1> QED
  BY <1>1, <1>3, <1>5, <1>7, <1>8, LossStep

\* Only an account that has been left is deleted.
LEMMA DiscardStep ==
  ASSUME AccountsIInv, NEW c \in Caller, DiscardAccount(c)
  PROVE  AccountsIInv'
<1>1. /\ call[c].pc = "firebase" /\ call' = [call EXCEPT ![c] = Done]
      /\ firebase' \in {firebase \ {call[c].old}, firebase}
      /\ UNCHANGED <<userRows, departed, calls, used, reused, resigned>>
  BY DEF DiscardAccount, Then
<1>2. LinksGrow
  BY <1>1 DEF LinksGrow, Exists
<1>3. Left(call[c].old)
  BY <1>1 DEF AccountsIInv, UidInv, RequestInv, CallInv
<1>4. \A x \in Uid \ firebase' : Left(x)
  BY <1>1, <1>3 DEF AccountsIInv, UidInv, GoneInv
<1>5. GoneInv'
  BY <1>2, <1>4, LeftKept DEF GoneInv
<1>6. CallInv(Done)'
  BY <1>2, DoneOK, CallKept
<1>7. RequestInv'
  BY <1>1, <1>2, <1>6, DoneOK, RequestsKept DEF AccountsIInv, UidInv
<1>8. call' \in [Caller -> CallState]
  BY <1>1, DoneOK, CallTyped DEF AccountsIInv
<1>9. \A d \in Caller :
        call'[d].pc \in {"idle", "signup", "link", "change", "leave", "remove", "permit", "firebase"}
  BY <1>8 DEF CallState
<1>10. AccountsTypeOK'
  BY <1>1, <1>9 DEF AccountsIInv, TypeInv, AccountsTypeOK, Row, Exists, LinkedUids
<1>11. UniqueInv' /\ AdminRemains'
  BY <1>1 DEF AccountsIInv, UidInv, UniqueInv, AdminRemains, IsAdmin, Exists
<1> QED
  BY <1>5, <1>7, <1>8, <1>10, <1>11 DEF AccountsIInv, TypeInv, UidInv

LEMMA IInvStep == AccountsIInv /\ [AccountsNext]_accountsVars => AccountsIInv'
<1> SUFFICES ASSUME AccountsIInv, [AccountsNext]_accountsVars PROVE AccountsIInv'
  OBVIOUS
<1>1. CASE UNCHANGED accountsVars
  <2>1. AccountsTypeOK' /\ call' \in [Caller -> CallState]
    BY <1>1 DEF accountsVars, AccountsIInv, TypeInv, AccountsTypeOK, LinkedUids, Exists, Row
  <2>2. UniqueInv' /\ AdminRemains'
    BY <1>1 DEF accountsVars, AccountsIInv, UidInv, UniqueInv, AdminRemains, IsAdmin, Exists
  <2>3. LinksGrow
    BY <1>1 DEF accountsVars, LinksGrow, Exists
  <2>4. GoneInv'
    BY <1>1, <2>3, GoneKept DEF accountsVars, AccountsIInv, UidInv
  <2>5. ASSUME NEW c \in Caller PROVE CallInv(call[c])'
    <3>1. call'[c] = call[c]
      BY <1>1 DEF accountsVars
    <3>2. \A k : k = call[c] => CallInv(k)
      BY DEF AccountsIInv, UidInv, RequestInv
    <3>3. \A k : k = call[c] => CallInv(k)'
      BY <2>3, <3>2, CallKept
    <3>4. ASSUME NEW k, k = call[c] PROVE k = call'[c] /\ CallInv(k)'
      BY <3>1, <3>3, <3>4
    <3> QED
      BY <3>4 DEF CallInv, Left
  <2> QED
    BY <2>1, <2>2, <2>4, <2>5 DEF AccountsIInv, TypeInv, UidInv, RequestInv
<1>2. ASSUME NEW c \in Caller,
        \/ Signup(c) \/ LinkFirebaseUID(c) \/ ChangeFirebaseAccount(c)
        \/ OwnerDeletes(c) \/ AdminDeletes(c) \/ ChangePermission(c)
        \/ Refuse(c)
        \/ InsertUser(c) \/ LinkUser(c) \/ RelinkUser(c) \/ Leave(c)
        \/ RemoveUser(c) \/ SetRole(c)
        \/ DiscardAccount(c)
      PROVE AccountsIInv'
  BY <1>2, ArrivalsStep, RefuseStep, LinkingStep, LeaveStep, RemoveStep, RoleStep, DiscardStep
<1> QED
  BY <1>1, <1>2 DEF AccountsNext

LEMMA IInvInit == AccountsInit => AccountsIInv
<1> SUFFICES ASSUME AccountsInit PROVE AccountsIInv
  OBVIOUS
<1>1. /\ userRows = FirstUsers /\ departed = {} /\ firebase = Uid /\ calls = 0
      /\ call = [c \in Caller |-> Done] /\ used = LinkedUids /\ reused = {} /\ resigned = FALSE
  BY DEF AccountsInit
<1>2. userRows \in [UserId -> Row \cup {NoUser}]
  BY <1>1, AccountsAssumption DEF Row
<1>3. call \in [Caller -> CallState] /\ \A c \in Caller : call[c] = Done
  BY <1>1, DoneOK
<1>4. LinkedUids \subseteq Uid
  <2> SUFFICES ASSUME NEW x \in LinkedUids PROVE x \in Uid
    OBVIOUS
  <2>1. PICK u \in UserId : x # NoUid /\ Exists(u) /\ userRows[u].uid = x
    BY LinkedBy
  <2> QED
    BY <2>1, <1>2 DEF Exists, Row
<1>5. TypeInv
  <2>1. \A c \in Caller : call[c].pc = "idle"
    BY <1>3, DoneOK
  <2>2. calls \in 0 .. MaxCalls /\ resigned \in BOOLEAN
    <3>1. MaxCalls \in Nat
      BY AccountsAssumption
    <3>2. 0 \in 0 .. MaxCalls /\ FALSE \in BOOLEAN
      BY <3>1
    <3> QED
      BY <1>1, <3>2
  <2>3. departed \subseteq UserId /\ \A u \in departed : ~Exists(u)
    BY <1>1
  <2>4. firebase \subseteq Uid /\ reused \subseteq used /\ used \subseteq Uid /\ LinkedUids \subseteq used
    BY <1>1, <1>4
  <2>5. \A c \in Caller :
          call[c].pc \in {"idle", "signup", "link", "change", "leave", "remove", "permit", "firebase"}
    BY <2>1
  <2>6. AccountsTypeOK
    BY <1>2, <2>2, <2>3, <2>4, <2>5 DEF AccountsTypeOK
  <2> QED
    BY <1>3, <2>6 DEF TypeInv
<1>6. AdminRemains
  BY <1>1, AccountsAssumption DEF AdminRemains, IsAdmin, Exists
<1>7. UniqueInv
  BY <1>1, AccountsAssumption DEF UniqueInv, Exists
<1>8. GoneInv /\ RequestInv
  BY <1>1, <1>3, DoneOK DEF GoneInv, RequestInv
<1> QED
  BY <1>5, <1>6, <1>7, <1>8 DEF AccountsIInv, UidInv

LEMMA IInvAlways == AccountsSpec => []AccountsIInv
BY IInvInit, IInvStep, PTL DEF AccountsSpec
-----------------------------------------------------------------------------
\* The tables and the requests have their types; no account is deleted that was not left.
\* (user_usecase_impl.go:340, user_credential_usecase.go:280)
THEOREM SpecAccountsTypeOK == AccountsSpec => []AccountsTypeOK
<1>1. AccountsIInv => AccountsTypeOK
  BY DEF AccountsIInv, TypeInv
<1> QED
  BY <1>1, IInvAlways, PTL

\* Administrators cannot remove the last of them by removing each other or taking the role
\* from each other: each transaction sees its requester, locked, as an administrator, and
\* he is not the one it changes.  (user_permission_usecase.go:36, user_usecase_impl.go:387)
THEOREM SpecAdminRemains == AccountsSpec => []AdminRemains
<1>1. AccountsIInv => AdminRemains
  BY DEF AccountsIInv
<1> QED
  BY <1>1, IInvAlways, PTL

\* Nobody loses the account he signs in with, unless it had been linked before: an account
\* that is to be deleted has been left, and firebase_uid is unique.
\* (user_credential_usecase.go:317, user_usecase_impl.go:345)
THEOREM SpecLoginKept == AccountsSpec => []LoginKept
<1>1. AccountsIInv => LoginKept
  <2> SUFFICES ASSUME AccountsIInv, NEW u \in UserId, Exists(u), userRows[u].uid \notin reused \cup {NoUid}
               PROVE  Verified(userRows[u].uid)
    BY DEF LoginKept
  <2>1. userRows[u].uid \in LinkedUids
    BY LinkedBy
  <2>2. userRows[u].uid \in Uid
    BY <2>1 DEF AccountsIInv, TypeInv, AccountsTypeOK
  <2> QED
    BY <2>1, <2>2 DEF Verified, AccountsIInv, UidInv, GoneInv, Left
<1> QED
  BY <1>1, IInvAlways, PTL
-----------------------------------------------------------------------------
(* Honors *)

\* The fields of what a registration is doing.
RegisterShape(r) ==
  \/ r = NotRegistering
  \/ /\ r = [pc |-> r.pc, broken |-> r.broken, todo |-> r.todo, kept |-> r.kept,
             snapshot |-> r.snapshot, assignments |-> r.assignments, news |-> r.news]
     /\ r.pc \in {"ensure", "assigned"} /\ r.broken \in BOOLEAN
     /\ \A e \in r.todo : Usable(e)
     /\ r.news \subseteq HonorId

\* The rows of an honor that is stored; it stays so until it is deleted.
Settled(i) == i \in DOMAIN honors => honors[i].owner = Stored

HonorsTypes ==
  /\ honors = [i \in DOMAIN honors |-> honors[i]]
  /\ \A i \in DOMAIN honors :
       honors[i] = [name |-> honors[i].name, type |-> honors[i].type,
                    image |-> honors[i].image, owner |-> honors[i].owner]
  /\ wearing = [p \in Registrant |-> wearing[p]]
  /\ register = [p \in Registrant |-> register[p]]
  /\ \A p \in Registrant : RegisterShape(register[p])
  /\ notices = [i \in HonorId |-> notices[i]] /\ \A i \in HonorId : notices[i] \in Nat
  /\ victims \in BOOLEAN

\* Only a registration in progress has rows of its own; one whose transaction is gone has
\* none.  What it has read, or was given by EnsureHonor, is stored unless it is its own.
OwnRowsOf(p, r) ==
  /\ r.pc = "idle" => RowsOf(p) = {}
  /\ r.pc # "idle" =>
       /\ r.broken => RowsOf(p) = {}
       /\ \A i \in DOMAIN r.snapshot : i < nextHonor /\ i \in HonorId /\ Settled(i)
       /\ \A a \in r.assignments :
            /\ a.slot \in 1 .. 3 /\ a.honor \in HonorId /\ a.honor < nextHonor
            /\ Settled(a.honor) \/ honors[a.honor].owner = p

\* What players wear is stored, and what a registration will let its player wear is stored
\* or its own.
StoredRow(i) == i \in DOMAIN honors /\ honors[i].owner = Stored
WornRowsOf(p, worn, r) ==
  /\ \A s \in DOMAIN worn : s \in 1 .. 3 /\ StoredRow(worn[s])
  /\ r.pc # "idle" =>
       \A s \in DOMAIN r.kept :
         /\ s \in 1 .. 3 /\ (StoredRow(r.kept[s]) \/ r.kept[s] \in RowsOf(p))
         /\ r.pc = "ensure" => s \in DOMAIN worn /\ worn[s] = r.kept[s]

\* As long as no registration was a deadlock's victim, what it will tell of is what it has
\* inserted with an image, and what was discovered is stored.
NewsOf(p, r) ==
  r.pc # "idle" /\ ~victims =>
    /\ ~r.broken
    /\ r.news = {i \in RowsOf(p) : honors[i].image # NoImage}

OwnRows == \A p \in Registrant : OwnRowsOf(p, register[p])
WornRows == \A p \in Registrant : WornRowsOf(p, wearing[p], register[p])
NewsInv ==
  /\ \A i \in discovered : i < nextHonor /\ Settled(i)
  /\ \A p \in Registrant : NewsOf(p, register[p])

HonorsInv == HonorsTypeOK /\ HonorsTypes /\ OwnRows /\ WornRows /\ NewsInv /\ NotifiedOnce
-----------------------------------------------------------------------------
THEOREM HonorsInitInv == HonorsInit => HonorsInv
<1> SUFFICES ASSUME HonorsInit PROVE HonorsInv
  OBVIOUS
<1> USE HonorsAssumption DEF HonorsInit, NotRegistering
<1>1. HonorsTypeOK
  BY DEF HonorsTypeOK, HonorId
<1>2. HonorsTypes
  <2>1. DOMAIN honors = {} /\ honors = [i \in DOMAIN honors |-> honors[i]]
    OBVIOUS
  <2> QED
    BY <2>1 DEF HonorsTypes, RegisterShape
<1>3. OwnRows
  BY DEF OwnRows, OwnRowsOf, RowsOf
<1>4. WornRows
  BY DEF WornRows, WornRowsOf
<1>5. NewsInv
  BY DEF NewsInv, NewsOf
<1>6. NotifiedOnce
  BY DEF NotifiedOnce
<1> QED
  BY <1>1, <1>2, <1>3, <1>4, <1>5, <1>6 DEF HonorsInv

LEMMA BeginKeepsHonors ==
  ASSUME HonorsInv, NEW p \in Registrant, NEW body, HonorsBegin(p, body)
  PROVE  HonorsInv'
<1> USE HonorsAssumption DEF HonorsInv
<1> DEFINE r == [pc |-> "ensure", broken |-> FALSE, todo |-> {e \in body : Usable(e)},
                 kept |-> WithoutRows(wearing[p], 1 .. 3 \ Preserved(body)),
                 snapshot |-> [i \in {j \in DOMAIN honors : honors[j].owner = Stored} |-> honors[i]],
                 assignments |-> {}, news |-> {}]
<1>1. /\ register' = [register EXCEPT ![p] = r] /\ register[p].pc = "idle"
      /\ bodies < MaxBodies /\ bodies' = bodies + 1
      /\ UNCHANGED <<honors, wearing, nextHonor, notices, discovered, victims>>
  BY DEF HonorsBegin
<1>2. /\ r.pc = "ensure" /\ r.broken = FALSE /\ r.assignments = {} /\ r.news = {}
      /\ RegisterShape(r)
  BY DEF RegisterShape
<1>3. \A i \in DOMAIN r.snapshot : i \in DOMAIN honors /\ honors[i].owner = Stored
  OBVIOUS
<1>4. \A s \in DOMAIN r.kept : s \in DOMAIN wearing[p] /\ r.kept[s] = wearing[p][s]
  BY DEF WithoutRows
<1> HIDE DEF r
<1>5. /\ register' = [q \in Registrant |-> IF q = p THEN r ELSE register[q]]
  BY <1>1 DEF HonorsTypes
<1>6. /\ RowsOf(p) = {} /\ \A q \in Registrant : RowsOf(q)' = RowsOf(q)
      /\ \A i : (Settled(i)' <=> Settled(i)) /\ (StoredRow(i)' <=> StoredRow(i))
  BY <1>1 DEF OwnRows, OwnRowsOf, RowsOf, Settled, StoredRow
<1>7. HonorsTypeOK'
  BY <1>1, <1>2, <1>5 DEF HonorsTypeOK
<1>8. HonorsTypes'
  BY <1>1, <1>2, <1>5 DEF HonorsTypes
<1>9. OwnRows'
  <2> SUFFICES ASSUME NEW q \in Registrant PROVE OwnRowsOf(q, register[q])'
    BY DEF OwnRows
  <2>1. CASE q = p
    BY <2>1, <1>1, <1>2, <1>3, <1>5, <1>6 DEF OwnRowsOf, HonorsTypeOK, Settled
  <2>2. CASE q # p
    BY <2>2, <1>1, <1>5, <1>6 DEF OwnRows, OwnRowsOf
  <2> QED
    BY <2>1, <2>2
<1>10. WornRows'
  <2> SUFFICES ASSUME NEW q \in Registrant PROVE WornRowsOf(q, wearing[q], register[q])'
    BY DEF WornRows
  <2>1. WornRowsOf(q, wearing[q], register[q])
    BY DEF WornRows
  <2>2. CASE q = p
    BY <2>1, <2>2, <1>1, <1>2, <1>4, <1>5, <1>6 DEF WornRowsOf
  <2>3. CASE q # p
    BY <2>1, <2>3, <1>1, <1>5, <1>6 DEF WornRowsOf
  <2> QED
    BY <2>2, <2>3
<1>11. NewsInv'
  <2>1. \A i \in discovered' : i < nextHonor' /\ Settled(i)'
    BY <1>1, <1>6 DEF NewsInv
  <2>2. \A q \in Registrant : NewsOf(q, register[q])'
    BY <1>1, <1>2, <1>5, <1>6 DEF NewsInv, NewsOf
  <2> QED
    BY <2>1, <2>2 DEF NewsInv
<1>12. NotifiedOnce'
  BY <1>1 DEF NotifiedOnce
<1> QED
  BY <1>7, <1>8, <1>9, <1>10, <1>11, <1>12

\* EnsureHonor finds the honor among what is stored or its own.
LEMMA FoundIsUsable ==
  ASSUME HonorsInv, NEW p \in Registrant, NEW h, ~Waits(p, h), register[p].pc = "ensure",
         NEW i \in (IF FoundIn(Visible(p), h) # {} THEN FoundIn(Visible(p), h)
                    ELSE FoundIn(honors, h))
  PROVE  /\ i \in HonorId /\ i < nextHonor
         /\ Settled(i) \/ honors[i].owner = p
<1> USE DEF HonorsInv
<1>1. CASE FoundIn(Visible(p), h) # {}
  <2>1. i \in DOMAIN Visible(p)
    BY <1>1 DEF FoundIn
  <2>2. CASE register[p].broken
    <3>1. i \in DOMAIN honors /\ honors[i].owner = Stored
      BY <2>1, <2>2 DEF Visible
    <3> QED
      BY <3>1 DEF HonorsTypeOK, Settled
  <2>3. CASE ~register[p].broken
    <3>1. i \in DOMAIN register[p].snapshot \/ i \in RowsOf(p)
      BY <2>1, <2>3 DEF Visible
    <3> QED
      BY <3>1 DEF HonorsTypeOK, Settled, OwnRows, OwnRowsOf, RowsOf
  <2> QED
    BY <2>2, <2>3
<1>2. CASE FoundIn(Visible(p), h) = {}
  <2>1. i \in DOMAIN honors /\ i \in Duplicates(h)
    BY <1>2 DEF FoundIn, Duplicates
  <2>2. honors[i].owner \in {p, Stored}
    BY <2>1, <1>2 DEF Waits
  <2> QED
    BY <2>1, <2>2 DEF HonorsTypeOK, Settled
<1> QED
  BY <1>1, <1>2

\* EnsureHonor has given an honor to a registration, which will tell of these.
EnsuredWith(p, e, i, tidings) ==
  [register EXCEPT
     ![p].todo = @ \ {e},
     ![p].assignments = @ \cup {[slot |-> e.slot, honor |-> i, entry |-> e]},
     ![p].news = tidings]

KnowsOf(p, e, i, tidings, r) ==
  /\ register' = [q \in Registrant |-> IF q = p THEN r ELSE register[q]]
  /\ RegisterShape(r) /\ r.pc = "ensure"
  /\ r.broken = register[p].broken /\ r.kept = register[p].kept
  /\ r.snapshot = register[p].snapshot
  /\ \A a \in r.assignments :
       a \in register[p].assignments \/ (a.slot = e.slot /\ a.honor = i)
  /\ r.news = tidings

LEMMA EnsuredShape ==
  ASSUME HonorsInv, NEW p \in Registrant, register[p].pc = "ensure",
         NEW e \in register[p].todo, NEW i \in HonorId, NEW tidings \in SUBSET HonorId,
         register' = EnsuredWith(p, e, i, tidings)
  PROVE  \E r : KnowsOf(p, e, i, tidings, r)
<1> DEFINE k == register[p]
           new == [slot |-> e.slot, honor |-> i, entry |-> e]
           r == [pc |-> k.pc, broken |-> k.broken, todo |-> k.todo \ {e}, kept |-> k.kept,
                 snapshot |-> k.snapshot, assignments |-> k.assignments \cup {new},
                 news |-> tidings]
<1>1. /\ RegisterShape(k) /\ k # NotRegistering
      /\ register = [q \in Registrant |-> register[q]]
  BY DEF HonorsInv, HonorsTypes, NotRegistering
<1>2. k = [pc |-> k.pc, broken |-> k.broken, todo |-> k.todo, kept |-> k.kept,
           snapshot |-> k.snapshot, assignments |-> k.assignments, news |-> k.news]
  BY <1>1 DEF RegisterShape
<1>3. register' = [register EXCEPT ![p] = [[[k EXCEPT !.todo = @ \ {e}]
                     EXCEPT !.assignments = @ \cup {new}] EXCEPT !.news = tidings]]
  BY <1>1, <1>2 DEF EnsuredWith
<1>4. register' = [q \in Registrant |-> IF q = p THEN r ELSE register[q]]
  BY <1>1, <1>2, <1>3
<1>5. RegisterShape(r)
  BY <1>1 DEF RegisterShape, NotRegistering
<1>6. /\ r.pc = "ensure" /\ r.broken = k.broken /\ r.kept = k.kept /\ r.snapshot = k.snapshot
      /\ \A a \in r.assignments : a \in k.assignments \/ (a.slot = e.slot /\ a.honor = i)
      /\ r.news = tidings
  OBVIOUS
<1> QED
  BY <1>4, <1>5, <1>6 DEF KnowsOf

LEMMA EnsureFindsHonor ==
  ASSUME HonorsInv, NEW p \in Registrant, NEW e \in register[p].todo, NEW i \in HonorId,
         register[p].pc = "ensure", i < nextHonor, Settled(i) \/ honors[i].owner = p,
         register' = Ensured(p, e, i, FALSE),
         UNCHANGED <<honors, nextHonor, wearing, bodies, notices, discovered, victims>>
  PROVE  HonorsInv'
<1> USE HonorsAssumption DEF HonorsInv
<1>0. Usable(e) /\ register[p] # NotRegistering
  BY DEF HonorsTypes, RegisterShape, NotRegistering
<1>1. PICK r : KnowsOf(p, e, i, register[p].news, r)
  <2>1. register' = EnsuredWith(p, e, i, register[p].news)
    BY DEF Ensured, IsNews, EnsuredWith
  <2>2. register[p].news \in SUBSET HonorId
    BY <1>0 DEF HonorsTypes, RegisterShape
  <2> HIDE DEF HonorsInv
  <2> QED
    BY <2>1, <2>2, EnsuredShape
<1> USE DEF KnowsOf
<1>2. \A q \in Registrant : RowsOf(q)' = RowsOf(q)
  BY DEF RowsOf
<1>3. \A j : (Settled(j)' <=> Settled(j)) /\ (StoredRow(j)' <=> StoredRow(j))
  BY DEF Settled, StoredRow
<1>4. e.slot \in 1 .. 3
  BY <1>0 DEF Usable
<1>5. HonorsTypeOK'
  BY <1>1 DEF HonorsTypeOK
<1>6. HonorsTypes'
  BY <1>1 DEF HonorsTypes
<1>7. OwnRows'
  <2> SUFFICES ASSUME NEW q \in Registrant PROVE OwnRowsOf(q, register[q])'
    BY DEF OwnRows
  <2>1. OwnRowsOf(q, register[q])
    BY DEF OwnRows
  <2>2. CASE q = p
    BY <2>1, <2>2, <1>1, <1>2, <1>3, <1>4 DEF OwnRowsOf
  <2>3. CASE q # p
    BY <2>1, <2>3, <1>1, <1>2, <1>3 DEF OwnRowsOf
  <2> QED
    BY <2>2, <2>3
<1>8. WornRows'
  <2> SUFFICES ASSUME NEW q \in Registrant PROVE WornRowsOf(q, wearing[q], register[q])'
    BY DEF WornRows
  <2>1. WornRowsOf(q, wearing[q], register[q])
    BY DEF WornRows
  <2>2. /\ register'[q].pc = register[q].pc /\ register'[q].kept = register[q].kept
        /\ wearing'[q] = wearing[q]
    BY <1>1
  <2> QED
    BY <2>1, <2>2, <1>2, <1>3 DEF WornRowsOf
<1>9. NewsInv'
  <2>1. \A j \in discovered' : j < nextHonor' /\ Settled(j)'
    BY <1>3 DEF NewsInv
  <2> SUFFICES ASSUME NEW q \in Registrant PROVE NewsOf(q, register[q])'
    BY <2>1 DEF NewsInv
  <2>2. NewsOf(q, register[q])
    BY DEF NewsInv
  <2> QED
    BY <2>2, <1>1, <1>2 DEF NewsOf
<1>10. NotifiedOnce'
  BY DEF NotifiedOnce
<1> QED
  BY <1>5, <1>6, <1>7, <1>8, <1>9, <1>10

\* A row is added to the master, its owner being a registration or nobody.
LEMMA RowAdded ==
  ASSUME HonorsInv, NEW h, NEW owner \in Registrant \cup {Stored}, Duplicates(h) = {},
         nextHonor <= MaxHonors, nextHonor' = nextHonor + 1,
         honors' = [i \in DOMAIN honors \cup {nextHonor} |->
                      IF i \in DOMAIN honors THEN honors[i] ELSE HonorRow(h, owner)]
  PROVE  /\ nextHonor \in HonorId /\ nextHonor' \in 1 .. MaxHonors + 1 /\ nextHonor < nextHonor'
         /\ nextHonor \notin DOMAIN honors
         /\ DOMAIN honors' = DOMAIN honors \cup {nextHonor} /\ DOMAIN honors' \subseteq HonorId
         /\ \A i \in DOMAIN honors : honors'[i] = honors[i]
         /\ honors'[nextHonor] = HonorRow(h, owner)
         /\ honors' = [i \in DOMAIN honors' |-> honors'[i]]
         /\ \A i \in DOMAIN honors' :
              /\ honors'[i] = [name |-> honors'[i].name, type |-> honors'[i].type,
                               image |-> honors'[i].image, owner |-> honors'[i].owner]
              /\ i < nextHonor' /\ honors'[i].owner \in Registrant \cup {Stored}
         /\ \A i, j \in DOMAIN honors' :
              /\ honors'[i].name = honors'[j].name /\ honors'[i].type = honors'[j].type => i = j
              /\ honors'[i].image = honors'[j].image /\ honors'[i].image # NoImage => i = j
<1> USE HonorsAssumption DEF HonorsInv
<1>1. /\ DOMAIN honors \subseteq HonorId /\ nextHonor \in 1 .. MaxHonors + 1
      /\ \A i \in DOMAIN honors : i < nextHonor
  BY DEF HonorsTypeOK
<1>2. MaxHonors \in Nat
  OBVIOUS
<1>3. nextHonor \in HonorId /\ nextHonor' \in 1 .. MaxHonors + 1 /\ nextHonor < nextHonor'
  BY <1>1, <1>2 DEF HonorId
<1>4. nextHonor \notin DOMAIN honors
  BY <1>1
<1>5. DOMAIN honors' = DOMAIN honors \cup {nextHonor} /\ DOMAIN honors' \subseteq HonorId
  BY <1>1, <1>3
<1>6. /\ \A i \in DOMAIN honors : honors'[i] = honors[i]
      /\ honors'[nextHonor] = HonorRow(h, owner)
  BY <1>4
<1>7. honors' = [i \in DOMAIN honors' |-> honors'[i]]
  BY <1>5
<1>8. \A i \in DOMAIN honors' :
        /\ honors'[i] = [name |-> honors'[i].name, type |-> honors'[i].type,
                         image |-> honors'[i].image, owner |-> honors'[i].owner]
        /\ i < nextHonor' /\ honors'[i].owner \in Registrant \cup {Stored}
  <2> TAKE i \in DOMAIN honors'
  <2>1. CASE i \in DOMAIN honors
    <3>1. i \in Nat /\ nextHonor \in Nat
      BY <1>1, <2>1 DEF HonorId
    <3> QED
      BY <3>1, <2>1, <1>6 DEF HonorsTypeOK, HonorsTypes
  <2>2. CASE i = nextHonor
    BY <2>2, <1>6, <1>3 DEF HonorRow
  <2> QED
    BY <2>1, <2>2, <1>5
<1>9. \A i \in DOMAIN honors :
        /\ ~(honors[i].name = h.name /\ honors[i].type = h.type)
        /\ ~(honors[i].image = h.image /\ h.image # NoImage)
  BY DEF Duplicates, SameName, SameImage
<1>10. \A i, j \in DOMAIN honors' :
         /\ honors'[i].name = honors'[j].name /\ honors'[i].type = honors'[j].type => i = j
         /\ honors'[i].image = honors'[j].image /\ honors'[i].image # NoImage => i = j
  BY <1>5, <1>6, <1>9 DEF HonorRow, HonorsTypeOK
<1> QED
  BY <1>3, <1>4, <1>5, <1>6, <1>7, <1>8, <1>10

\* What is settled stays so, and whose a row is does not change.
LEMMA RowAddedOwners ==
  ASSUME HonorsInv, NEW h, NEW owner \in Registrant \cup {Stored}, Duplicates(h) = {},
         nextHonor <= MaxHonors, nextHonor' = nextHonor + 1,
         honors' = [i \in DOMAIN honors \cup {nextHonor} |->
                      IF i \in DOMAIN honors THEN honors[i] ELSE HonorRow(h, owner)]
  PROVE  /\ \A i \in HonorId : i < nextHonor => i < nextHonor' /\ i # nextHonor
         /\ \A i \in HonorId : i < nextHonor => (Settled(i)' <=> Settled(i))
         /\ \A p : RowsOf(p)' = RowsOf(p) \cup (IF p = owner THEN {nextHonor} ELSE {})
<1>1. /\ nextHonor \in HonorId /\ nextHonor < nextHonor' /\ nextHonor' \in Nat
      /\ nextHonor \notin DOMAIN honors
      /\ DOMAIN honors' = DOMAIN honors \cup {nextHonor}
      /\ \A i \in DOMAIN honors : honors'[i] = honors[i]
      /\ honors'[nextHonor].owner = owner
  BY RowAdded, HonorsAssumption DEF HonorRow
<1>2. \A i \in HonorId : i < nextHonor => i < nextHonor' /\ i # nextHonor
  BY <1>1 DEF HonorId
<1>3. \A i \in HonorId : i < nextHonor => (Settled(i)' <=> Settled(i))
  BY <1>1, <1>2 DEF Settled
<1>4. \A p : RowsOf(p)' = RowsOf(p) \cup (IF p = owner THEN {nextHonor} ELSE {})
  BY <1>1 DEF RowsOf
<1> QED
  BY <1>2, <1>3, <1>4

LEMMA EnsureInsertsHonor ==
  ASSUME HonorsInv, NEW p \in Registrant, NEW e \in register[p].todo,
         register[p].pc = "ensure", Duplicates(Entered(e)) = {},
         nextHonor <= MaxHonors, nextHonor' = nextHonor + 1,
         honors' = [i \in DOMAIN honors \cup {nextHonor} |->
                      IF i \in DOMAIN honors THEN honors[i]
                      ELSE HonorRow(Entered(e), IF register[p].broken THEN Stored ELSE p)],
         register' = Ensured(p, e, nextHonor, TRUE),
         UNCHANGED <<wearing, bodies, notices, discovered, victims>>
  PROVE  HonorsInv'
<1> DEFINE n == nextHonor
           h == Entered(e)
           owner == IF register[p].broken THEN Stored ELSE p
           tidings == IF e.type = "sp" THEN register[p].news \cup {n} ELSE register[p].news
<1>0. /\ Usable(e) /\ register[p].broken \in BOOLEAN /\ register[p].news \subseteq HonorId
      /\ HonorsTypeOK /\ HonorsTypes /\ OwnRows /\ WornRows /\ NewsInv /\ NotifiedOnce
  BY DEF HonorsInv, HonorsTypes, RegisterShape, NotRegistering
<1>1. /\ owner \in Registrant \cup {Stored} /\ Duplicates(h) = {}
      /\ honors' = [i \in DOMAIN honors \cup {nextHonor} |->
                      IF i \in DOMAIN honors THEN honors[i] ELSE HonorRow(h, owner)]
      /\ h.image # NoImage <=> e.type = "sp"
      /\ register[p].broken => owner = Stored
      /\ ~register[p].broken => owner = p
  BY <1>0 DEF Entered, Usable
<1> HIDE DEF h, owner
<1>2. /\ n \in HonorId /\ n' \in 1 .. MaxHonors + 1 /\ n < n' /\ n \notin DOMAIN honors
      /\ DOMAIN honors' = DOMAIN honors \cup {n} /\ DOMAIN honors' \subseteq HonorId
      /\ \A i \in DOMAIN honors : honors'[i] = honors[i]
      /\ honors'[n] = HonorRow(h, owner)
      /\ honors' = [i \in DOMAIN honors' |-> honors'[i]]
      /\ \A i \in DOMAIN honors' :
           /\ honors'[i] = [name |-> honors'[i].name, type |-> honors'[i].type,
                            image |-> honors'[i].image, owner |-> honors'[i].owner]
           /\ i < n' /\ honors'[i].owner \in Registrant \cup {Stored}
      /\ \A i, j \in DOMAIN honors' :
           /\ honors'[i].name = honors'[j].name /\ honors'[i].type = honors'[j].type => i = j
           /\ honors'[i].image = honors'[j].image /\ honors'[i].image # NoImage => i = j
  BY <1>1, RowAdded
<1>3. /\ \A i \in HonorId : i < n => i < n' /\ i # n
      /\ \A i \in HonorId : i < n => (Settled(i)' <=> Settled(i))
      /\ \A q : RowsOf(q)' = RowsOf(q) \cup (IF q = owner THEN {n} ELSE {})
  BY <1>1, RowAddedOwners
<1>4. PICK r : KnowsOf(p, e, n, tidings, r)
  <2>1. register' = EnsuredWith(p, e, n, tidings)
    BY DEF Ensured, IsNews, EnsuredWith
  <2>2. tidings \in SUBSET HonorId
    BY <1>0, <1>2
  <2> HIDE DEF tidings
  <2> QED
    BY <2>1, <2>2, <1>2, EnsuredShape
<1>5. /\ honors'[n].owner = owner /\ honors'[n].image = h.image
      /\ \A i : StoredRow(i) => StoredRow(i)'
  BY <1>2 DEF HonorRow, StoredRow
<1>6. e.slot \in 1 .. 3
  BY <1>0 DEF Usable
<1>7. HonorsTypeOK'
  <2>1. ASSUME NEW q \in Registrant
        PROVE  /\ DOMAIN wearing'[q] \subseteq 1 .. 3
               /\ \A s \in DOMAIN wearing'[q] : wearing'[q][s] \in DOMAIN honors'
               /\ register'[q].pc \in {"idle", "ensure", "assigned"}
    <3>1. register'[q].pc \in {"idle", "ensure", "assigned"}
      BY <1>0, <1>4 DEF HonorsTypeOK, KnowsOf
    <3>2. DOMAIN honors \subseteq DOMAIN honors' /\ wearing' = wearing
      BY <1>2
    <3> QED
      BY <3>1, <3>2, <1>0 DEF HonorsTypeOK
  <2>2. bodies' \in 0 .. MaxBodies /\ discovered' \subseteq HonorId
    BY <1>0 DEF HonorsTypeOK
  <2> QED
    BY <2>1, <2>2, <1>2 DEF HonorsTypeOK
<1>8. HonorsTypes'
  <2>1. register' = [q \in Registrant |-> register'[q]]
    BY <1>4 DEF KnowsOf
  <2>2. \A q \in Registrant : RegisterShape(register'[q])
    BY <1>0, <1>4 DEF HonorsTypes, KnowsOf
  <2>3. /\ wearing' = [q \in Registrant |-> wearing'[q]] /\ victims' \in BOOLEAN
        /\ notices' = [i \in HonorId |-> notices'[i]] /\ \A i \in HonorId : notices'[i] \in Nat
    BY <1>0 DEF HonorsTypes
  <2>4. /\ honors' = [i \in DOMAIN honors' |-> honors'[i]]
        /\ \A i \in DOMAIN honors' :
             honors'[i] = [name |-> honors'[i].name, type |-> honors'[i].type,
                           image |-> honors'[i].image, owner |-> honors'[i].owner]
    BY <1>2
  <2> QED
    BY <2>1, <2>2, <2>3, <2>4 DEF HonorsTypes
<1>9. OwnRows'
  <2> SUFFICES ASSUME NEW q \in Registrant PROVE OwnRowsOf(q, register[q])'
    BY DEF OwnRows
  <2>1. OwnRowsOf(q, register[q])
    BY <1>0 DEF OwnRows
  <2>2. CASE q # p
    <3>1. register'[q] = register[q] /\ RowsOf(q)' = RowsOf(q)
      BY <2>2, <1>0, <1>3, <1>4, <1>1, HonorsAssumption DEF KnowsOf
    <3>2. \A i \in HonorId : i < n => (honors[i].owner = q => Settled(i)' \/ honors'[i].owner = q)
      <4> TAKE i \in HonorId
      <4>1. i < n => i # n
        BY <1>3
      <4>2. i \in DOMAIN honors => honors'[i] = honors[i]
        BY <1>2
      <4>3. i \notin DOMAIN honors /\ i # n => i \notin DOMAIN honors'
        BY <1>2
      <4> QED
        BY <4>1, <4>2, <4>3 DEF Settled
    <3> QED
      BY <2>1, <3>1, <3>2, <1>3 DEF OwnRowsOf
  <2>3. CASE q = p
    <3>1. register'[p] = r /\ r.pc = "ensure" /\ r.broken = register[p].broken
          /\ r.snapshot = register[p].snapshot
      BY <1>4 DEF KnowsOf
    <3>2. r.broken => RowsOf(p)' = {}
      BY <2>1, <2>3, <3>1, <1>1, <1>3, HonorsAssumption DEF OwnRowsOf
    <3>3. \A i \in DOMAIN r.snapshot : i < n' /\ i \in HonorId /\ Settled(i)'
      BY <2>1, <2>3, <3>1, <1>3 DEF OwnRowsOf
    <3>4. ASSUME NEW a \in r.assignments
          PROVE  /\ a.slot \in 1 .. 3 /\ a.honor \in HonorId /\ a.honor < n'
                 /\ Settled(a.honor)' \/ honors'[a.honor].owner = p
      <4>1. CASE a \in register[p].assignments
        <5>1. /\ a.slot \in 1 .. 3 /\ a.honor \in HonorId /\ a.honor < n
              /\ Settled(a.honor) \/ honors[a.honor].owner = p
          BY <2>1, <2>3, <4>1 DEF OwnRowsOf
        <5>2. CASE Settled(a.honor)
          BY <5>1, <5>2, <1>3
        <5>3. CASE honors[a.honor].owner = p
          BY <5>1, <5>3, <1>2, <1>3 DEF Settled
        <5> QED
          BY <5>1, <5>2, <5>3
      <4>2. CASE a.slot = e.slot /\ a.honor = n
        BY <4>2, <1>1, <1>2, <1>5, <1>6, <1>0 DEF Settled
      <4> QED
        BY <4>1, <4>2, <1>4 DEF KnowsOf
    <3> QED
      BY <2>3, <3>1, <3>2, <3>3, <3>4 DEF OwnRowsOf
  <2> QED
    BY <2>2, <2>3
<1>10. WornRows'
  <2> SUFFICES ASSUME NEW q \in Registrant PROVE WornRowsOf(q, wearing[q], register[q])'
    BY DEF WornRows
  <2>1. WornRowsOf(q, wearing[q], register[q])
    BY <1>0 DEF WornRows
  <2>2. /\ register'[q].pc = register[q].pc /\ register'[q].kept = register[q].kept
        /\ wearing'[q] = wearing[q]
    BY <1>4 DEF KnowsOf
  <2> QED
    BY <2>1, <2>2, <1>3, <1>5 DEF WornRowsOf
<1>11. NewsInv'
  <2>1. \A j \in discovered' : j < n' /\ Settled(j)'
    BY <1>0, <1>3 DEF NewsInv, HonorsTypeOK
  <2> SUFFICES ASSUME NEW q \in Registrant PROVE NewsOf(q, register[q])'
    BY <2>1 DEF NewsInv
  <2>2. NewsOf(q, register[q])
    BY <1>0 DEF NewsInv
  <2>3. CASE q # p
    <3>1. register'[q] = register[q] /\ RowsOf(q)' = RowsOf(q)
      BY <2>3, <1>0, <1>3, <1>4, <1>1, HonorsAssumption DEF KnowsOf
    <3>2. \A i \in RowsOf(q) : honors'[i].image = honors[i].image
      BY <1>2 DEF RowsOf
    <3> QED
      BY <2>2, <3>1, <3>2 DEF NewsOf
  <2>4. CASE q = p
    <3>1. /\ register'[p] = r /\ r.pc = "ensure" /\ r.broken = register[p].broken
          /\ r.news = tidings
      BY <1>4 DEF KnowsOf
    <3>2. ASSUME ~victims PROVE owner = p /\ ~r.broken
      BY <3>1, <3>2, <2>2, <2>4, <1>1 DEF NewsOf
    <3>3. ASSUME ~victims PROVE tidings = {i \in RowsOf(p)' : honors'[i].image # NoImage}
      <4>1. /\ RowsOf(p)' = RowsOf(p) \cup {n} /\ n \notin RowsOf(p)
            /\ \A i \in RowsOf(p) : honors'[i].image = honors[i].image
            /\ register[p].news = {i \in RowsOf(p) : honors[i].image # NoImage}
        <5>1. RowsOf(p)' = RowsOf(p) \cup {n}
          BY <3>2, <3>3, <1>3
        <5>2. n \notin RowsOf(p) /\ \A i \in RowsOf(p) : honors'[i].image = honors[i].image
          BY <1>2 DEF RowsOf
        <5>3. register[p].pc # "idle"
          OBVIOUS
        <5>4. register[p].news = {i \in RowsOf(p) : honors[i].image # NoImage}
          BY <5>3, <3>3, <2>2, <2>4 DEF NewsOf
        <5> QED
          BY <5>1, <5>2, <5>4
      <4> QED
        BY <4>1, <1>5, <1>1
    <3> QED
      BY <2>4, <3>1, <3>2, <3>3 DEF NewsOf
  <2> QED
    BY <2>3, <2>4
<1>12. NotifiedOnce'
  BY <1>0 DEF NotifiedOnce
<1> QED
  BY <1>7, <1>8, <1>9, <1>10, <1>11, <1>12 DEF HonorsInv

LEMMA EnsureKeepsHonors ==
  ASSUME HonorsInv, NEW p \in Registrant, NEW e, EnsureHonor(p, e)
  PROVE  HonorsInv'
<1> DEFINE h == Entered(e)
           found == FoundIn(Visible(p), h)
           current == IF found # {} THEN found ELSE FoundIn(honors, h)
<1>1. /\ register[p].pc = "ensure" /\ e \in register[p].todo /\ ~Waits(p, h)
      /\ UNCHANGED <<wearing, bodies, notices, discovered, victims>>
  BY DEF EnsureHonor
<1>2. CASE current # {}
  <2>1. /\ \E i \in current : register' = Ensured(p, e, i, FALSE)
        /\ UNCHANGED <<honors, nextHonor>>
    BY <1>2 DEF EnsureHonor
  <2>2. PICK i \in current : register' = Ensured(p, e, i, FALSE)
    BY <2>1
  <2>3. /\ i \in HonorId /\ i < nextHonor
        /\ Settled(i) \/ honors[i].owner = p
    <3> HIDE DEF h
    <3> QED
      BY <1>1, FoundIsUsable
  <2> QED
    BY <1>1, <2>1, <2>2, <2>3, EnsureFindsHonor
<1>3. CASE current = {}
  <2>1. /\ nextHonor <= MaxHonors /\ nextHonor' = nextHonor + 1
        /\ honors' = [i \in DOMAIN honors \cup {nextHonor} |->
                        IF i \in DOMAIN honors THEN honors[i]
                        ELSE HonorRow(h, IF register[p].broken THEN Stored ELSE p)]
        /\ register' = Ensured(p, e, nextHonor, TRUE)
    BY <1>3 DEF EnsureHonor
  <2>2. Duplicates(h) = {}
    BY <1>3 DEF FoundIn, Duplicates
  <2> QED
    BY <1>1, <2>1, <2>2, EnsureInsertsHonor
<1> QED
  BY <1>2, <1>3

\* What follows for the rows when some of them go.
Shrinks(S) ==
  /\ honors' = WithoutRows(honors, S) /\ nextHonor' = nextHonor

LEMMA RowsRemoved ==
  ASSUME HonorsInv, NEW S, Shrinks(S)
  PROVE  /\ DOMAIN honors' = DOMAIN honors \ S
         /\ \A i \in DOMAIN honors' : honors'[i] = honors[i]
         /\ \A i : Settled(i) => Settled(i)'
         /\ \A i : StoredRow(i) /\ i \notin S => StoredRow(i)'
         /\ \A q : RowsOf(q)' = RowsOf(q) \ S
         /\ \A i, q : honors[i].owner = q => Settled(i)' \/ honors'[i].owner = q
<1>1. /\ DOMAIN honors' = DOMAIN honors \ S
      /\ \A i \in DOMAIN honors' : honors'[i] = honors[i]
  BY DEF Shrinks, WithoutRows
<1>2. \A i : Settled(i) => Settled(i)'
  BY <1>1 DEF Settled
<1>3. \A i : StoredRow(i) /\ i \notin S => StoredRow(i)'
  BY <1>1 DEF StoredRow
<1>4. \A q : RowsOf(q)' = RowsOf(q) \ S
  BY <1>1 DEF RowsOf
<1>5. \A i, q : honors[i].owner = q => Settled(i)' \/ honors'[i].owner = q
  BY <1>1 DEF Settled
<1> QED
  BY <1>1, <1>2, <1>3, <1>4, <1>5

\* The tables keep their types when nobody wears what goes.
LEMMA RowsRemovedTypes ==
  ASSUME HonorsInv, NEW S, Shrinks(S), wearing' = wearing, discovered' = discovered,
         bodies' = bodies, notices' = notices, victims' \in BOOLEAN,
         register' = [q \in Registrant |-> register'[q]],
         \A q \in Registrant : RegisterShape(register'[q]),
         \A q \in Registrant : \A s \in DOMAIN wearing[q] : wearing[q][s] \notin S
  PROVE  HonorsTypeOK' /\ HonorsTypes'
<1>1. /\ DOMAIN honors' = DOMAIN honors \ S
      /\ \A i \in DOMAIN honors' : honors'[i] = honors[i]
  BY RowsRemoved
<1>2. HonorsTypeOK /\ HonorsTypes
  BY DEF HonorsInv
<1>3. HonorsTypeOK'
  <2>1. /\ DOMAIN honors' \subseteq HonorId /\ nextHonor' \in 1 .. MaxHonors + 1
        /\ \A i \in DOMAIN honors' : i < nextHonor' /\ honors'[i].owner \in Registrant \cup {Stored}
    BY <1>1, <1>2 DEF HonorsTypeOK, Shrinks
  <2>2. \A i, j \in DOMAIN honors' :
          /\ honors'[i].name = honors'[j].name /\ honors'[i].type = honors'[j].type => i = j
          /\ honors'[i].image = honors'[j].image /\ honors'[i].image # NoImage => i = j
    BY <1>1, <1>2 DEF HonorsTypeOK
  <2>3. ASSUME NEW q \in Registrant
        PROVE  /\ DOMAIN wearing'[q] \subseteq 1 .. 3
               /\ \A s \in DOMAIN wearing'[q] : wearing'[q][s] \in DOMAIN honors'
               /\ register'[q].pc \in {"idle", "ensure", "assigned"}
    <3>1. register'[q].pc \in {"idle", "ensure", "assigned"}
      BY DEF RegisterShape, NotRegistering
    <3>2. DOMAIN wearing[q] \subseteq 1 .. 3
          /\ \A s \in DOMAIN wearing[q] : wearing[q][s] \in DOMAIN honors
      BY <1>2 DEF HonorsTypeOK
    <3> QED
      BY <3>1, <3>2, <1>1
  <2>4. bodies' \in 0 .. MaxBodies /\ discovered' \subseteq HonorId
    BY <1>2 DEF HonorsTypeOK
  <2> QED
    BY <2>1, <2>2, <2>3, <2>4 DEF HonorsTypeOK
<1>4. HonorsTypes'
  <2>1. /\ honors' = [i \in DOMAIN honors' |-> honors'[i]]
        /\ \A i \in DOMAIN honors' :
             honors'[i] = [name |-> honors'[i].name, type |-> honors'[i].type,
                           image |-> honors'[i].image, owner |-> honors'[i].owner]
    <3>1. honors' = [i \in DOMAIN honors' |-> honors'[i]]
      BY DEF Shrinks, WithoutRows
    <3> QED
      BY <3>1, <1>1, <1>2 DEF HonorsTypes
  <2>2. /\ wearing' = [q \in Registrant |-> wearing'[q]]
        /\ notices' = [i \in HonorId |-> notices'[i]] /\ \A i \in HonorId : notices'[i] \in Nat
    BY <1>2 DEF HonorsTypes
  <2> QED
    BY <2>1, <2>2 DEF HonorsTypes
<1> QED
  BY <1>3, <1>4

\* The rows of a registration that has none go with it, or without it after a deadlock.
LEMMA RollBackRows ==
  ASSUME HonorsInv, NEW p \in Registrant, Shrinks(RowsOf(p)), register[p].pc # "idle",
         UNCHANGED <<wearing, bodies, notices, discovered>>, NEW r, RegisterShape(r),
         register' = [register EXCEPT ![p] = r], victims' \in BOOLEAN,
         \/ r.pc = "idle" /\ victims' = victims
         \/ /\ r.pc = "ensure" /\ register[p].pc = "ensure" /\ r.broken /\ victims'
            /\ r.kept = wearing[p] /\ r.snapshot = register[p].snapshot
            /\ r.assignments = register[p].assignments
  PROVE  HonorsInv'
<1>0. HonorsTypeOK /\ HonorsTypes /\ OwnRows /\ WornRows /\ NewsInv /\ NotifiedOnce
  BY DEF HonorsInv
<1>1. register' = [q \in Registrant |-> IF q = p THEN r ELSE register[q]]
  BY <1>0 DEF HonorsTypes
<1>2. /\ DOMAIN honors' = DOMAIN honors \ RowsOf(p)
      /\ \A i \in DOMAIN honors' : honors'[i] = honors[i]
      /\ \A i : Settled(i) => Settled(i)'
      /\ \A i : StoredRow(i) /\ i \notin RowsOf(p) => StoredRow(i)'
      /\ \A q : RowsOf(q)' = RowsOf(q) \ RowsOf(p)
      /\ \A i, q : honors[i].owner = q => Settled(i)' \/ honors'[i].owner = q
      /\ nextHonor' = nextHonor
  BY RowsRemoved DEF Shrinks
<1>3. \A i : StoredRow(i) => i \notin RowsOf(p) /\ StoredRow(i)'
  BY <1>2, HonorsAssumption DEF StoredRow, RowsOf
<1>4. RowsOf(p)' = {} /\ \A q \in Registrant : q # p => RowsOf(q)' = RowsOf(q)
  BY <1>2 DEF RowsOf
<1>5. HonorsTypeOK' /\ HonorsTypes'
  <2>1. register' = [q \in Registrant |-> register'[q]]
    BY <1>1
  <2>2. \A q \in Registrant : RegisterShape(register'[q])
    BY <1>0, <1>1 DEF HonorsTypes
  <2>3. \A q \in Registrant : \A s \in DOMAIN wearing[q] : wearing[q][s] \notin RowsOf(p)
    BY <1>0, <1>3 DEF WornRows, WornRowsOf
  <2> QED
    BY <2>1, <2>2, <2>3, RowsRemovedTypes
<1>6. OwnRows'
  <2> SUFFICES ASSUME NEW q \in Registrant PROVE OwnRowsOf(q, register[q])'
    BY DEF OwnRows
  <2>1. OwnRowsOf(q, register[q])
    BY <1>0 DEF OwnRows
  <2>2. CASE q # p
    <3>1. register'[q] = register[q] /\ RowsOf(q)' = RowsOf(q)
      BY <2>2, <1>1, <1>4
    <3> QED
      BY <2>1, <3>1, <1>2 DEF OwnRowsOf
  <2>3. CASE q = p
    <3>1. register'[p] = r
      BY <1>1
    <3> QED
      BY <2>1, <2>3, <3>1, <1>2, <1>4 DEF OwnRowsOf
  <2> QED
    BY <2>2, <2>3
<1>7. WornRows'
  <2> SUFFICES ASSUME NEW q \in Registrant PROVE WornRowsOf(q, wearing[q], register[q])'
    BY DEF WornRows
  <2>1. WornRowsOf(q, wearing[q], register[q]) /\ wearing'[q] = wearing[q]
    BY <1>0 DEF WornRows
  <2>2. CASE q # p
    <3>1. register'[q] = register[q] /\ RowsOf(q)' = RowsOf(q)
      BY <2>2, <1>1, <1>4
    <3> QED
      BY <2>1, <3>1, <1>3 DEF WornRowsOf
  <2>3. CASE q = p
    <3>1. register'[p] = r
      BY <1>1
    <3> QED
      BY <2>1, <2>3, <3>1, <1>3 DEF WornRowsOf
  <2> QED
    BY <2>2, <2>3
<1>8. NewsInv'
  <2>1. \A j \in discovered' : j < nextHonor' /\ Settled(j)'
    BY <1>0, <1>2 DEF NewsInv
  <2> SUFFICES ASSUME NEW q \in Registrant PROVE NewsOf(q, register[q])'
    BY <2>1 DEF NewsInv
  <2>2. NewsOf(q, register[q])
    BY <1>0 DEF NewsInv
  <2>3. CASE q = p
    BY <2>3, <1>1 DEF NewsOf
  <2>4. CASE q # p /\ ~victims'
    <3>1. register'[q] = register[q] /\ RowsOf(q)' = RowsOf(q) /\ ~victims
      BY <2>4, <1>1, <1>4
    <3>2. \A i \in RowsOf(q) : honors'[i].image = honors[i].image
      BY <3>1, <1>2 DEF RowsOf
    <3> QED
      BY <2>2, <3>1, <3>2 DEF NewsOf
  <2>5. CASE victims'
    BY <2>5 DEF NewsOf
  <2> QED
    BY <2>3, <2>4, <2>5
<1>9. NotifiedOnce'
  BY <1>0 DEF NotifiedOnce
<1> QED
  BY <1>5, <1>6, <1>7, <1>8, <1>9 DEF HonorsInv

\* A record of a registration with some fields replaced.
LEMMA RegisterReplaced ==
  ASSUME NEW pc, NEW broken, NEW todo, NEW kept, NEW snapshot, NEW assignments, NEW news,
         NEW k, k = [pc |-> pc, broken |-> broken, todo |-> todo, kept |-> kept,
                     snapshot |-> snapshot, assignments |-> assignments, news |-> news],
         NEW left, NEW after, NEW r
  PROVE  /\ r = [[[k EXCEPT !.broken = TRUE] EXCEPT !.todo = left] EXCEPT !.kept = after] =>
              r = [pc |-> pc, broken |-> TRUE, todo |-> left, kept |-> after,
                   snapshot |-> snapshot, assignments |-> assignments, news |-> news]
         /\ r = [[k EXCEPT !.pc = "assigned"] EXCEPT !.kept = after] =>
              r = [pc |-> "assigned", broken |-> broken, todo |-> todo, kept |-> after,
                   snapshot |-> snapshot, assignments |-> assignments, news |-> news]
OBVIOUS

LEMMA FailKeepsHonors ==
  ASSUME HonorsInv, NEW p \in Registrant, RegistrationFails(p)
  PROVE  HonorsInv'
<1>1. /\ Shrinks(RowsOf(p)) /\ register[p].pc # "idle" /\ victims' = victims
      /\ UNCHANGED <<wearing, bodies, notices, discovered>>
      /\ register' = [register EXCEPT ![p] = NotRegistering]
  BY DEF RegistrationFails, Shrinks
<1>2. victims' \in BOOLEAN /\ RegisterShape(NotRegistering) /\ NotRegistering.pc = "idle"
  BY <1>1 DEF HonorsInv, HonorsTypes, RegisterShape, NotRegistering
<1> QED
  BY <1>1, <1>2, RollBackRows

LEMMA VictimKeepsHonors ==
  ASSUME HonorsInv, NEW p \in Registrant, NEW e, DeadlockVictim(p, e)
  PROVE  HonorsInv'
<1> DEFINE k == register[p]
           r == [pc |-> k.pc, broken |-> TRUE, todo |-> k.todo \ {e}, kept |-> wearing[p],
                 snapshot |-> k.snapshot, assignments |-> k.assignments, news |-> k.news]
<1>1. /\ Shrinks(RowsOf(p)) /\ k.pc = "ensure" /\ victims' = TRUE
      /\ UNCHANGED <<wearing, bodies, notices, discovered>>
      /\ register' = [register EXCEPT ![p].broken = TRUE, ![p].todo = @ \ {e},
                                      ![p].kept = wearing[p]]
  BY DEF DeadlockVictim, Shrinks
<1>2. RegisterShape(k) /\ k # NotRegistering /\ register = [q \in Registrant |-> register[q]]
  BY <1>1 DEF HonorsInv, HonorsTypes, NotRegistering
<1>3. k = [pc |-> k.pc, broken |-> k.broken, todo |-> k.todo, kept |-> k.kept,
           snapshot |-> k.snapshot, assignments |-> k.assignments, news |-> k.news]
  BY <1>2 DEF RegisterShape
<1>4. register' = [register EXCEPT ![p] = [[[k EXCEPT !.broken = TRUE]
                     EXCEPT !.todo = k.todo \ {e}] EXCEPT !.kept = wearing[p]]]
  BY <1>1, <1>2, <1>3
<1>5. register' = [register EXCEPT ![p] = r]
  <2>1. PICK z : z = [[[k EXCEPT !.broken = TRUE] EXCEPT !.todo = k.todo \ {e}]
                        EXCEPT !.kept = wearing[p]]
    OBVIOUS
  <2>2. z = r
    <3> HIDE DEF k
    <3> QED
      BY <2>1, <1>3, RegisterReplaced
  <2>3. register' = [register EXCEPT ![p] = z]
    BY <2>1, <1>4
  <2> QED
    BY <2>2, <2>3
<1>6. RegisterShape(r)
  BY <1>1, <1>2 DEF RegisterShape, NotRegistering
<1>7. /\ r.pc = "ensure" /\ r.broken /\ r.kept = wearing[p]
      /\ r.snapshot = k.snapshot /\ r.assignments = k.assignments
  BY <1>1
<1> HIDE DEF r
<1> QED
  BY <1>1, <1>5, <1>6, <1>7, RollBackRows

LEMMA AssignKeepsHonors ==
  ASSUME HonorsInv, NEW p \in Registrant, Assign(p)
  PROVE  HonorsInv'
<1> DEFINE k == register[p]
           slots == {a.slot : a \in k.assignments}
           fails == \/ \E a, b \in k.assignments : a.slot = b.slot /\ a # b
                    \/ slots \cap DOMAIN k.kept # {}
                    \/ \E a \in k.assignments : a.honor \notin DOMAIN honors
           given(s) == (CHOOSE a \in k.assignments : a.slot = s).honor
           merged == [s \in DOMAIN k.kept \cup slots |->
                        IF s \in slots THEN given(s) ELSE k.kept[s]]
           after == IF fails THEN k.kept ELSE merged
           r == [pc |-> "assigned", broken |-> k.broken, todo |-> k.todo, kept |-> after,
                 snapshot |-> k.snapshot, assignments |-> k.assignments, news |-> k.news]
<1>0. HonorsTypeOK /\ HonorsTypes /\ OwnRows /\ WornRows /\ NewsInv /\ NotifiedOnce
  BY DEF HonorsInv
<1>1. /\ k.pc = "ensure"
      /\ register' = [register EXCEPT ![p].pc = "assigned", ![p].kept = after]
      /\ wearing' = IF k.broken THEN [wearing EXCEPT ![p] = after] ELSE wearing
      /\ UNCHANGED <<honors, nextHonor, bodies, notices, discovered, victims>>
  BY DEF Assign
<1>2. RegisterShape(k) /\ k # NotRegistering /\ register = [q \in Registrant |-> register[q]]
  <2> HIDE DEF after
  <2> QED
    BY <1>0, <1>1 DEF HonorsTypes, NotRegistering
<1>3. k = [pc |-> k.pc, broken |-> k.broken, todo |-> k.todo, kept |-> k.kept,
           snapshot |-> k.snapshot, assignments |-> k.assignments, news |-> k.news]
  BY <1>2 DEF RegisterShape
<1>4. OwnRowsOf(p, k) /\ WornRowsOf(p, wearing[p], k)
  BY <1>0 DEF OwnRows, WornRows
\* What is assigned is in the master, stored or the registration's own.
<1>5. ASSUME NEW s \in DOMAIN after
      PROVE  s \in 1 .. 3 /\ (StoredRow(after[s]) \/ after[s] \in RowsOf(p))
  <2>1. CASE s \in DOMAIN k.kept /\ after[s] = k.kept[s]
    BY <2>1, <1>1, <1>4 DEF WornRowsOf
  <2>2. CASE ~fails /\ s \in slots /\ after[s] = given(s)
    <3>1. PICK a \in k.assignments : a.slot = s
      BY <2>2
    <3>2. given(s) = (CHOOSE b \in k.assignments : b.slot = s).honor
      OBVIOUS
    <3>3. PICK b \in k.assignments : b.slot = s /\ given(s) = b.honor
      BY <3>1, <3>2
    <3>4. b.honor \in DOMAIN honors
      BY <2>2, <3>3
    <3>5. b.slot \in 1 .. 3 /\ (Settled(b.honor) \/ honors[b.honor].owner = p)
      BY <1>1, <1>4, <3>3 DEF OwnRowsOf
    <3> QED
      BY <2>2, <3>3, <3>4, <3>5 DEF Settled, StoredRow, RowsOf
  <2>3. CASE fails
    <3>1. after = k.kept
      BY <2>3
    <3> HIDE DEF after
    <3> QED
      BY <3>1, <2>1
  <2>4. CASE ~fails
    <3>1. after = merged
      BY <2>4
    <3>2. CASE s \in slots
      <4>1. after[s] = given(s)
        BY <2>4, <3>2
      <4> QED
        BY <2>2, <2>4, <3>2, <4>1
    <3>3. CASE s \notin slots
      <4>1. s \in DOMAIN k.kept /\ after[s] = k.kept[s]
        BY <2>4, <3>3
      <4> QED
        BY <2>1, <4>1
    <3> QED
      BY <3>2, <3>3
  <2> QED
    BY <2>3, <2>4
<1> HIDE DEF after
<1>6. register' = [q \in Registrant |-> IF q = p THEN r ELSE register[q]]
  <2>1. register' = [register EXCEPT ![p] = [[k EXCEPT !.pc = "assigned"] EXCEPT !.kept = after]]
    BY <1>1, <1>2
  <2>2. PICK z : z = [[k EXCEPT !.pc = "assigned"] EXCEPT !.kept = after]
    OBVIOUS
  <2>3. z = r
    <3> HIDE DEF k
    <3> QED
      BY <2>2, <1>3, RegisterReplaced
  <2>4. register' = [register EXCEPT ![p] = z]
    BY <2>1, <2>2
  <2> QED
    BY <2>3, <2>4, <1>2
<1>7. /\ RegisterShape(r) /\ r.pc = "assigned" /\ r.broken = k.broken /\ r.kept = after
      /\ r.snapshot = k.snapshot /\ r.assignments = k.assignments /\ r.news = k.news
  BY <1>2 DEF RegisterShape, NotRegistering
<1> HIDE DEF r
<1>8. /\ wearing' = [q \in Registrant |-> wearing'[q]]
      /\ \A q \in Registrant : q # p => wearing'[q] = wearing[q]
      /\ ~k.broken => wearing'[p] = wearing[p]
      /\ k.broken => wearing'[p] = after
  BY <1>0, <1>1 DEF HonorsTypes
<1>9. k.broken => RowsOf(p) = {}
  BY <1>1, <1>4 DEF OwnRowsOf
<1>10. /\ \A q \in Registrant : RowsOf(q)' = RowsOf(q)
       /\ \A i : (Settled(i)' <=> Settled(i)) /\ (StoredRow(i)' <=> StoredRow(i))
  BY <1>1 DEF RowsOf, Settled, StoredRow
<1>11. WornRows'
  <2> SUFFICES ASSUME NEW q \in Registrant PROVE WornRowsOf(q, wearing[q], register[q])'
    BY DEF WornRows
  <2>1. WornRowsOf(q, wearing[q], register[q])
    BY <1>0 DEF WornRows
  <2>2. CASE q # p
    <3>1. register'[q] = register[q] /\ wearing'[q] = wearing[q]
      BY <2>2, <1>6, <1>8
    <3> QED
      BY <2>1, <3>1, <1>10 DEF WornRowsOf
  <2>3. CASE q = p
    <3>1. register'[p] = r
      BY <1>6
    <3>2. \A s \in DOMAIN wearing'[p] : s \in 1 .. 3 /\ StoredRow(wearing'[p][s])
      BY <2>1, <2>3, <1>5, <1>7, <1>8, <1>9, <1>2 DEF WornRowsOf, RegisterShape, NotRegistering
    <3> QED
      BY <2>3, <3>1, <3>2, <1>5, <1>7, <1>10 DEF WornRowsOf
  <2> QED
    BY <2>2, <2>3
<1>12. HonorsTypeOK'
  <2>1. ASSUME NEW q \in Registrant
        PROVE  /\ DOMAIN wearing'[q] \subseteq 1 .. 3
               /\ \A s \in DOMAIN wearing'[q] : wearing'[q][s] \in DOMAIN honors'
               /\ register'[q].pc \in {"idle", "ensure", "assigned"}
    <3>1. register'[q].pc \in {"idle", "ensure", "assigned"}
      BY <1>0, <1>6, <1>7 DEF HonorsTypeOK
    <3>2. WornRowsOf(q, wearing[q], register[q])'
      BY <1>11 DEF WornRows
    <3> QED
      BY <3>1, <3>2 DEF WornRowsOf, StoredRow
  <2> QED
    BY <2>1, <1>0, <1>1 DEF HonorsTypeOK
<1>13. HonorsTypes'
  <2>1. register' = [q \in Registrant |-> register'[q]]
    BY <1>6
  <2>2. \A q \in Registrant : RegisterShape(register'[q])
    BY <1>0, <1>6, <1>7 DEF HonorsTypes
  <2> QED
    BY <2>1, <2>2, <1>0, <1>1, <1>8 DEF HonorsTypes
<1>14. OwnRows'
  <2> SUFFICES ASSUME NEW q \in Registrant PROVE OwnRowsOf(q, register[q])'
    BY DEF OwnRows
  <2>1. OwnRowsOf(q, register[q])
    BY <1>0 DEF OwnRows
  <2>2. CASE q # p
    BY <2>1, <2>2, <1>1, <1>6, <1>10 DEF OwnRowsOf
  <2>3. CASE q = p
    BY <2>1, <2>3, <1>1, <1>6, <1>7, <1>10 DEF OwnRowsOf
  <2> QED
    BY <2>2, <2>3
<1>15. NewsInv'
  <2>1. \A j \in discovered' : j < nextHonor' /\ Settled(j)'
    BY <1>0, <1>1, <1>10 DEF NewsInv
  <2> SUFFICES ASSUME NEW q \in Registrant PROVE NewsOf(q, register[q])'
    BY <2>1 DEF NewsInv
  <2>2. NewsOf(q, register[q])
    BY <1>0 DEF NewsInv
  <2>3. CASE q # p
    BY <2>2, <2>3, <1>1, <1>6, <1>10 DEF NewsOf
  <2>4. CASE q = p
    BY <2>2, <2>4, <1>1, <1>6, <1>7, <1>10 DEF NewsOf
  <2> QED
    BY <2>3, <2>4
<1>16. NotifiedOnce'
  BY <1>0, <1>1 DEF NotifiedOnce
<1> QED
  BY <1>11, <1>12, <1>13, <1>14, <1>15, <1>16 DEF HonorsInv

LEMMA CommitKeepsHonors ==
  ASSUME HonorsInv, NEW p \in Registrant, RegistrationCommits(p)
  PROVE  HonorsInv'
<1> DEFINE k == register[p]
<1>0. HonorsTypeOK /\ HonorsTypes /\ OwnRows /\ WornRows /\ NewsInv /\ NotifiedOnce
  BY DEF HonorsInv
<1>1. /\ k.pc = "assigned"
      /\ honors' = [i \in DOMAIN honors |->
                      IF i \in RowsOf(p) THEN [honors[i] EXCEPT !.owner = Stored] ELSE honors[i]]
      /\ wearing' = IF k.broken THEN wearing ELSE [wearing EXCEPT ![p] = k.kept]
      /\ discovered' = discovered \cup {i \in RowsOf(p) : honors[i].image # NoImage}
      /\ notices' = [i \in HonorId |-> notices[i] + IF i \in k.news THEN 1 ELSE 0]
      /\ register' = [register EXCEPT ![p] = NotRegistering]
      /\ UNCHANGED <<nextHonor, bodies, victims>>
  BY DEF RegistrationCommits
<1>2. register' = [q \in Registrant |-> IF q = p THEN NotRegistering ELSE register[q]]
  BY <1>0, <1>1 DEF HonorsTypes
<1>3. OwnRowsOf(p, k) /\ WornRowsOf(p, wearing[p], k) /\ NewsOf(p, k)
  BY <1>0 DEF OwnRows, WornRows, NewsInv
<1>4. /\ DOMAIN honors' = DOMAIN honors
      /\ honors' = [i \in DOMAIN honors' |-> honors'[i]]
      /\ \A i \in DOMAIN honors :
           /\ honors'[i] = [name |-> honors'[i].name, type |-> honors'[i].type,
                            image |-> honors'[i].image, owner |-> honors'[i].owner]
           /\ honors'[i].name = honors[i].name /\ honors'[i].type = honors[i].type
           /\ honors'[i].image = honors[i].image
           /\ honors'[i].owner = IF i \in RowsOf(p) THEN Stored ELSE honors[i].owner
  <2>1. /\ DOMAIN honors' = DOMAIN honors
        /\ honors' = [i \in DOMAIN honors' |-> honors'[i]]
    BY <1>1
  <2>2. ASSUME NEW i \in DOMAIN honors
        PROVE  /\ honors'[i] = [name |-> honors'[i].name, type |-> honors'[i].type,
                                image |-> honors'[i].image, owner |-> honors'[i].owner]
               /\ honors'[i].name = honors[i].name /\ honors'[i].type = honors[i].type
               /\ honors'[i].image = honors[i].image
               /\ honors'[i].owner = IF i \in RowsOf(p) THEN Stored ELSE honors[i].owner
    <3>1. honors[i] = [name |-> honors[i].name, type |-> honors[i].type,
                       image |-> honors[i].image, owner |-> honors[i].owner]
      BY <1>0 DEF HonorsTypes
    <3>2. CASE i \in RowsOf(p)
      <4>1. honors'[i] = [honors[i] EXCEPT !.owner = Stored]
        BY <1>1, <3>2
      <4> QED
        BY <3>1, <3>2, <4>1
    <3>3. CASE i \notin RowsOf(p)
      <4>1. honors'[i] = honors[i]
        BY <1>1, <3>3
      <4> QED
        BY <3>1, <3>3, <4>1
    <3> QED
      BY <3>2, <3>3
  <2> QED
    BY <2>1, <2>2
<1>5. RowsOf(p)' = {} /\ \A q \in Registrant : q # p => RowsOf(q)' = RowsOf(q)
  BY <1>4, HonorsAssumption DEF RowsOf
<1>6. /\ \A i : Settled(i) => Settled(i)'
      /\ \A i : StoredRow(i) => StoredRow(i)'
      /\ \A i \in RowsOf(p) : StoredRow(i)'
      /\ \A i, q : q # p /\ honors[i].owner = q /\ i \in DOMAIN honors => honors'[i].owner = q
  BY <1>4 DEF Settled, StoredRow, RowsOf
<1>7. /\ wearing' = [q \in Registrant |-> wearing'[q]]
      /\ \A q \in Registrant : q # p => wearing'[q] = wearing[q]
      /\ wearing'[p] = wearing[p] \/ wearing'[p] = k.kept
  BY <1>0, <1>1 DEF HonorsTypes
<1>8. WornRows'
  <2> SUFFICES ASSUME NEW q \in Registrant PROVE WornRowsOf(q, wearing[q], register[q])'
    BY DEF WornRows
  <2>1. WornRowsOf(q, wearing[q], register[q])
    BY <1>0 DEF WornRows
  <2>2. CASE q # p
    <3>1. register'[q] = register[q] /\ wearing'[q] = wearing[q] /\ RowsOf(q)' = RowsOf(q)
      BY <2>2, <1>2, <1>5, <1>7
    <3> QED
      BY <2>1, <3>1, <1>6 DEF WornRowsOf
  <2>3. CASE q = p
    <3>1. register'[p].pc = "idle"
      BY <1>2 DEF NotRegistering
    <3>2. CASE wearing'[p] = wearing[p]
      BY <2>1, <2>3, <3>1, <3>2, <1>6 DEF WornRowsOf
    <3>3. CASE wearing'[p] = k.kept
      <4>1. PICK worn : worn = k.kept
        OBVIOUS
      <4>2. \A s \in DOMAIN worn :
              s \in 1 .. 3 /\ (StoredRow(worn[s]) \/ worn[s] \in RowsOf(p))
        BY <4>1, <1>1, <1>3 DEF WornRowsOf
      <4>3. \A s \in DOMAIN worn : s \in 1 .. 3 /\ StoredRow(worn[s])'
        BY <4>2, <1>6
      <4>4. wearing'[p] = worn
        BY <3>3, <4>1
      <4> QED
        BY <2>3, <3>1, <4>3, <4>4 DEF WornRowsOf
    <3> QED
      BY <3>2, <3>3, <1>7
  <2> QED
    BY <2>2, <2>3
<1>9. discovered' \subseteq HonorId /\ \A i \in discovered' : i < nextHonor /\ Settled(i)'
  <2>1. \A i \in RowsOf(p) : i \in HonorId /\ i < nextHonor /\ Settled(i)'
    BY <1>0, <1>6 DEF RowsOf, HonorsTypeOK, Settled, StoredRow
  <2> QED
    BY <2>1, <1>0, <1>1, <1>6 DEF NewsInv, HonorsTypeOK
<1>10. HonorsTypeOK'
  <2>1. /\ DOMAIN honors' \subseteq HonorId /\ nextHonor' \in 1 .. MaxHonors + 1
        /\ \A i \in DOMAIN honors' : i < nextHonor' /\ honors'[i].owner \in Registrant \cup {Stored}
    BY <1>0, <1>1, <1>4 DEF HonorsTypeOK
  <2>2. \A i, j \in DOMAIN honors' :
          /\ honors'[i].name = honors'[j].name /\ honors'[i].type = honors'[j].type => i = j
          /\ honors'[i].image = honors'[j].image /\ honors'[i].image # NoImage => i = j
    BY <1>0, <1>4 DEF HonorsTypeOK
  <2>3. ASSUME NEW q \in Registrant
        PROVE  /\ DOMAIN wearing'[q] \subseteq 1 .. 3
               /\ \A s \in DOMAIN wearing'[q] : wearing'[q][s] \in DOMAIN honors'
               /\ register'[q].pc \in {"idle", "ensure", "assigned"}
    <3>1. register'[q].pc \in {"idle", "ensure", "assigned"}
      BY <1>0, <1>2 DEF HonorsTypeOK, NotRegistering
    <3>2. WornRowsOf(q, wearing[q], register[q])'
      BY <1>8 DEF WornRows
    <3> QED
      BY <3>1, <3>2 DEF WornRowsOf, StoredRow
  <2>4. bodies' \in 0 .. MaxBodies
    BY <1>0, <1>1 DEF HonorsTypeOK
  <2> QED
    BY <2>1, <2>2, <2>3, <2>4, <1>9 DEF HonorsTypeOK
<1>11. HonorsTypes'
  <2>1. register' = [q \in Registrant |-> register'[q]]
    BY <1>2
  <2>2. \A q \in Registrant : RegisterShape(register'[q])
    BY <1>0, <1>2 DEF HonorsTypes, RegisterShape
  <2>3. /\ notices' = [i \in HonorId |-> notices'[i]] /\ \A i \in HonorId : notices'[i] \in Nat
        /\ victims' \in BOOLEAN
    BY <1>0, <1>1 DEF HonorsTypes
  <2> QED
    BY <2>1, <2>2, <2>3, <1>4, <1>7 DEF HonorsTypes
<1>12. OwnRows'
  <2> SUFFICES ASSUME NEW q \in Registrant PROVE OwnRowsOf(q, register[q])'
    BY DEF OwnRows
  <2>1. OwnRowsOf(q, register[q])
    BY <1>0 DEF OwnRows
  <2>2. CASE q # p
    <3>1. register'[q] = register[q] /\ RowsOf(q)' = RowsOf(q)
      BY <2>2, <1>2, <1>5
    <3>2. \A i : honors[i].owner = q => Settled(i)' \/ honors'[i].owner = q
      BY <2>2, <1>4, <1>6 DEF Settled
    <3> QED
      BY <2>1, <3>1, <3>2, <1>1, <1>6 DEF OwnRowsOf
  <2>3. CASE q = p
    BY <2>3, <1>2, <1>5 DEF OwnRowsOf, NotRegistering
  <2> QED
    BY <2>2, <2>3
<1>13. NewsInv'
  <2> SUFFICES ASSUME NEW q \in Registrant PROVE NewsOf(q, register[q])'
    BY <1>9, <1>1 DEF NewsInv
  <2>1. NewsOf(q, register[q])
    BY <1>0 DEF NewsInv
  <2>2. CASE q # p
    <3>1. register'[q] = register[q] /\ RowsOf(q)' = RowsOf(q) /\ victims' = victims
      BY <2>2, <1>1, <1>2, <1>5
    <3>2. \A i \in RowsOf(q) : honors'[i].image = honors[i].image
      BY <1>4 DEF RowsOf
    <3> QED
      BY <2>1, <3>1, <3>2 DEF NewsOf
  <2>3. CASE q = p
    BY <2>3, <1>2 DEF NewsOf, NotRegistering
  <2> QED
    BY <2>2, <2>3
<1>14. NotifiedOnce'
  <2> SUFFICES ASSUME ~victims, NEW i \in HonorId
               PROVE  notices'[i] = IF i \in discovered' THEN 1 ELSE 0
    BY <1>1 DEF NotifiedOnce
  <2>1. notices[i] = IF i \in discovered THEN 1 ELSE 0
    BY <1>0 DEF NotifiedOnce
  <2>2. k.news = {j \in RowsOf(p) : honors[j].image # NoImage}
    BY <1>1, <1>3 DEF NewsOf
  <2>3. notices'[i] = notices[i] + IF i \in k.news THEN 1 ELSE 0
    BY <1>1
  <2>4. i \in k.news => i \notin discovered
    BY <2>2, <1>0, HonorsAssumption DEF NewsInv, Settled, RowsOf
  <2>5. i \in discovered' <=> i \in discovered \/ i \in k.news
    BY <1>1, <2>2
  <2> QED
    BY <2>1, <2>3, <2>4, <2>5
<1> QED
  BY <1>8, <1>10, <1>11, <1>12, <1>13, <1>14 DEF HonorsInv

\* An administrator's step changes rows that are stored, and nothing of registrations.
LEMMA EditedHonors ==
  ASSUME HonorsInv, HonorsTypeOK', HonorsTypes', nextHonor <= nextHonor', nextHonor' \in Nat,
         UNCHANGED <<wearing, register, bodies, notices, discovered, victims>>,
         \A q \in Registrant : RowsOf(q)' = RowsOf(q),
         \A q \in Registrant : \A i \in RowsOf(q) : honors'[i] = honors[i],
         \A i \in HonorId : i < nextHonor /\ Settled(i) => Settled(i)',
         \A q \in Registrant : \A i \in HonorId :
           i < nextHonor /\ honors[i].owner = q => Settled(i)' \/ honors'[i].owner = q,
         \A q \in Registrant : \A s \in DOMAIN wearing[q] : StoredRow(wearing[q][s])',
         \A q \in Registrant : register[q].pc = "assigned" =>
           \A s \in DOMAIN register[q].kept :
             StoredRow(register[q].kept[s]) => StoredRow(register[q].kept[s])'
  PROVE  HonorsInv'
<1>0. HonorsTypeOK /\ HonorsTypes /\ OwnRows /\ WornRows /\ NewsInv /\ NotifiedOnce
  BY DEF HonorsInv
<1>1. \A i \in HonorId : i < nextHonor => i < nextHonor'
  BY <1>0 DEF HonorsTypeOK, HonorId
<1>2. OwnRows'
  <2> SUFFICES ASSUME NEW q \in Registrant PROVE OwnRowsOf(q, register[q])'
    BY DEF OwnRows
  <2>1. OwnRowsOf(q, register[q]) /\ RowsOf(q)' = RowsOf(q) /\ register'[q] = register[q]
    BY <1>0 DEF OwnRows
  <2> QED
    BY <2>1, <1>1 DEF OwnRowsOf
<1>3. WornRows'
  <2> SUFFICES ASSUME NEW q \in Registrant PROVE WornRowsOf(q, wearing[q], register[q])'
    BY DEF WornRows
  <2>1. /\ WornRowsOf(q, wearing[q], register[q]) /\ RowsOf(q)' = RowsOf(q)
        /\ register'[q] = register[q] /\ wearing'[q] = wearing[q]
    BY <1>0 DEF WornRows
  <2>2. \A s \in DOMAIN wearing[q] : s \in 1 .. 3 /\ StoredRow(wearing[q][s])'
    BY <2>1 DEF WornRowsOf
  <2>3. CASE register[q].pc = "assigned"
    BY <2>1, <2>2, <2>3 DEF WornRowsOf
  <2>4. CASE register[q].pc = "ensure"
    BY <2>1, <2>2, <2>4 DEF WornRowsOf
  <2>5. CASE register[q].pc = "idle"
    BY <2>1, <2>2, <2>5 DEF WornRowsOf
  <2> QED
    BY <2>3, <2>4, <2>5, <1>0 DEF HonorsTypeOK
<1>4. NewsInv'
  <2>1. \A j \in discovered' : j < nextHonor' /\ Settled(j)'
    BY <1>0, <1>1 DEF NewsInv, HonorsTypeOK
  <2> SUFFICES ASSUME NEW q \in Registrant PROVE NewsOf(q, register[q])'
    BY <2>1 DEF NewsInv
  <2>2. NewsOf(q, register[q]) /\ RowsOf(q)' = RowsOf(q) /\ register'[q] = register[q]
    BY <1>0 DEF NewsInv
  <2>3. \A i \in RowsOf(q) : honors'[i].image = honors[i].image
    OBVIOUS
  <2> QED
    BY <2>2, <2>3 DEF NewsOf
<1>5. NotifiedOnce'
  BY <1>0 DEF NotifiedOnce
<1> QED
  BY <1>2, <1>3, <1>4, <1>5 DEF HonorsInv

LEMMA CreateKeepsHonors ==
  ASSUME HonorsInv, NEW h, CreateHonor(h)
  PROVE  HonorsInv'
<1> DEFINE n == nextHonor
<1>0. HonorsTypeOK /\ HonorsTypes /\ OwnRows /\ WornRows /\ NewsInv /\ NotifiedOnce
  BY DEF HonorsInv
<1>1. /\ Duplicates(h) = {} /\ nextHonor <= MaxHonors /\ nextHonor' = nextHonor + 1
      /\ honors' = [i \in DOMAIN honors \cup {nextHonor} |->
                      IF i \in DOMAIN honors THEN honors[i] ELSE HonorRow(h, Stored)]
      /\ UNCHANGED <<wearing, register, bodies, notices, discovered, victims>>
      /\ Stored \in Registrant \cup {Stored}
  BY DEF CreateHonor
<1>2. /\ n \in HonorId /\ n' \in 1 .. MaxHonors + 1 /\ n < n' /\ n \notin DOMAIN honors
      /\ DOMAIN honors' = DOMAIN honors \cup {n} /\ DOMAIN honors' \subseteq HonorId
      /\ \A i \in DOMAIN honors : honors'[i] = honors[i]
      /\ honors'[n] = HonorRow(h, Stored)
      /\ honors' = [i \in DOMAIN honors' |-> honors'[i]]
      /\ \A i \in DOMAIN honors' :
           /\ honors'[i] = [name |-> honors'[i].name, type |-> honors'[i].type,
                            image |-> honors'[i].image, owner |-> honors'[i].owner]
           /\ i < n' /\ honors'[i].owner \in Registrant \cup {Stored}
      /\ \A i, j \in DOMAIN honors' :
           /\ honors'[i].name = honors'[j].name /\ honors'[i].type = honors'[j].type => i = j
           /\ honors'[i].image = honors'[j].image /\ honors'[i].image # NoImage => i = j
  BY <1>1, RowAdded
<1>3. /\ \A i \in HonorId : i < n => i < n' /\ i # n
      /\ \A i \in HonorId : i < n => (Settled(i)' <=> Settled(i))
      /\ \A q : RowsOf(q)' = RowsOf(q) \cup (IF q = Stored THEN {n} ELSE {})
  BY <1>1, RowAddedOwners
<1>4. \A i : StoredRow(i) => StoredRow(i)'
  BY <1>2 DEF StoredRow
<1>5. HonorsTypeOK'
  <2>1. ASSUME NEW q \in Registrant
        PROVE  /\ DOMAIN wearing'[q] \subseteq 1 .. 3
               /\ \A s \in DOMAIN wearing'[q] : wearing'[q][s] \in DOMAIN honors'
               /\ register'[q].pc \in {"idle", "ensure", "assigned"}
    <3>1. DOMAIN honors \subseteq DOMAIN honors' /\ wearing' = wearing /\ register' = register
      BY <1>1, <1>2
    <3> QED
      BY <3>1, <1>0 DEF HonorsTypeOK
  <2>2. bodies' \in 0 .. MaxBodies /\ discovered' \subseteq HonorId
    BY <1>0, <1>1 DEF HonorsTypeOK
  <2> QED
    BY <2>1, <2>2, <1>2 DEF HonorsTypeOK
<1>6. HonorsTypes'
  <2>1. /\ honors' = [i \in DOMAIN honors' |-> honors'[i]]
        /\ \A i \in DOMAIN honors' :
             honors'[i] = [name |-> honors'[i].name, type |-> honors'[i].type,
                           image |-> honors'[i].image, owner |-> honors'[i].owner]
    BY <1>2
  <2>2. /\ wearing' = wearing /\ register' = register /\ notices' = notices /\ victims' = victims
    BY <1>1
  <2> QED
    BY <2>1, <2>2, <1>0 DEF HonorsTypes
<1>7. \A q \in Registrant : RowsOf(q)' = RowsOf(q)
  BY <1>3, HonorsAssumption
<1>8. \A q \in Registrant : \A i \in RowsOf(q) : honors'[i] = honors[i]
  BY <1>2 DEF RowsOf
<1>9. \A q \in Registrant : \A i \in HonorId :
        i < n /\ honors[i].owner = q => Settled(i)' \/ honors'[i].owner = q
  <2> TAKE q \in Registrant
  <2> TAKE i \in HonorId
  <2>1. CASE i \in DOMAIN honors
    BY <2>1, <1>2
  <2>2. CASE i \notin DOMAIN honors /\ i < n
    <3>1. Settled(i)
      BY <2>2 DEF Settled
    <3> QED
      BY <2>2, <3>1, <1>3
  <2> QED
    BY <2>1, <2>2
<1>10. \A q \in Registrant : \A s \in DOMAIN wearing[q] : StoredRow(wearing[q][s])
  BY <1>0 DEF WornRows, WornRowsOf
<1>11. n <= n' /\ n' \in Nat
  BY <1>2 DEF HonorId
<1> QED
  BY <1>1, <1>3, <1>4, <1>5, <1>6, <1>7, <1>8, <1>9, <1>10, <1>11, EditedHonors

LEMMA UpdateKeepsHonors ==
  ASSUME HonorsInv, NEW i, NEW h, UpdateHonor(i, h)
  PROVE  HonorsInv'
<1>0. HonorsTypeOK /\ HonorsTypes /\ OwnRows /\ WornRows /\ NewsInv /\ NotifiedOnce
  BY DEF HonorsInv
<1>1. /\ i \in DOMAIN honors /\ honors[i].owner = Stored /\ Duplicates(h) \subseteq {i}
      /\ honors' = [honors EXCEPT ![i] = HonorRow(h, Stored)]
      /\ UNCHANGED <<wearing, register, nextHonor, bodies, notices, discovered, victims>>
  BY DEF UpdateHonor
<1>2. /\ DOMAIN honors' = DOMAIN honors
      /\ honors' = [j \in DOMAIN honors' |-> honors'[j]]
      /\ \A j \in DOMAIN honors : j # i => honors'[j] = honors[j]
      /\ honors'[i] = HonorRow(h, Stored)
  <2>1. honors = [j \in DOMAIN honors |-> honors[j]]
    BY <1>0 DEF HonorsTypes
  <2> QED
    BY <1>1, <2>1
<1>3. \A j \in DOMAIN honors : honors'[j].owner = honors[j].owner
  BY <1>1, <1>2 DEF HonorRow
<1>4. \A j \in DOMAIN honors : j # i =>
        /\ ~(honors[j].name = h.name /\ honors[j].type = h.type)
        /\ ~(honors[j].image = h.image /\ h.image # NoImage)
  BY <1>1 DEF Duplicates, SameName, SameImage
<1>5. HonorsTypeOK'
  <2>1. \A j, l \in DOMAIN honors' :
          /\ honors'[j].name = honors'[l].name /\ honors'[j].type = honors'[l].type => j = l
          /\ honors'[j].image = honors'[l].image /\ honors'[j].image # NoImage => j = l
    <3> TAKE j, l \in DOMAIN honors'
    <3>1. CASE j # i /\ l # i
      BY <3>1, <1>0, <1>2 DEF HonorsTypeOK
    <3>2. CASE j = i /\ l # i
      BY <3>2, <1>2, <1>4 DEF HonorRow
    <3>3. CASE j # i /\ l = i
      BY <3>3, <1>2, <1>4 DEF HonorRow
    <3> QED
      BY <3>1, <3>2, <3>3
  <2>2. /\ DOMAIN honors' \subseteq HonorId /\ nextHonor' \in 1 .. MaxHonors + 1
        /\ \A j \in DOMAIN honors' : j < nextHonor' /\ honors'[j].owner \in Registrant \cup {Stored}
    BY <1>0, <1>1, <1>2, <1>3 DEF HonorsTypeOK
  <2>3. /\ DOMAIN honors' = DOMAIN honors /\ wearing' = wearing /\ register' = register
        /\ bodies' = bodies /\ discovered' = discovered
    BY <1>1, <1>2
  <2> QED
    BY <2>1, <2>2, <2>3, <1>0 DEF HonorsTypeOK
<1>6. HonorsTypes'
  <2>1. \A j \in DOMAIN honors' :
          honors'[j] = [name |-> honors'[j].name, type |-> honors'[j].type,
                        image |-> honors'[j].image, owner |-> honors'[j].owner]
    <3> TAKE j \in DOMAIN honors'
    <3>1. CASE j = i
      BY <3>1, <1>2 DEF HonorRow
    <3>2. CASE j # i
      BY <3>2, <1>0, <1>2 DEF HonorsTypes
    <3> QED
      BY <3>1, <3>2
  <2>2. /\ wearing' = wearing /\ register' = register /\ notices' = notices /\ victims' = victims
    BY <1>1
  <2> QED
    BY <2>1, <2>2, <1>0, <1>2 DEF HonorsTypes
<1>7. \A q \in Registrant : RowsOf(q)' = RowsOf(q)
  BY <1>2, <1>3 DEF RowsOf
<1>8. \A q \in Registrant : \A j \in RowsOf(q) : honors'[j] = honors[j]
  BY <1>1, <1>2, HonorsAssumption DEF RowsOf
<1>9. /\ \A j : Settled(j) => Settled(j)'
      /\ \A j : StoredRow(j) => StoredRow(j)'
      /\ \A q, j : honors[j].owner = q => Settled(j)' \/ honors'[j].owner = q
  BY <1>2, <1>3 DEF Settled, StoredRow
<1>10. \A q \in Registrant : \A s \in DOMAIN wearing[q] : StoredRow(wearing[q][s])
  BY <1>0 DEF WornRows, WornRowsOf
<1>11. nextHonor <= nextHonor' /\ nextHonor' \in Nat
  BY <1>0, <1>1, HonorsAssumption DEF HonorsTypeOK
<1> QED
  BY <1>1, <1>5, <1>6, <1>7, <1>8, <1>9, <1>10, <1>11, EditedHonors

LEMMA DeleteKeepsHonors ==
  ASSUME HonorsInv, NEW i, DeleteHonor(i)
  PROVE  HonorsInv'
<1>0. HonorsTypeOK /\ HonorsTypes /\ OwnRows /\ WornRows /\ NewsInv /\ NotifiedOnce
  BY DEF HonorsInv
<1>1. /\ i \in DOMAIN honors /\ honors[i].owner = Stored /\ i \notin Worn
      /\ Shrinks({i})
      /\ UNCHANGED <<wearing, register, nextHonor, bodies, notices, discovered, victims>>
  BY DEF DeleteHonor, Shrinks
<1>2. /\ DOMAIN honors' = DOMAIN honors \ {i}
      /\ \A j \in DOMAIN honors' : honors'[j] = honors[j]
      /\ \A j : Settled(j) => Settled(j)'
      /\ \A j : StoredRow(j) /\ j \notin {i} => StoredRow(j)'
      /\ \A q : RowsOf(q)' = RowsOf(q) \ {i}
      /\ \A j, q : honors[j].owner = q => Settled(j)' \/ honors'[j].owner = q
  BY <1>1, RowsRemoved
<1>3. ASSUME NEW q \in Registrant, NEW s \in DOMAIN wearing[q] PROVE wearing[q][s] # i
  <2>1. wearing[q][s] \in {wearing[q][t] : t \in DOMAIN wearing[q]}
    OBVIOUS
  <2>2. wearing[q][s] \in UNION {{wearing[p][t] : t \in DOMAIN wearing[p]} : p \in Registrant}
    BY <2>1, Zenon
  <2> QED
    BY <2>2, <1>1 DEF Worn
<1>4. ASSUME NEW q \in Registrant, register[q].pc = "assigned",
             NEW s \in DOMAIN register[q].kept
      PROVE  register[q].kept[s] # i
  <2> DEFINE Kept(p) == {register[p].kept[t] : t \in DOMAIN register[p].kept}
             Assigned == {p \in Registrant : register[p].pc = "assigned"}
  <2>1. register[q].kept[s] \in Kept(q) /\ q \in Assigned
    BY <1>4
  <2>2. UNION {Kept(p) : p \in Assigned} \subseteq Worn
    BY Zenon DEF Worn
  <2> HIDE DEF Kept, Assigned
  <2>3. register[q].kept[s] \in UNION {Kept(p) : p \in Assigned}
    BY <2>1
  <2>4. register[q].kept[s] \in Worn
    BY <2>2, <2>3
  <2> QED
    BY <2>4, <1>1
<1>5. HonorsTypeOK' /\ HonorsTypes'
  <2>1. /\ register' = [q \in Registrant |-> register'[q]] /\ victims' \in BOOLEAN
        /\ \A q \in Registrant : RegisterShape(register'[q])
        /\ \A q \in Registrant : \A s \in DOMAIN wearing[q] : wearing[q][s] \notin {i}
    BY <1>0, <1>1, <1>3 DEF HonorsTypes
  <2> QED
    BY <2>1, <1>1, RowsRemovedTypes
<1>6. \A q \in Registrant : RowsOf(q)' = RowsOf(q)
  BY <1>1, <1>2, HonorsAssumption DEF RowsOf
<1>7. \A q \in Registrant : \A j \in RowsOf(q) : honors'[j] = honors[j]
  BY <1>1, <1>2, HonorsAssumption DEF RowsOf
<1>8. \A q \in Registrant : \A s \in DOMAIN wearing[q] : StoredRow(wearing[q][s])'
  BY <1>0, <1>1, <1>2, <1>3 DEF WornRows, WornRowsOf
<1>9. \A q \in Registrant : register[q].pc = "assigned" =>
        \A s \in DOMAIN register[q].kept :
          StoredRow(register[q].kept[s]) => StoredRow(register[q].kept[s])'
  BY <1>1, <1>2, <1>4
<1>10. nextHonor <= nextHonor' /\ nextHonor' \in Nat
  BY <1>0, <1>1, HonorsAssumption DEF HonorsTypeOK
<1> QED
  BY <1>1, <1>2, <1>5, <1>6, <1>7, <1>8, <1>9, <1>10, EditedHonors
-----------------------------------------------------------------------------
\* The master of honors, what players wear and what registrations know keep together, and
\* somebody is told of every honor with an image that a registration has brought, once, for
\* any players, bodies and edits, unless a registration was a deadlock's victim
\* (EnsureHonor, BulkAssignHonors, logRegisteredSPHonors).
THEOREM SpecHonorsInv == HonorsSpec => []HonorsInv
<1>1. HonorsInit => HonorsInv
  BY HonorsInitInv
<1>2. HonorsInv /\ [HonorsNext]_honorsVars => HonorsInv'
  <2> SUFFICES ASSUME HonorsInv, [HonorsNext]_honorsVars PROVE HonorsInv'
    OBVIOUS
  <2>1. CASE HonorsNext
    BY <2>1, BeginKeepsHonors, EnsureKeepsHonors, VictimKeepsHonors, AssignKeepsHonors,
       CommitKeepsHonors, FailKeepsHonors, CreateKeepsHonors, UpdateKeepsHonors,
       DeleteKeepsHonors DEF HonorsNext
  <2>2. CASE UNCHANGED honorsVars
    BY <2>2 DEF honorsVars, HonorsInv, HonorsTypeOK, HonorsTypes, OwnRows, OwnRowsOf, WornRows,
                WornRowsOf, NewsInv, NewsOf, NotifiedOnce, RowsOf, Settled, StoredRow
  <2> QED
    BY <2>1, <2>2
<1> QED
  BY <1>1, <1>2, PTL DEF HonorsSpec

\* Of every honor with an image that a registration adds to the master somebody is told
\* once (logRegisteredSPHonors).
THEOREM SpecNotifiedOnce == HonorsSpec => []NotifiedOnce
<1>1. HonorsInv => NotifiedOnce
  BY DEF HonorsInv
<1> QED
  BY <1>1, SpecHonorsInv, PTL
-----------------------------------------------------------------------------
(* Resources of a user *)

\* What a user may have, whatever the rest.
IsMine(m) ==
  /\ m = [user |-> m.user, player |-> m.player, goals |-> m.goals, groups |-> m.groups,
          filters |-> m.filters, tokens |-> m.tokens, favorites |-> m.favorites]
  /\ m.user \in BOOLEAN /\ m.player \in BOOLEAN
  /\ IsListing(m.goals, GoalId) /\ IsListing(m.groups, GroupId) /\ IsFilters(m.filters)
  /\ m.tokens \subseteq TokenId /\ m.favorites \subseteq Fav

\* A finite listing, not too long, whose lists are numbered without gaps.
Arranged(l, most) ==
  IsFiniteSet(DOMAIN l) /\ Cardinality(DOMAIN l) <= most /\ Contiguous(l)
Few(owned, most) == IsFiniteSet(owned) /\ Cardinality(owned) <= most

RowsOK(m) ==
  /\ IsMine(m)
  /\ Arranged(m.goals, MaxGoals) /\ Arranged(m.groups, MaxGroups)
  /\ \A g \in DOMAIN m.goals : m.goals[g].list \in DOMAIN m.groups \cup {NoGroup}
  /\ Few(DOMAIN m.filters, MaxFilters) /\ Few(m.tokens, MaxTokens)
  /\ Few(m.favorites, MaxFavorites)

\* What a request has read still holds, or what there is has shrunk since.
SawUser(seen, m) ==
  /\ m.user
  /\ seen.goals = m.goals /\ seen.groups = m.groups
  /\ m.tokens \subseteq seen.tokens /\ Few(seen.tokens, MaxTokens)
  /\ DOMAIN m.filters \subseteq DOMAIN seen.filters /\ Few(DOMAIN seen.filters, MaxFilters)
SawPlayer(q, m) ==
  /\ m.player
  /\ m.favorites \subseteq q.seen /\ Few(q.seen, MaxFavorites)
  /\ q.song \in Fav
Knows(q, m) ==
  /\ q.pc \in {"none", "user", "player", "filter", "import"}
  /\ q.pc = "user" => SawUser(q.seen, m)
  /\ q.pc = "player" => SawPlayer(q, m)
  /\ q.pc = "import" => q.data \in Transfer /\ ValidTransfer(q.data)

\* No two requests hold a lock, and a song that is locked is not deleted.
Locking == {"user", "import"}
Exclusive ==
  \A r, s \in UserRequest :
    \/ r = s
    \/ /\ ~(request[r].pc \in Locking /\ request[s].pc \in Locking)
       /\ ~(request[r].pc = "player" /\ request[s].pc = "player")
SongsLive == \A r \in UserRequest : request[r].pc = "player" => request[r].song \in live

ResourcesInv ==
  /\ RowsOK(mine)
  /\ live \subseteq Fav /\ orphans \subseteq Fav
  /\ request = [r \in UserRequest |-> request[r]]
  /\ \A r \in UserRequest : Knows(request[r], mine)
  /\ Exclusive /\ SongsLive
  /\ mine.favorites \ live \subseteq orphans
-----------------------------------------------------------------------------
(* Listings *)

ListOf(l, a) == {z \in DOMAIN l : l[z].list = a}
Numbers(l, a) == {l[y].sort_order : y \in ListOf(l, a)}

LEMMA ContiguousByList ==
  ASSUME NEW l
  PROVE  Contiguous(l) <=>
           \A x \in DOMAIN l : Numbers(l, l[x].list) = 1 .. Cardinality(ListOf(l, l[x].list))
BY DEF Contiguous, Counts, Numbers, ListOf

\* Different numbers up to n for n rows are all the numbers up to n.
LEMMA AllNumbers ==
  ASSUME NEW S, IsFiniteSet(S), NEW f \in [S -> 1 .. Cardinality(S)],
         \A x, y \in S : f[x] = f[y] => x = y
  PROVE  {f[x] : x \in S} = 1 .. Cardinality(S)
<1> DEFINE n == Cardinality(S)
<1>1. n \in Nat
  BY FS_CardinalityType
<1>2. IsFiniteSet(1 .. n) /\ Cardinality(1 .. n) = n
  BY <1>1, FS_Interval
<1>3. f \in Injection(S, 1 .. n)
  BY DEF Injection, IsInjective
<1>4. f \in Surjection(S, 1 .. n)
  BY <1>2, <1>3, FS_Injection
<1>5. QED
  BY <1>4 DEF Surjection

\* A row's place among those of its list.
Rank(l, L, x) == Cardinality({y \in L : Precedes(l, y, x)})

LEMMA Ranks ==
  ASSUME NEW l, NEW L, IsFiniteSet(L), L \subseteq Nat,
         \A x \in L : l[x].sort_order \in Int
  PROVE  /\ \A x \in L : Rank(l, L, x) \in 1 .. Cardinality(L)
         /\ \A x, y \in L : Rank(l, L, x) = Rank(l, L, y) => x = y
<1> DEFINE Upto(x) == {y \in L : Precedes(l, y, x)}
<1>1. ASSUME NEW x \in L
      PROVE  /\ IsFiniteSet(Upto(x)) /\ Cardinality(Upto(x)) <= Cardinality(L)
             /\ Cardinality(Upto(x)) \in Nat
  <2>1. Upto(x) \in SUBSET L
    OBVIOUS
  <2>2. IsFiniteSet(Upto(x)) /\ Cardinality(Upto(x)) <= Cardinality(L)
    BY <2>1, FS_Subset
  <2>3. QED
    BY <2>2, FS_CardinalityType
<1>2. ASSUME NEW x \in L PROVE x \in Upto(x)
  <2>1. x \in Nat
    OBVIOUS
  <2>2. Precedes(l, x, x)
    BY <2>1 DEF Precedes
  <2>3. QED
    BY <2>2
<1>3. ASSUME NEW x \in L PROVE Cardinality(Upto(x)) >= 1
  <2>1. Upto(x) # {}
    BY <1>2
  <2>2. Cardinality(Upto(x)) # 0
    BY <1>1, <2>1, FS_EmptySet
  <2>3. QED
    BY <1>1, <2>2
<1>4. ASSUME NEW x \in L, NEW y \in L, x # y, Precedes(l, x, y)
      PROVE  Cardinality(Upto(x)) # Cardinality(Upto(y))
  <2>1. x \in Nat /\ y \in Nat
    OBVIOUS
  <2>2. ~Precedes(l, y, x)
    BY <1>4, <2>1 DEF Precedes
  <2>3. Upto(x) \in SUBSET Upto(y)
    <3>1. SUFFICES ASSUME NEW z \in L, Precedes(l, z, x) PROVE Precedes(l, z, y)
      OBVIOUS
    <3>2. z \in Nat /\ \A v \in {x, y, z} : l[v].sort_order \in Int
      OBVIOUS
    <3>3. QED
      BY <1>4, <2>1, <3>1, <3>2 DEF Precedes
  <2>4. y \in Upto(y) /\ y \notin Upto(x)
    BY <1>2, <2>2
  <2>5. Cardinality(Upto(y)) = Cardinality(Upto(x)) => Upto(y) = Upto(x)
    <3>1. IsFiniteSet(Upto(y))
      BY <1>1
    <3> HIDE DEF Upto
    <3>2. QED
      BY <2>3, <3>1, FS_Subset
  <2>6. QED
    BY <2>4, <2>5
<1>5. ASSUME NEW x \in L, NEW y \in L PROVE Precedes(l, x, y) \/ Precedes(l, y, x)
  <2>1. x \in Nat /\ y \in Nat /\ l[x].sort_order \in Int /\ l[y].sort_order \in Int
    OBVIOUS
  <2>2. QED
    BY <2>1 DEF Precedes
<1>6. \A x \in L : Rank(l, L, x) = Cardinality(Upto(x))
  BY DEF Rank
<1>7. Cardinality(L) \in Nat
  BY FS_CardinalityType
<1> HIDE DEF Upto
<1>8. QED
  BY <1>1, <1>3, <1>4, <1>5, <1>6, <1>7

\* Whatever the numbers were, they have no gap afterwards.
LEMMA NormalizedContiguous ==
  ASSUME NEW l, IsFiniteSet(DOMAIN l), DOMAIN l \subseteq Nat,
         \A x \in DOMAIN l : l[x].sort_order \in Int
  PROVE  /\ DOMAIN Normalized(l) = DOMAIN l
         /\ \A x \in DOMAIN l :
              /\ Normalized(l)[x].list = l[x].list
              /\ Normalized(l)[x] = [list |-> l[x].list, sort_order |-> Normalized(l)[x].sort_order]
              /\ Normalized(l)[x].sort_order \in Nat \ {0}
         /\ Contiguous(Normalized(l))
<1> DEFINE N == Normalized(l)
           L(x) == ListOf(l, l[x].list)
<1>1. /\ DOMAIN N = DOMAIN l
      /\ \A x \in DOMAIN l : N[x] = [list |-> l[x].list, sort_order |-> Rank(l, L(x), x)]
  <2>1. \A x \in DOMAIN l :
          {y \in DOMAIN l : l[y].list = l[x].list /\ Precedes(l, y, x)}
            = {y \in L(x) : Precedes(l, y, x)}
    BY DEF ListOf
  <2>2. QED
    BY <2>1 DEF Normalized, Rank
<1>2. ASSUME NEW x \in DOMAIN l
      PROVE  /\ IsFiniteSet(L(x)) /\ x \in L(x) /\ Cardinality(L(x)) \in Nat
             /\ \A y \in L(x) : Rank(l, L(x), y) \in 1 .. Cardinality(L(x))
             /\ \A y, z \in L(x) : Rank(l, L(x), y) = Rank(l, L(x), z) => y = z
  <2>1. L(x) \in SUBSET DOMAIN l /\ x \in L(x)
    BY DEF ListOf
  <2>2. IsFiniteSet(L(x))
    BY <2>1, FS_Subset
  <2>3. L(x) \subseteq Nat /\ \A y \in L(x) : l[y].sort_order \in Int
    BY <2>1
  <2> HIDE DEF L
  <2>4. QED
    BY <2>1, <2>2, <2>3, Ranks, FS_CardinalityType
<1>3. \A x \in DOMAIN l : ListOf(N, N[x].list) = L(x)
  <2>1. \A x \in DOMAIN N : N[x].list = l[x].list
    BY <1>1
  <2> HIDE DEF N
  <2>2. QED
    BY <1>1, <2>1 DEF ListOf
<1>4. ASSUME NEW x \in DOMAIN l
      PROVE  Numbers(N, N[x].list) = 1 .. Cardinality(L(x))
  <2> DEFINE f == [y \in L(x) |-> Rank(l, L(x), y)]
  <2>1. \A y \in L(x) : y \in DOMAIN l /\ L(y) = L(x)
    BY DEF ListOf
  <2>2. \A y \in L(x) : N[y].sort_order = f[y]
    BY <1>1, <2>1
  <2>3. f \in [L(x) -> 1 .. Cardinality(L(x))] /\ \A y, z \in L(x) : f[y] = f[z] => y = z
    BY <1>2
  <2>4. {f[y] : y \in L(x)} = 1 .. Cardinality(L(x))
    <3> HIDE DEF f, L
    <3>1. QED
      BY <1>2, <2>3, AllNumbers
  <2>5. Numbers(N, N[x].list) = {N[y].sort_order : y \in L(x)}
    BY <1>3 DEF Numbers
  <2> HIDE DEF f, L, N
  <2>6. QED
    BY <2>2, <2>4, <2>5
<1>5. Contiguous(N)
  BY <1>1, <1>3, <1>4, ContiguousByList
<1>6. QED
  BY <1>1, <1>2, <1>5

LEMMA NormalizedArranged ==
  ASSUME NEW l, NEW ids, ids \subseteq Nat, NEW most, DOMAIN l \subseteq ids,
         IsFiniteSet(DOMAIN l), Cardinality(DOMAIN l) <= most,
         \A x \in DOMAIN l :
           l[x].sort_order \in Int /\ l[x].list \in GroupId \cup {NoGroup}
  PROVE  /\ IsListing(Normalized(l), ids) /\ Arranged(Normalized(l), most)
         /\ DOMAIN Normalized(l) = DOMAIN l
         /\ \A x \in DOMAIN l : Normalized(l)[x].list = l[x].list
<1> DEFINE N == Normalized(l)
<1>1. /\ DOMAIN N = DOMAIN l
      /\ \A x \in DOMAIN l :
           /\ N[x].list = l[x].list
           /\ N[x] = [list |-> l[x].list, sort_order |-> N[x].sort_order]
           /\ N[x].sort_order \in Nat \ {0}
      /\ Contiguous(N)
  BY NormalizedContiguous
<1>2. N = [x \in DOMAIN l |-> N[x]]
  BY DEF Normalized
<1> HIDE DEF N
<1>3. \A x \in DOMAIN N : N[x] \in Place
  BY <1>1 DEF Place
<1>4. N \in [DOMAIN N -> Place]
  BY <1>1, <1>2, <1>3
<1>5. IsListing(N, ids) /\ Arranged(N, most)
  BY <1>1, <1>4 DEF IsListing, Arranged
<1>6. QED
  BY <1>1, <1>5 DEF N

\* A listing as all of the below take and make it.
Listed(l, ids, most) == IsListing(l, ids) /\ Arranged(l, most)

LEMMA ListedFacts ==
  ASSUME NEW l, NEW ids, NEW most, Listed(l, ids, most)
  PROVE  /\ DOMAIN l \subseteq ids /\ IsFiniteSet(DOMAIN l) /\ Cardinality(DOMAIN l) <= most
         /\ l = [x \in DOMAIN l |-> l[x]]
         /\ \A x \in DOMAIN l :
              /\ l[x] = [list |-> l[x].list, sort_order |-> l[x].sort_order]
              /\ l[x].sort_order \in Nat \ {0} /\ l[x].list \in GroupId \cup {NoGroup}
         /\ Contiguous(l)
<1>1. l \in [DOMAIN l -> Place]
  BY DEF Listed, IsListing
<1>2. \A x \in DOMAIN l : l[x] \in Place
  BY <1>1
<1>3. l = [x \in DOMAIN l |-> l[x]]
  BY <1>1
<1>4. ASSUME NEW x \in DOMAIN l
      PROVE  /\ l[x] = [list |-> l[x].list, sort_order |-> l[x].sort_order]
             /\ l[x].sort_order \in Nat \ {0} /\ l[x].list \in GroupId \cup {NoGroup}
  BY <1>2 DEF Place
<1>5. QED
  BY <1>3, <1>4 DEF Listed, IsListing, Arranged

LEMMA CountsOf ==
  ASSUME NEW l, NEW a, IsFiniteSet(DOMAIN l)
  PROVE  /\ Counts(l, a) \in Nat /\ Counts(l, a) = Cardinality(ListOf(l, a))
         /\ IsFiniteSet(ListOf(l, a))
<1>1. ListOf(l, a) \in SUBSET DOMAIN l
  BY DEF ListOf
<1>2. IsFiniteSet(ListOf(l, a))
  BY <1>1, FS_Subset
<1>3. QED
  BY <1>2, FS_CardinalityType DEF Counts, ListOf

\* The list of goals, or of groups, without one of them.
LEMMA RemovedListed ==
  ASSUME NEW l, NEW ids, ids \subseteq Nat, NEW most \in Nat, Listed(l, ids, most), NEW x
  PROVE  /\ Listed(Removed(l, x), ids, most)
         /\ DOMAIN Removed(l, x) = DOMAIN l \ {x}
         /\ \A y \in DOMAIN l \ {x} : Removed(l, x)[y].list = l[y].list
<1> DEFINE R == Restrict(l, DOMAIN l \ {x})
<1>1. DOMAIN R = DOMAIN l \ {x} /\ \A y \in DOMAIN R : R[y] = l[y]
  BY DEF Restrict
<1>2. IsFiniteSet(DOMAIN R) /\ Cardinality(DOMAIN R) <= most
  <2>1. DOMAIN R \in SUBSET DOMAIN l
    BY <1>1
  <2>2. IsFiniteSet(DOMAIN R) /\ Cardinality(DOMAIN R) <= Cardinality(DOMAIN l)
    <3>1. IsFiniteSet(DOMAIN l)
      BY ListedFacts
    <3> HIDE DEF R
    <3>2. QED
      BY <2>1, <3>1, FS_Subset
  <2>3. Cardinality(DOMAIN R) \in Nat /\ Cardinality(DOMAIN l) \in Nat
    BY <2>2, ListedFacts, FS_CardinalityType
  <2>4. Cardinality(DOMAIN l) <= most
    BY ListedFacts
  <2> HIDE DEF R
  <2>5. QED
    BY <2>2, <2>3, <2>4
<1>3. /\ DOMAIN R \subseteq ids
      /\ \A y \in DOMAIN R : R[y].sort_order \in Int /\ R[y].list \in GroupId \cup {NoGroup}
  BY <1>1, ListedFacts
<1>4. Removed(l, x) = Normalized(R)
  BY DEF Removed
<1> HIDE DEF R
<1>5. /\ IsListing(Normalized(R), ids) /\ Arranged(Normalized(R), most)
      /\ DOMAIN Normalized(R) = DOMAIN R
      /\ \A y \in DOMAIN R : Normalized(R)[y].list = R[y].list
  BY <1>2, <1>3, NormalizedArranged
<1>6. QED
  BY <1>1, <1>4, <1>5 DEF Listed

\* Rows that go behind those of another list, all numbered anew.
BehindSound(l, ids, most, xs, a) ==
  /\ Listed(Normalized(Behind(l, xs, a)), ids, most)
  /\ DOMAIN Normalized(Behind(l, xs, a)) = DOMAIN l
  /\ \A y \in DOMAIN l :
       Normalized(Behind(l, xs, a))[y].list = IF y \in xs THEN a ELSE l[y].list

LEMMA BehindListed ==
  ASSUME NEW l, NEW ids, ids \subseteq Nat, NEW most \in Nat, Listed(l, ids, most),
         NEW xs, NEW a \in GroupId \cup {NoGroup}
  PROVE  BehindSound(l, ids, most, xs, a)
<1> DEFINE B == Behind(l, xs, a)
<1>1. /\ DOMAIN B = DOMAIN l
      /\ \A y \in DOMAIN l :
           B[y] = IF y \in xs
                  THEN [list |-> a, sort_order |-> Counts(l, a) + l[y].sort_order]
                  ELSE l[y]
  BY DEF Behind
<1>2. /\ DOMAIN l \subseteq ids /\ IsFiniteSet(DOMAIN l) /\ Cardinality(DOMAIN l) <= most
      /\ \A y \in DOMAIN l :
           l[y].sort_order \in Nat /\ l[y].list \in GroupId \cup {NoGroup}
  BY ListedFacts
<1>3. Counts(l, a) \in Nat
  BY <1>2, CountsOf
<1> HIDE DEF B
<1>4. \A y \in DOMAIN l :
        /\ B[y].list = IF y \in xs THEN a ELSE l[y].list
        /\ B[y].sort_order = IF y \in xs THEN Counts(l, a) + l[y].sort_order
                             ELSE l[y].sort_order
  BY <1>1
<1>5. \A y \in DOMAIN B : B[y].sort_order \in Int /\ B[y].list \in GroupId \cup {NoGroup}
  BY <1>1, <1>2, <1>3, <1>4
<1>6. /\ IsListing(Normalized(B), ids) /\ Arranged(Normalized(B), most)
      /\ DOMAIN Normalized(B) = DOMAIN B
      /\ \A y \in DOMAIN B : Normalized(B)[y].list = B[y].list
  BY <1>1, <1>2, <1>5, NormalizedArranged
<1>7. QED
  BY <1>1, <1>4, <1>6 DEF Listed, B, BehindSound

LEMMA GoalMovedListed ==
  ASSUME NEW l, NEW ids, ids \subseteq Nat, NEW most \in Nat, Listed(l, ids, most),
         NEW x \in DOMAIN l, NEW a \in GroupId \cup {NoGroup}
  PROVE  /\ Listed(GoalMoved(l, x, a), ids, most)
         /\ DOMAIN GoalMoved(l, x, a) = DOMAIN l
         /\ \A y \in DOMAIN l : GoalMoved(l, x, a)[y].list \in {a, l[y].list}
<1>1. CASE l[x].list = a
  BY <1>1 DEF GoalMoved
<1>2. CASE l[x].list # a
  <2>1. PICK xs : xs = {x}
    OBVIOUS
  <2>2. GoalMoved(l, x, a) = Normalized(Behind(l, xs, a))
    BY <1>2, <2>1 DEF GoalMoved
  <2>3. BehindSound(l, ids, most, xs, a)
    BY BehindListed
  <2>4. QED
    BY <2>2, <2>3 DEF BehindSound
<1>3. QED
  BY <1>1, <1>2

\* No goal stays in a group that is removed.
GroupRemovedSound(l, ids, most, g) ==
  /\ Listed(GroupRemoved(l, g), ids, most)
  /\ DOMAIN GroupRemoved(l, g) = DOMAIN l
  /\ \A y \in DOMAIN l :
       /\ GroupRemoved(l, g)[y].list \in {NoGroup, l[y].list}
       /\ GroupRemoved(l, g)[y].list # g

LEMMA GroupRemovedListed ==
  ASSUME NEW l, NEW ids, ids \subseteq Nat, NEW most \in Nat, Listed(l, ids, most),
         NEW g, g # NoGroup
  PROVE  GroupRemovedSound(l, ids, most, g)
<1> DEFINE xs == {y \in DOMAIN l : l[y].list = g}
<1>1. GroupRemoved(l, g) = Normalized(Behind(l, xs, NoGroup))
  BY DEF GroupRemoved
<1>2. \A y \in DOMAIN l : y \in xs <=> l[y].list = g
  OBVIOUS
<1> HIDE DEF xs
<1>3. NoGroup \in GroupId \cup {NoGroup}
  OBVIOUS
<1>4. BehindSound(l, ids, most, xs, NoGroup)
  BY <1>3, BehindListed
<1>5. QED
  BY <1>1, <1>2, <1>4 DEF BehindSound, GroupRemovedSound

LEMMA NumbersOf ==
  ASSUME NEW l, IsFiniteSet(DOMAIN l), Contiguous(l), NEW a
  PROVE  Numbers(l, a) = 1 .. Cardinality(ListOf(l, a))
<1>1. CASE ListOf(l, a) = {}
  <2>1. Numbers(l, a) = {} /\ Cardinality(ListOf(l, a)) = 0
    BY <1>1, FS_EmptySet DEF Numbers
  <2>2. QED
    BY <2>1
<1>2. CASE ListOf(l, a) # {}
  <2>1. PICK x \in DOMAIN l : l[x].list = a
    BY <1>2 DEF ListOf
  <2>2. QED
    BY <2>1, ContiguousByList
<1>3. QED
  BY <1>1, <1>2

AddedSound(l, ids, most, x, a) ==
  LET A == Added(l, x, Last(l, a))
  IN /\ Listed(A, ids, most) /\ DOMAIN A = DOMAIN l \cup {x}
     /\ A[x].list = a /\ \A y \in DOMAIN l : A[y].list = l[y].list

\* A new row, last in its list.
LEMMA AddedListed ==
  ASSUME NEW l, NEW ids, ids \subseteq Nat, NEW most \in Nat, Listed(l, ids, most),
         Cardinality(DOMAIN l) < most, NEW x \in ids, x \notin DOMAIN l,
         NEW a \in GroupId \cup {NoGroup}
  PROVE  AddedSound(l, ids, most, x, a)
<1> DEFINE A == Added(l, x, Last(l, a))
           n == Counts(l, a)
<1>1. /\ DOMAIN l \subseteq ids /\ IsFiniteSet(DOMAIN l) /\ Contiguous(l)
      /\ l = [y \in DOMAIN l |-> l[y]]
      /\ \A y \in DOMAIN l :
           /\ l[y] = [list |-> l[y].list, sort_order |-> l[y].sort_order]
           /\ l[y].sort_order \in Nat \ {0} /\ l[y].list \in GroupId \cup {NoGroup}
  BY ListedFacts
<1>2. n \in Nat /\ n = Cardinality(ListOf(l, a)) /\ IsFiniteSet(ListOf(l, a))
  BY <1>1, CountsOf
<1>3. /\ DOMAIN A = DOMAIN l \cup {x} /\ A = [y \in DOMAIN A |-> A[y]]
      /\ A[x] = [list |-> a, sort_order |-> n + 1]
      /\ \A y \in DOMAIN l : A[y] = l[y]
  BY DEF Added, Last
<1> HIDE DEF A, n
<1>4. IsFiniteSet(DOMAIN A) /\ Cardinality(DOMAIN A) <= most
  <2>1. IsFiniteSet(DOMAIN l \cup {x}) /\ Cardinality(DOMAIN l \cup {x}) = Cardinality(DOMAIN l) + 1
    BY <1>1, FS_AddElement
  <2>2. Cardinality(DOMAIN l) \in Nat
    BY <1>1, FS_CardinalityType
  <2>3. QED
    BY <1>3, <2>1, <2>2
<1>5. \A y \in DOMAIN A : A[y] \in Place
  BY <1>1, <1>2, <1>3 DEF Place
<1>6. IsListing(A, ids)
  BY <1>1, <1>3, <1>5 DEF IsListing
<1>7. /\ ListOf(A, a) = ListOf(l, a) \cup {x}
      /\ \A b : b # a => ListOf(A, b) = ListOf(l, b)
  BY <1>3 DEF ListOf
<1>8. Numbers(A, a) = 1 .. Cardinality(ListOf(A, a))
  <2>1. Cardinality(ListOf(A, a)) = n + 1
    <3>1. x \notin ListOf(l, a)
      BY DEF ListOf
    <3>2. QED
      BY <1>2, <1>7, <3>1, FS_AddElement
  <2>2. Numbers(l, a) = 1 .. n
    BY <1>1, <1>2, NumbersOf
  <2>3. Numbers(A, a) = Numbers(l, a) \cup {n + 1}
    <3>1. \A y \in ListOf(l, a) : y \in DOMAIN l
      BY DEF ListOf
    <3>2. QED
      BY <1>3, <1>7, <3>1 DEF Numbers
  <2>4. QED
    BY <1>2, <2>1, <2>2, <2>3
<1>9. ASSUME NEW b, b # a PROVE Numbers(A, b) = 1 .. Cardinality(ListOf(A, b))
  <2>1. Numbers(l, b) = 1 .. Cardinality(ListOf(l, b))
    BY <1>1, NumbersOf
  <2>2. Numbers(A, b) = Numbers(l, b)
    <3>1. \A y \in ListOf(l, b) : y \in DOMAIN l
      BY DEF ListOf
    <3>2. QED
      BY <1>3, <1>7, <1>9, <3>1 DEF Numbers
  <2>3. QED
    BY <1>7, <1>9, <2>1, <2>2
<1>10. Contiguous(A)
  BY <1>8, <1>9, ContiguousByList
<1>11. QED
  BY <1>3, <1>4, <1>6, <1>10 DEF AddedSound, Listed, Arranged, A

ReorderedSound(l, ids, most, r) ==
  /\ Listed(r, ids, most) /\ DOMAIN r = DOMAIN l
  /\ \A y \in DOMAIN l : r[y].list = l[y].list

\* Another order of one list.
LEMMA ReorderedListed ==
  ASSUME NEW l, NEW ids, ids \subseteq Nat, NEW most \in Nat, Listed(l, ids, most),
         NEW a, NEW r \in Reorderings(l, a)
  PROVE  ReorderedSound(l, ids, most, r)
<1> DEFINE xs == ListOf(l, a)
<1>1. /\ DOMAIN l \subseteq ids /\ IsFiniteSet(DOMAIN l) /\ Contiguous(l)
      /\ Cardinality(DOMAIN l) <= most
      /\ l = [y \in DOMAIN l |-> l[y]]
      /\ \A y \in DOMAIN l :
           /\ l[y] = [list |-> l[y].list, sort_order |-> l[y].sort_order]
           /\ l[y].sort_order \in Nat \ {0} /\ l[y].list \in GroupId \cup {NoGroup}
  BY ListedFacts
<1>2. IsFiniteSet(xs) /\ Cardinality(xs) \in Nat
  BY <1>1, CountsOf
<1>3. PICK p \in [xs -> 1 .. Cardinality(xs)] :
        /\ \A x, y \in xs : p[x] = p[y] => x = y
        /\ r = [y \in DOMAIN l |-> IF y \in xs THEN [l[y] EXCEPT !.sort_order = p[y]] ELSE l[y]]
  BY DEF Reorderings, ListOf
<1>4. xs \subseteq DOMAIN l
  BY DEF ListOf
<1>5. xs = ListOf(l, a)
  OBVIOUS
<1> HIDE DEF xs
<1>6. \A y \in xs : p[y] \in Nat \ {0}
  BY <1>2
<1>7. ASSUME NEW y \in DOMAIN l
      PROVE  /\ r[y].list = l[y].list
             /\ r[y].sort_order = IF y \in xs THEN p[y] ELSE l[y].sort_order
             /\ r[y] \in Place
  <2>1. CASE y \in xs
    <3>1. r[y] = [l[y] EXCEPT !.sort_order = p[y]]
      BY <1>3, <2>1
    <3>2. r[y] = [list |-> l[y].list, sort_order |-> p[y]]
      BY <1>1, <3>1
    <3>3. QED
      BY <1>1, <1>6, <2>1, <3>2 DEF Place
  <2>2. CASE y \notin xs
    <3>1. r[y] = l[y]
      BY <1>3, <2>2
    <3>2. QED
      BY <1>1, <2>2, <3>1 DEF Place
  <2>3. QED
    BY <2>1, <2>2
<1>8. DOMAIN r = DOMAIN l /\ r \in [DOMAIN r -> Place]
  BY <1>3, <1>7
<1>9. \A b : ListOf(r, b) = ListOf(l, b)
  BY <1>7, <1>8 DEF ListOf
<1>10. ASSUME NEW b PROVE Numbers(r, b) = 1 .. Cardinality(ListOf(r, b))
  <2>1. CASE b = a
    <3>1. {p[y] : y \in xs} = 1 .. Cardinality(xs)
      BY <1>2, <1>3, AllNumbers
    <3>2. Numbers(r, a) = {p[y] : y \in xs}
      BY <1>4, <1>5, <1>7, <1>9 DEF Numbers
    <3>3. QED
      BY <1>5, <1>9, <2>1, <3>1, <3>2
  <2>2. CASE b # a
    <3>1. \A y \in ListOf(l, b) : y \in DOMAIN l /\ y \notin xs
      BY <1>5, <2>2 DEF ListOf
    <3>2. Numbers(r, b) = Numbers(l, b)
      BY <1>7, <1>9, <3>1 DEF Numbers
    <3>3. Numbers(l, b) = 1 .. Cardinality(ListOf(l, b))
      BY <1>1, NumbersOf
    <3>4. QED
      BY <1>9, <3>2, <3>3
  <2>3. QED
    BY <2>1, <2>2
<1>11. Contiguous(r)
  BY <1>10, ContiguousByList
<1>12. QED
  BY <1>1, <1>7, <1>8, <1>11 DEF ReorderedSound, Listed, IsListing, Arranged
-----------------------------------------------------------------------------
(* Steps *)

\* There is an id for another row.
LEMMA NewIdFree ==
  ASSUME NEW ids, NEW most \in Nat, Suffice(ids, most), NEW taken, taken \subseteq ids,
         IsFiniteSet(taken), Cardinality(taken) < most
  PROVE  NewId(ids, taken) \in ids \ taken
<1>1. \E x \in ids : x \notin taken
  <2>1. SUFFICES ASSUME taken = ids PROVE FALSE
    OBVIOUS
  <2>2. most <= Cardinality(ids) /\ Cardinality(ids) \in Nat
    BY <2>1, FS_CardinalityType DEF Suffice
  <2>3. QED
    BY <2>1, <2>2
<1>2. QED
  BY <1>1 DEF NewId

LEMMA Limits ==
  /\ GoalId \subseteq Nat /\ GroupId \subseteq Nat /\ NoGroup \notin GroupId
  /\ MaxGoals \in Nat /\ MaxGroups \in Nat /\ MaxFilters \in Nat /\ MaxTokens \in Nat
  /\ MaxFavorites \in Nat
  /\ Suffice(GoalId, MaxGoals) /\ Suffice(GroupId, MaxGroups)
  /\ Suffice(FilterId, MaxFilters) /\ Suffice(TokenId, MaxTokens)
BY ResourcesAssumption

\* Where part of what there is goes, the rest is few.
LEMMA FewerAreFew ==
  ASSUME NEW most \in Nat, NEW S, Few(S, most), NEW T, T \subseteq S
  PROVE  Few(T, most) /\ Cardinality(T) <= Cardinality(S)
<1>1. IsFiniteSet(S) /\ Cardinality(S) \in Nat /\ Cardinality(S) <= most
  BY FS_CardinalityType DEF Few
<1>2. IsFiniteSet(T) /\ Cardinality(T) <= Cardinality(S)
  BY <1>1, FS_Subset
<1>3. Cardinality(T) \in Nat
  BY <1>2, FS_CardinalityType
<1>4. QED
  BY <1>1, <1>2, <1>3 DEF Few

LEMMA OneMoreIsFew ==
  ASSUME NEW most \in Nat, NEW S, IsFiniteSet(S), Cardinality(S) < most, NEW x
  PROVE  Few(S \cup {x}, most)
<1>1. Cardinality(S) \in Nat
  BY FS_CardinalityType
<1>2. /\ IsFiniteSet(S \cup {x})
      /\ Cardinality(S \cup {x}) = IF x \in S THEN Cardinality(S) ELSE Cardinality(S) + 1
  BY FS_AddElement
<1>3. QED
  BY <1>1, <1>2 DEF Few

LEMMA NobodyHasRows ==
  /\ \A ids, most : ids \subseteq Nat /\ most \in Nat => Listed(NoRows, ids, most)
  /\ IsFilters(NoRows) /\ \A most \in Nat : Few(DOMAIN NoRows, most)
  /\ DOMAIN NoRows = {}
<1>1. DOMAIN NoRows = {} /\ NoRows = [x \in {} |-> x]
  BY DEF NoRows
<1>2. IsFiniteSet({}) /\ Cardinality({}) = 0
  BY FS_EmptySet
<1>3. \A T : NoRows \in [DOMAIN NoRows -> T]
  BY <1>1
<1>4. \A most \in Nat : Few({}, most)
  BY <1>2 DEF Few
<1>5. Contiguous(NoRows)
  BY <1>1 DEF Contiguous
<1>6. QED
  BY <1>1, <1>2, <1>3, <1>4, <1>5 DEF Listed, IsListing, Arranged, IsFilters

LEMMA RowsOKParts ==
  ASSUME NEW m
  PROVE  RowsOK(m) <=>
           /\ m = [user |-> m.user, player |-> m.player, goals |-> m.goals,
                   groups |-> m.groups, filters |-> m.filters, tokens |-> m.tokens,
                   favorites |-> m.favorites]
           /\ m.user \in BOOLEAN /\ m.player \in BOOLEAN
           /\ Listed(m.goals, GoalId, MaxGoals) /\ Listed(m.groups, GroupId, MaxGroups)
           /\ \A g \in DOMAIN m.goals : m.goals[g].list \in DOMAIN m.groups \cup {NoGroup}
           /\ IsFilters(m.filters) /\ Few(DOMAIN m.filters, MaxFilters)
           /\ m.tokens \subseteq TokenId /\ Few(m.tokens, MaxTokens)
           /\ m.favorites \subseteq Fav /\ Few(m.favorites, MaxFavorites)
BY DEF RowsOK, IsMine, Listed

LEMMA ResourcesInitInv == ResourcesInit => ResourcesInv
<1>1. SUFFICES ASSUME ResourcesInit PROVE ResourcesInv
  OBVIOUS
<1>2. /\ mine = [user |-> TRUE, player |-> FALSE, goals |-> NoRows, groups |-> NoRows,
                 filters |-> NoRows, tokens |-> {}, favorites |-> {}]
      /\ live = Fav /\ orphans = {}
      /\ request = [r \in UserRequest |-> [pc |-> "none"]]
  BY <1>1 DEF ResourcesInit, NewUser, Ended
<1>3. Few({}, MaxTokens) /\ Few({}, MaxFavorites)
  BY NobodyHasRows, Limits
<1>4. Listed(NoRows, GoalId, MaxGoals) /\ Listed(NoRows, GroupId, MaxGroups)
  BY NobodyHasRows, Limits
<1>5. IsFilters(NoRows) /\ Few(DOMAIN NoRows, MaxFilters) /\ DOMAIN NoRows = {}
  BY NobodyHasRows, Limits
<1>6. RowsOK(mine)
  BY <1>2, <1>3, <1>4, <1>5, RowsOKParts
<1>7. \A r \in UserRequest : request[r].pc = "none"
  BY <1>2
<1>8. \A r \in UserRequest : Knows(request[r], mine)
  BY <1>7 DEF Knows
<1>9. Exclusive /\ SongsLive
  BY <1>7 DEF Exclusive, SongsLive, Locking
<1>10. QED
  BY <1>2, <1>6, <1>8, <1>9 DEF ResourcesInv

\* What keeps the invariant when no request takes a lock.
Released == \A s \in UserRequest : request'[s] = request[s] \/ request'[s].pc \in {"none", "filter"}
LEMMA ReleasedKeeps ==
  ASSUME ResourcesInv, RowsOK(mine)', live' \subseteq Fav, orphans' \subseteq Fav,
         request' = [s \in UserRequest |-> request'[s]], Released,
         \A s \in UserRequest : request'[s] = request[s] => Knows(request[s], mine'),
         \A s \in UserRequest :
           request'[s] = request[s] /\ request[s].pc = "player" => request[s].song \in live',
         mine'.favorites \ live' \subseteq orphans'
  PROVE  ResourcesInv'
<1>1. ASSUME NEW s \in UserRequest PROVE Knows(request'[s], mine')
  <2>1. CASE request'[s] = request[s]
    BY <2>1
  <2>2. CASE request'[s].pc \in {"none", "filter"}
    BY <2>2 DEF Knows
  <2>3. QED
    BY <2>1, <2>2 DEF Released
<1>2. Exclusive'
  BY DEF ResourcesInv, Released, Exclusive, Locking
<1>3. SongsLive'
  BY DEF Released, SongsLive
<1>4. QED
  BY <1>1, <1>2, <1>3 DEF ResourcesInv

LEMMA BecomesFacts ==
  ASSUME request = [s \in UserRequest |-> request[s]], NEW r \in UserRequest, NEW state,
         Becomes(r, state)
  PROVE  /\ request' = [s \in UserRequest |-> request'[s]] /\ request'[r] = state
         /\ \A s \in UserRequest : s # r => request'[s] = request[s]
<1>1. request' = [request EXCEPT ![r] = state] /\ DOMAIN request = UserRequest
  BY DEF Becomes
<1>2. QED
  BY <1>1

LEMMA KnowsAgain ==
  ASSUME NEW q, NEW m, NEW n, Knows(q, m),
         q.pc = "user" => SawUser(q.seen, n), q.pc = "player" => SawPlayer(q, n)
  PROVE  Knows(q, n)
BY DEF Knows

\* A transaction with the lock of the user commits.
LEMMA SavesKeep ==
  ASSUME ResourcesInv, NEW r \in UserRequest, NEW owned, Saves(r, owned), RowsOK(owned),
         owned.player = mine.player, owned.favorites = mine.favorites
  PROVE  ResourcesInv'
<1>1. /\ request[r].pc = "user" /\ mine' = owned /\ Becomes(r, Ended)
      /\ live' = live /\ orphans' = orphans
  BY DEF Saves, Stage
<1>2. request = [s \in UserRequest |-> request[s]]
  BY DEF ResourcesInv
<1>3. /\ request' = [s \in UserRequest |-> request'[s]] /\ request'[r] = Ended
      /\ \A s \in UserRequest : s # r => request'[s] = request[s]
  BY <1>1, <1>2, BecomesFacts
<1>4. Released
  BY <1>3 DEF Released, Ended
<1>5. RowsOK(mine)'
  BY <1>1 DEF RowsOK, IsMine, Arranged, Few
<1>6. ASSUME NEW s \in UserRequest, request'[s] = request[s] PROVE Knows(request[s], mine')
  <2>1. s # r
    BY <1>1, <1>3, <1>6 DEF Ended
  <2>2. request[s].pc # "user"
    BY <1>1, <2>1 DEF ResourcesInv, Exclusive, Locking
  <2>3. Knows(request[s], mine)
    BY DEF ResourcesInv
  <2>4. SawPlayer(request[s], mine) => SawPlayer(request[s], owned)
    BY DEF SawPlayer
  <2>5. QED
    BY <1>1, <2>2, <2>3, <2>4 DEF Knows
<1>7. \A s \in UserRequest : request[s].pc = "player" => request[s].song \in live'
  BY <1>1 DEF ResourcesInv, SongsLive
<1>8. live' \subseteq Fav /\ orphans' \subseteq Fav /\ mine'.favorites \ live' \subseteq orphans'
  BY <1>1 DEF ResourcesInv
<1>9. QED
  BY <1>3, <1>4, <1>5, <1>6, <1>7, <1>8, ReleasedKeeps

\* What a transaction with the lock of the user has read.
LEMMA SeenByUser ==
  ASSUME ResourcesInv, NEW r \in UserRequest, Stage(r, "user")
  PROVE  /\ request[r].seen.goals = mine.goals /\ request[r].seen.groups = mine.groups
         /\ mine.tokens \subseteq request[r].seen.tokens /\ Few(request[r].seen.tokens, MaxTokens)
         /\ DOMAIN mine.filters \subseteq DOMAIN request[r].seen.filters
         /\ Few(DOMAIN request[r].seen.filters, MaxFilters)
<1>1. request[r].pc = "user" /\ Knows(request[r], mine)
  BY DEF ResourcesInv, Stage
<1>2. SawUser(request[r].seen, mine)
  BY <1>1 DEF Knows
<1>3. QED
  BY <1>2 DEF SawUser

\* What there is, and that it can be replaced in part.
LEMMA MineParts ==
  ASSUME ResourcesInv
  PROVE  /\ mine = [user |-> mine.user, player |-> mine.player, goals |-> mine.goals,
                    groups |-> mine.groups, filters |-> mine.filters, tokens |-> mine.tokens,
                    favorites |-> mine.favorites]
         /\ mine.user \in BOOLEAN /\ mine.player \in BOOLEAN
         /\ Listed(mine.goals, GoalId, MaxGoals) /\ Listed(mine.groups, GroupId, MaxGroups)
         /\ \A g \in DOMAIN mine.goals : mine.goals[g].list \in DOMAIN mine.groups \cup {NoGroup}
         /\ IsFilters(mine.filters) /\ Few(DOMAIN mine.filters, MaxFilters)
         /\ mine.tokens \subseteq TokenId /\ Few(mine.tokens, MaxTokens)
         /\ mine.favorites \subseteq Fav /\ Few(mine.favorites, MaxFavorites)
<1>1. RowsOK(mine)
  BY DEF ResourcesInv
<1>2. QED
  BY <1>1, RowsOKParts

LEMMA ArrangementKept ==
  ASSUME ResourcesInv, NEW goals, NEW groups, NEW owned,
         owned = [mine EXCEPT !.goals = goals, !.groups = groups],
         Listed(goals, GoalId, MaxGoals), Listed(groups, GroupId, MaxGroups),
         \A g \in DOMAIN goals : goals[g].list \in DOMAIN groups \cup {NoGroup}
  PROVE  RowsOK(owned) /\ owned.player = mine.player /\ owned.favorites = mine.favorites
<1>1. owned = [user |-> mine.user, player |-> mine.player, goals |-> goals,
              groups |-> groups, filters |-> mine.filters, tokens |-> mine.tokens,
              favorites |-> mine.favorites]
  BY MineParts
<1>2. QED
  BY <1>1, MineParts, RowsOKParts

\* Its parts alone.
LEMMA OnePartReplaced ==
  ASSUME ResourcesInv
  PROVE  /\ \A goals : [mine EXCEPT !.goals = goals]
                         = [mine EXCEPT !.goals = goals, !.groups = mine.groups]
         /\ \A groups : [mine EXCEPT !.groups = groups]
                          = [mine EXCEPT !.goals = mine.goals, !.groups = groups]
<1>1. mine = [user |-> mine.user, player |-> mine.player, goals |-> mine.goals,
              groups |-> mine.groups, filters |-> mine.filters, tokens |-> mine.tokens,
              favorites |-> mine.favorites]
  BY MineParts
<1>2. QED
  BY <1>1

LEMMA GenerateTokenKeeps ==
  ASSUME ResourcesInv, NEW r \in UserRequest, GenerateToken(r)
  PROVE  ResourcesInv'
<1>1. PICK x : x = NewId(TokenId, mine.tokens)
  OBVIOUS
<1>2. PICK owned : owned = [mine EXCEPT !.tokens = @ \cup {x}]
  OBVIOUS
<1>3. /\ Stage(r, "user") /\ Cardinality(request[r].seen.tokens) < MaxTokens
      /\ Saves(r, owned)
  BY <1>1, <1>2 DEF GenerateToken
<1>4. mine.tokens \subseteq request[r].seen.tokens /\ Few(request[r].seen.tokens, MaxTokens)
  BY <1>3, SeenByUser
<1>5. IsFiniteSet(mine.tokens) /\ Cardinality(mine.tokens) < MaxTokens
  <2>1. Cardinality(mine.tokens) <= Cardinality(request[r].seen.tokens)
    BY <1>4, Limits, FewerAreFew
  <2>2. IsFiniteSet(mine.tokens) /\ IsFiniteSet(request[r].seen.tokens)
    BY <1>4, MineParts DEF Few
  <2>3. Cardinality(mine.tokens) \in Nat /\ Cardinality(request[r].seen.tokens) \in Nat
    BY <2>2, FS_CardinalityType
  <2>4. QED
    BY <1>3, <2>1, <2>2, <2>3, Limits
<1>6. x \in TokenId
  <2>1. mine.tokens \subseteq TokenId
    BY MineParts
  <2>2. QED
    BY <1>1, <1>5, <2>1, Limits, NewIdFree
<1>7. Few(mine.tokens \cup {x}, MaxTokens)
  BY <1>5, Limits, OneMoreIsFew
<1>8. owned = [user |-> mine.user, player |-> mine.player, goals |-> mine.goals,
              groups |-> mine.groups, filters |-> mine.filters, tokens |-> mine.tokens \cup {x},
              favorites |-> mine.favorites]
  BY <1>2, MineParts
<1>9. RowsOK(owned)
  BY <1>6, <1>7, <1>8, MineParts, RowsOKParts
<1>10. QED
  BY <1>3, <1>8, <1>9, SavesKeep

LEMMA CreateFilterKeeps ==
  ASSUME ResourcesInv, NEW r \in UserRequest, CreateFilter(r)
  PROVE  ResourcesInv'
<1>1. PICK x : x = NewId(FilterId, DOMAIN mine.filters)
  OBVIOUS
<1>2. PICK v \in FilterValue : Saves(r, [mine EXCEPT !.filters = Added(@, x, v)])
  BY <1>1 DEF CreateFilter
<1>3. PICK f : f = Added(mine.filters, x, v)
  OBVIOUS
<1>4. PICK owned : owned = [mine EXCEPT !.filters = f]
  OBVIOUS
<1>5. /\ Stage(r, "user") /\ Cardinality(DOMAIN request[r].seen.filters) < MaxFilters
      /\ Saves(r, owned)
  BY <1>2, <1>3, <1>4 DEF CreateFilter
<1>6. /\ DOMAIN mine.filters \subseteq DOMAIN request[r].seen.filters
      /\ Few(DOMAIN request[r].seen.filters, MaxFilters)
  BY <1>5, SeenByUser
<1>7. IsFiniteSet(DOMAIN mine.filters) /\ Cardinality(DOMAIN mine.filters) < MaxFilters
  <2>1. Cardinality(DOMAIN mine.filters) <= Cardinality(DOMAIN request[r].seen.filters)
    BY <1>6, Limits, FewerAreFew
  <2>2. IsFiniteSet(DOMAIN mine.filters) /\ IsFiniteSet(DOMAIN request[r].seen.filters)
    BY <1>6, MineParts DEF Few
  <2>3. /\ Cardinality(DOMAIN mine.filters) \in Nat
        /\ Cardinality(DOMAIN request[r].seen.filters) \in Nat
    BY <2>2, FS_CardinalityType
  <2>4. QED
    BY <1>5, <2>1, <2>2, <2>3, Limits
<1>8. IsFilters(mine.filters)
  BY MineParts
<1>9. x \in FilterId
  <2>1. DOMAIN mine.filters \subseteq FilterId
    BY <1>8 DEF IsFilters
  <2>2. QED
    BY <1>1, <1>7, <2>1, Limits, NewIdFree
<1>10. IsFilters(f) /\ DOMAIN f = DOMAIN mine.filters \cup {x}
  BY <1>3, <1>8, <1>9 DEF Added, IsFilters
<1>11. Few(DOMAIN f, MaxFilters)
  BY <1>7, <1>10, Limits, OneMoreIsFew
<1>12. owned = [user |-> mine.user, player |-> mine.player, goals |-> mine.goals,
               groups |-> mine.groups, filters |-> f, tokens |-> mine.tokens,
               favorites |-> mine.favorites]
  BY <1>4, MineParts
<1>13. RowsOK(owned)
  BY <1>10, <1>11, <1>12, MineParts, RowsOKParts
<1>14. QED
  BY <1>5, <1>12, <1>13, SavesKeep

LEMMA CreateGoalKeeps ==
  ASSUME ResourcesInv, NEW r \in UserRequest, CreateGoal(r)
  PROVE  ResourcesInv'
<1>1. PICK x : x = NewId(GoalId, DOMAIN mine.goals)
  OBVIOUS
<1>2. PICK group \in GroupId \cup {NoGroup} :
        /\ Stage(r, "user") /\ OwnsGroup(r, group)
        /\ Cardinality(DOMAIN request[r].seen.goals) < MaxGoals
        /\ Saves(r, [mine EXCEPT !.goals = Added(@, x, Last(request[r].seen.goals, group))])
  BY <1>1 DEF CreateGoal
<1>3. request[r].seen.goals = mine.goals /\ request[r].seen.groups = mine.groups
  BY <1>2, SeenByUser
<1>4. PICK goals : goals = Added(mine.goals, x, Last(mine.goals, group))
  OBVIOUS
<1>5. PICK owned : owned = [mine EXCEPT !.goals = goals, !.groups = mine.groups]
  OBVIOUS
<1>6. Saves(r, owned)
  BY <1>2, <1>3, <1>4, <1>5, OnePartReplaced
<1>7. Listed(mine.goals, GoalId, MaxGoals) /\ Listed(mine.groups, GroupId, MaxGroups)
  BY MineParts
<1>8. DOMAIN mine.goals \subseteq GoalId /\ IsFiniteSet(DOMAIN mine.goals)
  BY <1>7, ListedFacts
<1>9. x \in GoalId /\ x \notin DOMAIN mine.goals
  BY <1>1, <1>2, <1>3, <1>8, Limits, NewIdFree
<1>10. AddedSound(mine.goals, GoalId, MaxGoals, x, group)
  BY <1>2, <1>3, <1>7, <1>9, Limits, AddedListed
<1>11. /\ Listed(goals, GoalId, MaxGoals) /\ DOMAIN goals = DOMAIN mine.goals \cup {x}
       /\ goals[x].list = group /\ \A y \in DOMAIN mine.goals : goals[y].list = mine.goals[y].list
  BY <1>4, <1>10 DEF AddedSound
<1>12. group \in DOMAIN mine.groups \cup {NoGroup}
  BY <1>2, <1>3 DEF OwnsGroup
<1>13. \A g \in DOMAIN goals : goals[g].list \in DOMAIN mine.groups \cup {NoGroup}
  BY <1>11, <1>12, MineParts
<1>14. RowsOK(owned) /\ owned.player = mine.player /\ owned.favorites = mine.favorites
  BY <1>5, <1>7, <1>11, <1>13, ArrangementKept
<1>15. QED
  BY <1>6, <1>14, SavesKeep

LEMMA CreateGroupKeeps ==
  ASSUME ResourcesInv, NEW r \in UserRequest, CreateGroup(r)
  PROVE  ResourcesInv'
<1>1. PICK x : x = NewId(GroupId, DOMAIN mine.groups)
  OBVIOUS
<1>2. /\ Stage(r, "user")
      /\ Cardinality(DOMAIN request[r].seen.groups) < MaxGroups
      /\ Saves(r, [mine EXCEPT !.groups = Added(@, x, Last(request[r].seen.groups, NoGroup))])
  BY <1>1 DEF CreateGroup
<1>3. request[r].seen.groups = mine.groups
  BY <1>2, SeenByUser
<1>4. PICK groups : groups = Added(mine.groups, x, Last(mine.groups, NoGroup))
  OBVIOUS
<1>5. PICK owned : owned = [mine EXCEPT !.goals = mine.goals, !.groups = groups]
  OBVIOUS
<1>6. Saves(r, owned)
  BY <1>2, <1>3, <1>4, <1>5, OnePartReplaced
<1>7. Listed(mine.goals, GoalId, MaxGoals) /\ Listed(mine.groups, GroupId, MaxGroups)
  BY MineParts
<1>8. DOMAIN mine.groups \subseteq GroupId /\ IsFiniteSet(DOMAIN mine.groups)
  BY <1>7, ListedFacts
<1>9. x \in GroupId /\ x \notin DOMAIN mine.groups
  BY <1>1, <1>2, <1>3, <1>8, Limits, NewIdFree
<1>10. AddedSound(mine.groups, GroupId, MaxGroups, x, NoGroup)
  BY <1>2, <1>3, <1>7, <1>9, Limits, AddedListed
<1>11. Listed(groups, GroupId, MaxGroups) /\ DOMAIN groups = DOMAIN mine.groups \cup {x}
  BY <1>4, <1>10 DEF AddedSound
<1>12. \A g \in DOMAIN mine.goals : mine.goals[g].list \in DOMAIN groups \cup {NoGroup}
  BY <1>11, MineParts
<1>13. RowsOK(owned) /\ owned.player = mine.player /\ owned.favorites = mine.favorites
  BY <1>5, <1>7, <1>11, <1>12, ArrangementKept
<1>14. QED
  BY <1>6, <1>13, SavesKeep

\* Goals placed anew.
LEMMA GoalsArranged ==
  ASSUME ResourcesInv, NEW r \in UserRequest, NEW goals, Arranges(r, goals, mine.groups),
         Listed(goals, GoalId, MaxGoals),
         \A g \in DOMAIN goals : goals[g].list \in DOMAIN mine.groups \cup {NoGroup}
  PROVE  ResourcesInv'
<1>1. PICK owned : owned = [mine EXCEPT !.goals = goals, !.groups = mine.groups]
  OBVIOUS
<1>2. Saves(r, owned)
  BY <1>1 DEF Arranges
<1>3. Listed(mine.groups, GroupId, MaxGroups)
  BY MineParts
<1>4. RowsOK(owned) /\ owned.player = mine.player /\ owned.favorites = mine.favorites
  BY <1>1, <1>3, ArrangementKept
<1>5. QED
  BY <1>2, <1>4, SavesKeep

LEMMA UpdateGoalKeeps ==
  ASSUME ResourcesInv, NEW r \in UserRequest, UpdateGoal(r)
  PROVE  ResourcesInv'
<1>1. PICK x \in DOMAIN mine.goals, group \in GroupId \cup {NoGroup} :
        /\ Stage(r, "user") /\ OwnsGroup(r, group)
        /\ Arranges(r, GoalMoved(request[r].seen.goals, x, group), mine.groups)
  BY DEF UpdateGoal
<1>2. request[r].seen.goals = mine.goals /\ request[r].seen.groups = mine.groups
  BY <1>1, SeenByUser
<1>3. PICK goals : goals = GoalMoved(mine.goals, x, group)
  OBVIOUS
<1>4. Arranges(r, goals, mine.groups)
  BY <1>1, <1>2, <1>3
<1>5. Listed(mine.goals, GoalId, MaxGoals)
  BY MineParts
<1>6. /\ Listed(goals, GoalId, MaxGoals) /\ DOMAIN goals = DOMAIN mine.goals
      /\ \A y \in DOMAIN mine.goals : goals[y].list \in {group, mine.goals[y].list}
  BY <1>3, <1>5, Limits, GoalMovedListed
<1>7. group \in DOMAIN mine.groups \cup {NoGroup}
  BY <1>1, <1>2 DEF OwnsGroup
<1>8. \A g \in DOMAIN goals : goals[g].list \in DOMAIN mine.groups \cup {NoGroup}
  BY <1>6, <1>7, MineParts
<1>9. QED
  BY <1>4, <1>6, <1>8, GoalsArranged

LEMMA ReorderGoalsKeeps ==
  ASSUME ResourcesInv, NEW r \in UserRequest, ReorderGoals(r)
  PROVE  ResourcesInv'
<1>1. PICK group \in GroupId \cup {NoGroup} :
        /\ Stage(r, "user")
        /\ \E goals \in Reorderings(request[r].seen.goals, group) :
             Arranges(r, goals, mine.groups)
  BY DEF ReorderGoals
<1>2. PICK goals \in Reorderings(mine.goals, group) : Arranges(r, goals, mine.groups)
  BY <1>1, SeenByUser
<1>3. Listed(mine.goals, GoalId, MaxGoals)
  BY MineParts
<1>4. ReorderedSound(mine.goals, GoalId, MaxGoals, goals)
  BY <1>2, <1>3, Limits, ReorderedListed
<1>5. /\ Listed(goals, GoalId, MaxGoals)
      /\ \A g \in DOMAIN goals : goals[g].list \in DOMAIN mine.groups \cup {NoGroup}
  BY <1>4, MineParts DEF ReorderedSound
<1>6. QED
  BY <1>2, <1>5, GoalsArranged

LEMMA DeleteGoalKeeps ==
  ASSUME ResourcesInv, NEW r \in UserRequest, DeleteGoal(r)
  PROVE  ResourcesInv'
<1>1. PICK x \in DOMAIN mine.goals :
        Stage(r, "user") /\ Saves(r, [mine EXCEPT !.goals = Removed(request[r].seen.goals, x)])
  BY DEF DeleteGoal
<1>2. PICK goals : goals = Removed(mine.goals, x)
  OBVIOUS
<1>3. PICK owned : owned = [mine EXCEPT !.goals = goals, !.groups = mine.groups]
  OBVIOUS
<1>4. Saves(r, owned)
  BY <1>1, <1>2, <1>3, SeenByUser, OnePartReplaced
<1>5. Listed(mine.goals, GoalId, MaxGoals) /\ Listed(mine.groups, GroupId, MaxGroups)
  BY MineParts
<1>6. /\ Listed(goals, GoalId, MaxGoals) /\ DOMAIN goals = DOMAIN mine.goals \ {x}
      /\ \A y \in DOMAIN mine.goals \ {x} : goals[y].list = mine.goals[y].list
  BY <1>2, <1>5, Limits, RemovedListed
<1>7. \A g \in DOMAIN goals : goals[g].list \in DOMAIN mine.groups \cup {NoGroup}
  BY <1>6, MineParts
<1>8. RowsOK(owned) /\ owned.player = mine.player /\ owned.favorites = mine.favorites
  BY <1>3, <1>5, <1>6, <1>7, ArrangementKept
<1>9. QED
  BY <1>4, <1>8, SavesKeep

LEMMA ReorderGroupsKeeps ==
  ASSUME ResourcesInv, NEW r \in UserRequest, ReorderGroups(r)
  PROVE  ResourcesInv'
<1>1. PICK groups \in Reorderings(request[r].seen.groups, NoGroup) :
        Stage(r, "user") /\ Arranges(r, mine.goals, groups)
  BY DEF ReorderGroups
<1>2. groups \in Reorderings(mine.groups, NoGroup)
  BY <1>1, SeenByUser
<1>3. PICK owned : owned = [mine EXCEPT !.goals = mine.goals, !.groups = groups]
  OBVIOUS
<1>4. Saves(r, owned)
  BY <1>1, <1>3 DEF Arranges
<1>5. Listed(mine.goals, GoalId, MaxGoals) /\ Listed(mine.groups, GroupId, MaxGroups)
  BY MineParts
<1>6. ReorderedSound(mine.groups, GroupId, MaxGroups, groups)
  BY <1>2, <1>5, Limits, ReorderedListed
<1>7. Listed(groups, GroupId, MaxGroups) /\ DOMAIN groups = DOMAIN mine.groups
  BY <1>6 DEF ReorderedSound
<1>8. \A g \in DOMAIN mine.goals : mine.goals[g].list \in DOMAIN groups \cup {NoGroup}
  BY <1>7, MineParts
<1>9. RowsOK(owned) /\ owned.player = mine.player /\ owned.favorites = mine.favorites
  BY <1>3, <1>5, <1>7, <1>8, ArrangementKept
<1>10. QED
  BY <1>4, <1>9, SavesKeep

LEMMA DeleteGroupKeeps ==
  ASSUME ResourcesInv, NEW r \in UserRequest, DeleteGroup(r)
  PROVE  ResourcesInv'
<1>1. PICK x \in DOMAIN mine.groups :
        /\ Stage(r, "user")
        /\ Saves(r, [mine EXCEPT !.goals = GroupRemoved(request[r].seen.goals, x),
                                 !.groups = Removed(request[r].seen.groups, x)])
  BY DEF DeleteGroup
<1>2. PICK goals : goals = GroupRemoved(mine.goals, x)
  OBVIOUS
<1>3. PICK groups : groups = Removed(mine.groups, x)
  OBVIOUS
<1>4. PICK owned : owned = [mine EXCEPT !.goals = goals, !.groups = groups]
  OBVIOUS
<1>5. Saves(r, owned)
  BY <1>1, <1>2, <1>3, <1>4, SeenByUser
<1>6. Listed(mine.goals, GoalId, MaxGoals) /\ Listed(mine.groups, GroupId, MaxGroups)
  BY MineParts
<1>7. x # NoGroup
  <2>1. DOMAIN mine.groups \subseteq GroupId
    BY <1>6, ListedFacts
  <2>2. QED
    BY <2>1, Limits
<1>8. /\ Listed(goals, GoalId, MaxGoals) /\ DOMAIN goals = DOMAIN mine.goals
      /\ \A y \in DOMAIN mine.goals :
           goals[y].list \in {NoGroup, mine.goals[y].list} /\ goals[y].list # x
  <2>1. GroupRemovedSound(mine.goals, GoalId, MaxGoals, x)
    BY <1>6, <1>7, Limits, GroupRemovedListed
  <2>2. QED
    BY <1>2, <2>1 DEF GroupRemovedSound
<1>9. Listed(groups, GroupId, MaxGroups) /\ DOMAIN groups = DOMAIN mine.groups \ {x}
  BY <1>3, <1>6, Limits, RemovedListed
<1>10. \A g \in DOMAIN goals : goals[g].list \in DOMAIN groups \cup {NoGroup}
  BY <1>8, <1>9, MineParts
<1>11. RowsOK(owned) /\ owned.player = mine.player /\ owned.favorites = mine.favorites
  BY <1>4, <1>8, <1>9, <1>10, ArrangementKept
<1>12. QED
  BY <1>5, <1>11, SavesKeep

\* A request takes the lock of the user, or of the player.
LEMMA TakesKeep ==
  ASSUME ResourcesInv, NEW r \in UserRequest, NEW state, Becomes(r, state),
         UNCHANGED <<mine, live, orphans>>, Knows(state, mine),
         state.pc = "user" \/ state.pc = "import" => ~UserLocked,
         state.pc = "player" => ~PlayerLocked /\ state.song \in live
  PROVE  ResourcesInv'
<1>1. request = [s \in UserRequest |-> request[s]]
  BY DEF ResourcesInv
<1>2. /\ request' = [s \in UserRequest |-> request'[s]] /\ request'[r] = state
      /\ \A s \in UserRequest : s # r => request'[s] = request[s]
  BY <1>1, BecomesFacts
<1>3. \A s \in UserRequest : Knows(request'[s], mine')
  BY <1>2 DEF ResourcesInv, Knows, SawUser, SawPlayer
<1>4. Exclusive'
  BY <1>2 DEF ResourcesInv, Exclusive, Locking, UserLocked, PlayerLocked, Stage
<1>5. SongsLive'
  BY <1>2 DEF ResourcesInv, SongsLive
<1>6. RowsOK(mine)'
  BY DEF ResourcesInv, RowsOK, IsMine, Arranged, Few
<1>7. QED
  BY <1>2, <1>3, <1>4, <1>5, <1>6 DEF ResourcesInv

LEMMA LockUserKeeps ==
  ASSUME ResourcesInv, NEW r \in UserRequest, LockUser(r)
  PROVE  ResourcesInv'
<1>1. PICK state : state = [pc |-> "user", seen |-> Owned]
  OBVIOUS
<1>2. /\ mine.user /\ ~UserLocked /\ Becomes(r, state) /\ UNCHANGED <<mine, live, orphans>>
  BY <1>1 DEF LockUser
<1>3. SawUser(Owned, mine)
  BY <1>2, MineParts DEF SawUser, Owned
<1>4. Knows(state, mine) /\ state.pc = "user"
  BY <1>1, <1>3 DEF Knows
<1>5. QED
  BY <1>2, <1>4, TakesKeep

LEMMA AddFavoriteKeeps ==
  ASSUME ResourcesInv, NEW r \in UserRequest, AddFavorite(r)
  PROVE  ResourcesInv'
<1>1. PICK s \in live :
        /\ mine.player /\ ~PlayerLocked
        /\ Becomes(r, [pc |-> "player", song |-> s, seen |-> mine.favorites])
        /\ UNCHANGED <<mine, live, orphans>>
  BY DEF AddFavorite
<1>2. PICK state : state = [pc |-> "player", song |-> s, seen |-> mine.favorites]
  OBVIOUS
<1>3. s \in Fav
  BY DEF ResourcesInv
<1>4. SawPlayer(state, mine)
  BY <1>1, <1>2, <1>3, MineParts DEF SawPlayer
<1>5. Knows(state, mine) /\ state.pc = "player" /\ state.song = s
  BY <1>2, <1>4 DEF Knows
<1>6. QED
  BY <1>1, <1>2, <1>5, TakesKeep

LEMMA BeginImportKeeps ==
  ASSUME ResourcesInv, NEW r \in UserRequest, BeginImport(r)
  PROVE  ResourcesInv'
<1>1. PICK t \in Transfer :
        /\ ValidTransfer(t) /\ ~UserLocked
        /\ Becomes(r, [pc |-> "import", data |-> t])
        /\ UNCHANGED <<mine, live, orphans>>
  BY DEF BeginImport
<1>2. PICK state : state = [pc |-> "import", data |-> t]
  OBVIOUS
<1>3. Knows(state, mine) /\ state.pc = "import"
  BY <1>1, <1>2 DEF Knows
<1>4. QED
  BY <1>1, <1>2, <1>3, TakesKeep

LEMMA ReadFilterKeeps ==
  ASSUME ResourcesInv, NEW r \in UserRequest, ReadFilter(r)
  PROVE  ResourcesInv'
<1>1. PICK f \in DOMAIN mine.filters :
        Becomes(r, [pc |-> "filter", filter |-> f]) /\ UNCHANGED <<mine, live, orphans>>
  BY DEF ReadFilter
<1>2. PICK state : state = [pc |-> "filter", filter |-> f]
  OBVIOUS
<1>3. Knows(state, mine) /\ state.pc = "filter"
  BY <1>2 DEF Knows
<1>4. QED
  BY <1>1, <1>2, <1>3, TakesKeep

LEMMA CancelKeeps ==
  ASSUME ResourcesInv, NEW r \in UserRequest, Cancel(r)
  PROVE  ResourcesInv'
<1>1. Becomes(r, Ended) /\ UNCHANGED <<mine, live, orphans>>
  BY DEF Cancel
<1>2. Knows(Ended, mine) /\ Ended.pc = "none"
  BY DEF Knows, Ended
<1>3. QED
  BY <1>1, <1>2, TakesKeep

\* A request ends with what it writes.
LEMMA EndsKeep ==
  ASSUME ResourcesInv, NEW r \in UserRequest, Becomes(r, Ended), NEW owned, mine' = owned,
         RowsOK(owned), live' = live, orphans' \subseteq Fav,
         owned.favorites \ live \subseteq orphans',
         \A s \in UserRequest :
           /\ s # r /\ request[s].pc = "user" => SawUser(request[s].seen, owned)
           /\ s # r /\ request[s].pc = "player" => SawPlayer(request[s], owned),
         ~Stage(r, "none")
  PROVE  ResourcesInv'
<1>1. request = [s \in UserRequest |-> request[s]]
  BY DEF ResourcesInv
<1>2. /\ request' = [s \in UserRequest |-> request'[s]] /\ request'[r] = Ended
      /\ \A s \in UserRequest : s # r => request'[s] = request[s]
  BY <1>1, BecomesFacts
<1>3. Released
  BY <1>2 DEF Released, Ended
<1>4. RowsOK(mine)'
  BY DEF RowsOK, IsMine, Arranged, Few
<1>5. ASSUME NEW s \in UserRequest, request'[s] = request[s] PROVE Knows(request[s], mine')
  <2>1. s # r
    BY <1>2, <1>5 DEF Ended, Stage
  <2>2. Knows(request[s], mine)
    BY DEF ResourcesInv
  <2>3. QED
    BY <2>1, <2>2, KnowsAgain
<1>6. \A s \in UserRequest : request[s].pc = "player" => request[s].song \in live'
  BY DEF ResourcesInv, SongsLive
<1>7. live' \subseteq Fav /\ mine'.favorites \ live' \subseteq orphans'
  BY DEF ResourcesInv
<1>8. QED
  BY <1>2, <1>3, <1>4, <1>5, <1>6, <1>7, ReleasedKeeps

LEMMA UpdateFilterKeeps ==
  ASSUME ResourcesInv, NEW r \in UserRequest, UpdateFilter(r)
  PROVE  ResourcesInv'
<1>1. PICK v \in FilterValue : mine' = [mine EXCEPT !.filters[request[r].filter] = v]
  BY DEF UpdateFilter
<1>2. PICK f : f = [mine.filters EXCEPT ![request[r].filter] = v]
  OBVIOUS
<1>3. PICK owned : owned = [user |-> mine.user, player |-> mine.player, goals |-> mine.goals,
                          groups |-> mine.groups, filters |-> f, tokens |-> mine.tokens,
                          favorites |-> mine.favorites]
  OBVIOUS
<1>4. mine' = owned
  BY <1>1, <1>2, <1>3, MineParts
<1>5. IsFilters(f) /\ DOMAIN f = DOMAIN mine.filters
  BY <1>2, MineParts DEF IsFilters
<1>6. RowsOK(owned)
  BY <1>3, <1>5, MineParts, RowsOKParts
<1>7. ASSUME NEW s \in UserRequest
      PROVE  /\ request[s].pc = "user" => SawUser(request[s].seen, owned)
             /\ request[s].pc = "player" => SawPlayer(request[s], owned)
  <2>1. Knows(request[s], mine)
    BY DEF ResourcesInv
  <2>2. QED
    BY <1>3, <1>5, <2>1 DEF Knows, SawUser, SawPlayer
<1>8. Becomes(r, Ended) /\ live' = live /\ orphans' = orphans /\ ~Stage(r, "none")
  BY DEF UpdateFilter, Stage
<1>9. orphans' \subseteq Fav /\ owned.favorites \ live \subseteq orphans'
  BY <1>3, <1>8 DEF ResourcesInv
<1>10. QED
  BY <1>4, <1>6, <1>7, <1>8, <1>9, EndsKeep

LEMMA SaveFavoriteKeeps ==
  ASSUME ResourcesInv, NEW r \in UserRequest, SaveFavorite(r)
  PROVE  ResourcesInv'
<1>1. PICK x : x = request[r].song
  OBVIOUS
<1>2. /\ Stage(r, "player") /\ Becomes(r, Ended) /\ live' = live /\ orphans' = orphans
      /\ mine' = IF x \in request[r].seen \/ Cardinality(request[r].seen) >= MaxFavorites
                 THEN mine ELSE [mine EXCEPT !.favorites = @ \cup {x}]
  BY <1>1 DEF SaveFavorite
<1>3. SawPlayer(request[r], mine) /\ x \in live /\ live \subseteq Fav
  BY <1>1, <1>2 DEF ResourcesInv, Knows, SongsLive, Stage
<1>4. ~Stage(r, "none")
  BY <1>2 DEF Stage
<1>5. \A s \in UserRequest : request[s].pc = "player" => s = r
  BY <1>2 DEF ResourcesInv, Exclusive, Stage
<1>6. \A s \in UserRequest : request[s].pc = "user" => SawUser(request[s].seen, mine)
  BY DEF ResourcesInv, Knows
<1>7. CASE mine' = mine
  <2>1. RowsOK(mine) /\ orphans \subseteq Fav /\ mine.favorites \ live \subseteq orphans
    BY DEF ResourcesInv
  <2>2. QED
    BY <1>2, <1>4, <1>5, <1>6, <1>7, <2>1, EndsKeep
<1>8. CASE /\ ~(Cardinality(request[r].seen) >= MaxFavorites)
           /\ mine' = [mine EXCEPT !.favorites = @ \cup {x}]
  <2>1. PICK owned : owned = [user |-> mine.user, player |-> mine.player, goals |-> mine.goals,
                            groups |-> mine.groups, filters |-> mine.filters,
                            tokens |-> mine.tokens, favorites |-> mine.favorites \cup {x}]
    OBVIOUS
  <2>2. mine' = owned
    BY <1>8, <2>1, MineParts
  <2>3. mine.favorites \subseteq request[r].seen /\ Few(request[r].seen, MaxFavorites)
    BY <1>3 DEF SawPlayer
  <2>4. IsFiniteSet(mine.favorites) /\ Cardinality(mine.favorites) < MaxFavorites
    <3>1. Cardinality(mine.favorites) <= Cardinality(request[r].seen)
      BY <2>3, Limits, FewerAreFew
    <3>2. IsFiniteSet(mine.favorites) /\ IsFiniteSet(request[r].seen)
      BY <2>3, MineParts DEF Few
    <3>3. Cardinality(mine.favorites) \in Nat /\ Cardinality(request[r].seen) \in Nat
      BY <3>2, FS_CardinalityType
    <3>4. QED
      BY <1>8, <3>1, <3>2, <3>3, Limits
  <2>5. Few(mine.favorites \cup {x}, MaxFavorites)
    BY <2>4, Limits, OneMoreIsFew
  <2>6. RowsOK(owned)
    BY <1>3, <2>1, <2>5, MineParts, RowsOKParts
  <2>7. \A s \in UserRequest : request[s].pc = "user" => SawUser(request[s].seen, owned)
    BY <1>6, <2>1 DEF SawUser
  <2>8. orphans \subseteq Fav /\ owned.favorites \ live \subseteq orphans
    BY <1>3, <2>1 DEF ResourcesInv
  <2>9. QED
    BY <1>2, <1>4, <1>5, <2>2, <2>6, <2>7, <2>8, EndsKeep
<1>9. QED
  BY <1>2, <1>7, <1>8

\* Rows replaced in part.
PartsReplaced(m, q, g, h, f, v, z) ==
  z = [user |-> m.user, player |-> q, goals |-> g, groups |-> h, filters |-> f,
       tokens |-> m.tokens, favorites |-> v]

LEMMA PlayerReplaced ==
  ASSUME NEW m, NEW u, NEW p, NEW g, NEW h, NEW f, NEW t, NEW v,
         m = [user |-> u, player |-> p, goals |-> g, groups |-> h, filters |-> f,
              tokens |-> t, favorites |-> v],
         NEW q, NEW v2, NEW z, z = [m EXCEPT !.player = q, !.favorites = v2]
  PROVE  PartsReplaced(m, q, g, h, f, v2, z)
<1>1. z = [user |-> u, player |-> q, goals |-> g, groups |-> h, filters |-> f,
           tokens |-> t, favorites |-> v2]
  OBVIOUS
<1>2. u = m.user /\ t = m.tokens
  OBVIOUS
<1>3. QED
  BY <1>1, <1>2 DEF PartsReplaced

LEMMA AllReplaced ==
  ASSUME NEW m, NEW u, NEW p, NEW g, NEW h, NEW f, NEW t, NEW v,
         m = [user |-> u, player |-> p, goals |-> g, groups |-> h, filters |-> f,
              tokens |-> t, favorites |-> v],
         NEW q, NEW g2, NEW h2, NEW f2, NEW v2, NEW z,
         z = [m EXCEPT !.player = q, !.goals = g2, !.groups = h2, !.filters = f2,
                       !.favorites = v2]
  PROVE  PartsReplaced(m, q, g2, h2, f2, v2, z)
<1>1. z = [user |-> u, player |-> q, goals |-> g2, groups |-> h2, filters |-> f2,
           tokens |-> t, favorites |-> v2]
  OBVIOUS
<1>2. u = m.user /\ t = m.tokens
  OBVIOUS
<1>3. QED
  BY <1>1, <1>2 DEF PartsReplaced

LEMMA CommitImportKeeps ==
  ASSUME ResourcesInv, NEW r \in UserRequest, CommitImport(r)
  PROVE  ResourcesInv'
<1>1. PICK t : t = request[r].data
  OBVIOUS
<1>2. /\ Stage(r, "import") /\ Becomes(r, Ended) /\ ~mine.player /\ live' = live
      /\ mine' = [mine EXCEPT !.player = TRUE, !.goals = t.goals, !.groups = t.groups,
                              !.filters = t.filters, !.favorites = t.favorites]
      /\ orphans' = orphans \cup (t.favorites \ live)
  BY <1>1 DEF CommitImport
<1>3. t \in Transfer /\ ValidTransfer(t)
  BY <1>1, <1>2 DEF ResourcesInv, Knows, Stage
<1>4. /\ IsListing(t.goals, GoalId) /\ IsListing(t.groups, GroupId)
      /\ IsFilters(t.filters) /\ t.favorites \subseteq Fav
      /\ IsFiniteSet(DOMAIN t.goals) /\ IsFiniteSet(DOMAIN t.groups)
      /\ IsFiniteSet(DOMAIN t.filters) /\ IsFiniteSet(t.favorites)
  BY <1>3, ResourcesAssumption
<1>5. Listed(t.goals, GoalId, MaxGoals) /\ Listed(t.groups, GroupId, MaxGroups)
  BY <1>3, <1>4 DEF ValidTransfer, Listed, Arranged
<1>6. /\ Few(DOMAIN t.filters, MaxFilters) /\ Few(t.favorites, MaxFavorites)
      /\ \A g \in DOMAIN t.goals : t.goals[g].list \in DOMAIN t.groups \cup {NoGroup}
  BY <1>3, <1>4 DEF ValidTransfer, Few
<1> DEFINE yes == TRUE
<1>7. PICK owned : owned = [user |-> mine.user, player |-> yes, goals |-> t.goals,
                          groups |-> t.groups, filters |-> t.filters, tokens |-> mine.tokens,
                          favorites |-> t.favorites]
  OBVIOUS
<1>8. mine' = owned
  <2>1. mine = [user |-> mine.user, player |-> mine.player, goals |-> mine.goals,
                 groups |-> mine.groups, filters |-> mine.filters, tokens |-> mine.tokens,
                 favorites |-> mine.favorites]
    BY MineParts
  <2>2. PICK z : z = mine'
    OBVIOUS
  <2>3. z = [mine EXCEPT !.player = yes, !.goals = t.goals, !.groups = t.groups,
                         !.filters = t.filters, !.favorites = t.favorites]
    BY <1>2, <2>2
  <2> HIDE DEF yes
  <2>4. PartsReplaced(mine, yes, t.goals, t.groups, t.filters, t.favorites, z)
    BY <2>1, <2>3, AllReplaced
  <2>5. QED
    BY <1>7, <2>2, <2>4 DEF PartsReplaced
<1>9. RowsOK(owned)
  BY <1>4, <1>5, <1>6, <1>7, MineParts, RowsOKParts
<1>10. ~Stage(r, "none")
  BY <1>2 DEF Stage
<1>11. \A s \in UserRequest : request[s].pc # "player"
  BY <1>2 DEF ResourcesInv, Knows, SawPlayer
<1>12. \A s \in UserRequest : s # r => request[s].pc # "user"
  BY <1>2 DEF ResourcesInv, Exclusive, Locking, Stage
<1>13. orphans' \subseteq Fav /\ owned.favorites \ live \subseteq orphans'
  BY <1>2, <1>4, <1>7 DEF ResourcesInv
<1>14. QED
  BY <1>2, <1>8, <1>9, <1>10, <1>11, <1>12, <1>13, EndsKeep

\* Something happens beside all requests.
LEMMA BesideKeeps ==
  ASSUME ResourcesInv, NEW owned, mine' = owned, RowsOK(owned), request' = request,
         orphans' = orphans, live' \subseteq Fav, owned.favorites \ live' \subseteq orphans,
         \A s \in UserRequest :
           /\ request[s].pc = "user" => SawUser(request[s].seen, owned)
           /\ request[s].pc = "player" =>
                SawPlayer(request[s], owned) /\ request[s].song \in live'
  PROVE  ResourcesInv'
<1>1. request' = [s \in UserRequest |-> request'[s]]
  BY DEF ResourcesInv
<1>2. Released
  BY DEF Released
<1>3. RowsOK(mine)'
  BY DEF RowsOK, IsMine, Arranged, Few
<1>4. \A s \in UserRequest : Knows(request[s], mine')
  BY KnowsAgain DEF ResourcesInv
<1>5. orphans' \subseteq Fav
  BY DEF ResourcesInv
<1>6. QED
  BY <1>1, <1>2, <1>3, <1>4, <1>5, ReleasedKeeps

\* What requests have read, and of which song.
LEMMA ResourcesSeen ==
  ASSUME ResourcesInv, NEW s \in UserRequest
  PROVE  /\ request[s].pc = "user" => SawUser(request[s].seen, mine)
         /\ request[s].pc = "player" =>
              SawPlayer(request[s], mine) /\ request[s].song \in live
BY DEF ResourcesInv, Knows, SongsLive

LEMMA DeleteTokenKeeps ==
  ASSUME ResourcesInv, DeleteToken
  PROVE  ResourcesInv'
<1>1. PICK t \in mine.tokens : mine' = [mine EXCEPT !.tokens = @ \ {t}]
  BY DEF DeleteToken
<1>2. PICK owned : owned = [user |-> mine.user, player |-> mine.player, goals |-> mine.goals,
                          groups |-> mine.groups, filters |-> mine.filters,
                          tokens |-> mine.tokens \ {t}, favorites |-> mine.favorites]
  OBVIOUS
<1>3. mine' = owned
  <2>1. mine = [user |-> mine.user, player |-> mine.player, goals |-> mine.goals,
                 groups |-> mine.groups, filters |-> mine.filters, tokens |-> mine.tokens,
                 favorites |-> mine.favorites]
    BY MineParts
  <2>2. PICK z : z = mine'
    OBVIOUS
  <2>3. z = [mine EXCEPT !.tokens = @ \ {t}]
    BY <1>1, <2>2
  <2>4. z = owned
    BY <1>2, <2>1, <2>3
  <2>5. QED
    BY <2>2, <2>4
<1>4. Few(mine.tokens \ {t}, MaxTokens)
  <2>1. mine.tokens \ {t} \subseteq mine.tokens /\ Few(mine.tokens, MaxTokens)
    BY MineParts
  <2>2. QED
    BY <2>1, Limits, FewerAreFew
<1>5. RowsOK(owned)
  BY <1>2, <1>4, MineParts, RowsOKParts
<1>6. request' = request /\ live' = live /\ orphans' = orphans
  BY DEF DeleteToken, Unrequested
<1>7. live' \subseteq Fav /\ owned.favorites \ live' \subseteq orphans
  BY <1>2, <1>6 DEF ResourcesInv
<1>8. \A s \in UserRequest :
        /\ request[s].pc = "user" => SawUser(request[s].seen, owned)
        /\ request[s].pc = "player" => SawPlayer(request[s], owned) /\ request[s].song \in live'
  BY <1>2, <1>6, ResourcesSeen DEF SawUser, SawPlayer
<1>9. QED
  BY <1>3, <1>5, <1>6, <1>7, <1>8, BesideKeeps

LEMMA DeleteFilterKeeps ==
  ASSUME ResourcesInv, DeleteFilter
  PROVE  ResourcesInv'
<1>1. PICK x \in DOMAIN mine.filters :
        mine' = [mine EXCEPT !.filters = Restrict(@, DOMAIN @ \ {x})]
  BY DEF DeleteFilter
<1>2. PICK f : f = Restrict(mine.filters, DOMAIN mine.filters \ {x})
  OBVIOUS
<1>3. PICK owned : owned = [user |-> mine.user, player |-> mine.player, goals |-> mine.goals,
                          groups |-> mine.groups, filters |-> f, tokens |-> mine.tokens,
                          favorites |-> mine.favorites]
  OBVIOUS
<1>4. mine' = owned
  BY <1>1, <1>2, <1>3, MineParts
<1>5. IsFilters(f) /\ DOMAIN f = DOMAIN mine.filters \ {x}
  BY <1>2, MineParts DEF IsFilters, Restrict
<1>6. Few(DOMAIN f, MaxFilters)
  <2>1. DOMAIN f \subseteq DOMAIN mine.filters /\ Few(DOMAIN mine.filters, MaxFilters)
    BY <1>5, MineParts
  <2>2. QED
    BY <2>1, Limits, FewerAreFew
<1>7. RowsOK(owned)
  BY <1>3, <1>5, <1>6, MineParts, RowsOKParts
<1>8. request' = request /\ live' = live /\ orphans' = orphans
  BY DEF DeleteFilter, Unrequested
<1>9. live' \subseteq Fav /\ owned.favorites \ live' \subseteq orphans
  BY <1>3, <1>8 DEF ResourcesInv
<1>10. \A s \in UserRequest :
         /\ request[s].pc = "user" => SawUser(request[s].seen, owned)
         /\ request[s].pc = "player" => SawPlayer(request[s], owned) /\ request[s].song \in live'
  BY <1>3, <1>5, <1>8, ResourcesSeen DEF SawUser, SawPlayer
<1>11. QED
  BY <1>4, <1>7, <1>8, <1>9, <1>10, BesideKeeps

\* A favorite goes, and its song with it or not.
LEMMA UnfavoredKeeps ==
  ASSUME ResourcesInv, NEW x, mine' = [mine EXCEPT !.favorites = @ \ {x}],
         request' = request, orphans' = orphans, live' \in {live, live \ {x}},
         live' # live => ~SongLocked(x)
  PROVE  ResourcesInv'
<1>1. PICK owned : owned = [user |-> mine.user, player |-> mine.player, goals |-> mine.goals,
                          groups |-> mine.groups, filters |-> mine.filters,
                          tokens |-> mine.tokens, favorites |-> mine.favorites \ {x}]
  OBVIOUS
<1>2. mine' = owned
  BY <1>1, MineParts
<1>3. Few(mine.favorites \ {x}, MaxFavorites)
  <2>1. mine.favorites \ {x} \subseteq mine.favorites /\ Few(mine.favorites, MaxFavorites)
    BY MineParts
  <2>2. QED
    BY <2>1, Limits, FewerAreFew
<1>4. RowsOK(owned)
  BY <1>1, <1>3, MineParts, RowsOKParts
<1>5. live' \subseteq Fav /\ owned.favorites \ live' \subseteq orphans
  BY <1>1 DEF ResourcesInv
<1>6. \A s \in UserRequest : request[s].pc = "player" => request[s].song \in live'
  BY ResourcesSeen DEF SongLocked, Stage
<1>7. \A s \in UserRequest :
        /\ request[s].pc = "user" => SawUser(request[s].seen, owned)
        /\ request[s].pc = "player" => SawPlayer(request[s], owned) /\ request[s].song \in live'
  BY <1>1, <1>6, ResourcesSeen DEF SawUser, SawPlayer
<1>8. QED
  BY <1>2, <1>4, <1>5, <1>7, BesideKeeps

LEMMA RemoveFavoriteKeeps ==
  ASSUME ResourcesInv, RemoveFavorite
  PROVE  ResourcesInv'
BY UnfavoredKeeps DEF RemoveFavorite, Unrequested

LEMMA DeleteFavoriteSongKeeps ==
  ASSUME ResourcesInv, NEW x \in Fav, DeleteFavoriteSong(x)
  PROVE  ResourcesInv'
BY UnfavoredKeeps DEF DeleteFavoriteSong

LEMMA RestoreFavoriteSongKeeps ==
  ASSUME ResourcesInv, NEW x \in Fav, RestoreFavoriteSong(x)
  PROVE  ResourcesInv'
<1>1. live' = live \cup {x} /\ UNCHANGED <<mine, request, orphans>>
  BY DEF RestoreFavoriteSong
<1>2. RowsOK(mine) /\ live' \subseteq Fav /\ mine.favorites \ live' \subseteq orphans
  BY <1>1 DEF ResourcesInv
<1>3. \A s \in UserRequest :
        /\ request[s].pc = "user" => SawUser(request[s].seen, mine)
        /\ request[s].pc = "player" => SawPlayer(request[s], mine) /\ request[s].song \in live'
  BY <1>1, ResourcesSeen
<1>4. QED
  BY <1>1, <1>2, <1>3, BesideKeeps

LEMMA RegisterFirstKeeps ==
  ASSUME ResourcesInv, RegisterFirst
  PROVE  ResourcesInv'
<1> DEFINE yes == TRUE
<1>1. PICK owned : owned = [user |-> mine.user, player |-> yes, goals |-> mine.goals,
                          groups |-> mine.groups, filters |-> mine.filters,
                          tokens |-> mine.tokens, favorites |-> mine.favorites]
  OBVIOUS
<1>2. mine' = owned /\ UNCHANGED <<live, request, orphans>>
  <2>1. mine' = [mine EXCEPT !.player = TRUE] /\ UNCHANGED <<live, request, orphans>>
    BY DEF RegisterFirst, Unrequested
  <2>2. mine = [user |-> mine.user, player |-> mine.player, goals |-> mine.goals,
                 groups |-> mine.groups, filters |-> mine.filters, tokens |-> mine.tokens,
                 favorites |-> mine.favorites]
    BY MineParts
  <2>3. PICK z : z = mine'
    OBVIOUS
  <2>4. z = [mine EXCEPT !.player = yes]
    BY <2>1, <2>3
  <2> HIDE DEF yes
  <2>5. z = owned
    BY <1>1, <2>2, <2>4
  <2>6. QED
    BY <2>1, <2>3, <2>5
<1>3. RowsOK(owned)
  BY <1>1, MineParts, RowsOKParts
<1>4. live' \subseteq Fav /\ owned.favorites \ live' \subseteq orphans
  BY <1>1, <1>2 DEF ResourcesInv
<1>5. \A s \in UserRequest :
        /\ request[s].pc = "user" => SawUser(request[s].seen, owned)
        /\ request[s].pc = "player" => SawPlayer(request[s], owned) /\ request[s].song \in live'
  BY <1>1, <1>2, ResourcesSeen DEF SawUser, SawPlayer
<1>6. QED
  BY <1>2, <1>3, <1>4, <1>5, BesideKeeps

LEMMA DeletePlayerDataKeeps ==
  ASSUME ResourcesInv, DeletePlayerData
  PROVE  ResourcesInv'
<1> DEFINE no == FALSE
<1>1. PICK owned : owned = [user |-> mine.user, player |-> no, goals |-> mine.goals,
                          groups |-> mine.groups, filters |-> mine.filters,
                          tokens |-> mine.tokens, favorites |-> {}]
  OBVIOUS
<1>2. mine' = owned /\ UNCHANGED <<live, request, orphans>> /\ ~PlayerLocked /\ ~UserLocked
  <2>1. /\ mine' = [mine EXCEPT !.player = FALSE, !.favorites = {}]
        /\ UNCHANGED <<live, request, orphans>> /\ ~PlayerLocked /\ ~UserLocked
    BY DEF DeletePlayerData, Unrequested
  <2>2. mine = [user |-> mine.user, player |-> mine.player, goals |-> mine.goals,
                 groups |-> mine.groups, filters |-> mine.filters, tokens |-> mine.tokens,
                 favorites |-> mine.favorites]
    BY MineParts
  <2>3. PICK z : z = mine'
    OBVIOUS
  <2>4. z = [mine EXCEPT !.player = no, !.favorites = {}]
    BY <2>1, <2>3
  <2> HIDE DEF no
  <2>5. PartsReplaced(mine, no, mine.goals, mine.groups, mine.filters, {}, z)
    BY <2>2, <2>4, PlayerReplaced
  <2>6. QED
    BY <1>1, <2>1, <2>3, <2>5 DEF PartsReplaced
<1>3. Few({}, MaxFavorites)
  BY NobodyHasRows, Limits
<1>4. RowsOK(owned)
  BY <1>1, <1>3, MineParts, RowsOKParts
<1>5. live' \subseteq Fav /\ owned.favorites \ live' \subseteq orphans
  BY <1>1, <1>2 DEF ResourcesInv
<1>6. \A s \in UserRequest : request[s].pc # "user" /\ request[s].pc # "player"
  BY <1>2 DEF PlayerLocked, UserLocked, Stage
<1>7. QED
  BY <1>2, <1>4, <1>5, <1>6, BesideKeeps

LEMMA DeleteResourcesKeeps ==
  ASSUME ResourcesInv, DeleteResources
  PROVE  ResourcesInv'
<1> DEFINE yes == TRUE
           no == FALSE
<1>1. PICK owned : owned = [user |-> no, player |-> no, goals |-> NoRows,
                          groups |-> NoRows, filters |-> NoRows, tokens |-> {},
                          favorites |-> {}]
  OBVIOUS
<1>2. mine' = owned /\ UNCHANGED <<live, request, orphans>> /\ ~PlayerLocked /\ ~UserLocked
  <2>1. PICK m : m = NewUser
    OBVIOUS
  <2>2. /\ mine' = [m EXCEPT !.user = FALSE]
        /\ UNCHANGED <<live, request, orphans>> /\ ~PlayerLocked /\ ~UserLocked
    BY <2>1 DEF DeleteResources, Unrequested
  <2>3. m = [user |-> yes, player |-> no, goals |-> NoRows, groups |-> NoRows,
             filters |-> NoRows, tokens |-> {}, favorites |-> {}]
    BY <2>1 DEF NewUser
  <2>4. PICK z : z = mine'
    OBVIOUS
  <2>5. z = [m EXCEPT !.user = no]
    BY <2>2, <2>4
  <2> HIDE DEF yes, no
  <2>6. z = owned
    BY <1>1, <2>3, <2>5
  <2>7. QED
    BY <2>2, <2>4, <2>6
<1>3. Few({}, MaxTokens) /\ Few({}, MaxFavorites)
  BY NobodyHasRows, Limits
<1>4. Listed(NoRows, GoalId, MaxGoals) /\ Listed(NoRows, GroupId, MaxGroups)
  BY NobodyHasRows, Limits
<1>5. IsFilters(NoRows) /\ Few(DOMAIN NoRows, MaxFilters) /\ DOMAIN NoRows = {}
  BY NobodyHasRows, Limits
<1>6. RowsOK(owned)
  BY <1>1, <1>3, <1>4, <1>5, RowsOKParts
<1>7. live' \subseteq Fav /\ owned.favorites \ live' \subseteq orphans
  BY <1>1, <1>2 DEF ResourcesInv
<1>8. \A s \in UserRequest : request[s].pc # "user" /\ request[s].pc # "player"
  BY <1>2 DEF PlayerLocked, UserLocked, Stage
<1>9. QED
  BY <1>2, <1>6, <1>7, <1>8, BesideKeeps

LEMMA ResourcesStandStill ==
  ASSUME ResourcesInv, UNCHANGED resourcesVars
  PROVE  ResourcesInv'
<1>1. UNCHANGED <<mine, live, request, orphans>>
  BY DEF resourcesVars
<1>2. RowsOK(mine) /\ live' \subseteq Fav /\ mine.favorites \ live' \subseteq orphans
  BY <1>1 DEF ResourcesInv
<1>3. \A s \in UserRequest :
        /\ request[s].pc = "user" => SawUser(request[s].seen, mine)
        /\ request[s].pc = "player" => SawPlayer(request[s], mine) /\ request[s].song \in live'
  BY <1>1, ResourcesSeen
<1>4. QED
  BY <1>1, <1>2, <1>3, BesideKeeps

LEMMA ResourcesNextKeeps ==
  ASSUME ResourcesInv, ResourcesNext
  PROVE  ResourcesInv'
<1>1. ASSUME NEW r \in UserRequest,
             \/ LockUser(r) \/ Cancel(r)
             \/ GenerateToken(r) \/ CreateFilter(r)
             \/ CreateGoal(r) \/ UpdateGoal(r) \/ ReorderGoals(r) \/ DeleteGoal(r)
             \/ CreateGroup(r) \/ ReorderGroups(r) \/ DeleteGroup(r)
      PROVE  ResourcesInv'
  BY <1>1, LockUserKeeps, CancelKeeps, GenerateTokenKeeps, CreateFilterKeeps, CreateGoalKeeps,
     UpdateGoalKeeps, ReorderGoalsKeeps, DeleteGoalKeeps, CreateGroupKeeps, ReorderGroupsKeeps,
     DeleteGroupKeeps
<1>2. ASSUME NEW r \in UserRequest,
             \/ ReadFilter(r) \/ UpdateFilter(r)
             \/ AddFavorite(r) \/ SaveFavorite(r)
             \/ BeginImport(r) \/ CommitImport(r)
      PROVE  ResourcesInv'
  BY <1>2, ReadFilterKeeps, UpdateFilterKeeps, AddFavoriteKeeps, SaveFavoriteKeeps,
     BeginImportKeeps, CommitImportKeeps
<1>3. ASSUME NEW s \in Fav, DeleteFavoriteSong(s) \/ RestoreFavoriteSong(s)
      PROVE  ResourcesInv'
  BY <1>3, DeleteFavoriteSongKeeps, RestoreFavoriteSongKeeps
<1>4. ASSUME \/ DeleteToken \/ DeleteFilter \/ RemoveFavorite
             \/ RegisterFirst \/ DeletePlayerData \/ DeleteResources
      PROVE  ResourcesInv'
  BY <1>4, DeleteTokenKeeps, DeleteFilterKeeps, RemoveFavoriteKeeps, RegisterFirstKeeps,
     DeletePlayerDataKeeps, DeleteResourcesKeeps
<1>5. QED
  BY <1>1, <1>2, <1>3, <1>4 DEF ResourcesNext

\* What a user has stays as the code takes it to be: numbered without gaps, within the
\* limits, and what a transaction has read under its lock still true when it writes
\* (FindByIDForUpdate, LockUserByID, goal_arrangement.go).
THEOREM SpecResourcesInv == ResourcesSpec => []ResourcesInv
<1>1. ResourcesInv /\ [ResourcesNext]_resourcesVars => ResourcesInv'
  BY ResourcesNextKeeps, ResourcesStandStill
<1>2. QED
  BY <1>1, ResourcesInitInv, PTL DEF ResourcesSpec

\* However requests interleave, nobody has more than the limits allow, and what a user
\* exports is a file that an import accepts (user_data_transfer.go).
THEOREM SpecResourcesSound == ResourcesSpec => []ResourcesSound
<1>1. ResourcesInv => ResourcesSound
  <2>1. SUFFICES ASSUME ResourcesInv PROVE ResourcesSound
    OBVIOUS
  <2>2. /\ Arranged(mine.goals, MaxGoals) /\ Arranged(mine.groups, MaxGroups)
        /\ \A g \in DOMAIN mine.goals : mine.goals[g].list \in DOMAIN mine.groups \cup {NoGroup}
        /\ Few(DOMAIN mine.filters, MaxFilters) /\ Few(mine.tokens, MaxTokens)
        /\ Few(mine.favorites, MaxFavorites)
    <3>1. Listed(mine.goals, GoalId, MaxGoals) /\ Listed(mine.groups, GroupId, MaxGroups)
      BY <2>1, MineParts
    <3>2. \A g \in DOMAIN mine.goals :
            mine.goals[g].list \in DOMAIN mine.groups \cup {NoGroup}
      BY <2>1, MineParts
    <3>3. /\ Few(DOMAIN mine.filters, MaxFilters) /\ Few(mine.tokens, MaxTokens)
          /\ Few(mine.favorites, MaxFavorites)
      BY <2>1, MineParts
    <3>4. QED
      BY <3>1, <3>2, <3>3 DEF Listed
  <2>3. LimitsHold
    BY <2>2 DEF LimitsHold, Arranged, Few
  <2>4. Few(mine.favorites \cap live, MaxFavorites)
    <3>1. mine.favorites \cap live \subseteq mine.favorites
      OBVIOUS
    <3>2. QED
      BY <2>2, <3>1, Limits, FewerAreFew
  <2>5. ValidTransfer(Exported)
    BY <2>2, <2>4 DEF ValidTransfer, Exported, Arranged, Few
  <2>6. mine.favorites \ Exported.favorites \subseteq orphans
    <3>1. Exported.favorites = mine.favorites \cap live
      BY DEF Exported
    <3>2. mine.favorites \ live \subseteq orphans
      BY <2>1 DEF ResourcesInv
    <3>3. QED
      BY <3>1, <3>2
  <2>7. QED
    BY <2>3, <2>5, <2>6 DEF ResourcesSound, AlwaysExportable
<1>2. QED
  BY <1>1, SpecResourcesInv, PTL

-----------------------------------------------------------------------------
(* Friendships.  A transaction writes, several steps later, what it decided on  *)
(* what it read.  Only the locks of both users say that it is still so, up to   *)
(* the removals, which lock nobody but only ever take away: SeenInv.            *)

\* What a transaction has locked, and that who is locked exists.
HasLocks(r) ==
  /\ tx[r].me # tx[r].other
  /\ tx[r].pc = "locking" => lock[LockOrder(tx[r])[1]] = r
  /\ tx[r].pc = "locked" => lock[tx[r].me] = r /\ lock[tx[r].other] = r
Holds(r, u) ==
  /\ tx[r] # None /\ tx[r].pc # "begun" /\ u \in users
  /\ tx[r].pc = "locking" => u = LockOrder(tx[r])[1]
LockInv ==
  /\ \A r \in Request : tx[r] # None => HasLocks(r)
  /\ \A u \in User, r \in Request : lock[u] = r => Holds(r, u)

\* What a transaction has read is still so, but for what was removed since.
StillSeen(t) ==
  /\ rows[t.me][t.other] \in {t.seen.outgoing, "none"}
  /\ rows[t.other][t.me] \in {t.seen.incoming, "none"}
  /\ Cardinality(Active(t.me)) <= t.seen.count
  /\ t.seen.incoming # "none" =>
       Cardinality(Active(t.other) \cup {t.me}) <= MaxOutgoing
SeenInv == \A r \in Request : At(r, "locked") => StillSeen(tx[r])

FriendshipsInv == TypeOK /\ LockInv /\ SeenInv /\ Mutual /\ LimitHolds

-----------------------------------------------------------------------------
(* Sets of users, and the order of the locks *)

LEMMA UserFinite == IsFiniteSet(User) /\ User \subseteq Nat
<1>1. IsFiniteSet(1 .. MaxUserID)
  BY FS_Interval, FriendshipsAssumption
<1>2. IsFiniteSet(User)
  BY <1>1, FS_Subset, FriendshipsAssumption
<1>3. User \subseteq Nat
  BY FriendshipsAssumption
<1> QED
  BY <1>2, <1>3

LEMMA SubsetSize ==
  ASSUME NEW S \in SUBSET User, NEW T \in SUBSET S
  PROVE  /\ Cardinality(S) \in Nat /\ Cardinality(T) \in Nat
         /\ Cardinality(T) <= Cardinality(S)
<1>1. IsFiniteSet(S) /\ IsFiniteSet(T)
  BY UserFinite, FS_Subset
<1> QED
  BY <1>1, FS_Subset, FS_CardinalityType

LEMMA OneMore ==
  ASSUME NEW S \in SUBSET User, NEW u \in User
  PROVE  /\ Cardinality(S) \in Nat
         /\ Cardinality(S \cup {u}) <= Cardinality(S) + 1
<1>1. IsFiniteSet(S)
  BY UserFinite, FS_Subset
<1>2. Cardinality(S) \in Nat
  BY <1>1, FS_CardinalityType
<1> QED
  BY <1>1, <1>2, FS_AddElement

LEMMA OrderIsOrder ==
  ASSUME NEW t \in Transaction
  PROVE  /\ LockOrder(t)[1] \in User /\ LockOrder(t)[2] \in User
         /\ {LockOrder(t)[1], LockOrder(t)[2]} = {t.me, t.other}
         /\ t.me # t.other => LockOrder(t)[1] < LockOrder(t)[2]
<1>1. t.me \in Nat /\ t.other \in Nat /\ t.me \in User /\ t.other \in User
  BY UserFinite DEF Transaction
<1>2. CASE t.me < t.other
  <2>1. LockOrder(t)[1] = t.me /\ LockOrder(t)[2] = t.other
    BY <1>2 DEF LockOrder
  <2> QED
    BY <1>1, <1>2, <2>1
<1>3. CASE ~(t.me < t.other)
  <2>1. LockOrder(t)[1] = t.other /\ LockOrder(t)[2] = t.me
    BY <1>3 DEF LockOrder
  <2> QED
    BY <1>1, <1>3, <2>1
<1> QED
  BY <1>2, <1>3
LEMMA NoneOutside == None \notin Transaction /\ None \notin Request
BY NoneIsNobody

-----------------------------------------------------------------------------
(* The invariant *)

LEMMA InitIInv == Init => FriendshipsInv
<1> SUFFICES ASSUME Init PROVE FriendshipsInv
  OBVIOUS
<1>1. TypeOK
  BY DEF Init, TypeOK, Status
<1>2. LockInv /\ SeenInv
  BY NoneOutside DEF Init, LockInv, SeenInv, At
<1>3. Mutual
  BY DEF Init, Mutual
<1>4. ASSUME NEW u \in User PROVE Cardinality(Active(u)) <= MaxOutgoing
  <2>1. Active(u) = {}
    BY DEF Init, Active
  <2> QED
    BY <2>1, FS_EmptySet, FriendshipsAssumption
<1> QED
  BY <1>1, <1>2, <1>3, <1>4 DEF FriendshipsInv, LimitHolds

\* A locked transaction has locked two different users that exist.
LEMMA LockedFacts ==
  ASSUME FriendshipsInv, NEW r \in Request, At(r, "locked")
  PROVE  /\ tx[r] \in Transaction /\ tx[r].me \in users /\ tx[r].other \in users
         /\ tx[r].me \in User /\ tx[r].other \in User /\ tx[r].me # tx[r].other
         /\ lock[tx[r].me] = r /\ lock[tx[r].other] = r
<1>1. tx[r] \in Transaction
  BY DEF FriendshipsInv, TypeOK, At
<1>2. tx[r].me \in User /\ tx[r].other \in User
  BY <1>1 DEF Transaction
<1> QED
  BY <1>1, <1>2 DEF FriendshipsInv, LockInv, HasLocks, Holds, At

LEMMA SnapshotType ==
  ASSUME TypeOK, NEW me \in User, NEW other \in User
  PROVE  [outgoing |-> rows[me][other], incoming |-> rows[other][me],
          count |-> Cardinality(Active(me))] \in Seen
<1>1. Cardinality(Active(me)) \in Nat
  BY SubsetSize DEF Active
<1> QED
  BY <1>1 DEF Seen, TypeOK

\* What the four operations on a pair write.
LEMMA PutWrites ==
  ASSUME TypeOK, NEW a \in User, NEW b \in User, NEW status \in Status, Put(a, b, status)
  PROVE  /\ rows' \in [User -> [User -> Status]]
         /\ \A u, v \in User :
              rows'[u][v] = IF u = a /\ v = b THEN status ELSE rows[u][v]
BY DEF TypeOK, Put

LEMMA BefriendWrites ==
  ASSUME FriendshipsInv, NEW r \in Request, Befriend(r)
  PROVE  /\ rows' \in [User -> [User -> Status]]
         /\ \A u, v \in User :
              rows'[u][v] = IF \/ u = tx[r].me /\ v = tx[r].other
                               \/ u = tx[r].other /\ v = tx[r].me
                              THEN "accepted" ELSE rows[u][v]
<1>1. /\ tx[r].me \in User /\ tx[r].other \in User /\ tx[r].me # tx[r].other
      /\ rows' = [rows EXCEPT ![tx[r].other][tx[r].me] = "accepted",
                              ![tx[r].me][tx[r].other] = "accepted"]
  BY LockedFacts DEF Befriend, AcceptMutual
<1>2. rows \in [User -> [User -> Status]]
  BY DEF FriendshipsInv, TypeOK
<1> QED
  BY <1>1, <1>2 DEF Status

LEMMA SendWrites ==
  ASSUME FriendshipsInv, NEW r \in Request, SendRequest(r)
  PROVE  /\ rows' \in [User -> [User -> Status]]
         /\ \A u, v \in User :
              rows'[u][v] = IF u = tx[r].me /\ v = tx[r].other
                              THEN "pending" ELSE rows[u][v]
<1>1. tx[r].me \in User /\ tx[r].other \in User
  BY LockedFacts DEF SendRequest
<1> QED
  BY <1>1, PutWrites DEF SendRequest, FriendshipsInv, Status

LEMMA DeletePendingWrites ==
  ASSUME TypeOK, NEW a \in User, NEW b \in User, DeletePending(a, b)
  PROVE  /\ rows' \in [User -> [User -> Status]]
         /\ \A u, v \in User :
              rows'[u][v] = IF u = a /\ v = b /\ rows[u][v] = "pending"
                              THEN "none" ELSE rows[u][v]
<1>1. rows[a][b] \in Status /\ "none" \in Status
  BY DEF TypeOK, Status
<1> QED
  BY <1>1, PutWrites DEF DeletePending

\* An answer deletes one pending row between the two users.
LEMMA AnswerWrites ==
  ASSUME FriendshipsInv, NEW r \in Request, RejectRequest(r) \/ CancelRequest(r)
  PROVE  \E a, b \in User : DeletePending(a, b)
<1>1. tx[r].me \in User /\ tx[r].other \in User
  BY LockedFacts DEF RejectRequest, CancelRequest
<1> QED
  BY <1>1 DEF RejectRequest, CancelRequest

LEMMA TypeStep ==
  ASSUME FriendshipsInv, [Next]_vars
  PROVE  TypeOK'
<1> USE DEF TypeOK, FriendshipsInv, End
<1>1. ASSUME NEW r \in Request, Begin(r) PROVE TypeOK'
  <2> PICK op \in Op, me, other \in users :
        tx' = [tx EXCEPT ![r] = [pc |-> "begun", op |-> op, me |-> me,
                                 other |-> other, seen |-> Nothing]]
    BY <1>1 DEF Begin
  <2>1. [pc |-> "begun", op |-> op, me |-> me, other |-> other, seen |-> Nothing]
          \in Transaction
    BY DEF Transaction, Seen, Nothing, Status
  <2> QED
    BY <1>1, <2>1 DEF Begin
<1>2. ASSUME NEW r \in Request, LockFirst(r) PROVE TypeOK'
  <2>1. tx[r] \in Transaction
    BY <1>2 DEF LockFirst, At
  <2>2. LockOrder(tx[r])[1] \in User
    BY <2>1, OrderIsOrder
  <2>3. [tx[r] EXCEPT !.pc = "locking"] \in Transaction
    BY <2>1 DEF Transaction
  <2> QED
    BY <1>2, <2>2, <2>3 DEF LockFirst, LocksUser
<1>3. ASSUME NEW r \in Request, LockSecond(r) PROVE TypeOK'
  <2> DEFINE seen == [outgoing |-> rows[tx[r].me][tx[r].other],
                      incoming |-> rows[tx[r].other][tx[r].me],
                      count |-> Cardinality(Active(tx[r].me))]
  <2>1. tx[r] \in Transaction
    BY <1>3 DEF LockSecond, At
  <2>2. LockOrder(tx[r])[2] \in User
    BY <2>1, OrderIsOrder
  <2>4. seen \in Seen
    BY <2>1, SnapshotType DEF Transaction
  <2>5. [tx[r] EXCEPT !.pc = "locked", !.seen = seen] \in Transaction
    BY <2>1, <2>4 DEF Transaction
  <2>6. tx' = [tx EXCEPT ![r] = [tx[r] EXCEPT !.pc = "locked", !.seen = seen]]
    BY <1>3 DEF LockSecond
  <2> QED
    BY <1>3, <2>2, <2>5, <2>6 DEF LockSecond, LocksUser
<1>4. ASSUME NEW r \in Request, Befriend(r) \/ SendRequest(r) PROVE TypeOK'
  <2>1. At(r, "locked") /\ End(r) /\ UNCHANGED users
    BY <1>4 DEF Befriend, SendRequest
  <2>2. /\ rows' \in [User -> [User -> Status]]
        /\ \A u, v \in User : \/ rows'[u][v] = rows[u][v]
                              \/ u = tx[r].me /\ v = tx[r].other
                              \/ u = tx[r].other /\ v = tx[r].me
    <3>1. CASE Befriend(r)
      BY <3>1, BefriendWrites
    <3>2. CASE SendRequest(r)
      BY <3>2, SendWrites
    <3> QED
      BY <1>4, <3>1, <3>2
  <2>3. \A u, v \in User : rows'[u][v] # "none" => u # v /\ {u, v} \subseteq users
    BY <2>1, <2>2, LockedFacts
  <2> QED
    BY <2>1, <2>2, <2>3
<1>5. ASSUME NEW r \in Request, RejectRequest(r) \/ CancelRequest(r) PROVE TypeOK'
  <2>1. End(r) /\ UNCHANGED users
    BY <1>5 DEF RejectRequest, CancelRequest
  <2> PICK a \in User, b \in User : DeletePending(a, b)
    BY <1>5, AnswerWrites
  <2>2. /\ rows' \in [User -> [User -> Status]]
        /\ \A u, v \in User : rows'[u][v] \in {rows[u][v], "none"}
    BY DeletePendingWrites
  <2> QED
    BY <2>1, <2>2
<1>6. ASSUME NEW r \in Request, DeleteUser(r) PROVE TypeOK'
  BY <1>6 DEF DeleteUser, Erase, Status
<1>7. ASSUME NEW r \in Request, RollBack(r) PROVE TypeOK'
  BY <1>7 DEF RollBack
<1>8. ASSUME NEW me \in User, NEW other \in User, Remove(me, other) PROVE TypeOK'
  BY <1>8 DEF Remove, Status
<1>9. ASSUME NEW u \in User, DeleteOwnAccount(u) PROVE TypeOK'
  BY <1>9 DEF DeleteOwnAccount, Erase, Status
<1>10. CASE UNCHANGED vars
  BY <1>10 DEF vars
<1> QED
  BY <1>1, <1>2, <1>3, <1>4, <1>5, <1>6, <1>7, <1>8, <1>9, <1>10 DEF Next, RequestStep

\* The lock of a transaction, and what is left of the others'.
LEMMA LockWrites ==
  ASSUME FriendshipsInv, NEW r \in Request, tx[r] \in Transaction, tx[r].pc # "locked",
         NEW u \in User, LocksUser(r, u)
  PROVE  /\ u \in users /\ users' = users /\ lock'[u] = r
         /\ \A v \in User \ {u} : lock'[v] = lock[v]
         /\ \A v \in User, s \in Request \ {r} : lock[v] = s <=> lock'[v] = s
BY NoneOutside DEF LocksUser, FriendshipsInv, TypeOK

LEMMA LockStep ==
  ASSUME FriendshipsInv, [Next]_vars
  PROVE  LockInv'
<1> USE NoneOutside DEF TypeOK, FriendshipsInv, LockInv
<1>1. ASSUME NEW r \in Request, Begin(r) PROVE LockInv'
  BY <1>1 DEF Begin, HasLocks, Holds
<1>2. ASSUME NEW r \in Request, LockFirst(r) PROVE LockInv'
  <2> DEFINE u == LockOrder(tx[r])[1]
  <2>1. tx[r] \in Transaction /\ tx[r] # None /\ tx[r].pc = "begun" /\ HasLocks(r)
    BY <1>2 DEF LockFirst, At
  <2>2. u \in User
    BY <2>1, OrderIsOrder
  <2>3. /\ u \in users /\ users' = users /\ lock'[u] = r
        /\ \A v \in User \ {u} : lock'[v] = lock[v]
        /\ \A v \in User, s \in Request \ {r} : lock[v] = s <=> lock'[v] = s
    BY <1>2, <2>1, <2>2, LockWrites DEF LockFirst
  <2>4. /\ \A s \in Request \ {r} : tx'[s] = tx[s]
        /\ tx'[r] = [tx[r] EXCEPT !.pc = "locking"]
    BY <1>2 DEF LockFirst
  <2>5. /\ tx'[r].pc = "locking" /\ tx'[r].me = tx[r].me /\ tx'[r].other = tx[r].other
        /\ tx'[r] \in Transaction
    BY <2>1, <2>4 DEF Transaction
  <2>6. LockOrder(tx'[r])[1] = u
    BY <2>5 DEF LockOrder
  <2>7. HasLocks(r)'
    BY <2>1, <2>3, <2>5, <2>6 DEF HasLocks
  <2>8. \A s \in Request \ {r} : tx'[s] # None => HasLocks(s)'
    <3> SUFFICES ASSUME NEW s \in Request \ {r}, tx'[s] # None PROVE HasLocks(s)'
      OBVIOUS
    <3>1. tx'[s] = tx[s] /\ tx[s] \in Transaction /\ HasLocks(s)
      BY <2>4
    <3>2. tx[s].me \in User /\ tx[s].other \in User /\ LockOrder(tx[s])[1] \in User
      BY <3>1, OrderIsOrder DEF Transaction
    <3> QED
      BY <2>3, <3>1, <3>2 DEF HasLocks
  <2>9. \A v \in User, s \in Request : lock'[v] = s => Holds(s, v)'
    <3> SUFFICES ASSUME NEW v \in User, NEW s \in Request, lock'[v] = s
                 PROVE  Holds(s, v)'
      OBVIOUS
    <3>1. CASE s # r
      BY <2>3, <2>4, <3>1 DEF Holds
    <3>2. CASE s = r
      <4>1. lock[v] # r
        BY <2>1 DEF Holds
      <4>2. v = u
        BY <2>3, <3>2, <4>1
      <4> QED
        BY <2>3, <2>5, <2>6, <3>2, <4>2 DEF Holds
    <3> QED
      BY <3>1, <3>2
  <2> QED
    BY <2>7, <2>8, <2>9
<1>3. ASSUME NEW r \in Request, LockSecond(r) PROVE LockInv'
  <2> DEFINE u == LockOrder(tx[r])[2]
  <2>1. tx[r] \in Transaction /\ tx[r] # None /\ tx[r].pc = "locking" /\ HasLocks(r)
    BY <1>3 DEF LockSecond, At
  <2>2. /\ LockOrder(tx[r])[1] \in User /\ u \in User
        /\ {LockOrder(tx[r])[1], u} = {tx[r].me, tx[r].other}
        /\ lock[LockOrder(tx[r])[1]] = r
    BY <2>1, OrderIsOrder DEF HasLocks
  <2>3. /\ u \in users /\ users' = users /\ lock'[u] = r
        /\ \A v \in User \ {u} : lock'[v] = lock[v]
        /\ \A v \in User, s \in Request \ {r} : lock[v] = s <=> lock'[v] = s
    BY <1>3, <2>1, <2>2, LockWrites DEF LockSecond
  <2>4. \E seen \in Seen :
          /\ \A s \in Request \ {r} : tx'[s] = tx[s]
          /\ tx'[r] = [tx[r] EXCEPT !.pc = "locked", !.seen = seen]
    BY <1>3, <2>1, SnapshotType DEF LockSecond, Transaction
  <2>5. /\ tx'[r].pc = "locked" /\ tx'[r].me = tx[r].me /\ tx'[r].other = tx[r].other
        /\ tx'[r] # None
    <3>1. tx'[r].pc = "locked" /\ tx'[r].me = tx[r].me /\ tx'[r].other = tx[r].other
      BY <2>1, <2>4 DEF Transaction
    <3>2. tx'[r] \in Transaction
      BY <2>1, <2>4 DEF Transaction
    <3> QED
      BY <3>1, <3>2
  <2>6. lock'[tx[r].me] = r /\ lock'[tx[r].other] = r
    <3>1. lock'[LockOrder(tx[r])[1]] = r
      BY <2>2, <2>3
    <3> HIDE DEF u
    <3> QED
      BY <2>2, <2>3, <3>1
  <2>7. HasLocks(r)'
    BY <2>1, <2>5, <2>6 DEF HasLocks
  <2>8. \A s \in Request \ {r} : tx'[s] # None => HasLocks(s)'
    <3> SUFFICES ASSUME NEW s \in Request \ {r}, tx'[s] # None PROVE HasLocks(s)'
      OBVIOUS
    <3>1. tx'[s] = tx[s] /\ tx[s] \in Transaction /\ HasLocks(s)
      BY <2>4
    <3>2. tx[s].me \in User /\ tx[s].other \in User /\ LockOrder(tx[s])[1] \in User
      BY <3>1, OrderIsOrder DEF Transaction
    <3> QED
      BY <2>3, <3>1, <3>2 DEF HasLocks
  <2>9. \A v \in User, s \in Request : lock'[v] = s => Holds(s, v)'
    <3> SUFFICES ASSUME NEW v \in User, NEW s \in Request, lock'[v] = s
                 PROVE  Holds(s, v)'
      OBVIOUS
    <3>1. CASE s # r
      BY <2>3, <2>4, <3>1 DEF Holds
    <3>2. CASE s = r
      BY <2>3, <2>5, <3>2 DEF Holds
    <3> QED
      BY <3>1, <3>2
  <2> QED
    BY <2>7, <2>8, <2>9
<1>4. ASSUME NEW r \in Request, End(r),
             \A u \in User : u \in users /\ lock[u] # r /\ lock[u] # None => u \in users'
      PROVE  LockInv'
  <2>1. \A s \in Request : tx'[s] # None => s # r /\ tx'[s] = tx[s]
    BY <1>4 DEF End
  <2>2. \A v \in User, s \in Request : lock'[v] = s <=> s # r /\ lock[v] = s
    BY <1>4 DEF End
  <2>3. \A s \in Request : tx'[s] # None => HasLocks(s)'
    <3> SUFFICES ASSUME NEW s \in Request, tx'[s] # None PROVE HasLocks(s)'
      OBVIOUS
    <3>1. s # r /\ tx'[s] = tx[s] /\ tx[s] \in Transaction /\ HasLocks(s)
      BY <2>1
    <3>2. tx[s].me \in User /\ tx[s].other \in User /\ LockOrder(tx[s])[1] \in User
      BY <3>1, OrderIsOrder DEF Transaction
    <3> QED
      BY <2>2, <3>1, <3>2 DEF HasLocks
  <2>4. \A v \in User, s \in Request : lock'[v] = s => Holds(s, v)'
    <3> SUFFICES ASSUME NEW v \in User, NEW s \in Request, lock'[v] = s
                 PROVE  Holds(s, v)'
      OBVIOUS
    <3>1. s # r /\ lock[v] = s /\ Holds(s, v) /\ tx'[s] = tx[s]
      BY <1>4, <2>2 DEF End
    <3> QED
      BY <1>4, <3>1 DEF Holds
  <2> QED
    BY <2>3, <2>4
<1>5. ASSUME NEW r \in Request, DeleteUser(r) PROVE LockInv'
  <2>1. tx[r].other \in User /\ lock[tx[r].other] = r
    BY <1>5, LockedFacts DEF DeleteUser
  <2>2. \A u \in User : u \in users /\ lock[u] # r /\ lock[u] # None => u \in users'
    BY <1>5, <2>1 DEF DeleteUser, Erase
  <2> QED
    BY <1>4, <1>5, <2>2 DEF DeleteUser
<1>6. ASSUME NEW u \in User, DeleteOwnAccount(u) PROVE LockInv'
  BY <1>6 DEF DeleteOwnAccount, Erase, HasLocks, Holds
<1>7. CASE UNCHANGED <<users, lock, tx>>
  BY <1>7 DEF HasLocks, Holds
<1>8. ASSUME NEW r \in Request, End(r), UNCHANGED users PROVE LockInv'
  BY <1>4, <1>8
<1> QED
  BY <1>1, <1>2, <1>3, <1>5, <1>6, <1>7, <1>8
  DEF Next, RequestStep, Befriend, SendRequest, RejectRequest, CancelRequest,
      RollBack, Remove, vars

\* Whoever does not write rows that a request locked only takes rows away.
OnlyTakes(u) == \A v \in User : rows'[u][v] \in {rows[u][v], "none"}

\* The steps that write no row of a friendship but "none".
LEMMA OthersOnlyTake ==
  ASSUME FriendshipsInv, [Next]_vars,
         ~ \E r \in Request : Befriend(r) \/ SendRequest(r)
  PROVE  \A u \in User : OnlyTakes(u)
<1>1. ASSUME NEW r \in Request, RejectRequest(r) \/ CancelRequest(r)
      PROVE  \A u \in User : OnlyTakes(u)
  <2> PICK a \in User, b \in User : DeletePending(a, b)
    BY <1>1, AnswerWrites
  <2> QED
    BY DeletePendingWrites DEF OnlyTakes, FriendshipsInv
<1>2. ASSUME NEW r \in Request, DeleteUser(r) PROVE \A u \in User : OnlyTakes(u)
  BY <1>2 DEF DeleteUser, Erase, OnlyTakes
<1>3. ASSUME NEW a \in User, NEW b \in User, Remove(a, b)
      PROVE  \A u \in User : OnlyTakes(u)
  BY <1>3 DEF Remove, OnlyTakes, FriendshipsInv, TypeOK
<1>4. ASSUME NEW x \in User, DeleteOwnAccount(x) PROVE \A u \in User : OnlyTakes(u)
  BY <1>4 DEF DeleteOwnAccount, Erase, OnlyTakes
<1>5. CASE UNCHANGED rows
  BY <1>5 DEF OnlyTakes
<1> QED
  BY <1>1, <1>2, <1>3, <1>4, <1>5
  DEF Next, RequestStep, Begin, LockFirst, LockSecond, LocksUser, RollBack, vars

\* The rows of a user that a transaction has locked are written by nobody else.
LEMMA LockedRows ==
  ASSUME FriendshipsInv, [Next]_vars, NEW r \in Request, At(r, "locked"), tx'[r] = tx[r],
         NEW u \in User, lock[u] = r
  PROVE  OnlyTakes(u)
<1>1. ASSUME NEW s \in Request, Befriend(s) \/ SendRequest(s) PROVE OnlyTakes(u)
  <2>1. At(s, "locked") /\ End(s)
    BY <1>1 DEF Befriend, SendRequest
  <2>2. s # r
    BY <2>1, NoneOutside DEF End, At, FriendshipsInv, TypeOK
  <2>3. u # tx[s].me /\ u # tx[s].other
    BY <2>1, <2>2, LockedFacts
  <2>4. CASE Befriend(s)
    BY <2>3, <2>4, BefriendWrites DEF OnlyTakes
  <2>5. CASE SendRequest(s)
    BY <2>3, <2>5, SendWrites DEF OnlyTakes
  <2> QED
    BY <1>1, <2>4, <2>5
<1> QED
  BY <1>1, OthersOnlyTake

\* Who only loses rows does not get nearer to the limit.
LEMMA ActiveShrinks ==
  ASSUME NEW u \in User, OnlyTakes(u)
  PROVE  /\ Active(u)' \in SUBSET Active(u) /\ Active(u) \in SUBSET User
         /\ Cardinality(Active(u)) \in Nat /\ Cardinality(Active(u)') \in Nat
         /\ Cardinality(Active(u)') <= Cardinality(Active(u))
<1>1. Active(u)' \in SUBSET Active(u) /\ Active(u) \in SUBSET User
  BY DEF OnlyTakes, Active
<1> QED
  BY <1>1, SubsetSize

\* Only the second lock makes a transaction locked, and it writes no rows.
LEMMA BecomesLocked ==
  ASSUME FriendshipsInv, [Next]_vars, NEW r \in Request, At(r, "locked")', tx'[r] # tx[r]
  PROVE  LockSecond(r)
<1> USE NoneOutside DEF At, FriendshipsInv, TypeOK
<1>1. ASSUME NEW s \in Request, Begin(s) PROVE FALSE
  <2> PICK op \in Op, me, other \in users :
        tx' = [tx EXCEPT ![s] = [pc |-> "begun", op |-> op, me |-> me,
                                 other |-> other, seen |-> Nothing]]
    BY <1>1 DEF Begin
  <2> QED
    OBVIOUS
<1>2. ASSUME NEW s \in Request, LockFirst(s) PROVE FALSE
  <2>1. tx' = [tx EXCEPT ![s] = [tx[s] EXCEPT !.pc = "locking"]] /\ tx[s] \in Transaction
    BY <1>2 DEF LockFirst
  <2>2. s = r /\ tx'[r].pc = "locking"
    BY <2>1 DEF Transaction
  <2> QED
    BY <2>2
<1>3. ASSUME NEW s \in Request, LockSecond(s), s # r PROVE FALSE
  BY <1>3 DEF LockSecond
<1>4. ASSUME NEW s \in Request, End(s) PROVE FALSE
  BY <1>4 DEF End
<1>5. CASE UNCHANGED tx
  BY <1>5
<1> QED
  BY <1>1, <1>2, <1>3, <1>4, <1>5
  DEF Next, RequestStep, Befriend, SendRequest, RejectRequest, CancelRequest,
      DeleteUser, RollBack, Remove, DeleteOwnAccount, vars

LEMMA SeenStep ==
  ASSUME FriendshipsInv, [Next]_vars
  PROVE  SeenInv'
<1> SUFFICES ASSUME NEW r \in Request, At(r, "locked")' PROVE StillSeen(tx[r])'
  BY DEF SeenInv
<1>1. CASE tx'[r] = tx[r]
  <2>1. At(r, "locked")
    BY <1>1 DEF At
  <2> PICK me \in User, other \in User, seen \in Seen :
        tx[r].me = me /\ tx[r].other = other /\ tx[r].seen = seen
    BY <2>1, LockedFacts DEF Transaction
  <2>2. /\ lock[me] = r /\ lock[other] = r
        /\ rows[me][other] \in {seen.outgoing, "none"}
        /\ rows[other][me] \in {seen.incoming, "none"}
        /\ Cardinality(Active(me)) <= seen.count
        /\ seen.incoming # "none" => Cardinality(Active(other) \cup {me}) <= MaxOutgoing
    BY <2>1, LockedFacts DEF FriendshipsInv, SeenInv, StillSeen
  <2>3. OnlyTakes(me) /\ OnlyTakes(other)
    BY <1>1, <2>1, <2>2, LockedRows
  <2>4. rows'[me][other] \in {seen.outgoing, "none"} /\ rows'[other][me] \in {seen.incoming, "none"}
    BY <2>2, <2>3 DEF OnlyTakes
  <2>5. Cardinality(Active(me)') <= seen.count
    BY <2>2, <2>3, ActiveShrinks DEF Seen
  <2>6. ASSUME seen.incoming # "none"
        PROVE  Cardinality(Active(other)' \cup {me}) <= MaxOutgoing
    <3> DEFINE S == Active(other) \cup {me}
               T == Active(other)' \cup {me}
    <3>1. S \in SUBSET User /\ T \in SUBSET S
      BY <2>2, <2>3, ActiveShrinks
    <3>2. Cardinality(S) <= MaxOutgoing
      BY <2>2, <2>6
    <3> HIDE DEF S, T
    <3>3. Cardinality(T) <= MaxOutgoing
      BY <3>1, <3>2, SubsetSize, FriendshipsAssumption
    <3> QED
      BY <3>3 DEF T
  <2>7. Active(tx[r].me)' = Active(me)' /\ Active(tx[r].other)' = Active(other)'
    BY <1>1 DEF Active
  <2> QED
    BY <1>1, <2>4, <2>5, <2>6, <2>7 DEF StillSeen
<1>2. CASE tx'[r] # tx[r]
  <2>1. LockSecond(r) /\ tx[r] \in Transaction
    BY <1>2, BecomesLocked DEF LockSecond, At, FriendshipsInv, TypeOK
  <2> PICK me \in User, other \in User : tx[r].me = me /\ tx[r].other = other
    BY <2>1 DEF Transaction
  <2>2. /\ rows' = rows /\ tx'[r].me = me /\ tx'[r].other = other
        /\ tx'[r].seen = [outgoing |-> rows[me][other], incoming |-> rows[other][me],
                           count |-> Cardinality(Active(me))]
    BY <2>1 DEF LockSecond, LocksUser, FriendshipsInv, TypeOK, Transaction
  <2>4. Active(tx[r].me)' = Active(me) /\ Active(tx[r].other)' = Active(other)
    BY <2>2 DEF Active
  <2>5. Cardinality(Active(me)) \in Nat
    BY SubsetSize DEF Active
  <2>6. ASSUME rows[other][me] # "none"
        PROVE  Cardinality(Active(other) \cup {me}) <= MaxOutgoing
    <3>1. Active(other) \cup {me} = Active(other)
      BY <2>6 DEF Active
    <3> QED
      BY <3>1 DEF FriendshipsInv, LimitHolds
  <2> QED
    BY <2>2, <2>4, <2>5, <2>6 DEF StillSeen
<1> QED
  BY <1>1, <1>2

LEMMA MutualStep ==
  ASSUME FriendshipsInv, [Next]_vars
  PROVE  Mutual'
<1>1. ASSUME NEW r \in Request, Befriend(r) PROVE Mutual'
  BY <1>1, BefriendWrites DEF Mutual, FriendshipsInv
<1>2. ASSUME NEW r \in Request, SendRequest(r) PROVE Mutual'
  <2>1. /\ tx[r].me \in User /\ tx[r].other \in User /\ tx[r].me # tx[r].other
        /\ rows[tx[r].other][tx[r].me] = "none"
    BY <1>2, LockedFacts DEF SendRequest, FriendshipsInv, SeenInv, StillSeen
  <2> QED
    BY <1>2, <2>1, SendWrites DEF Mutual, FriendshipsInv
<1>3. ASSUME NEW r \in Request, RejectRequest(r) \/ CancelRequest(r) PROVE Mutual'
  <2> PICK a \in User, b \in User : DeletePending(a, b)
    BY <1>3, AnswerWrites
  <2> QED
    BY DeletePendingWrites DEF Mutual, FriendshipsInv
<1>4. ASSUME NEW r \in Request, DeleteUser(r) PROVE Mutual'
  BY <1>4 DEF DeleteUser, Erase, Mutual, FriendshipsInv
<1>5. ASSUME NEW a \in User, NEW b \in User, Remove(a, b) PROVE Mutual'
  BY <1>5 DEF Remove, Mutual, FriendshipsInv, TypeOK
<1>6. ASSUME NEW u \in User, DeleteOwnAccount(u) PROVE Mutual'
  BY <1>6 DEF DeleteOwnAccount, Erase, Mutual, FriendshipsInv
<1>7. CASE UNCHANGED rows
  BY <1>7 DEF Mutual, FriendshipsInv
<1> QED
  BY <1>1, <1>2, <1>3, <1>4, <1>5, <1>6, <1>7
  DEF Next, RequestStep, Begin, LockFirst, LockSecond, LocksUser, RollBack, vars

LEMMA LimitStep ==
  ASSUME FriendshipsInv, [Next]_vars
  PROVE  LimitHolds'
<1> SUFFICES ASSUME NEW u \in User PROVE Cardinality(Active(u)') <= MaxOutgoing
  BY DEF LimitHolds
<1>1. CASE OnlyTakes(u)
  BY <1>1, ActiveShrinks, FriendshipsAssumption DEF FriendshipsInv, LimitHolds
<1>2. ASSUME NEW r \in Request, Befriend(r) \/ SendRequest(r)
      PROVE  Cardinality(Active(u)') <= MaxOutgoing
  <2> DEFINE me == tx[r].me
             other == tx[r].other
  <2>1. /\ me \in User /\ other \in User /\ me # other
        /\ StillSeen(tx[r]) /\ tx[r].seen.count \in Nat
    BY <1>2, LockedFacts
    DEF Befriend, SendRequest, FriendshipsInv, SeenInv, Transaction, Seen
  <2>2. CASE u = me
    <3>1. Active(u) \in SUBSET User /\ Active(u)' \in SUBSET (Active(u) \cup {other})
      BY <1>2, <2>1, <2>2, BefriendWrites, SendWrites DEF Active
    <3>2. Cardinality(Active(u)) < MaxOutgoing
      <4>1. Cardinality(Active(u)) <= tx[r].seen.count
        BY <2>1, <2>2 DEF StillSeen
      <4>2. tx[r].seen.count < MaxOutgoing
        BY <1>2 DEF Befriend, SendRequest, HasSlot
      <4>3. Cardinality(Active(u)) \in Nat
        BY <3>1, SubsetSize
      <4> QED
        BY <2>1, <4>1, <4>2, <4>3, FriendshipsAssumption
    <3>3. Cardinality(Active(u) \cup {other}) <= Cardinality(Active(u)) + 1
          /\ Cardinality(Active(u)) \in Nat
      BY <2>1, <3>1, OneMore
    <3>4. /\ Cardinality(Active(u) \cup {other}) \in Nat /\ Cardinality(Active(u)') \in Nat
          /\ Cardinality(Active(u)') <= Cardinality(Active(u) \cup {other})
      BY <2>1, <3>1, SubsetSize
    <3> QED
      BY <3>2, <3>3, <3>4, FriendshipsAssumption
  <2>3. CASE u = other /\ Befriend(r)
    <3> DEFINE S == Active(u) \cup {me}
    <3>1. S \in SUBSET User /\ Active(u)' \in SUBSET S
      BY <2>1, <2>3, BefriendWrites DEF Active
    <3>2. Cardinality(S) <= MaxOutgoing
      BY <2>1, <2>3 DEF Befriend, StillSeen
    <3> HIDE DEF S
    <3> QED
      BY <3>1, <3>2, SubsetSize, FriendshipsAssumption
  <2>4. CASE u # me /\ (u = other => SendRequest(r))
    <3>1. OnlyTakes(u)
      BY <1>2, <2>1, <2>4, BefriendWrites, SendWrites DEF OnlyTakes
    <3> QED
      BY <1>1, <3>1
  <2> QED
    BY <1>2, <2>2, <2>3, <2>4
<1> QED
  BY <1>1, <1>2, OthersOnlyTake

LEMMA StepIInv == FriendshipsInv /\ [Next]_vars => FriendshipsInv'
BY TypeStep, LockStep, SeenStep, MutualStep, LimitStep DEF FriendshipsInv

-----------------------------------------------------------------------------
(* Theorems *)

\* The invariant: the tables, what is locked, and what stays true of a snapshot.
THEOREM SpecFriendshipsInv == Spec => []FriendshipsInv
<1> QED
  BY InitIInv, StepIInv, PTL DEF Spec

\* The types, and that rows are only between two different users that exist.
THEOREM SpecFriendshipsTypeOK == Spec => []TypeOK
<1>1. FriendshipsInv => TypeOK
  BY DEF FriendshipsInv
<1> QED
  BY <1>1, SpecFriendshipsInv, PTL

\* Friendships are mutual and requests never cross.
THEOREM SpecMutual == Spec => []Mutual
<1>1. FriendshipsInv => Mutual
  BY DEF FriendshipsInv
<1> QED
  BY <1>1, SpecFriendshipsInv, PTL

\* The limit of outgoing rows holds for every user.
THEOREM SpecLimitHolds == Spec => []LimitHolds
<1>1. FriendshipsInv => LimitHolds
  BY DEF FriendshipsInv
<1> QED
  BY <1>1, SpecFriendshipsInv, PTL

\* A request that is waited for and waits itself wants a larger id.
LEMMA WaitsUpwards ==
  ASSUME TypeOK, LockInv, NEW r \in Request, NEW s \in Request, NEW q \in Request,
         WaitsFor(r, s), WaitsFor(s, q)
  PROVE  Wanted(r) < Wanted(s)
<1> USE NoneOutside DEF TypeOK
<1>1. tx[r] \in Transaction /\ tx[s] \in Transaction
  BY DEF WaitsFor, At
<1>2. Wanted(r) \in User
  BY <1>1, OrderIsOrder DEF Wanted
<1>3. lock[Wanted(r)] = s
  BY DEF WaitsFor
<1>4. Holds(s, Wanted(r)) /\ HasLocks(s)
  BY <1>1, <1>2, <1>3 DEF LockInv
<1>5. tx[s].pc = "locking" /\ Wanted(r) = LockOrder(tx[s])[1]
  BY <1>4 DEF WaitsFor, At, Holds
<1>6. Wanted(s) = LockOrder(tx[s])[2]
  BY <1>5 DEF Wanted
<1> QED
  BY <1>1, <1>4, <1>5, <1>6, OrderIsOrder DEF HasLocks

\* No group of requests waits in a circle.
LEMMA NoCircle ==
  ASSUME TypeOK, LockInv
  PROVE  NoDeadlock
<1> SUFFICES ASSUME NEW S \in SUBSET Request, S # {},
                    \A r \in S : \E s \in S : WaitsFor(r, s)
             PROVE  FALSE
  BY DEF NoDeadlock
<1> DEFINE Above == {MaxUserID - Wanted(r) : r \in S}
           Less == OpToRel(<, Nat)
<1>1. \A r \in S : Wanted(r) \in 1 .. MaxUserID
  <2> SUFFICES ASSUME NEW r \in S PROVE Wanted(r) \in User
    BY FriendshipsAssumption
  <2>1. tx[r] \in Transaction
    BY DEF WaitsFor, At, TypeOK
  <2> QED
    BY <2>1, OrderIsOrder DEF Wanted
<1>2. Above \subseteq Nat /\ Above # {}
  BY <1>1, FriendshipsAssumption
<1>3. PICK x \in Above : \A y \in Above : <<y, x>> \notin Less
  <2> HIDE DEF Above, Less
  <2>1. IsWellFoundedOn(Less, Nat)
    BY NatLessThanWellFounded DEF Less
  <2> QED
    BY <1>2, <2>1, WFMin
<1>4. PICK r \in S : x = MaxUserID - Wanted(r)
  OBVIOUS
<1>5. PICK s \in S : WaitsFor(r, s)
  OBVIOUS
<1>6. PICK q \in S : WaitsFor(s, q)
  OBVIOUS
<1>7. Wanted(r) < Wanted(s)
  BY <1>5, <1>6, WaitsUpwards
<1>8. MaxUserID - Wanted(s) \in Above /\ MaxUserID - Wanted(s) < x
  BY <1>1, <1>4, <1>7, FriendshipsAssumption
<1>9. <<MaxUserID - Wanted(s), x>> \in Less
  BY <1>2, <1>8 DEF OpToRel
<1> QED
  BY <1>3, <1>8, <1>9

\* Requests never deadlock over the rows of users.
THEOREM SpecNoDeadlock == Spec => []NoDeadlock
<1>1. FriendshipsInv => NoDeadlock
  BY NoCircle DEF FriendshipsInv
<1> QED
  BY <1>1, SpecFriendshipsInv, PTL
=============================================================================
