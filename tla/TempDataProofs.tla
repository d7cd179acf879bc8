---------------------------- MODULE TempDataProofs ----------------------------
(* Proofs about TempData: what commits may rely on, that the store keeps the    *)
(* promise of TempStore, and that its counts and its limits are right.  Sums    *)
(* over sets have lemmas of their own; their inductions take a smallest set for *)
(* which the claim is false.                                                    *)
EXTENDS TempData, FiniteSetTheorems, WellFoundedInduction, TLAPS

\* A store without its counts: the heap holds exactly what the map holds, and
\* only what is stored is claimed.
Good(s) ==
  /\ s = [entry |-> s.entry, claimed |-> s.claimed, byIP |-> s.byIP,
          heap |-> s.heap, bytes |-> s.bytes]
  /\ s.entry \in [Token -> Entry \cup {None}]
  /\ s.heap = {[token |-> t, expires |-> s.entry[t].expires] : t \in Held(s)}
  /\ s.claimed \subseteq Held(s)

\* One commit each, its claim on what is still stored, and what it has done.
CommitInv ==
  /\ commit \in [Request -> [pc : {"idle", "registering", "succeeded", "failed"},
                             token : Token \cup {None}]]
  /\ \A r \in Request :
       IF commit[r].pc = "idle" THEN commit[r].token = None
       ELSE /\ commit[r].token \in Token
            /\ issued[commit[r].token] # None
            /\ store.entry[commit[r].token] # None => commit[r].token \in store.claimed
            /\ \A q \in Request : commit[q].token = commit[r].token => q = r
  /\ \A r \in Request : commit[r].pc = "succeeded" => commit[r].token \in succeeded

\* Every upload that is still due is stored, and every claim has its commit.
UploadInv ==
  /\ issued \in [Token -> Nat \cup {None}] /\ succeeded \subseteq Token /\ now \in Nat
  /\ \A t \in Token : store.entry[t] # None => issued[t] = store.entry[t].expires
  /\ \A t \in Token : issued[t] # None /\ issued[t] > now /\ t \notin succeeded
       => store.entry[t] # None
  /\ \A t \in succeeded : issued[t] # None
  /\ \A t \in store.claimed : \E r \in Request : commit[r].token = t
  /\ \A t \in succeeded : store.entry[t] # None
       => \E r \in Request : commit[r].pc = "succeeded" /\ commit[r].token = t

IInv == Good(store) /\ CommitInv /\ UploadInv

\* What a step may do to an upload: nothing, or its end; or it is issued, taken,
\* used or given back.
Stays(t) ==
  /\ issued'[t] = None <=> issued[t] = None
  /\ t \in succeeded' <=> t \in succeeded
  /\ \/ /\ store'.entry[t] = None <=> store.entry[t] = None
        /\ t \in store'.claimed <=> t \in store.claimed
     \/ store'.entry[t] = None /\ t \notin store'.claimed
Issued(t) ==
  /\ issued[t] = None /\ issued'[t] # None
  /\ store'.entry[t] # None /\ t \notin store'.claimed
Taken(t) ==
  /\ store.entry[t] # None /\ t \notin store.claimed
  /\ store'.entry[t] # None /\ t \in store'.claimed
  /\ issued'[t] = issued[t] /\ t \notin succeeded /\ t \notin succeeded'
Used(t) ==
  /\ store.entry[t] # None => t \in store.claimed
  /\ UNCHANGED <<store, issued>> /\ issued[t] # None
  /\ t \in succeeded'
GivenBack(t) ==
  /\ store.entry[t] # None /\ t \in store.claimed
  /\ store'.entry[t] # None /\ t \notin store'.claimed
  /\ issued'[t] = issued[t] /\ t \notin succeeded /\ t \notin succeeded'
MoveOf(t) == Stays(t) \/ Issued(t) \/ Taken(t) \/ Used(t) \/ GivenBack(t)

-----------------------------------------------------------------------------
(* The operations of the repository on a good store *)

LEMMA NoneOutside == None \notin Token /\ None \notin Entry /\ None \notin Nat
BY TempDataAssumption, NoneIsNoEntry

LEMMA EmptyGood == Good(Empty) /\ Held(Empty) = {}
<1>1. Held(Empty) = {}
  BY DEF Held, Empty
<1> QED
  BY <1>1 DEF Good, Empty

LEMMA DeletedGood ==
  ASSUME NEW s, Good(s), NEW T \in SUBSET Held(s)
  PROVE  /\ Good(Deleted(s, T))
         /\ \A t \in Token : Deleted(s, T).entry[t] = IF t \in T THEN None ELSE s.entry[t]
         /\ Deleted(s, T).claimed = s.claimed \ T
<1> DEFINE d == Deleted(s, T)
<1>1. /\ d.entry = [t \in Token |-> IF t \in T THEN None ELSE s.entry[t]]
      /\ d.claimed = s.claimed \ T
      /\ d.heap = {h \in s.heap : h.token \notin T}
      /\ d = [entry |-> d.entry, claimed |-> d.claimed, byIP |-> d.byIP,
              heap |-> d.heap, bytes |-> d.bytes]
  BY DEF Deleted
<1> HIDE DEF d
<1>2. Held(d) = Held(s) \ T
  BY <1>1 DEF Held
<1>3. d.entry \in [Token -> Entry \cup {None}]
  BY <1>1 DEF Good
<1>4. d.heap = {[token |-> t, expires |-> s.entry[t].expires] : t \in Held(s) \ T}
  BY <1>1 DEF Good
<1>5. d.heap = {[token |-> t, expires |-> d.entry[t].expires] : t \in Held(d)}
  <2>1. \A t \in Held(d) : d.entry[t] = s.entry[t]
    BY <1>1, <1>2 DEF Held
  <2> QED
    BY <1>2, <1>4, <2>1
<1>6. Good(d)
  BY <1>1, <1>2, <1>3, <1>5 DEF Good
<1> QED
  BY <1>1, <1>6 DEF d

\* What is due now, and nothing else, goes.
LEMMA CleanedGood ==
  ASSUME NEW s, Good(s)
  PROVE  /\ Good(Cleaned(s))
         /\ \A t \in Token : Cleaned(s).entry[t] =
              IF s.entry[t] # None /\ s.entry[t].expires <= now THEN None ELSE s.entry[t]
         /\ \A t \in Token : t \in Cleaned(s).claimed
              <=> t \in s.claimed /\ ~(s.entry[t].expires <= now)
<1> DEFINE T == Expired(s) \cap Held(s)
<1>1. \A t \in Token : t \in T <=> s.entry[t] # None /\ s.entry[t].expires <= now
  <2>1. \A h \in s.heap : h.token \in Held(s) /\ h.expires = s.entry[h.token].expires
    BY DEF Good
  <2>2. \A t \in Held(s) : \E h \in s.heap : h.token = t
    <3> SUFFICES ASSUME NEW t \in Held(s) PROVE \E h \in s.heap : h.token = t
      OBVIOUS
    <3>1. [token |-> t, expires |-> s.entry[t].expires] \in s.heap
      BY DEF Good
    <3> QED
      BY <3>1
  <2>3. \A t \in Token : t \in Expired(s) <=> \E h \in s.heap : h.expires <= now /\ h.token = t
    BY DEF Expired
  <2> QED
    BY <2>1, <2>2, <2>3 DEF Held
<1>2. T \in SUBSET Held(s) /\ s.claimed \subseteq Held(s) /\ Held(s) \subseteq Token
  BY DEF Good, Held
<1>3. Cleaned(s) = Deleted(s, T)
  BY DEF Cleaned
<1> HIDE DEF T
<1> QED
  BY <1>1, <1>2, <1>3, DeletedGood DEF Held

LEMMA InsertedGood ==
  ASSUME NEW s, Good(s), NEW t \in Token, s.entry[t] = None, NEW e \in Entry
  PROVE  /\ Good(Inserted(s, t, e))
         /\ \A x \in Token : Inserted(s, t, e).entry[x] = IF x = t THEN e ELSE s.entry[x]
         /\ Inserted(s, t, e).claimed = s.claimed
<1> DEFINE i == Inserted(s, t, e)
<1>1. /\ i.entry = [s.entry EXCEPT ![t] = e]
      /\ i.claimed = s.claimed
      /\ i.heap = s.heap \cup {[token |-> t, expires |-> e.expires]}
      /\ i = [entry |-> i.entry, claimed |-> i.claimed, byIP |-> i.byIP,
              heap |-> i.heap, bytes |-> i.bytes]
  BY DEF Inserted
<1> HIDE DEF i
<1>2. /\ i.entry \in [Token -> Entry \cup {None}]
      /\ \A x \in Token : i.entry[x] = IF x = t THEN e ELSE s.entry[x]
  BY <1>1 DEF Good
<1>3. Held(i) = Held(s) \cup {t}
  BY <1>2, NoneOutside DEF Held
<1>4. i.heap = {[token |-> x, expires |-> i.entry[x].expires] : x \in Held(i)}
  <2>1. \A x \in Held(s) : i.entry[x] = s.entry[x]
    BY <1>2 DEF Held
  <2>2. i.entry[t] = e
    BY <1>2
  <2>3. s.heap = {[token |-> x, expires |-> s.entry[x].expires] : x \in Held(s)}
    BY DEF Good
  <2> QED
    BY <1>1, <1>3, <2>1, <2>2, <2>3
<1>5. Good(i)
  BY <1>1, <1>2, <1>3, <1>4 DEF Good
<1> QED
  BY <1>1, <1>2, <1>5 DEF i

LEMMA ClaimsGood ==
  ASSUME NEW s, Good(s), NEW t \in Token, s.entry[t] # None
  PROVE  /\ Good(Claimed(s, t)) /\ Good(Released(s, t))
         /\ Claimed(s, t).entry = s.entry /\ Released(s, t).entry = s.entry
         /\ Claimed(s, t).claimed = s.claimed \cup {t}
         /\ Released(s, t).claimed = s.claimed \ {t}
<1> DEFINE c == Claimed(s, t)
           l == Released(s, t)
<1>1. /\ c = [entry |-> s.entry, claimed |-> s.claimed \cup {t}, byIP |-> s.byIP,
              heap |-> s.heap, bytes |-> s.bytes]
      /\ l = [entry |-> s.entry, claimed |-> s.claimed \ {t}, byIP |-> s.byIP,
              heap |-> s.heap, bytes |-> s.bytes]
  <2>1. PICK en, cl, by, hp, bt :
          s = [entry |-> en, claimed |-> cl, byIP |-> by, heap |-> hp, bytes |-> bt]
    BY DEF Good
  <2> QED
    BY <2>1 DEF Claimed, Released
<1> HIDE DEF c, l
<1>2. Held(c) = Held(s) /\ Held(l) = Held(s) /\ t \in Held(s)
  BY <1>1 DEF Held
<1>3. Good(c) /\ Good(l)
  BY <1>1, <1>2 DEF Good
<1> QED
  BY <1>1, <1>3 DEF c, l

\* The same about the store, where the entries expire when their tokens do.
LEMMA CleanedStore ==
  ASSUME IInv
  PROVE  /\ Good(Cleaned(store))
         /\ \A t \in Token : Cleaned(store).entry[t] =
              IF store.entry[t] # None /\ issued[t] <= now THEN None ELSE store.entry[t]
         /\ \A t \in Token : t \in Cleaned(store).claimed
              <=> t \in store.claimed /\ ~(issued[t] <= now)
         /\ \A t \in store.claimed : t \in Token /\ store.entry[t] # None
<1>1. \A t \in store.claimed : t \in Token /\ store.entry[t] # None
  BY DEF IInv, Good, Held
<1>2. \A t \in Token : store.entry[t] # None => store.entry[t].expires = issued[t]
  BY DEF IInv, UploadInv
<1> QED
  BY <1>1, <1>2, CleanedGood DEF IInv

-----------------------------------------------------------------------------
(* The invariant *)

LEMMA InitIInv == Init => IInv
<1> SUFFICES ASSUME Init PROVE IInv
  OBVIOUS
<1>1. Good(store) /\ \A t \in Token : store.entry[t] = None
  BY EmptyGood DEF Init, Empty
<1>2. CommitInv
  BY DEF Init, CommitInv, Idle
<1>3. store.claimed = {}
  BY DEF Init, Empty
<1>4. UploadInv
  BY <1>1, <1>3 DEF Init, UploadInv
<1> QED
  BY <1>1, <1>2, <1>4 DEF IInv

LEMMA CreateStep ==
  ASSUME IInv, NEW t \in Token, NEW ip \in IP, NEW size \in Size, Create(t, ip, size)
  PROVE  IInv' /\ \A x \in Token : MoveOf(x)
<1> DEFINE s == Cleaned(store)
<1> USE NoneOutside, TempDataAssumption
<1>1. PICK created \in 0 .. now :
        LET e == [ip |-> ip, size |-> size, expires |-> created + TTL]
        IN IF Fits(s, ip, size)
           THEN store' = Inserted(s, t, e) /\ issued' = [issued EXCEPT ![t] = e.expires]
           ELSE store' = s /\ issued' = issued
  BY DEF Create
<1> DEFINE e == [ip |-> ip, size |-> size, expires |-> created + TTL]
<1>2. issued[t] = None /\ UNCHANGED <<now, commit, succeeded>> /\ now \in Nat
  BY DEF Create, IInv, UploadInv
<1>3. e \in Entry /\ e.expires \in Nat
  BY <1>2 DEF Entry
<1>4. /\ Good(s) /\ store.entry[t] = None /\ s.entry[t] = None
      /\ \A x \in Token : s.entry[x] =
              IF store.entry[x] # None /\ issued[x] <= now THEN None ELSE store.entry[x]
      /\ \A x \in Token : x \in s.claimed <=> x \in store.claimed /\ ~(issued[x] <= now)
      /\ s.claimed \subseteq Token
  <2>1. store.entry[t] = None
    BY <1>2 DEF IInv, UploadInv, Good, Entry
  <2> QED
    BY <2>1, CleanedStore DEF Good, Held
<1> HIDE DEF s, e
<1>5. CASE store' = s /\ issued' = issued
  <2>1. Good(store)'
    BY <1>4, <1>5
  <2>2. CommitInv'
    BY <1>2, <1>4, <1>5 DEF IInv, CommitInv
  <2>3. UploadInv'
    BY <1>2, <1>4, <1>5 DEF IInv, UploadInv
  <2>4. \A x \in Token : MoveOf(x)
    BY <1>2, <1>4, <1>5 DEF MoveOf, Stays
  <2> QED
    BY <2>1, <2>2, <2>3, <2>4 DEF IInv
<1>6. CASE store' = Inserted(s, t, e) /\ issued' = [issued EXCEPT ![t] = e.expires]
  <2>1. /\ Good(store)'
        /\ \A x \in Token : store'.entry[x] = IF x = t THEN e ELSE s.entry[x]
        /\ store'.claimed = s.claimed
    BY <1>3, <1>4, <1>6, InsertedGood
  <2>2. /\ issued' \in [Token -> Nat \cup {None}] /\ issued'[t] = e.expires
        /\ \A x \in Token : x # t => issued'[x] = issued[x]
    BY <1>3, <1>6 DEF IInv, UploadInv
  <2>3. CommitInv'
    BY <1>2, <1>4, <2>1, <2>2 DEF IInv, CommitInv
  <2>4. UploadInv'
    BY <1>2, <1>3, <1>4, <2>1, <2>2 DEF IInv, UploadInv
  <2>5. \A x \in Token : MoveOf(x)
    <3>1. t \notin s.claimed
      BY <1>4 DEF Good, Held
    <3>2. Issued(t)
      BY <1>2, <1>3, <1>4, <2>1, <2>2, <3>1 DEF Issued
    <3>3. \A x \in Token : x # t => Stays(x)
      BY <1>2, <1>4, <2>1, <2>2 DEF Stays
    <3> QED
      BY <3>2, <3>3 DEF MoveOf
  <2> QED
    BY <2>1, <2>3, <2>4, <2>5 DEF IInv
<1> QED
  BY <1>1, <1>5, <1>6 DEF e

LEMMA ClaimStep ==
  ASSUME IInv, NEW r \in Request, NEW t \in Token, Claim(r, t)
  PROVE  IInv' /\ \A x \in Token : MoveOf(x)
<1> DEFINE s == Cleaned(store)
<1> USE NoneOutside
<1>1. /\ Good(s)
      /\ \A x \in Token : s.entry[x] =
              IF store.entry[x] # None /\ issued[x] <= now THEN None ELSE store.entry[x]
      /\ \A x \in Token : x \in s.claimed <=> x \in store.claimed /\ ~(issued[x] <= now)
      /\ s.claimed \subseteq Token
  BY CleanedStore DEF Good, Held
<1>2. /\ commit[r].pc = "idle" /\ s.entry[t] # None /\ t \notin s.claimed
      /\ store' = Claimed(s, t) /\ UNCHANGED <<now, issued, succeeded>>
      /\ commit' = [commit EXCEPT ![r] = [pc |-> "registering", token |-> t]]
  BY DEF Claim, Claimable
<1> HIDE DEF s
<1>3. Good(store)' /\ store'.entry = s.entry /\ store'.claimed = s.claimed \cup {t}
  BY <1>1, <1>2, ClaimsGood
<1>4. \A q \in Request : commit[q].token # t
  BY <1>1, <1>2 DEF IInv, CommitInv
<1>5. /\ issued[t] # None /\ t \notin succeeded
  BY <1>1, <1>2, <1>4 DEF IInv, UploadInv, Good, Entry
<1>6. /\ commit'[r].pc = "registering" /\ commit'[r].token = t
      /\ \A q \in Request : q # r => commit'[q] = commit[q]
      /\ commit' \in [Request -> [pc : {"idle", "registering", "succeeded", "failed"},
                                  token : Token \cup {None}]]
  BY <1>2 DEF IInv, CommitInv
<1>7. CommitInv'
  BY <1>1, <1>2, <1>3, <1>4, <1>5, <1>6 DEF IInv, CommitInv
<1>8. UploadInv'
  BY <1>1, <1>2, <1>3, <1>5, <1>6 DEF IInv, UploadInv, CommitInv
<1>9. \A x \in Token : MoveOf(x)
  <2>1. Taken(t)
    BY <1>1, <1>2, <1>3, <1>5 DEF Taken
  <2>2. \A x \in Token : x # t => Stays(x)
    BY <1>1, <1>2, <1>3 DEF Stays
  <2> QED
    BY <2>1, <2>2 DEF MoveOf
<1> QED
  BY <1>3, <1>7, <1>8, <1>9 DEF IInv

LEMMA SweepStep ==
  ASSUME IInv, Sweep
  PROVE  IInv' /\ \A x \in Token : MoveOf(x)
<1> DEFINE s == Cleaned(store)
<1> USE NoneOutside
<1>1. /\ Good(s) /\ s.claimed \subseteq Token
      /\ \A x \in Token : s.entry[x] =
              IF store.entry[x] # None /\ issued[x] <= now THEN None ELSE store.entry[x]
      /\ \A x \in Token : x \in s.claimed <=> x \in store.claimed /\ ~(issued[x] <= now)
      /\ store' = s /\ UNCHANGED <<now, commit, issued, succeeded>>
  BY CleanedStore DEF Good, Held, Sweep
<1> HIDE DEF s
<1>2. Good(store)'
  BY <1>1
<1>3. CommitInv'
  BY <1>1 DEF IInv, CommitInv
<1>4. UploadInv'
  BY <1>1 DEF IInv, UploadInv
<1>5. \A x \in Token : MoveOf(x)
  BY <1>1 DEF MoveOf, Stays
<1> QED
  BY <1>2, <1>3, <1>4, <1>5 DEF IInv

LEMMA RegisterStep ==
  ASSUME IInv, NEW r \in Request, RegisterSucceeds(r) \/ RegisterFails(r)
  PROVE  IInv' /\ \A x \in Token : MoveOf(x)
<1>1. /\ commit[r].pc = "registering" /\ UNCHANGED <<now, store, issued>>
      /\ \E pc \in {"succeeded", "failed"} :
           /\ commit' = [commit EXCEPT ![r].pc = pc]
           /\ succeeded' = IF pc = "succeeded" THEN succeeded \cup {commit[r].token}
                           ELSE succeeded
  BY DEF RegisterSucceeds, RegisterFails
<1>2. commit[r].token \in Token /\ issued[commit[r].token] # None
  BY <1>1 DEF IInv, CommitInv
<1>3. /\ commit'[r].pc \in {"succeeded", "failed"} /\ commit'[r].token = commit[r].token
      /\ \A q \in Request : q # r => commit'[q] = commit[q]
      /\ commit' \in [Request -> [pc : {"idle", "registering", "succeeded", "failed"},
                                  token : Token \cup {None}]]
      /\ succeeded' = IF commit'[r].pc = "succeeded"
                        THEN succeeded \cup {commit[r].token} ELSE succeeded
  BY <1>1 DEF IInv, CommitInv
<1>4. Good(store)'
  BY <1>1 DEF IInv
<1>5. CommitInv'
  BY <1>1, <1>2, <1>3 DEF IInv, CommitInv
<1>6. UploadInv'
  BY <1>1, <1>2, <1>3 DEF IInv, UploadInv
<1>7. \A x \in Token : MoveOf(x)
  <2>1. commit'[r].pc = "succeeded" => Used(commit[r].token)
    BY <1>1, <1>2, <1>3 DEF Used, IInv, CommitInv
  <2>2. \A x \in Token : (x \in succeeded' <=> x \in succeeded) => Stays(x)
    BY <1>1 DEF Stays
  <2> QED
    BY <1>3, <2>1, <2>2 DEF MoveOf
<1> QED
  BY <1>4, <1>5, <1>6, <1>7 DEF IInv

LEMMA FinishStep ==
  ASSUME IInv, NEW r \in Request, Delete(r) \/ Release(r)
  PROVE  IInv' /\ \A x \in Token : MoveOf(x)
<1> DEFINE s == Cleaned(store)
<1> USE NoneOutside
<1>1. /\ Good(s) /\ s.claimed \subseteq Token
      /\ \A x \in Token : s.entry[x] =
              IF store.entry[x] # None /\ issued[x] <= now THEN None ELSE store.entry[x]
      /\ \A x \in Token : x \in s.claimed <=> x \in store.claimed /\ ~(issued[x] <= now)
  BY CleanedStore DEF Good, Held
<1> PICK t \in Token : commit[r].token = t
  BY DEF Delete, Release, IInv, CommitInv
<1>2. /\ commit[r].pc \in {"succeeded", "failed"}
      /\ commit' = [commit EXCEPT ![r] = Idle]
      /\ UNCHANGED <<now, issued, succeeded>>
  BY DEF Delete, Release
<1>3. /\ Good(store)'
      /\ \A x \in Token \ {t} : store'.entry[x] = s.entry[x]
      /\ \A x \in Token : x \in store'.claimed => x \in s.claimed /\ x # t
      /\ \A x \in s.claimed : x # t => x \in store'.claimed
      /\ store'.entry[t] # None => store'.entry[t] = s.entry[t] /\ commit[r].pc = "failed"
      /\ store'.entry[t] = None => s.entry[t] = None \/ commit[r].pc = "succeeded"
  <2>1. CASE Delete(r)
    <3> DEFINE T == {t} \cap Held(s)
    <3>1. T \in SUBSET Held(s) /\ \A x \in Token : x \in T <=> x = t /\ s.entry[x] # None
      BY DEF Held
    <3>2. store' = Deleted(s, T) /\ commit[r].pc = "succeeded"
      BY <2>1 DEF Delete
    <3>3. s.claimed \subseteq Held(s)
      BY <1>1 DEF Good
    <3> HIDE DEF T, s
    <3>4. /\ Good(store)' /\ store'.claimed = s.claimed \ T
          /\ \A x \in Token : store'.entry[x] = IF x \in T THEN None ELSE s.entry[x]
      BY <1>1, <3>1, <3>2, DeletedGood
    <3> QED
      BY <1>1, <3>1, <3>2, <3>3, <3>4 DEF Held
  <2>2. CASE Release(r)
    <3>1. /\ store' = IF s.entry[t] # None THEN Released(s, t) ELSE s
          /\ commit[r].pc = "failed"
      BY <2>2 DEF Release, Held
    <3>2. s.claimed \subseteq Held(s)
      BY <1>1 DEF Good
    <3> HIDE DEF s
    <3>3. CASE s.entry[t] # None
      <4>1. Good(store)' /\ store'.entry = s.entry /\ store'.claimed = s.claimed \ {t}
        BY <1>1, <3>1, <3>3, ClaimsGood
      <4> QED
        BY <1>1, <3>1, <3>3, <4>1
    <3>4. CASE s.entry[t] = None
      BY <1>1, <3>1, <3>2, <3>4 DEF Held
    <3> QED
      BY <3>3, <3>4
  <2> QED
    BY <2>1, <2>2
<1> HIDE DEF s
<1>4. /\ commit'[r].pc = "idle" /\ commit'[r].token = None
      /\ \A q \in Request : q # r => commit'[q] = commit[q]
      /\ commit' \in [Request -> [pc : {"idle", "registering", "succeeded", "failed"},
                                  token : Token \cup {None}]]
  BY <1>2 DEF IInv, CommitInv, Idle
<1>5. \A q \in Request : q # r => commit[q].token # t
  BY <1>2 DEF IInv, CommitInv
<1>6. commit[r].pc = "succeeded" => t \in succeeded
  BY DEF IInv, CommitInv
<1>7. commit[r].pc = "failed" /\ store.entry[t] # None => t \notin succeeded
  BY <1>5 DEF IInv, UploadInv
<1>8. CommitInv'
  BY <1>1, <1>2, <1>3, <1>4, <1>5 DEF IInv, CommitInv
<1>9. UploadInv'
  <2>1. /\ issued' = issued /\ succeeded' = succeeded /\ now' = now
        /\ \A x \in Token : store'.entry[x] # None =>
             store'.entry[x] = store.entry[x] /\ store.entry[x] # None
    BY <1>1, <1>2, <1>3
  <2>2. \A x \in Token : issued[x] # None /\ issued[x] > now /\ x \notin succeeded
          => store'.entry[x] # None
    BY <1>1, <1>3, <1>6 DEF IInv, UploadInv
  <2>3. \A x \in store'.claimed : \E q \in Request : commit'[q].token = x
    <3> SUFFICES ASSUME NEW x \in store'.claimed PROVE \E q \in Request : commit'[q].token = x
      OBVIOUS
    <3>1. x \in Token
      BY <1>3 DEF Good, Held
    <3>2. x \in store.claimed /\ x # t
      BY <1>1, <1>3, <3>1
    <3> QED
      BY <1>4, <3>2 DEF IInv, UploadInv
  <2>4. \A x \in succeeded : store'.entry[x] # None
          => \E q \in Request : commit'[q].pc = "succeeded" /\ commit'[q].token = x
    BY <1>3, <1>4, <1>7, <2>1 DEF IInv, UploadInv
  <2> QED
    BY <2>1, <2>2, <2>3, <2>4 DEF IInv, UploadInv
<1>10. \A x \in Token : MoveOf(x)
  <2>1. \A x \in Token : x # t => Stays(x)
    BY <1>1, <1>2, <1>3 DEF Stays
  <2>2. t \notin store'.claimed
    BY <1>3
  <2>3. issued'[t] = issued[t] /\ (t \in succeeded' <=> t \in succeeded)
    BY <1>2
  <2>4. CASE store'.entry[t] = None
    <3>1. Stays(t)
      BY <2>2, <2>3, <2>4 DEF Stays
    <3> QED
      BY <3>1, <2>1 DEF MoveOf
  <2>5. CASE store'.entry[t] # None
    <3>1. store.entry[t] # None /\ commit[r].pc = "failed"
      BY <1>1, <1>3, <2>5
    <3>2. t \in store.claimed
      BY <1>2, <3>1 DEF IInv, CommitInv
    <3>3. GivenBack(t)
      BY <1>7, <2>2, <2>3, <2>5, <3>1, <3>2 DEF GivenBack
    <3> QED
      BY <2>1, <3>3 DEF MoveOf
  <2> QED
    BY <2>4, <2>5
<1> QED
  BY <1>3, <1>8, <1>9, <1>10 DEF IInv

LEMMA TickStep ==
  ASSUME IInv, Tick
  PROVE  IInv' /\ \A x \in Token : MoveOf(x)
<1>1. now' = now + 1 /\ UNCHANGED <<store, commit, issued, succeeded>>
  BY DEF Tick
<1>2. Good(store)' /\ CommitInv'
  BY <1>1 DEF IInv, CommitInv
<1>3. UploadInv'
  BY <1>1, NoneOutside DEF IInv, UploadInv
<1>4. \A x \in Token : MoveOf(x)
  BY <1>1 DEF MoveOf, Stays
<1> QED
  BY <1>2, <1>3, <1>4 DEF IInv

LEMMA RestartStep ==
  ASSUME IInv, Restart
  PROVE  IInv' /\ \A x \in Token : MoveOf(x)
<1>1. /\ store' = Empty /\ commit' = [r \in Request |-> Idle]
      /\ issued' = [t \in Token |-> IF issued[t] = None THEN None ELSE 0]
      /\ UNCHANGED <<now, succeeded>>
  BY DEF Restart
<1>2. /\ Good(store)' /\ store'.claimed = {}
      /\ \A t \in Token : store'.entry[t] = None
  BY <1>1, EmptyGood DEF Empty
<1>3. CommitInv'
  BY <1>1 DEF CommitInv, Idle
<1>4. UploadInv'
  BY <1>1, <1>2, NoneOutside DEF IInv, UploadInv
<1>5. \A x \in Token : MoveOf(x)
  BY <1>1, <1>2, NoneOutside DEF MoveOf, Stays, IInv, UploadInv
<1> QED
  BY <1>2, <1>3, <1>4, <1>5 DEF IInv

LEMMA NextSteps ==
  ASSUME IInv, [Next]_vars
  PROVE  IInv' /\ \A x \in Token : MoveOf(x)
<1>1. CASE UNCHANGED vars
  <2>1. UNCHANGED <<now, store, commit, issued, succeeded>>
    BY <1>1 DEF vars
  <2>2. IInv'
    BY <2>1 DEF IInv, CommitInv, UploadInv
  <2> QED
    BY <2>1, <2>2 DEF MoveOf, Stays
<1> QED
  BY <1>1, CreateStep, ClaimStep, SweepStep, RegisterStep, FinishStep, TickStep, RestartStep
  DEF Next, CommitStep

LEMMA StepIInv == IInv /\ [Next]_vars => IInv'
BY NextSteps

-----------------------------------------------------------------------------
(* Theorems *)

\* The invariant: the store without its counts, the commits, the uploads.
THEOREM SpecIInv == Spec => []IInv
<1> QED
  BY InitIInv, StepIInv, PTL DEF Spec

\* No two commits use one upload.
THEOREM SpecOneCommitPerUpload == Spec => []OneCommitPerUpload
<1>1. ASSUME IInv PROVE OneCommitPerUpload
  <2> SUFFICES ASSUME NEW t \in Token PROVE Cardinality(Using(t)) <= 1
    BY DEF OneCommitPerUpload
  <2>1. \A r, q \in Using(t) : r = q
    BY <1>1, NoneOutside DEF IInv, CommitInv, Using
  <2>2. Using(t) = {} \/ \E r \in Using(t) : Using(t) = {r}
    BY <2>1
  <2> QED
    <3>1. CASE Using(t) = {}
      BY <3>1, FS_EmptySet
    <3>2. ASSUME NEW r \in Using(t), Using(t) = {r} PROVE Cardinality(Using(t)) <= 1
      <4>1. Cardinality({r}) = 1
        BY FS_Singleton
      <4> QED
        BY <3>2, <4>1
    <3> QED
      BY <2>2, <3>1, <3>2
<1> QED
  BY <1>1, SpecIInv, PTL

\* An upload that has not expired is there to be taken, unless it is being used
\* or was used with success.
THEOREM SpecRetryPossible == Spec => []RetryPossible
<1>1. IInv => RetryPossible
  BY NoneOutside DEF IInv, UploadInv, RetryPossible, Claimable, Using
<1> QED
  BY <1>1, SpecIInv, PTL

\* A commit begins only with an upload that has not expired.
THEOREM SpecExpiredIsNotTaken == Spec => ExpiredIsNotTaken
<1>1. ASSUME IInv, [Next]_vars, NEW r \in Request,
             commit[r].pc = "idle", commit'[r].pc = "registering"
      PROVE  issued[commit'[r].token] > now
  <2>1. PICK q \in Request, t \in Token : Claim(q, t)
    <3> USE <1>1 DEF IInv, CommitInv
    <3>1. CASE UNCHANGED commit
      BY <3>1
    <3>2. ASSUME NEW q \in Request, RegisterSucceeds(q) \/ RegisterFails(q) PROVE FALSE
      BY <3>2 DEF RegisterSucceeds, RegisterFails
    <3>3. ASSUME NEW q \in Request, Delete(q) \/ Release(q) PROVE FALSE
      BY <3>3 DEF Delete, Release, Idle
    <3>4. CASE Restart
      BY <3>4 DEF Restart, Idle
    <3> QED
      BY <3>1, <3>2, <3>3, <3>4 DEF Next, CommitStep, Create, Sweep, Tick, vars
  <2>2. q = r /\ commit'[r].token = t
    BY <1>1, <2>1 DEF Claim, IInv, CommitInv
  <2>3. Cleaned(store).entry[t] # None
    BY <2>1 DEF Claim, Claimable
  <2>4. issued[t] \in Nat /\ ~(issued[t] <= now) /\ now \in Nat
    BY <1>1, <2>3, CleanedStore, NoneOutside DEF IInv, UploadInv, Good, Entry
  <2> QED
    BY <2>2, <2>4
<1>2. IInv /\ [Next]_vars =>
        [\A r \in Request : (commit[r].pc = "idle" /\ commit'[r].pc = "registering")
           => issued[commit'[r].token] > now]_vars
  BY <1>1
<1> QED
  BY <1>2, SpecIInv, PTL DEF Spec, ExpiredIsNotTaken

-----------------------------------------------------------------------------
(* The refinement *)

StateOf(isIssued, isStored, isClaimed, isSpent) ==
  IF ~isIssued THEN "unknown"
  ELSE IF isStored /\ ~isClaimed THEN "open"
  ELSE IF isSpent THEN "spent"
  ELSE IF isClaimed THEN "taken" ELSE "lost"

LEMMA UploadStates ==
  ASSUME NEW t \in Token
  PROVE  /\ UploadState[t] = StateOf(issued[t] # None, store.entry[t] # None,
                                     t \in store.claimed, t \in succeeded)
         /\ UploadState'[t] = StateOf(issued'[t] # None, store'.entry[t] # None,
                                      t \in store'.claimed, t \in succeeded')
<1>1. UploadState[t] = StateOf(issued[t] # None, store.entry[t] # None,
                               t \in store.claimed, t \in succeeded)
  BY DEF UploadState, StateOf, Claimable
<1>2. UploadState'[t] = StateOf(issued'[t] # None, store'.entry[t] # None,
                                t \in store'.claimed, t \in succeeded')
  BY DEF UploadState, StateOf, Claimable
<1> QED
  BY <1>1, <1>2

LEMMA MovesArePromised ==
  ASSUME IInv, IInv', NEW t \in Token, MoveOf(t)
  PROVE  /\ UploadState'[t] \in Promise!State
         /\ UploadState'[t] # UploadState[t] =>
              <<UploadState[t], UploadState'[t]>> \in Promise!Moves
<1> DEFINE i == issued[t] # None
           e == store.entry[t] # None
           c == t \in store.claimed
           u == t \in succeeded
           ii == issued'[t] # None
           ee == store'.entry[t] # None
           cc == t \in store'.claimed
           uu == t \in succeeded'
<1>1. /\ c => e
      /\ e => i
      /\ u => i
      /\ u /\ e => c
  <2>1. (c => e) /\ (u => i)
    BY DEF IInv, Good, Held, UploadInv
  <2>2. e => i
    BY NoneOutside DEF IInv, Good, UploadInv, Entry
  <2>3. u /\ e => c
    BY DEF IInv, UploadInv, CommitInv
  <2> QED
    BY <2>1, <2>2, <2>3
<1>2. \/ (ii <=> i) /\ (uu <=> u) /\ (((ee <=> e) /\ (cc <=> c)) \/ (~ee /\ ~cc))
      \/ ~i /\ ii /\ ee /\ ~cc
      \/ e /\ ~c /\ ee /\ cc /\ (ii <=> i) /\ ~u /\ ~uu
      \/ (e => c) /\ (ee <=> e) /\ (cc <=> c) /\ i /\ ii /\ uu
      \/ e /\ c /\ ee /\ ~cc /\ (ii <=> i) /\ ~u /\ ~uu
  BY DEF MoveOf, Stays, Issued, Taken, Used, GivenBack
<1>3. UploadState[t] = StateOf(i, e, c, u) /\ UploadState'[t] = StateOf(ii, ee, cc, uu)
  BY UploadStates
<1> HIDE DEF i, e, c, u, ii, ee, cc, uu
<1> QED
  BY <1>1, <1>2, <1>3 DEF StateOf, Promise!State, Promise!Moves

\* The store in memory does with every upload what TempStore says.
THEOREM SpecKeepsPromise == Spec => KeepsPromise
<1>1. Init => Promise!Init
  BY DEF Init, Promise!Init, UploadState
<1>2. IInv /\ IInv' /\ [Next]_vars => [Promise!Next]_UploadState
  <2> SUFFICES ASSUME IInv, IInv', [Next]_vars PROVE Promise!Next
    OBVIOUS
  <2>1. \A t \in Token : MoveOf(t)
    BY NextSteps
  <2>2. UploadState' = [t \in Token |-> UploadState'[t]]
    BY DEF UploadState
  <2> QED
    BY <2>1, <2>2, MovesArePromised DEF Promise!Next
<1> QED
  BY <1>1, <1>2, SpecIInv, PTL DEF Spec, KeepsPromise, Promise!Spec
-----------------------------------------------------------------------------
(* Sums of sizes *)

\* What SizeOf computes: the sizes of a set, one after the other.
Pick(T) == CHOOSE x \in T : TRUE
IsTotal(f, s, S) ==
  f = [T \in SUBSET S |->
         IF T = {} THEN 0 ELSE s.entry[Pick(T)].size + f[T \ {Pick(T)}]]
Total(s, S) == CHOOSE f : IsTotal(f, s, S)
Sized(s, S) == IsFiniteSet(S) /\ \A t \in S : s.entry[t].size \in Nat

LEMMA SizeIsTotal == ASSUME NEW s, NEW S PROVE SizeOf(s, S) = Total(s, S)[S]
BY Zenon DEF SizeOf, MapThenSumSet, MapThenFoldSet, Total, IsTotal, Pick

LEMMA Least ==
  ASSUME NEW B \in SUBSET Nat, B # {}
  PROVE  \E n \in B : \A m \in B : n <= m
<1>1. IsWellFoundedOn(OpToRel(<, Nat), Nat)
  BY NatLessThanWellFounded
<1>2. PICK n \in B : \A m \in B : ~(<<m, n>> \in OpToRel(<, Nat))
  BY <1>1, WFMin
<1>3. n \in Nat /\ \A m \in B : m \in Nat /\ ~(m < n)
  BY <1>2 DEF OpToRel
<1> QED
  BY <1>3

\* Of a set of finite sets, one has no proper subset in it.
LEMMA Smallest ==
  ASSUME NEW S, IsFiniteSet(S), NEW Bad \in SUBSET (SUBSET S), Bad # {}
  PROVE  \E T \in Bad : \A x \in T : T \ {x} \notin Bad
<1> DEFINE Counts == {Cardinality(T) : T \in Bad}
<1>1. \A T \in SUBSET S : IsFiniteSet(T) /\ Cardinality(T) \in Nat
  BY FS_Subset, FS_CardinalityType
<1>2. Counts \in SUBSET Nat /\ Counts # {}
  BY <1>1
<1>3. PICK n \in Counts : \A m \in Counts : n <= m
  BY <1>2, Least
<1>4. PICK T \in Bad : n = Cardinality(T)
  OBVIOUS
<1>5. ASSUME NEW x \in T, T \ {x} \in Bad PROVE FALSE
  <2>1. Cardinality(T \ {x}) = Cardinality(T) - 1
    BY <1>1, FS_RemoveElement
  <2>2. n <= Cardinality(T \ {x})
    BY <1>3, <1>5
  <2> QED
    BY <1>1, <1>4, <2>1, <2>2
<1> QED
  BY <1>5

\* The totals of the sets of up to n elements, which exist for every n.
Level(S, n) == {T \in SUBSET S : Cardinality(T) <= n}
TotalTo(f, s, S, n) ==
  /\ f \in [Level(S, n) -> Nat]
  /\ \A T \in Level(S, n) :
       f[T] = IF T = {} THEN 0 ELSE s.entry[Pick(T)].size + f[T \ {Pick(T)}]

LEMMA LevelDown ==
  ASSUME NEW S, IsFiniteSet(S), NEW n \in Nat, NEW T \in Level(S, n), T # {}
  PROVE  Pick(T) \in T /\ n > 0 /\ T \ {Pick(T)} \in Level(S, n - 1)
<1>1. Pick(T) \in T
  BY DEF Pick
<1>2. IsFiniteSet(T) /\ T \in SUBSET S /\ Cardinality(T) <= n
  BY FS_Subset DEF Level
<1>3. Cardinality(T \ {Pick(T)}) = Cardinality(T) - 1
  BY <1>1, <1>2, FS_RemoveElement
<1>4. Cardinality(T) \in Nat /\ Cardinality(T \ {Pick(T)}) \in Nat
  BY <1>2, FS_CardinalityType, FS_Subset
<1> QED
  BY <1>1, <1>2, <1>3, <1>4 DEF Level

LEMMA TotalToAll ==
  ASSUME NEW s, NEW S, Sized(s, S), NEW n \in Nat
  PROVE  \E f : TotalTo(f, s, S, n)
<1> DEFINE B == {m \in Nat : ~ \E f : TotalTo(f, s, S, m)}
<1> SUFFICES ASSUME B # {} PROVE FALSE
  OBVIOUS
<1>1. PICK m \in B : \A k \in B : m <= k
  BY Least
<1>2. m \in Nat /\ IsFiniteSet(S)
  BY DEF Sized
<1>3. CASE m = 0
  <2> DEFINE f == [T \in Level(S, 0) |-> 0]
  <2>1. \A T \in Level(S, 0) : T = {}
    <3> SUFFICES ASSUME NEW T \in Level(S, 0), T # {} PROVE FALSE
      OBVIOUS
    <3>1. 0 \in Nat /\ ~(0 > 0)
      OBVIOUS
    <3> QED
      BY <1>2, <3>1, LevelDown
  <2>2. TotalTo(f, s, S, 0)
    BY <2>1 DEF TotalTo
  <2> QED
    BY <1>3, <2>2
<1>4. CASE m > 0
  <2>1. m - 1 \in Nat /\ m - 1 \notin B
    BY <1>1, <1>2, <1>4
  <2>2. PICK g : TotalTo(g, s, S, m - 1)
    BY <2>1
  <2> DEFINE f == [T \in Level(S, m) |->
                     IF T = {} THEN 0 ELSE s.entry[Pick(T)].size + g[T \ {Pick(T)}]]
  <2>3. \A T \in Level(S, m) : T # {} => Pick(T) \in T /\ T \ {Pick(T)} \in Level(S, m - 1)
    BY <1>2, LevelDown
  <2>4. \A T \in Level(S, m - 1) : T \in Level(S, m) /\ f[T] = g[T]
    <3>1. Level(S, m - 1) \subseteq Level(S, m)
      <4>1. \A T \in SUBSET S : Cardinality(T) \in Nat
        BY <1>2, FS_Subset, FS_CardinalityType
      <4> QED
        BY <1>2, <4>1 DEF Level
    <3> QED
      BY <2>2, <3>1 DEF TotalTo
  <2>5. f \in [Level(S, m) -> Nat]
    <3> SUFFICES ASSUME NEW T \in Level(S, m)
                 PROVE  (IF T = {} THEN 0 ELSE s.entry[Pick(T)].size + g[T \ {Pick(T)}]) \in Nat
      OBVIOUS
    <3>1. T # {} => s.entry[Pick(T)].size \in Nat
      BY <2>3 DEF Sized, Level
    <3>2. T # {} => g[T \ {Pick(T)}] \in Nat
      BY <2>2, <2>3 DEF TotalTo
    <3> QED
      BY <3>1, <3>2
  <2>6. TotalTo(f, s, S, m)
    BY <2>3, <2>4, <2>5 DEF TotalTo
  <2> QED
    BY <2>6
<1> QED
  BY <1>2, <1>3, <1>4

\* A total over a finite set exists; it satisfies its equation.
LEMMA TotalEquation ==
  ASSUME NEW s, NEW S, Sized(s, S)
  PROVE  /\ Total(s, S)[{}] = 0
         /\ \A T \in SUBSET S : T # {} =>
              /\ Pick(T) \in T
              /\ Total(s, S)[T] = s.entry[Pick(T)].size + Total(s, S)[T \ {Pick(T)}]
         /\ \A T \in SUBSET S : Total(s, S)[T] \in Nat
<1> DEFINE n == Cardinality(S)
           f == Total(s, S)
<1>1. IsFiniteSet(S) /\ n \in Nat
  BY FS_CardinalityType DEF Sized
<1>2. PICK g : TotalTo(g, s, S, n)
  BY <1>1, TotalToAll
<1>3. Level(S, n) = SUBSET S
  BY <1>1, FS_Subset DEF Level
<1>4. g = [T \in SUBSET S |-> g[T]]
  BY <1>2, <1>3 DEF TotalTo
<1>5. IsTotal(g, s, S)
  BY <1>2, <1>3, <1>4 DEF TotalTo, IsTotal
<1>6. IsTotal(f, s, S)
  BY <1>5 DEF Total
<1> HIDE DEF f
<1>7. \A T \in SUBSET S :
        f[T] = IF T = {} THEN 0 ELSE s.entry[Pick(T)].size + f[T \ {Pick(T)}]
  BY <1>6 DEF IsTotal
<1>8. \A T \in SUBSET S : T # {} => Pick(T) \in T
  BY DEF Pick
<1>9. \A T \in SUBSET S : f[T] \in Nat
  <2> DEFINE Bad == {T \in SUBSET S : f[T] \notin Nat}
  <2> SUFFICES ASSUME Bad # {} PROVE FALSE
    OBVIOUS
  <2>1. PICK T \in Bad : \A x \in T : T \ {x} \notin Bad
    BY <1>1, Smallest
  <2>2. T \in SUBSET S /\ f[T] \notin Nat /\ T # {}
    BY <1>7
  <2>3. f[T \ {Pick(T)}] \in Nat /\ s.entry[Pick(T)].size \in Nat
    BY <1>8, <2>1, <2>2 DEF Sized
  <2>4. f[T] = s.entry[Pick(T)].size + f[T \ {Pick(T)}]
    BY <1>7, <2>2
  <2> HIDE DEF Bad
  <2> QED
    BY <2>2, <2>3, <2>4
<1> QED
  BY <1>7, <1>8, <1>9 DEF f

\* Totals of the same sizes are the same, whatever set they are taken in.
LEMMA TotalsAgree ==
  ASSUME NEW s, NEW u, NEW S, NEW U, Sized(s, S), Sized(u, U), S \subseteq U,
         \A t \in S : s.entry[t].size = u.entry[t].size
  PROVE  \A T \in SUBSET S : Total(s, S)[T] = Total(u, U)[T]
<1> DEFINE Bad == {T \in SUBSET S : Total(s, S)[T] # Total(u, U)[T]}
<1> SUFFICES ASSUME Bad # {} PROVE FALSE
  OBVIOUS
<1>1. PICK T \in Bad : \A x \in T : T \ {x} \notin Bad
  BY Smallest DEF Sized
<1>2. T \in SUBSET S /\ T \in SUBSET U /\ T # {}
  BY TotalEquation
<1>3. Pick(T) \in T /\ Total(s, S)[T \ {Pick(T)}] = Total(u, U)[T \ {Pick(T)}]
  BY <1>1, <1>2, TotalEquation
<1>4. /\ Total(s, S)[T] = s.entry[Pick(T)].size + Total(s, S)[T \ {Pick(T)}]
      /\ Total(u, U)[T] = u.entry[Pick(T)].size + Total(u, U)[T \ {Pick(T)}]
  BY <1>2, TotalEquation
<1>5. s.entry[Pick(T)].size = u.entry[Pick(T)].size
  BY <1>2, <1>3
<1>6. Total(s, S)[T] # Total(u, U)[T]
  BY <1>1
<1> QED
  BY <1>3, <1>4, <1>5, <1>6

\* The sum of sizes, whichever element is taken first.
LEMMA SizeOfEmpty == ASSUME NEW s PROVE SizeOf(s, {}) = 0
BY SizeIsTotal, TotalEquation, FS_EmptySet DEF Sized

LEMMA SizeOfSubset ==
  ASSUME NEW s, NEW S, Sized(s, S), NEW T \in SUBSET S
  PROVE  Sized(s, T) /\ SizeOf(s, T) = Total(s, S)[T] /\ SizeOf(s, T) \in Nat
<1>1. Sized(s, T)
  BY FS_Subset DEF Sized
<1>2. Total(s, T)[T] = Total(s, S)[T]
  BY <1>1, TotalsAgree
<1> QED
  BY <1>1, <1>2, SizeIsTotal, TotalEquation

LEMMA SizeOfRemove ==
  ASSUME NEW s, NEW S, Sized(s, S)
  PROVE  \A T \in SUBSET S : \A t \in T : SizeOf(s, T) = s.entry[t].size + SizeOf(s, T \ {t})
<1> DEFINE Bad == {T \in SUBSET S :
                     \E t \in T : SizeOf(s, T) # s.entry[t].size + SizeOf(s, T \ {t})}
<1> SUFFICES ASSUME Bad # {} PROVE FALSE
  OBVIOUS
<1>1. IsFiniteSet(S)
  BY DEF Sized
<1>2. PICK T \in Bad : \A x \in T : T \ {x} \notin Bad
  BY <1>1, Smallest
<1>3. PICK t \in T : SizeOf(s, T) # s.entry[t].size + SizeOf(s, T \ {t})
  OBVIOUS
<1>4. T \in SUBSET S /\ T # {}
  OBVIOUS
<1> DEFINE p == Pick(T)
<1>5. /\ p \in T
      /\ SizeOf(s, T) = s.entry[p].size + SizeOf(s, T \ {p})
  <2>1. p \in T /\ Total(s, S)[T] = s.entry[p].size + Total(s, S)[T \ {p}]
    <3> HIDE DEF Bad
    <3>1. \A X \in SUBSET S : X # {} =>
              /\ Pick(X) \in X
              /\ Total(s, S)[X] = s.entry[Pick(X)].size + Total(s, S)[X \ {Pick(X)}]
      BY TotalEquation
    <3> QED
      BY <1>4, <3>1
  <2>2. SizeOf(s, T) = Total(s, S)[T] /\ SizeOf(s, T \ {p}) = Total(s, S)[T \ {p}]
    <3>1. T \ {p} \in SUBSET S
      BY <1>4
    <3> HIDE DEF p
    <3> QED
      BY <1>4, <3>1, SizeOfSubset
  <2> QED
    BY <2>1, <2>2
<1> HIDE DEF p
<1>6. p # t
  BY <1>3, <1>5
<1>7. SizeOf(s, T \ {p}) = s.entry[t].size + SizeOf(s, (T \ {p}) \ {t})
  BY <1>2, <1>3, <1>4, <1>5, <1>6
<1>8. SizeOf(s, T \ {t}) = s.entry[p].size + SizeOf(s, (T \ {t}) \ {p})
  BY <1>2, <1>3, <1>4, <1>5, <1>6
<1>9. (T \ {t}) \ {p} = (T \ {p}) \ {t}
  OBVIOUS
<1>10. SizeOf(s, (T \ {p}) \ {t}) \in Nat /\ s.entry[t].size \in Nat /\ s.entry[p].size \in Nat
  BY <1>3, <1>4, <1>5, SizeOfSubset DEF Sized
<1> QED
  BY <1>3, <1>5, <1>7, <1>8, <1>9, <1>10

\* What is taken out is missing from the sum.
LEMMA SizeOfDifference ==
  ASSUME NEW s, NEW S, Sized(s, S)
  PROVE  \A T \in SUBSET S : SizeOf(s, S \ T) = SizeOf(s, S) - SizeOf(s, T)
<1> DEFINE Bad == {T \in SUBSET S : SizeOf(s, S \ T) # SizeOf(s, S) - SizeOf(s, T)}
<1> SUFFICES ASSUME Bad # {} PROVE FALSE
  OBVIOUS
<1>1. PICK T \in Bad : \A x \in T : T \ {x} \notin Bad
  BY Smallest DEF Sized
<1>2. \A U \in SUBSET S : SizeOf(s, U) \in Nat
  BY SizeOfSubset
<1>3. T # {}
  <2> SUFFICES ASSUME T = {} PROVE FALSE
    OBVIOUS
  <2>1. S \ T = S /\ SizeOf(s, T) = 0 /\ SizeOf(s, S) \in Nat
    BY <1>2, SizeOfEmpty
  <2>2. SizeOf(s, S \ T) # SizeOf(s, S) - SizeOf(s, T)
    OBVIOUS
  <2> QED
    BY <2>1, <2>2
<1>4. PICK t \in T : TRUE
  BY <1>3
<1>5. SizeOf(s, S \ (T \ {t})) = SizeOf(s, S) - SizeOf(s, T \ {t})
  BY <1>1, <1>4
<1>6. SizeOf(s, S \ (T \ {t})) = s.entry[t].size + SizeOf(s, (S \ (T \ {t})) \ {t})
  BY <1>4, SizeOfRemove
<1>7. (S \ (T \ {t})) \ {t} = S \ T
  BY <1>4
<1>8. SizeOf(s, T) = s.entry[t].size + SizeOf(s, T \ {t})
  BY <1>4, SizeOfRemove
<1>9. SizeOf(s, S \ T) # SizeOf(s, S) - SizeOf(s, T)
  BY <1>1
<1>10. s.entry[t].size \in Nat /\ SizeOf(s, S) \in Nat /\ SizeOf(s, T \ {t}) \in Nat
       /\ SizeOf(s, S \ T) \in Nat
  BY <1>2, <1>4 DEF Sized
<1>11. \A a, b, c, d, x \in Nat : a = b - c /\ a = x + d /\ SizeOf(s, T) = x + c
         => d = b - SizeOf(s, T)
  OBVIOUS
<1>12. SizeOf(s, S \ (T \ {t})) \in Nat
  BY <1>2
<1>13. SizeOf(s, S \ (T \ {t})) = s.entry[t].size + SizeOf(s, S \ T)
  BY <1>6, <1>7
<1> HIDE DEF Bad
<1> QED
  BY <1>5, <1>8, <1>9, <1>10, <1>11, <1>12, <1>13

-----------------------------------------------------------------------------
(* The counts of the store *)

\* The store knows its uploads by address and their bytes, and keeps the limits.
Counted(s) ==
  /\ IsFiniteSet(Held(s))
  /\ s.byIP = [ip \in IP |-> {t \in Held(s) : s.entry[t].ip = ip}]
  /\ \A ip \in IP : Cardinality(s.byIP[ip]) <= MaxEntriesPerIP
  /\ s.bytes = SizeOf(s, Held(s))
  /\ s.bytes <= MaxTotalBytes

LEMMA HeldSized ==
  ASSUME NEW s, Good(s), IsFiniteSet(Held(s))
  PROVE  Sized(s, Held(s)) /\ \A t \in Held(s) : s.entry[t] \in Entry
<1>1. \A t \in Held(s) : s.entry[t] \in Entry
  BY DEF Good, Held
<1> QED
  BY <1>1, TempDataAssumption DEF Sized, Entry

\* Two stores with the same uploads count the same.
LEMMA SameSizes ==
  ASSUME NEW s, NEW d, NEW T, Sized(s, T), \A t \in T : d.entry[t] = s.entry[t]
  PROVE  Sized(d, T) /\ SizeOf(d, T) = SizeOf(s, T)
<1>1. Sized(d, T)
  BY DEF Sized
<1>2. Total(d, T)[T] = Total(s, T)[T]
  BY <1>1, TotalsAgree
<1> QED
  BY <1>1, <1>2, SizeIsTotal

LEMMA EmptyCounted == Counted(Empty)
<1>1. IsFiniteSet({}) /\ Cardinality({}) = 0
  BY FS_EmptySet
<1>2. /\ Held(Empty) = {} /\ Empty.bytes = 0
      /\ Empty.byIP = [ip \in IP |-> {}]
  BY EmptyGood DEF Empty
<1>3. SizeOf(Empty, {}) = 0
  BY SizeOfEmpty
<1>4. \A ip \in IP : Empty.byIP[ip] = {}
  BY <1>2
<1> QED
  BY <1>1, <1>2, <1>3, <1>4, TempDataAssumption DEF Counted

LEMMA DeletedCounted ==
  ASSUME NEW s, Good(s), Counted(s), NEW T \in SUBSET Held(s)
  PROVE  Counted(Deleted(s, T))
<1> DEFINE d == Deleted(s, T)
           H == Held(s)
<1>1. /\ d.entry = [t \in Token |-> IF t \in T THEN None ELSE s.entry[t]]
      /\ d.byIP = [ip \in IP |-> s.byIP[ip] \ {t \in T : s.entry[t].ip = ip}]
      /\ d.bytes = s.bytes - SizeOf(s, T)
  BY DEF Deleted
<1> HIDE DEF d
<1>2. Held(d) = H \ T /\ \A t \in H \ T : d.entry[t] = s.entry[t]
  BY <1>1 DEF Held
<1>3. /\ IsFiniteSet(H) /\ IsFiniteSet(H \ T) /\ Sized(s, H)
      /\ s.byIP = [ip \in IP |-> {t \in H : s.entry[t].ip = ip}]
  BY HeldSized, FS_Subset DEF Counted
<1>4. d.byIP = [ip \in IP |-> {t \in H \ T : d.entry[t].ip = ip}]
  <2>1. \A ip \in IP : s.byIP[ip] \ {t \in T : s.entry[t].ip = ip}
                         = {t \in H \ T : d.entry[t].ip = ip}
    BY <1>2, <1>3
  <2> QED
    BY <1>1, <2>1
<1>5. ASSUME NEW ip \in IP PROVE Cardinality(d.byIP[ip]) <= MaxEntriesPerIP
  <2>1. d.byIP[ip] \subseteq s.byIP[ip] /\ s.byIP[ip] \subseteq H
    BY <1>1, <1>3
  <2>2. IsFiniteSet(s.byIP[ip])
    BY <1>3, <2>1, FS_Subset
  <2>3. /\ Cardinality(d.byIP[ip]) <= Cardinality(s.byIP[ip])
        /\ Cardinality(d.byIP[ip]) \in Nat /\ Cardinality(s.byIP[ip]) \in Nat
    BY <2>1, <2>2, FS_Subset, FS_CardinalityType
  <2>4. Cardinality(s.byIP[ip]) <= MaxEntriesPerIP
    BY DEF Counted
  <2> QED
    BY <2>3, <2>4, TempDataAssumption
<1>6. /\ SizeOf(s, H \ T) = SizeOf(s, H) - SizeOf(s, T)
      /\ SizeOf(s, H) \in Nat /\ SizeOf(s, T) \in Nat /\ SizeOf(s, H \ T) \in Nat
      /\ Sized(s, H \ T)
  BY <1>3, SizeOfDifference, SizeOfSubset
<1>7. SizeOf(d, H \ T) = SizeOf(s, H \ T)
  BY <1>2, <1>6, SameSizes
<1>8. s.bytes = SizeOf(s, H) /\ s.bytes <= MaxTotalBytes
  BY DEF Counted
<1>9. d.bytes = SizeOf(d, H \ T) /\ d.bytes <= MaxTotalBytes
  BY <1>1, <1>6, <1>7, <1>8, TempDataAssumption
<1>10. Counted(d)
  BY <1>2, <1>3, <1>4, <1>5, <1>9 DEF Counted
<1> QED
  BY <1>10 DEF d

LEMMA CleanedCounted ==
  ASSUME NEW s, Good(s), Counted(s)
  PROVE  Counted(Cleaned(s))
<1>1. Expired(s) \cap Held(s) \in SUBSET Held(s)
  OBVIOUS
<1> QED
  BY <1>1, DeletedCounted DEF Cleaned

LEMMA InsertedCounted ==
  ASSUME NEW s, Good(s), Counted(s), NEW t \in Token, s.entry[t] = None, NEW e \in Entry,
         Fits(s, e.ip, e.size)
  PROVE  Counted(Inserted(s, t, e))
<1> DEFINE i == Inserted(s, t, e)
           H == Held(s)
<1>1. /\ i.entry = [s.entry EXCEPT ![t] = e]
      /\ i.byIP = [s.byIP EXCEPT ![e.ip] = @ \cup {t}]
      /\ i.bytes = s.bytes + e.size
  BY DEF Inserted
<1> HIDE DEF i
<1>2. /\ t \notin H
      /\ i.entry[t] = e
      /\ \A x \in H : i.entry[x] = s.entry[x]
      /\ Held(i) = H \cup {t}
  BY <1>1, NoneOutside DEF Held, Good
<1> HIDE DEF H
<1>3. /\ IsFiniteSet(H) /\ IsFiniteSet(H \cup {t}) /\ Sized(s, H)
      /\ s.byIP = [ip \in IP |-> {x \in H : s.entry[x].ip = ip}]
      /\ s.bytes = SizeOf(s, H)
  BY HeldSized, FS_AddElement DEF Counted, H
<1>4. e.ip \in IP /\ e.size \in Nat
  BY TempDataAssumption DEF Entry
<1>5. i.byIP = [ip \in IP |-> {x \in H \cup {t} : i.entry[x].ip = ip}]
  <2> SUFFICES ASSUME NEW ip \in IP
               PROVE  i.byIP[ip] = {x \in H \cup {t} : i.entry[x].ip = ip}
    BY <1>1, <1>3
  <2>1. {x \in H : i.entry[x].ip = ip} = s.byIP[ip]
    BY <1>2, <1>3
  <2>2. i.byIP[ip] = IF ip = e.ip THEN s.byIP[ip] \cup {t} ELSE s.byIP[ip]
    BY <1>1, <1>3
  <2> QED
    BY <1>2, <2>1, <2>2
<1>6. ASSUME NEW ip \in IP PROVE Cardinality(i.byIP[ip]) <= MaxEntriesPerIP
  <2>1. IsFiniteSet(s.byIP[ip]) /\ Cardinality(s.byIP[ip]) \in Nat
    BY <1>3, FS_Subset, FS_CardinalityType
  <2>2. Cardinality(s.byIP[ip]) <= MaxEntriesPerIP
    BY DEF Counted
  <2>3. CASE ip # e.ip
    BY <1>1, <1>3, <2>2, <2>3
  <2>4. CASE ip = e.ip
    <3>1. i.byIP[ip] = s.byIP[ip] \cup {t} /\ t \notin s.byIP[ip]
      BY <1>1, <1>2, <1>3, <2>4
    <3>2. Cardinality(i.byIP[ip]) = Cardinality(s.byIP[ip]) + 1
      BY <2>1, <3>1, FS_AddElement
    <3>3. Cardinality(s.byIP[ip]) < MaxEntriesPerIP
      BY <2>4 DEF Fits
    <3> QED
      BY <2>1, <3>2, <3>3, TempDataAssumption
  <2> QED
    BY <2>3, <2>4
<1>7. Sized(i, H) /\ SizeOf(i, H) = SizeOf(s, H) /\ SizeOf(s, H) \in Nat
  BY <1>2, <1>3, SameSizes, SizeOfSubset
<1>8. Sized(i, H \cup {t})
  BY <1>2, <1>3, <1>4, <1>7 DEF Sized
<1>9. SizeOf(i, H \cup {t}) = i.entry[t].size + SizeOf(i, (H \cup {t}) \ {t})
  BY <1>8, SizeOfRemove
<1>10. (H \cup {t}) \ {t} = H
  BY <1>2
<1>11. i.bytes = SizeOf(i, H \cup {t})
  <2>1. SizeOf(i, H \cup {t}) = e.size + SizeOf(s, H)
    BY <1>2, <1>7, <1>9, <1>10
  <2>2. i.bytes = SizeOf(s, H) + e.size
    BY <1>1, <1>3
  <2> QED
    BY <1>4, <1>7, <2>1, <2>2
<1>12. i.bytes <= MaxTotalBytes
  BY <1>1 DEF Fits
<1>13. Counted(i)
  BY <1>2, <1>3, <1>5, <1>6, <1>11, <1>12 DEF Counted
<1> QED
  BY <1>13 DEF i

LEMMA ClaimsCounted ==
  ASSUME NEW s, Good(s), Counted(s), NEW t
  PROVE  Counted(Claimed(s, t)) /\ Counted(Released(s, t))
<1>1. PICK en, cl, by, hp, bt :
        s = [entry |-> en, claimed |-> cl, byIP |-> by, heap |-> hp, bytes |-> bt]
  BY DEF Good
<1>2. ASSUME NEW c, NEW C,
             c = [entry |-> s.entry, claimed |-> C, byIP |-> s.byIP,
                  heap |-> s.heap, bytes |-> s.bytes]
      PROVE  Counted(c)
  <2>1. c.entry = s.entry /\ c.byIP = s.byIP /\ c.bytes = s.bytes
    BY <1>2
  <2>2. Held(c) = Held(s)
    BY <2>1 DEF Held
  <2>3. Sized(s, Held(s))
    BY HeldSized DEF Counted
  <2>4. SizeOf(c, Held(s)) = SizeOf(s, Held(s))
    BY <2>1, <2>3, SameSizes
  <2> QED
    BY <2>1, <2>2, <2>4 DEF Counted
<1> QED
  BY <1>1, <1>2 DEF Claimed, Released

\* What every operation of the repository leaves is counted.
LEMMA StepCounted ==
  ASSUME IInv, Counted(store), [Next]_vars
  PROVE  Counted(store')
<1> DEFINE s == Cleaned(store)
<1>1. Good(s) /\ Counted(s)
  BY CleanedGood, CleanedCounted DEF IInv
<1>2. ASSUME NEW t \in Token, NEW ip \in IP, NEW size \in Size, Create(t, ip, size)
      PROVE  Counted(store')
  <2>1. PICK created \in 0 .. now :
        LET e == [ip |-> ip, size |-> size, expires |-> created + TTL]
        IN IF Fits(s, ip, size) THEN store' = Inserted(s, t, e) ELSE store' = s
    BY <1>2 DEF Create
  <2> DEFINE e == [ip |-> ip, size |-> size, expires |-> created + TTL]
  <2>2. e \in Entry /\ e.ip = ip /\ e.size = size
    BY TempDataAssumption DEF Entry, IInv, UploadInv
  <2>3. s.entry[t] = None
    <3>1. issued[t] = None
      BY <1>2 DEF Create
    <3>2. store.entry[t] = None
      BY <3>1, NoneOutside DEF IInv, UploadInv, Good, Entry
    <3> QED
      BY <3>2, CleanedStore
  <2> HIDE DEF s, e
  <2>5. CASE ~Fits(s, ip, size)
    BY <1>1, <2>1, <2>5
  <2>4. CASE Fits(s, ip, size)
    <3>1. store' = Inserted(s, t, e)
      BY <2>1, <2>4 DEF e
    <3> QED
      BY <1>1, <2>2, <2>3, <2>4, <3>1, InsertedCounted
  <2> QED
    BY <2>5, <2>4
<1>3. ASSUME NEW r \in Request, NEW t \in Token, Claim(r, t) PROVE Counted(store')
  <2>1. store' = Claimed(s, t)
    BY <1>3 DEF Claim
  <2> HIDE DEF s
  <2> QED
    BY <1>1, <2>1, ClaimsCounted
<1>4. ASSUME NEW r \in Request, Delete(r) PROVE Counted(store')
  <2>1. store' = Deleted(s, {commit[r].token} \cap Held(s))
    BY <1>4 DEF Delete
  <2> HIDE DEF s
  <2>2. {commit[r].token} \cap Held(s) \in SUBSET Held(s)
    OBVIOUS
  <2> QED
    BY <1>1, <2>1, <2>2, DeletedCounted
<1>5. ASSUME NEW r \in Request, Release(r) PROVE Counted(store')
  <2>1. store' = Released(s, commit[r].token) \/ store' = s
    BY <1>5 DEF Release
  <2> HIDE DEF s
  <2> QED
    BY <1>1, <2>1, ClaimsCounted
<1>6. CASE Sweep
  BY <1>1, <1>6 DEF Sweep
<1>7. CASE Restart
  BY <1>7, EmptyCounted DEF Restart
<1>8. ASSUME UNCHANGED store PROVE Counted(store')
  BY <1>8
<1>9. \A r \in Request : RegisterSucceeds(r) \/ RegisterFails(r) => UNCHANGED store
  BY DEF RegisterSucceeds, RegisterFails
<1>10. Tick \/ UNCHANGED vars => UNCHANGED store
  BY DEF Tick, vars
<1> QED
  BY <1>2, <1>3, <1>4, <1>5, <1>6, <1>7, <1>8, <1>9, <1>10 DEF Next, CommitStep

\* What the repository counts and what it holds agree, no address and no flood of uploads
\* gets more than its limit, and the clock of the model stays within its bound.
THEOREM SpecStoreSound == Spec => []StoreSound
<1> DEFINE CInv == Counted(store) /\ now <= MaxNow
<1>1. Init => CInv
  BY EmptyCounted, TempDataAssumption DEF Init
<1>2. IInv /\ CInv /\ [Next]_vars => CInv'
  <2> SUFFICES ASSUME IInv, CInv, [Next]_vars PROVE CInv'
    OBVIOUS
  <2>1. Counted(store')
    BY StepCounted
  <2>2. now' = now \/ (now < MaxNow /\ now' = now + 1)
    BY DEF Next, CommitStep, Create, Claim, RegisterSucceeds, RegisterFails, Delete, Release,
           Sweep, Tick, Restart, vars
  <2>3. now' <= MaxNow
    BY <2>2, TempDataAssumption DEF IInv, UploadInv
  <2> QED
    BY <2>1, <2>3
<1>3. IInv /\ CInv => StoreSound
  <2> SUFFICES ASSUME IInv, CInv PROVE StoreSound
    OBVIOUS
  <2> DEFINE H == Held(store)
  <2>1. /\ Good(store) /\ Counted(store) /\ Sized(store, H) /\ H \subseteq Token
        /\ \A t \in H : store.entry[t] \in Entry
    BY HeldSized DEF IInv, Counted, Held
  <2>2. CountsAgree
    <3>1. store.bytes = SizeOf(store, H)
      BY <2>1 DEF Counted
    <3>2. \A ip \in IP : store.byIP[ip] = {t \in H : store.entry[t].ip = ip}
      BY <2>1 DEF Counted
    <3>3. store.heap = {[token |-> t, expires |-> store.entry[t].expires] : t \in H}
          /\ store.claimed \subseteq H
      BY <2>1 DEF Good
    <3> QED
      BY <3>1, <3>2, <3>3 DEF CountsAgree
  <2>3. WithinLimits
    <3>1. \A ip \in IP : Cardinality({t \in H : store.entry[t].ip = ip}) <= MaxEntriesPerIP
      BY <2>1 DEF Counted
    <3>2. SizeOf(store, H) <= MaxTotalBytes
      BY <2>1 DEF Counted
    <3> QED
      BY <3>1, <3>2 DEF WithinLimits
  <2>4. store \in Store
    <3>1. store.bytes \in 0 .. MaxTotalBytes
      <4>1. SizeOf(store, H) \in Nat
        BY <2>1, SizeOfSubset
      <4> QED
        BY <2>1, <4>1, TempDataAssumption DEF Counted
    <3>2. store.byIP \in [IP -> SUBSET Token]
      BY <2>1 DEF Counted
    <3>3. store.heap \in SUBSET [token : Token, expires : Nat]
      <4>1. \A t \in H : [token |-> t, expires |-> store.entry[t].expires]
                             \in [token : Token, expires : Nat]
        BY <2>1 DEF Entry
      <4> QED
        BY <2>1, <4>1 DEF Good
    <3>4. store.entry \in [Token -> Entry \cup {None}] /\ store.claimed \in SUBSET Token
      BY <2>1 DEF Good
    <3>5. store = [entry |-> store.entry, claimed |-> store.claimed, byIP |-> store.byIP,
                   heap |-> store.heap, bytes |-> store.bytes]
      BY <2>1 DEF Good
    <3> QED
      BY <3>1, <3>2, <3>3, <3>4, <3>5 DEF Store
  <2>5. TypeOK
    <3>1. now \in 0 .. MaxNow
      BY TempDataAssumption DEF IInv, UploadInv
    <3> QED
      BY <2>4, <3>1 DEF TypeOK, IInv, CommitInv, UploadInv
  <2> QED
    BY <2>2, <2>3, <2>5 DEF StoreSound
<1> QED
  BY <1>1, <1>2, <1>3, SpecIInv, PTL DEF Spec
=============================================================================
