------------------------------ MODULE TempData -------------------------------
(***************************************************************************)
(* Player data uploaded before logging in.  The API process keeps it in    *)
(* memory under a random token until the client, logged in by then,        *)
(* commits it: Commit claims the token, registers the data and deletes the *)
(* token, or releases it if the registration fails so that the client may  *)
(* try again.  Uploads expire; an operation on the store first drops those *)
(* that have.                                                              *)
(*                                                                         *)
(* An operation of the repository runs under one mutex and is one step;    *)
(* the registration runs outside of it.  Its expiry heap and the items by  *)
(* token are one set here.                                                 *)
(***************************************************************************)
EXTENDS Integers, FiniteSets, FiniteSetsExt

CONSTANTS
  Token,          \* tokens that are ever issued (UUIDs: none is issued twice)
  IP, Request,
  Size,           \* sizes of the payloads
  None,
  TTL,            \* info.TempDataTTL
  MaxEntriesPerIP, MaxTotalBytes,
  MaxNow          \* bound of the model: when the clock stops

ASSUME TempDataAssumption ==
  /\ Size \subseteq Nat \ {0}
  /\ TTL \in Nat \ {0}
  /\ MaxEntriesPerIP \in Nat \ {0} /\ MaxTotalBytes \in Nat /\ MaxNow \in Nat
  /\ None \notin Token

VARIABLES
  now,
  store,        \* temporaryPlayerDataRepository
  commit,       \* the Commit requests
  issued,       \* history: when the tokens of this process expire
  succeeded     \* history: tokens whose commit has succeeded

vars == <<now, store, commit, issued, succeeded>>

Entry == [ip : IP, size : Size, expires : Nat]
ASSUME NoneIsNoEntry == None \notin Entry \cup Nat

Store ==
  [entry : [Token -> Entry \cup {None}], claimed : SUBSET Token,
   byIP : [IP -> SUBSET Token], heap : SUBSET [token : Token, expires : Nat],
   bytes : 0 .. MaxTotalBytes]

TypeOK ==
  /\ now \in 0 .. MaxNow
  /\ store \in Store
  /\ commit \in [Request -> [pc : {"idle", "registering", "succeeded", "failed"},
                             token : Token \cup {None}]]
  /\ issued \in [Token -> Nat \cup {None}]
  /\ succeeded \subseteq Token

Empty == [entry |-> [t \in Token |-> None], claimed |-> {},
          byIP |-> [ip \in IP |-> {}], heap |-> {}, bytes |-> 0]
Idle == [pc |-> "idle", token |-> None]

Init ==
  /\ now = 0
  /\ store = Empty
  /\ commit = [r \in Request |-> Idle]
  /\ issued = [t \in Token |-> None]
  /\ succeeded = {}

-----------------------------------------------------------------------------
(* The repository *)

Held(s) == {t \in Token : s.entry[t] # None}
SizeOf(s, T) == MapThenSumSet(LAMBDA t : s.entry[t].size, T)

\* Mutant: the bytes of a claimed upload are not given back.
Deleted_KeepsBytes(s, T) ==
  [entry   |-> [t \in Token |-> IF t \in T THEN None ELSE s.entry[t]],
   claimed |-> s.claimed \ T,
   byIP    |-> [ip \in IP |-> s.byIP[ip] \ {t \in T : s.entry[t].ip = ip}],
   heap    |-> {h \in s.heap : h.token \notin T},
   bytes   |-> s.bytes - SizeOf(s, T \ s.claimed)]

\* deleteEntryLocked, for a set of tokens that have entries.
Deleted(s, T) ==
  [entry   |-> [t \in Token |-> IF t \in T THEN None ELSE s.entry[t]],
   claimed |-> s.claimed \ T,
   byIP    |-> [ip \in IP |-> s.byIP[ip] \ {t \in T : s.entry[t].ip = ip}],
   heap    |-> {h \in s.heap : h.token \notin T},
   bytes   |-> s.bytes - SizeOf(s, T)]

\* Mutant: an upload lives for the whole instant in which it expires.
Expired_Later(s) == {h.token : h \in {x \in s.heap : x.expires < now}}

\* cleanupExpiredLocked: every operation begins with it.
Expired(s) == {h.token : h \in {x \in s.heap : x.expires <= now}}
Cleaned(s) == Deleted(s, Expired(s) \cap Held(s))

Fits(s, ip, size) ==
  Cardinality(s.byIP[ip]) < MaxEntriesPerIP /\ s.bytes + size <= MaxTotalBytes

Inserted(s, t, e) ==
  [entry   |-> [s.entry EXCEPT ![t] = e],
   claimed |-> s.claimed,
   byIP    |-> [s.byIP EXCEPT ![e.ip] = @ \cup {t}],
   heap    |-> s.heap \cup {[token |-> t, expires |-> e.expires]},
   bytes   |-> s.bytes + e.size]

\* Mutant: a claim does not look whether there is one.
Claimable_Again(s, t) == s.entry[t] # None
Claimable(s, t) == s.entry[t] # None /\ t \notin s.claimed
Claimed(s, t) == [s EXCEPT !.claimed = @ \cup {t}]

\* Mutant: a failed commit keeps its claim.
Released_Kept(s, t) == s
Released(s, t) == [s EXCEPT !.claimed = @ \ {t}]

-----------------------------------------------------------------------------
\* The token gets its expiry before Create waits for the mutex.
Create(t, ip, size) ==
  LET s == Cleaned(store)
  IN /\ issued[t] = None
     /\ \E created \in 0 .. now :
          LET e == [ip |-> ip, size |-> size, expires |-> created + TTL]
          IN IF Fits(s, ip, size)
             THEN /\ store' = Inserted(s, t, e)
                  /\ issued' = [issued EXCEPT ![t] = e.expires]
             ELSE /\ store' = s
                  /\ UNCHANGED issued
     /\ UNCHANGED <<now, commit, succeeded>>

Claim(r, t) ==
  LET s == Cleaned(store)
  IN /\ commit[r].pc = "idle"
     /\ Claimable(s, t)
     /\ store' = Claimed(s, t)
     /\ commit' = [commit EXCEPT ![r] = [pc |-> "registering", token |-> t]]
     /\ UNCHANGED <<now, issued, succeeded>>

\* A claim that finds nothing or another claim, or an operation whose client goes
\* while it has the mutex.
Sweep ==
  /\ store' = Cleaned(store)
  /\ UNCHANGED <<now, commit, issued, succeeded>>

\* register, outside of the mutex: the payload is decoded and registered.
RegisterSucceeds(r) ==
  /\ commit[r].pc = "registering"
  /\ commit' = [commit EXCEPT ![r].pc = "succeeded"]
  /\ succeeded' = succeeded \cup {commit[r].token}
  /\ UNCHANGED <<now, store, issued>>

RegisterFails(r) ==
  /\ commit[r].pc = "registering"
  /\ commit' = [commit EXCEPT ![r].pc = "failed"]
  /\ UNCHANGED <<now, store, issued, succeeded>>

\* Mutant: the upload is left to expire.
Delete_Never(r) ==
  /\ commit[r].pc = "succeeded"
  /\ store' = Released(Cleaned(store), commit[r].token)
  /\ commit' = [commit EXCEPT ![r] = Idle]
  /\ UNCHANGED <<now, issued, succeeded>>

\* Both finish with a context that is not cancelled with the request.
Delete(r) ==
  LET s == Cleaned(store)
  IN /\ commit[r].pc = "succeeded"
     /\ store' = Deleted(s, {commit[r].token} \cap Held(s))
     /\ commit' = [commit EXCEPT ![r] = Idle]
     /\ UNCHANGED <<now, issued, succeeded>>

Release(r) ==
  LET s == Cleaned(store)
  IN /\ commit[r].pc = "failed"
     /\ store' = IF commit[r].token \in Held(s)
                   THEN Released(s, commit[r].token) ELSE s
     /\ commit' = [commit EXCEPT ![r] = Idle]
     /\ UNCHANGED <<now, issued, succeeded>>

Tick ==
  /\ now < MaxNow
  /\ now' = now + 1
  /\ UNCHANGED <<store, commit, issued, succeeded>>

\* Nothing of the store survives the process; its tokens mean nothing any more.
Restart ==
  /\ store' = Empty
  /\ commit' = [r \in Request |-> Idle]
  /\ issued' = [t \in Token |-> IF issued[t] = None THEN None ELSE 0]
  /\ UNCHANGED <<now, succeeded>>

CommitStep(r) ==
  \/ \E t \in Token : Claim(r, t)
  \/ RegisterSucceeds(r) \/ RegisterFails(r)
  \/ Delete(r) \/ Release(r)

Next ==
  \/ \E t \in Token, ip \in IP, size \in Size : Create(t, ip, size)
  \/ \E r \in Request : CommitStep(r)
  \/ Sweep
  \/ Tick
  \/ Restart

Spec == Init /\ [][Next]_vars

-----------------------------------------------------------------------------
(* Properties *)

\* The three maps, the heap and the byte count agree about what is stored: a
\* difference would never be repaired and would use up an address's places or
\* the memory until the process is restarted.
CountsAgree ==
  LET H == Held(store)
  IN /\ store.bytes = SizeOf(store, H)
     /\ \A ip \in IP : store.byIP[ip] = {t \in H : store.entry[t].ip = ip}
     /\ store.heap = {[token |-> t, expires |-> store.entry[t].expires] : t \in H}
     /\ store.claimed \subseteq H

\* No address and no flood of uploads gets more than its limit.
WithinLimits ==
  /\ \A ip \in IP : Cardinality({t \in Held(store) : store.entry[t].ip = ip})
                      <= MaxEntriesPerIP
  /\ SizeOf(store, Held(store)) <= MaxTotalBytes

\* The store is sound: its maps have their types, agree and keep the limits.
StoreSound == TypeOK /\ CountsAgree /\ WithinLimits

Using(t) == {r \in Request : commit[r].token = t}

\* Two commits never use one upload at the same time, whatever expires, fails
\* or is tried again meanwhile.
OneCommitPerUpload == \A t \in Token : Cardinality(Using(t)) <= 1

\* An upload that has not expired is there for a commit to take, unless one has
\* succeeded or is just using it: a failed commit never costs a new upload.
RetryPossible ==
  \A t \in Token :
    (issued[t] # None /\ issued[t] > now /\ t \notin succeeded)
      => Claimable(store, t) \/ Using(t) # {}

\* A commit begins only with an upload that has not expired.
ExpiredIsNotTaken ==
  [][\A r \in Request : (commit[r].pc = "idle" /\ commit'[r].pc = "registering")
       => issued[commit'[r].token] > now]_vars

\* The store keeps its promise to the clients.
UploadState ==
  [t \in Token |->
     CASE issued[t] = None -> "unknown"
       [] issued[t] # None /\ Claimable(store, t) -> "open"
       [] issued[t] # None /\ ~Claimable(store, t) /\ t \in succeeded -> "spent"
       [] OTHER -> IF t \in store.claimed THEN "taken" ELSE "lost"]
Promise == INSTANCE TempStore WITH upload <- UploadState
KeepsPromise == Promise!Spec
=============================================================================
