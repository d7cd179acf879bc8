-------------------------------- MODULE Honors --------------------------------
(***************************************************************************)
(* The honors of players.  Registrations bring honors that the master does *)
(* not have yet and insert them; honors of the type sp are known by their  *)
(* images and somebody is told of a new one once its transaction has       *)
(* committed, to complete it by hand.  Administrators edit the master.     *)
(*                                                                         *)
(* A registration reads from the snapshot of its transaction, but a unique *)
(* key sees the rows of every transaction: it waits for those that have    *)
(* not ended.  Two that wait for each other are a deadlock; the victim's   *)
(* transaction is rolled back by the server, EnsureHonor returns an error, *)
(* applyHonors skips the honor, and the statements that follow run each    *)
(* as a transaction of its own.                                            *)
(*                                                                         *)
(* A player registers one body at a time, under the lock of the user's     *)
(* row; the rest of the registration is in Registration and PlayerData.    *)
(***************************************************************************)
EXTENDS Integers, FiniteSets

CONSTANTS
  Registrant,   \* players that register
  HonorBody,    \* honors of bodies: sets of entries
  HonorEdit,    \* what an administrator enters
  NoImage,      \* image_url is NULL
  Stored,       \* owner of a committed row
  MaxHonors,    \* bound on the ids
  MaxBodies     \* bound on the registrations

ASSUME HonorsAssumption ==
  Stored \notin Registrant /\ {MaxHonors, MaxBodies} \subseteq Nat

VARIABLES
  honors,      \* rows, those of open transactions included, by id
  wearing,     \* player_honors, by player and slot
  register,    \* what each registration is doing
  nextHonor,   \* AUTO_INCREMENT
  bodies,      \* number of registrations so far
  notices,     \* how often each id has been told of
  discovered,  \* history: honors with an image that registrations have committed
  victims      \* history: a registration went on after a deadlock

honorsVars == <<honors, wearing, register, nextHonor, bodies, notices, discovered, victims>>

HonorId == 1 .. MaxHonors
NotRegistering == [pc |-> "idle"]

HonorsTypeOK ==
  /\ DOMAIN honors \subseteq HonorId /\ nextHonor \in 1 .. MaxHonors + 1
  /\ \A i \in DOMAIN honors : i < nextHonor /\ honors[i].owner \in Registrant \cup {Stored}
  /\ \A i, j \in DOMAIN honors :
       /\ honors[i].name = honors[j].name /\ honors[i].type = honors[j].type => i = j
       /\ honors[i].image = honors[j].image /\ honors[i].image # NoImage => i = j
  /\ \A p \in Registrant :
       /\ DOMAIN wearing[p] \subseteq 1 .. 3
       /\ \A s \in DOMAIN wearing[p] : wearing[p][s] \in DOMAIN honors
       /\ register[p].pc \in {"idle", "ensure", "assigned"}
  /\ bodies \in 0 .. MaxBodies /\ discovered \subseteq HonorId

HonorsInit ==
  /\ honors = <<>> /\ wearing = [p \in Registrant |-> <<>>]
  /\ register = [p \in Registrant |-> NotRegistering] /\ nextHonor = 1 /\ bodies = 0
  /\ notices = [i \in HonorId |-> 0] /\ discovered = {} /\ victims = FALSE
-----------------------------------------------------------------------------
HonorRow(h, owner) == [name |-> h.name, type |-> h.type, image |-> h.image, owner |-> owner]
SameName(row, h) == row.name = h.name /\ row.type = h.type
SameImage(row, h) == h.image # NoImage /\ row.image = h.image
WithoutRows(f, S) == [x \in DOMAIN f \ S |-> f[x]]
RowsOf(p) == {i \in DOMAIN honors : honors[i].owner = p}

\* What the snapshot of p's transaction shows: nothing that was committed after it, and
\* the transaction's own rows.  After a deadlock each statement has a snapshot.
Visible(p) ==
  IF register[p].broken THEN [i \in {j \in DOMAIN honors : honors[j].owner = Stored} |-> honors[i]]
  ELSE [i \in DOMAIN register[p].snapshot \cup RowsOf(p) |->
          IF i \in RowsOf(p) THEN honors[i] ELSE register[p].snapshot[i]]

\* The image first, then the name; none of them is an empty set.
FoundIn(rows, h) ==
  LET byImage == {i \in DOMAIN rows : SameImage(rows[i], h)}
  IN IF byImage # {} THEN byImage ELSE {i \in DOMAIN rows : SameName(rows[i], h)}

\* Rows that the unique keys hold against h.
Duplicates(h) == {i \in DOMAIN honors : SameName(honors[i], h) \/ SameImage(honors[i], h)}
Waits(p, h) ==
  /\ FoundIn(Visible(p), h) = {}
  /\ \E i \in Duplicates(h) : honors[i].owner \notin {p, Stored}

\* Entries that are not skipped, and slots whose honor the game picks at random.
Usable(e) == e.slot \in 1 .. 3 /\ ~e.random /\ e.type # "unknown"
             /\ (e.type = "sp" => e.image # NoImage)
\* Only honors of the type sp are stored with their image.
Entered(e) == [name |-> e.name, type |-> e.type,
               image |-> IF e.type = "sp" THEN e.image ELSE NoImage]
Preserved(body) == {e.slot : e \in {x \in body : x.random /\ x.slot \in 1 .. 3}}
-----------------------------------------------------------------------------
\* applyHonors begins: the slots that the body does not preserve are emptied.
HonorsBegin(p, body) ==
  /\ register[p].pc = "idle" /\ bodies < MaxBodies
  /\ bodies' = bodies + 1
  /\ register' = [register EXCEPT ![p] =
       [pc |-> "ensure", broken |-> FALSE, todo |-> {e \in body : Usable(e)},
        kept |-> WithoutRows(wearing[p], 1 .. 3 \ Preserved(body)),
        snapshot |-> [i \in {j \in DOMAIN honors : honors[j].owner = Stored} |-> honors[i]],
        assignments |-> {}, news |-> {}]]
  /\ UNCHANGED <<honors, wearing, nextHonor, notices, discovered, victims>>

\* Mutant: an honor that another registration has just inserted is told of as well.
IsNews_Found(e, inserted) == e.type = "sp"

\* ImageURLRegistered
IsNews(e, inserted) == e.type = "sp" /\ inserted

Ensured(p, e, i, inserted) ==
  [register EXCEPT
     ![p].todo = @ \ {e}, ![p].assignments = @ \cup {[slot |-> e.slot, honor |-> i, entry |-> e]},
     ![p].news = IF IsNews(e, inserted) THEN @ \cup {i} ELSE @]

\* EnsureHonor: found by the snapshot; or inserted; or found by a current read after the
\* unique keys have refused it (for other types by ON DUPLICATE KEY).
EnsureHonor(p, e) ==
  /\ register[p].pc = "ensure" /\ e \in register[p].todo /\ ~Waits(p, Entered(e))
  /\ LET h == Entered(e)
         found == FoundIn(Visible(p), h)
         current == IF found # {} THEN found ELSE FoundIn(honors, h)
     IN IF current # {}
        THEN /\ \E i \in current : register' = Ensured(p, e, i, FALSE)
             /\ UNCHANGED <<honors, nextHonor>>
        ELSE /\ nextHonor <= MaxHonors
             /\ nextHonor' = nextHonor + 1
             /\ honors' = [i \in DOMAIN honors \cup {nextHonor} |->
                  IF i \in DOMAIN honors THEN honors[i]
                  ELSE HonorRow(h, IF register[p].broken THEN Stored ELSE p)]
             /\ register' = Ensured(p, e, nextHonor, TRUE)
  /\ UNCHANGED <<wearing, bodies, notices, discovered, victims>>

\* InnoDB rolls p back, whose honor e waits for q's row while q waits for one of p's.
DeadlockVictim(p, e) ==
  /\ register[p].pc = "ensure" /\ e \in register[p].todo
  /\ \E q \in Registrant \ {p} :
       /\ register[q].pc = "ensure"
       /\ \E i \in Duplicates(Entered(e)) : Waits(p, Entered(e)) /\ honors[i].owner = q
       /\ \E f \in register[q].todo, j \in RowsOf(p) :
            Waits(q, Entered(f)) /\ j \in Duplicates(Entered(f))
  /\ honors' = WithoutRows(honors, RowsOf(p))
  /\ register' = [register EXCEPT ![p].broken = TRUE, ![p].todo = @ \ {e},
                                  ![p].kept = wearing[p]]
  /\ victims' = TRUE
  /\ UNCHANGED <<wearing, nextHonor, bodies, notices, discovered>>

\* BulkAssignHonors: one statement.  If a slot is taken, or an honor has gone, all of its
\* honors are skipped and the registration goes on.
Assign(p) ==
  /\ register[p].pc = "ensure" /\ register[p].todo = {}
  /\ LET r == register[p]
         slots == {a.slot : a \in r.assignments}
         fails == \/ \E a, b \in r.assignments : a.slot = b.slot /\ a # b
                  \/ slots \cap DOMAIN r.kept # {}
                  \/ \E a \in r.assignments : a.honor \notin DOMAIN honors
         given(s) == (CHOOSE a \in r.assignments : a.slot = s).honor
         after == IF fails THEN r.kept
                  ELSE [s \in DOMAIN r.kept \cup slots |->
                          IF s \in slots THEN given(s) ELSE r.kept[s]]
     IN /\ register' = [register EXCEPT ![p].pc = "assigned", ![p].kept = after]
        /\ wearing' = IF r.broken THEN [wearing EXCEPT ![p] = after] ELSE wearing
  /\ UNCHANGED <<honors, nextHonor, bodies, notices, discovered, victims>>

\* The transaction commits, and the new honors are logged (logRegisteredSPHonors).
RegistrationCommits(p) ==
  /\ register[p].pc = "assigned"
  /\ honors' = [i \in DOMAIN honors |->
                  IF i \in RowsOf(p) THEN [honors[i] EXCEPT !.owner = Stored] ELSE honors[i]]
  /\ wearing' = IF register[p].broken THEN wearing
                ELSE [wearing EXCEPT ![p] = register[p].kept]
  /\ discovered' = discovered \cup {i \in RowsOf(p) : honors[i].image # NoImage}
  /\ notices' = [i \in HonorId |-> notices[i] + IF i \in register[p].news THEN 1 ELSE 0]
  /\ register' = [register EXCEPT ![p] = NotRegistering]
  /\ UNCHANGED <<nextHonor, bodies, victims>>

\* The registration fails in what follows the honors.
RegistrationFails(p) ==
  /\ register[p].pc # "idle"
  /\ honors' = WithoutRows(honors, RowsOf(p))
  /\ register' = [register EXCEPT ![p] = NotRegistering]
  /\ UNCHANGED <<wearing, nextHonor, bodies, notices, discovered, victims>>
-----------------------------------------------------------------------------
\* Honors that some player wears, or that an open transaction has assigned.
Worn ==
  (UNION {{wearing[p][s] : s \in DOMAIN wearing[p]} : p \in Registrant})
    \cup (UNION {{register[p].kept[s] : s \in DOMAIN register[p].kept} :
                   p \in {q \in Registrant : register[q].pc = "assigned"}})

\* CreateHonor
CreateHonor(h) ==
  /\ Duplicates(h) = {} /\ nextHonor <= MaxHonors
  /\ honors' = [i \in DOMAIN honors \cup {nextHonor} |->
                  IF i \in DOMAIN honors THEN honors[i] ELSE HonorRow(h, Stored)]
  /\ nextHonor' = nextHonor + 1
  /\ UNCHANGED <<wearing, register, bodies, notices, discovered, victims>>

\* UpdateHonor waits for a transaction that has assigned the honor.
UpdateHonor(i, h) ==
  /\ i \in DOMAIN honors /\ honors[i].owner = Stored /\ Duplicates(h) \subseteq {i}
  /\ \A p \in Registrant : register[p].pc = "assigned" /\ ~register[p].broken =>
       \A a \in register[p].assignments : a.honor # i
  /\ honors' = [honors EXCEPT ![i] = HonorRow(h, Stored)]
  /\ UNCHANGED <<wearing, register, nextHonor, bodies, notices, discovered, victims>>

\* DeleteHonor is refused by the foreign key while somebody wears the honor.
DeleteHonor(i) ==
  /\ i \in DOMAIN honors /\ honors[i].owner = Stored /\ i \notin Worn
  /\ honors' = WithoutRows(honors, {i})
  /\ UNCHANGED <<wearing, register, nextHonor, bodies, notices, discovered, victims>>

HonorsNext ==
  \/ \E p \in Registrant :
       \/ \E body \in HonorBody : HonorsBegin(p, body) \/ \E e \in body : EnsureHonor(p, e)
                                                          \/ DeadlockVictim(p, e)
       \/ Assign(p) \/ RegistrationCommits(p) \/ RegistrationFails(p)
  \/ \E h \in HonorEdit : CreateHonor(h) \/ \E i \in DOMAIN honors : UpdateHonor(i, h)
  \/ \E i \in DOMAIN honors : DeleteHonor(i)

HonorsSpec == HonorsInit /\ [][HonorsNext]_honorsVars
-----------------------------------------------------------------------------
\* Of every honor with an image that a registration adds to the master somebody is told
\* once, and of no other: however registrations of the same images overlap, fail and wait
\* for each other, or the honor is found under another address.  A deadlock ends this:
\* its victim goes on without its transaction (EnsureHonor, logRegisteredSPHonors).
NotifiedOnce ==
  ~victims =>
    \A i \in HonorId : notices[i] = IF i \in discovered THEN 1 ELSE 0
=============================================================================
