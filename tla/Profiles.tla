------------------------------ MODULE Profiles -------------------------------
(***************************************************************************)
(* What the pages of a user are made of.  A request reads the account, the *)
(* friendship, the player, the records and the songs with statements of    *)
(* their own, outside of any transaction: registrations, deletions of      *)
(* songs and changes of the account commit between them.                   *)
(*                                                                         *)
(* One account, one friend of it, one request ("full" stands for the page  *)
(* with the records in slots and for the one with all of them: they read   *)
(* the same).  A client keeps a view and asks for updated-at to know       *)
(* whether the view is still good.                                         *)
(*                                                                         *)
(* Left out: names, lamps other than the combo's, honors (Honors), the     *)
(* percentage of OVER POWER (RatingSlots), the order of rows and errors of *)
(* the database.                                                           *)
(***************************************************************************)
EXTENDS Rating, Sequences, FiniteSets

CONSTANTS
  ViewChart,     \* charts of both kinds, and courses, each its own song
  Catalog,       \* their group ("standard", "worldsend", "course"), song, difficulty, constant
  Registered,    \* what a registration may send: plays with slots, by chart
  CollectedAt,   \* times of collection, and of the database's clock
  MaxViewSteps   \* bounds the changes around the request

Difficulty == {Catalog[c].difficulty : c \in ViewChart}
ViewSong == {Catalog[c].song : c \in ViewChart}
Requester == {"self", "friend", "anonymous"}

ASSUME ProfilesAssumption ==
  /\ CollectedAt \subseteq Nat \ {0} /\ CollectedAt # {} /\ MaxViewSteps \in Nat
  /\ IsFiniteSet(ViewChart) /\ Difficulty \subseteq Nat \ {0}
  /\ \A c \in ViewChart :
       Catalog[c].group \in {"standard", "worldsend", "course"} /\ Catalog[c].const \in Int
  /\ \A c, d \in ViewChart : Catalog[c].song = Catalog[d].song =>
       /\ Catalog[c].group = Catalog[d].group
       /\ Catalog[c].difficulty = Catalog[d].difficulty => c = d
  \* Only standard charts are put into slots.
  /\ \A body \in Registered : \A c \in DOMAIN body :
       /\ c \in ViewChart /\ body[c].score \in Nat /\ body[c].lamp \in ComboLamp
       /\ body[c].slot # "none" => Catalog[c].group = "standard"

VARIABLES
  owner,     \* its rows in users and players: is_private, player_id (0: none), updated_at,
             \* last_collected_at
  status,    \* the friendship with the friend
  recorded,  \* its rows in the tables of records
  hidden,    \* deleted songs and courses
  view,      \* the request: what it asks, its reads, what it has read, its answer
  since,     \* since the request came: nothing moved, no song moved, allowed once;
             \* whether a deletion ever moved updated_at; and the next player's id
  edits      \* changes so far

profilesVars == <<owner, status, recorded, hidden, view, since, edits>>

Unrecorded == [score |-> 0, lamp |-> "none", slot |-> "none", at |-> 0]
NoAnswer == [outcome |-> "none", player |-> 0, updated |-> 0, rows |-> <<>>, recordsAt |-> 0]

ProfilesTypeOK ==
  /\ owner \in [private : BOOLEAN, player : Nat, updated : CollectedAt \cup {0},
                collected : CollectedAt \cup {0}]
  /\ status \in {"none", "pending", "accepted"}
  /\ \A c \in ViewChart : recorded[c].lamp \in ComboLamp /\ recorded[c].at <= owner.collected
  /\ hidden \subseteq ViewSong
  /\ view.stage \in {"idle", "reading", "done"} /\ view.by \in Requester
  /\ edits \in 0 .. MaxViewSteps

-----------------------------------------------------------------------------
(***************************************************************************)
(* Everything else that goes on.                                           *)
(***************************************************************************)
AllowedTo(by) ==
  \/ ~owner.private
  \/ by = "self"
  \/ by = "friend" /\ status = "accepted"

\* A change, with what it notes, is noted by the request under way.
Moves(noted) ==
  /\ edits < MaxViewSteps /\ edits' = edits + 1
  /\ UNCHANGED view
  /\ since' = [noted EXCEPT !.still = FALSE, !.allowed = @ \/ AllowedTo(view.by)']

\* Every slot is filled anew.  The time moves where the play differs, and only there.
WithBody(rows, body, t) ==
  [c \in ViewChart |->
     IF c \notin DOMAIN body THEN [rows[c] EXCEPT !.slot = "none"]
     ELSE [score |-> body[c].score, lamp |-> body[c].lamp, slot |-> body[c].slot,
           at |-> IF rows[c].at # 0 /\ rows[c].score = body[c].score /\ rows[c].lamp = body[c].lamp
                  THEN rows[c].at ELSE t]]

\* RegisterWithUpdateHistory; a user without a player gets one with a new id.
Registration ==
  \E body \in Registered, t \in CollectedAt :
    /\ t > owner.collected
    /\ owner' = [owner EXCEPT !.player = IF @ = 0 THEN since.next ELSE @, !.updated = t,
                              !.collected = t]
    /\ recorded' = WithBody(recorded, body, t)
    /\ UNCHANGED <<status, hidden>> /\ Moves(since)

\* Delete
PlayerDeletion ==
  /\ owner.player # 0
  /\ owner' = [owner EXCEPT !.player = 0, !.updated = 0, !.collected = 0]
  /\ recorded' = [c \in ViewChart |-> Unrecorded]
  /\ UNCHANGED <<status, hidden>> /\ Moves([since EXCEPT !.next = owner.player + 1])

\* DeleteSong and RestoreSong.  When the player has locked the song, its deletion resets
\* the fingerprint of the player, and the database moves updated_at to its own clock.
SongMoves ==
  \E s \in ViewSong :
    /\ hidden' = IF s \in hidden THEN hidden \ {s} ELSE hidden \cup {s}
    /\ UNCHANGED <<status, recorded>>
    /\ \/ owner' = owner /\ Moves([since EXCEPT !.songs = FALSE])
       \/ /\ s \notin hidden /\ owner.player # 0
          /\ \E t \in CollectedAt : owner' = [owner EXCEPT !.updated = t]
          /\ Moves([since EXCEPT !.songs = FALSE, !.bumped = TRUE])

PrivacyMoves ==
  /\ owner' = [owner EXCEPT !.private = ~@]
  /\ UNCHANGED <<status, recorded, hidden>> /\ Moves(since)

FriendshipMoves ==
  /\ status' = CASE status = "none" -> "pending" [] status = "pending" -> "accepted"
                 [] status = "accepted" -> "none"
  /\ UNCHANGED <<owner, recorded, hidden>> /\ Moves(since)

-----------------------------------------------------------------------------
(***************************************************************************)
(* The reads of each request, in their order.                              *)
(***************************************************************************)
\* Mutant: the player is read last.
Reads_PlayerLast(kind) ==
  CASE kind \in {"profile", "badge"} -> <<"user", "access", "player">>
    [] kind = "full" ->
         <<"user", "access", "records", "songs", "worldsends", "worldsend songs", "courses",
           "player">>
    [] kind = "rating" -> <<"user", "access", "slots", "candidates", "player">>
    [] kind \in {"song", "worldsend song"} -> <<"user", "access", "song", "plays">>
    [] kind = "updated at" -> <<"stamps", "access">>

Reads(kind) ==
  CASE kind \in {"profile", "badge"} -> <<"user", "access", "player">>
    [] kind = "full" ->
         <<"user", "access", "player", "records", "songs", "worldsends", "worldsend songs",
           "courses">>
    [] kind = "rating" -> <<"user", "access", "player", "slots", "candidates">>
    [] kind \in {"song", "worldsend song"} -> <<"user", "access", "song", "plays">>
    [] kind = "updated at" -> <<"stamps", "access">>

Shown(group) ==
  {c \in ViewChart : Catalog[c].group = group /\ Catalog[c].song \notin hidden}
ChartsOf(song) == {c \in ViewChart : Catalog[c].song = song}

\* The rows that join: of this player, on charts of songs that are not deleted.
RowsOn(id, charts) ==
  [c \in {d \in charts : owner.player = id /\ id # 0 /\ recorded[d].at # 0} |-> recorded[c]]

MaxTime(T) == CHOOSE t \in T \cup {0} : \A u \in T : u <= t
LatestOf(rows) == MaxTime({rows[c].at : c \in DOMAIN rows})

\* FindByUsername of the updated_at: deleted songs and courses count.
Stamp == MaxTime({owner.updated, LatestOf(recorded)})

Joined(f, g) == [x \in DOMAIN f \cup DOMAIN g |-> IF x \in DOMAIN f THEN f[x] ELSE g[x]]

\* A chart without a row is shown as not played; courses come so from the statement.
Complete(rows, charts) == Joined(rows, [c \in charts |-> Unrecorded])

PlayerRead(id) == IF owner.player = id THEN owner.updated ELSE 0
WorldsendRows(id) == RowsOn(id, Shown("worldsend"))
CourseResults(id) == Complete(RowsOn(id, Shown("course")), Shown("course"))
SlotRows(id) ==
  LET rows == RowsOn(id, Shown("standard"))
  IN [c \in {d \in DOMAIN rows : rows[d].slot # "none"} |-> rows[c]]
SongRows(id, song) == RowsOn(id, IF song \in hidden THEN {} ELSE ChartsOf(song))

\* What a statement finds now.
Found(read, id, song) ==
  CASE read = "user" -> [private |-> owner.private, player |-> owner.player]
    [] read = "stamps" -> [private |-> owner.private, player |-> owner.player, at |-> Stamp]
    [] read = "access" -> status = "accepted"
    [] read = "player" -> PlayerRead(id)
    [] read = "records" -> RowsOn(id, Shown("standard"))
    [] read = "songs" -> Shown("standard")
    [] read = "worldsends" -> WorldsendRows(id)
    [] read = "worldsend songs" -> Shown("worldsend")
    [] read = "courses" -> CourseResults(id)
    [] read = "slots" -> SlotRows(id)
    [] read = "candidates" -> RowsOn(id, Shown("standard"))
    [] read = "song" -> song \notin hidden
    [] read = "plays" -> SongRows(id, song)

-----------------------------------------------------------------------------
(***************************************************************************)
(* What the answers are made of.                                           *)
(***************************************************************************)
OverpowerOf(c, row) == CalcSingleOverpower(row.score, Catalog[c].const, row.lamp)

\* selectOPTargetChartIDs: of each song the play of the most OVER POWER; of equal ones the
\* greater difficulty.
OPTargets(rows) ==
  LET more(c, d) == \/ OverpowerOf(c, rows[c]) > OverpowerOf(d, rows[d])
                    \/ /\ OverpowerOf(c, rows[c]) = OverpowerOf(d, rows[d])
                       /\ Catalog[c].difficulty > Catalog[d].difficulty
  IN {c \in DOMAIN rows :
        \A d \in DOMAIN rows \ {c} : Catalog[d].song = Catalog[c].song => more(c, d)}

Marked(rows, targets) ==
  [c \in DOMAIN rows |-> [score |-> rows[c].score, lamp |-> rows[c].lamp, slot |-> rows[c].slot,
                         at |-> rows[c].at, target |-> c \in targets]]

\* CompletePlayerRecords, CompleteWorldsendRecords, and the courses.
WholeView(seen) ==
  Marked(Joined(Complete(seen["records"], seen["songs"]),
                Joined(Complete(seen["worldsends"], seen["worldsend songs"]), seen["courses"])),
         OPTargets(seen["records"]))

\* filterPlayerRecordsByDifficultyID; 0 asks for all of them.
SongView(seen, song, difficulty) ==
  LET charts == ChartsOf(song)
      rows == Marked(Complete(seen["plays"], charts),
                     IF \E c \in charts : Catalog[c].group = "worldsend" THEN {}
                     ELSE OPTargets(seen["plays"]))
  IN [c \in {d \in DOMAIN rows : difficulty \in {0, Catalog[d].difficulty}} |-> rows[c]]

RowsFor(kind, seen) ==
  CASE kind = "full" -> WholeView(seen)
    [] kind = "rating" -> Marked(seen["slots"], OPTargets(seen["candidates"]))
    [] kind \in {"song", "worldsend song"} -> SongView(seen, view.song, view.difficulty)
    [] OTHER -> <<>>

\* profile.updated_at is the player's; that of the records is the latest row shown, or the
\* player's where there is none.  A song's page has only the latter.
Answer(kind, seen) ==
  LET rows == RowsFor(kind, seen)
      updated == IF kind = "updated at" THEN seen["stamps"].at
                 ELSE IF kind \in {"song", "worldsend song"} THEN LatestOf(rows)
                 ELSE seen["player"]
      latest == LatestOf(rows)
  IN [outcome |-> "shown",
      player |-> (IF kind = "updated at" THEN seen["stamps"] ELSE seen["user"]).player,
      updated |-> updated, rows |-> rows,
      recordsAt |-> IF latest = 0 THEN updated ELSE latest]

\* canAccessPrivateUser
Accessible(user, accepted) ==
  \/ ~user.private
  \/ view.by = "self"
  \/ view.by = "friend" /\ accepted

\* Whether the request ends here, and how.
GroupAsked == IF view.kind = "song" THEN "standard" ELSE "worldsend"
SongAsked(there) ==
  there /\ \E c \in ChartsOf(view.song) : Catalog[c].group = GroupAsked
HasDifficulty ==
  \/ view.kind # "song" \/ view.difficulty = 0
  \/ \E c \in ChartsOf(view.song) : Catalog[c].difficulty = view.difficulty

Ends(read, seen) ==
  LET user == IF view.kind = "updated at" THEN seen["stamps"] ELSE seen["user"]
  IN CASE read = "access" ->
            IF ~Accessible(user, seen["access"]) THEN "private"
            ELSE IF view.kind = "updated at" /\ user.player = 0 THEN "no player"
            ELSE "no"
       [] read = "player" -> IF seen["player"] = 0 THEN "no player" ELSE "no"
       [] read = "song" -> IF ~SongAsked(seen["song"]) THEN "not found"
                           ELSE IF ~HasDifficulty THEN "invalid difficulty"
                           ELSE IF user.player = 0 THEN "no player"
                           ELSE "no"
       [] OTHER -> "no"

-----------------------------------------------------------------------------
Asks ==
  /\ view.stage = "idle"
  /\ \E kind \in {"profile", "badge", "full", "rating", "song", "worldsend song",
                  "updated at"},
        by \in Requester, song \in ViewSong, difficulty \in {0} \cup Difficulty :
       /\ kind \notin {"song", "worldsend song"} => song = CHOOSE s \in ViewSong : TRUE
       /\ kind # "song" => difficulty = 0
       /\ kind = "badge" => by = "anonymous"
       /\ view' = [stage |-> "reading", kind |-> kind, by |-> by, song |-> song,
                   difficulty |-> difficulty, reads |-> 0, seen |-> <<>>,
                   answer |-> NoAnswer]
       /\ since' = [since EXCEPT !.still = TRUE, !.songs = TRUE, !.allowed = AllowedTo(by)]
  /\ UNCHANGED <<owner, status, recorded, hidden, edits>>

ReadsNext ==
  /\ view.stage = "reading"
  /\ LET read == Reads(view.kind)[view.reads + 1]
         user == IF "user" \in DOMAIN view.seen THEN view.seen["user"].player ELSE 0
         seen == Joined(view.seen, [x \in {read} |-> Found(x, user, view.song)])
         end == Ends(read, seen)
         done(answer) == [view EXCEPT !.stage = "done", !.reads = 0, !.seen = <<>>,
                                      !.answer = answer]
     IN view' = IF end # "no" THEN done([NoAnswer EXCEPT !.outcome = end])
                ELSE IF view.reads + 1 = Len(Reads(view.kind)) THEN done(Answer(view.kind, seen))
                ELSE [view EXCEPT !.reads = @ + 1, !.seen = seen]
  /\ UNCHANGED <<owner, status, recorded, hidden, since, edits>>

\* Nobody has asked yet.  The player is new, or has registered once; the friend is one.
ProfilesInit ==
  /\ \E body \in Registered \cup {<<>>}, private \in BOOLEAN,
        first \in {CHOOSE t \in CollectedAt : \A u \in CollectedAt : t <= u} :
       LET player == IF body = <<>> THEN 0 ELSE 1
           at == IF body = <<>> THEN 0 ELSE first
       IN /\ owner = [private |-> private, player |-> player, updated |-> at, collected |-> at]
          /\ recorded = WithBody([c \in ViewChart |-> Unrecorded], body, at)
          /\ since = [still |-> TRUE, songs |-> TRUE, allowed |-> FALSE, bumped |-> FALSE,
                      next |-> player + 1]
  /\ status = "accepted"
  /\ hidden = {}
  /\ view = [stage |-> "idle", kind |-> "none", by |-> "self", song |-> "none",
             difficulty |-> 0, reads |-> 0, seen |-> <<>>, answer |-> NoAnswer]
  /\ edits = 0

ProfilesNext ==
  \/ Asks
  \/ ReadsNext
  \/ Registration
  \/ PlayerDeletion
  \/ SongMoves
  \/ PrivacyMoves
  \/ FriendshipMoves

ProfilesSpec == ProfilesInit /\ [][ProfilesNext]_profilesVars

-----------------------------------------------------------------------------
Shows(kinds) == view.stage = "done" /\ view.answer.outcome = "shown" /\ view.kind \in kinds

\* What a row of the answer should be: the play stored, the mark on the one play of each
\* song from which the OVER POWER of the song comes.
RightRow(c, row) ==
  LET rivals == {d \in ViewChart : /\ Catalog[d].song = Catalog[c].song /\ recorded[d].at # 0
                                   /\ Catalog[c].group = "standard"}
      best == MaxTime({OverpowerOf(d, recorded[d]) : d \in rivals})
      chosen == {d \in rivals : OverpowerOf(d, recorded[d]) = best}
  IN /\ row.score = recorded[c].score /\ row.lamp = recorded[c].lamp
     /\ row.slot = recorded[c].slot /\ row.at = recorded[c].at
     /\ row.target <=> /\ c \in chosen
                       /\ \A d \in chosen : Catalog[d].difficulty <= Catalog[c].difficulty

\* Which charts an answer should show.
RightCharts ==
  CASE view.kind = "full" -> {c \in ViewChart : Catalog[c].song \notin hidden}
    [] view.kind = "rating" ->
         {c \in ViewChart : Catalog[c].song \notin hidden /\ recorded[c].slot # "none"}
    [] view.kind \in {"song", "worldsend song"} ->
         {c \in ChartsOf(view.song) : view.difficulty \in {0, Catalog[c].difficulty}}
    [] OTHER -> {}

IsRight ==
  /\ DOMAIN view.answer.rows = RightCharts
  /\ \A c \in RightCharts : RightRow(c, view.answer.rows[c])

\* A page answered while nothing changed shows every chart it is about once, played or
\* not, with its play and the right marks, whichever way it was put together.
StillIsRight ==
  Shows({"full", "rating", "song", "worldsend song"}) /\ since.still => IsRight

\* A client that keeps a page and finds that its updated_at is still what updated-at
\* says has the current rows, although the page came from many statements: the player
\* is read first.  Deletions of songs are another matter: of those that happened since,
\* and of a locked song's, after which a registration may bring the same time again.
KeptIsCurrent ==
  /\ Shows({"full", "rating"}) /\ since.songs /\ ~since.bumped
  /\ view.answer.player = owner.player /\ view.answer.updated = Stamp
  => IsRight

\* Nothing is shown of a private account to someone who was not allowed to see it at any
\* moment between the arrival of the request and its answer.
ShownIsAllowed ==
  view.stage = "done" /\ view.answer.outcome \notin {"none", "private"} => since.allowed

\* The pages of a user are what they say they are.
ViewsHonest == StillIsRight /\ KeptIsCurrent /\ ShownIsAllowed
=============================================================================
