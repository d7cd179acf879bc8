---------------------------- MODULE UserResources ----------------------------
(***************************************************************************)
(* What a user may have a limited number of: API tokens, goals in groups,  *)
(* record filters and favorite songs; and the transfer of these data to    *)
(* another server.  Goals are numbered without gaps in the list of their   *)
(* group, and groups in one list: a transfer refuses anything else.        *)
(*                                                                         *)
(* Several requests of the user may run.  One that counts what there is    *)
(* locks the user's row (for favorites: the song's and the player's),      *)
(* reads, and later writes and commits.  Others write without a lock.      *)
(* Everything here belongs to one user; users share nothing but songs.     *)
(* Names and contents are left out: a name that is taken, or a content     *)
(* that is invalid, ends a request without effect, as Cancel does.         *)
(***************************************************************************)
EXTENDS Integers, FiniteSets, Functions

CONSTANTS
  UserRequest,   \* requests of the user that may run at a time
  GoalId, GroupId, FilterId, TokenId,
  Fav,           \* songs
  FilterValue,   \* contents of filters
  NoGroup,       \* the list of ungrouped goals, and that of groups
  Transfer,      \* contents of files that are imported
  MaxGoals, MaxGroups, MaxFilters, MaxTokens, MaxFavorites,
  MaxRows        \* bound on the rows of the user, of all kinds together

\* A listing maps the rows of a table to their list and their number in it.
Place == [list : GroupId \cup {NoGroup}, sort_order : Nat \ {0}]
IsListing(l, ids) == DOMAIN l \subseteq ids /\ l \in [DOMAIN l -> Place]
IsFilters(f) == DOMAIN f \subseteq FilterId /\ f \in [DOMAIN f -> FilterValue]

\* Ids never run out, and a file has finitely many rows.
Suffice(ids, most) == IsFiniteSet(ids) => most <= Cardinality(ids)

ASSUME ResourcesAssumption ==
  /\ GoalId \subseteq Nat /\ GroupId \subseteq Nat /\ NoGroup \notin GroupId
  /\ {MaxGoals, MaxGroups, MaxFilters, MaxTokens, MaxFavorites, MaxRows} \subseteq Nat \ {0}
  /\ Suffice(GoalId, MaxGoals) /\ Suffice(GroupId, MaxGroups)
  /\ Suffice(FilterId, MaxFilters) /\ Suffice(TokenId, MaxTokens)
  /\ \A t \in Transfer :
       /\ IsListing(t.goals, GoalId) /\ IsListing(t.groups, GroupId)
       /\ IsFilters(t.filters) /\ t.favorites \subseteq Fav
       /\ IsFiniteSet(DOMAIN t.goals) /\ IsFiniteSet(DOMAIN t.groups)
       /\ IsFiniteSet(DOMAIN t.filters) /\ IsFiniteSet(t.favorites)

VARIABLES
  mine,      \* the user's rows
  live,      \* songs that are not deleted
  request,   \* what each request is doing
  orphans     \* history: favorites imported for songs that were deleted

resourcesVars == <<mine, live, request, orphans>>

NoRows == <<>>

Counts(l, list) == Cardinality({x \in DOMAIN l : l[x].list = list})

\* The numbers of every list are 1, 2, 3...
Contiguous(l) ==
  \A x \in DOMAIN l :
    {l[y].sort_order : y \in {z \in DOMAIN l : l[z].list = l[x].list}} = 1 .. Counts(l, l[x].list)

ResourcesTypeOK ==
  /\ IsListing(mine.goals, GoalId) /\ IsListing(mine.groups, GroupId)
  /\ IsFilters(mine.filters)
  /\ mine.tokens \subseteq TokenId
  /\ mine.favorites \subseteq Fav /\ live \subseteq Fav /\ orphans \subseteq Fav
  /\ mine.player \in BOOLEAN /\ mine.user \in BOOLEAN
  /\ \A r \in UserRequest : request[r].pc \in {"none", "user", "player", "filter", "import"}

NewUser ==
  [user |-> TRUE, player |-> FALSE, goals |-> NoRows, groups |-> NoRows,
   filters |-> NoRows, tokens |-> {}, favorites |-> {}]
Ended == [pc |-> "none"]

ResourcesInit ==
  /\ mine = NewUser /\ live = Fav /\ orphans = {}
  /\ request = [r \in UserRequest |-> Ended]
-----------------------------------------------------------------------------
\* Listings (goal_arrangement.go, goal_group_order.go)

\* ListByUserID: by number, then by id.
Precedes(l, x, y) ==
  \/ l[x].sort_order < l[y].sort_order
  \/ l[x].sort_order = l[y].sort_order /\ x <= y

\* normalizeAll, assignSortOrders: number every list anew.
Normalized(l) ==
  [x \in DOMAIN l |->
     [list |-> l[x].list,
      sort_order |-> Cardinality({y \in DOMAIN l : l[y].list = l[x].list /\ Precedes(l, y, x)})]]

\* A table with another row.
Added(rows, x, row) == [y \in DOMAIN rows \cup {x} |-> IF y = x THEN row ELSE rows[y]]

\* Mutant: the last number of the list is taken twice.
Last_Taken(l, list) == [list |-> list, sort_order |-> Counts(l, list)]

\* The place of a new row: last in its list.
Last(l, list) == [list |-> list, sort_order |-> Counts(l, list) + 1]

\* GoalArrangement.Remove, GoalGroupOrder.Remove
Removed(l, x) == Normalized(Restrict(l, DOMAIN l \ {x}))

\* Rows are put behind those of another list, in their order.
Behind(l, xs, list) ==
  [y \in DOMAIN l |->
     IF y \in xs
     THEN [list |-> list, sort_order |-> Counts(l, list) + l[y].sort_order]
     ELSE l[y]]

\* Move
GoalMoved(l, x, list) ==
  IF l[x].list = list THEN l ELSE Normalized(Behind(l, {x}, list))

\* RemoveGroup
GroupRemoved(l, group) ==
  Normalized(Behind(l, {y \in DOMAIN l : l[y].list = group}, NoGroup))

\* Reorder: a complete list of the rows of one list, without repetition.
Reorderings(l, list) ==
  LET xs == {x \in DOMAIN l : l[x].list = list}
  IN {[y \in DOMAIN l |-> IF y \in xs THEN [l[y] EXCEPT !.sort_order = p[y]] ELSE l[y]] :
        p \in {q \in [xs -> 1 .. Cardinality(xs)] : \A x, y \in xs : q[x] = q[y] => x = y}}
-----------------------------------------------------------------------------
\* Requests that lock the user's row: FindByIDForUpdate, LockUserByID.

Stage(r, pc) == request[r].pc = pc
Becomes(r, state) == request' = [request EXCEPT ![r] = state]
UserLocked == \E r \in UserRequest : request[r].pc \in {"user", "import"}

\* What such a request may read.
Owned == [goals |-> mine.goals, groups |-> mine.groups, filters |-> mine.filters,
          tokens |-> mine.tokens]

\* Mutant: the user's row is read without a lock.
LockUser_Unlocked(r) ==
  /\ Stage(r, "none") /\ mine.user
  /\ Becomes(r, [pc |-> "user", seen |-> Owned])
  /\ UNCHANGED <<mine, live, orphans>>

\* The lock, then the reads of the transaction.
LockUser(r) ==
  /\ Stage(r, "none") /\ mine.user /\ ~UserLocked
  /\ Becomes(r, [pc |-> "user", seen |-> Owned])
  /\ UNCHANGED <<mine, live, orphans>>

\* The transaction writes what follows from what it has read, and commits.
Saves(r, rows) ==
  /\ Stage(r, "user") /\ mine.user
  /\ mine' = rows /\ Becomes(r, Ended)
  /\ UNCHANGED <<live, orphans>>

\* Bound: there is room for another row.
Room ==
  Cardinality(DOMAIN mine.goals) + Cardinality(DOMAIN mine.groups) + Cardinality(mine.tokens)
    + Cardinality(DOMAIN mine.filters) + Cardinality(mine.favorites) < MaxRows

\* Ids are only told apart, so that any one will do that is free.
NewId(ids, taken) == CHOOSE x \in ids : x \notin taken

GenerateToken(r) ==
  /\ Stage(r, "user") /\ Cardinality(request[r].seen.tokens) < MaxTokens /\ Room
  /\ Saves(r, [mine EXCEPT !.tokens = @ \cup {NewId(TokenId, @)}])

CreateFilter(r) ==
  /\ Stage(r, "user") /\ Cardinality(DOMAIN request[r].seen.filters) < MaxFilters /\ Room
  /\ \E v \in FilterValue :
       Saves(r, [mine EXCEPT !.filters = Added(@, NewId(FilterId, DOMAIN @), v)])

OwnsGroup(r, group) == group = NoGroup \/ group \in DOMAIN request[r].seen.groups

CreateGoal(r) ==
  \E group \in GroupId \cup {NoGroup} :
    /\ Stage(r, "user") /\ OwnsGroup(r, group)
    /\ Cardinality(DOMAIN request[r].seen.goals) < MaxGoals /\ Room
    /\ Saves(r, [mine EXCEPT !.goals =
                  Added(@, NewId(GoalId, DOMAIN @), Last(request[r].seen.goals, group))])

\* SaveGoalArrangement, SaveOrder: refused unless they place the rows there are.
Arranges(r, goals, groups) ==
  /\ DOMAIN goals = DOMAIN mine.goals /\ DOMAIN groups = DOMAIN mine.groups
  /\ Saves(r, [mine EXCEPT !.goals = goals, !.groups = groups])

UpdateGoal(r) ==
  \E g \in DOMAIN mine.goals, group \in GroupId \cup {NoGroup} :
    /\ Stage(r, "user") /\ OwnsGroup(r, group) /\ g \in DOMAIN request[r].seen.goals
    /\ Arranges(r, GoalMoved(request[r].seen.goals, g, group), mine.groups)

ReorderGoals(r) ==
  \E group \in GroupId \cup {NoGroup} :
    /\ Stage(r, "user") /\ OwnsGroup(r, group)
    /\ \E goals \in Reorderings(request[r].seen.goals, group) : Arranges(r, goals, mine.groups)

DeleteGoal(r) ==
  \E g \in DOMAIN mine.goals :
    /\ Stage(r, "user") /\ g \in DOMAIN request[r].seen.goals
    /\ Saves(r, [mine EXCEPT !.goals = Removed(request[r].seen.goals, g)])

CreateGroup(r) ==
  /\ Stage(r, "user") /\ Cardinality(DOMAIN request[r].seen.groups) < MaxGroups /\ Room
  /\ Saves(r, [mine EXCEPT !.groups =
                Added(@, NewId(GroupId, DOMAIN @), Last(request[r].seen.groups, NoGroup))])

ReorderGroups(r) ==
  /\ Stage(r, "user")
  /\ \E groups \in Reorderings(request[r].seen.groups, NoGroup) :
       Arranges(r, mine.goals, groups)

DeleteGroup(r) ==
  \E g \in DOMAIN mine.groups :
    /\ Stage(r, "user") /\ g \in DOMAIN request[r].seen.groups
    /\ Saves(r, [mine EXCEPT !.goals = GroupRemoved(request[r].seen.goals, g),
                             !.groups = Removed(request[r].seen.groups, g)])

\* An error before the commit.
Cancel(r) ==
  /\ ~Stage(r, "none") /\ Becomes(r, Ended)
  /\ UNCHANGED <<mine, live, orphans>>
-----------------------------------------------------------------------------
\* Requests that lock nothing.

Unrequested == UNCHANGED <<live, request, orphans>>

DeleteToken ==
  /\ \E t \in mine.tokens : mine' = [mine EXCEPT !.tokens = @ \ {t}]
  /\ Unrequested

DeleteFilter ==
  /\ \E f \in DOMAIN mine.filters :
       mine' = [mine EXCEPT !.filters = Restrict(@, DOMAIN @ \ {f})]
  /\ Unrequested

\* recordFilterUsecase.Update reads the filter...
ReadFilter(r) ==
  /\ Stage(r, "none")
  /\ \E f \in DOMAIN mine.filters : Becomes(r, [pc |-> "filter", filter |-> f])
  /\ UNCHANGED <<mine, live, orphans>>

\* ...and updates it, if it is still there: a deletion is not undone.
UpdateFilter(r) ==
  /\ Stage(r, "filter") /\ Becomes(r, Ended)
  /\ request[r].filter \in DOMAIN mine.filters
  /\ \E v \in FilterValue : mine' = [mine EXCEPT !.filters[request[r].filter] = v]
  /\ UNCHANGED <<live, orphans>>
-----------------------------------------------------------------------------
\* Favorites: the song is locked, live, then the player.

PlayerLocked == \E r \in UserRequest : Stage(r, "player")
SongLocked(s) == \E r \in UserRequest : Stage(r, "player") /\ request[r].song = s

AddFavorite(r) ==
  \E s \in live :
    /\ Stage(r, "none") /\ mine.player /\ ~PlayerLocked
    /\ Becomes(r, [pc |-> "player", song |-> s, seen |-> mine.favorites])
    /\ UNCHANGED <<mine, live, orphans>>

SaveFavorite(r) ==
  /\ Stage(r, "player") /\ Room /\ Becomes(r, Ended)
  /\ LET s == request[r].song
         full == Cardinality(request[r].seen) >= MaxFavorites
     IN mine' = IF s \in request[r].seen \/ full THEN mine
                ELSE [mine EXCEPT !.favorites = @ \cup {s}]
  /\ UNCHANGED <<live, orphans>>

RemoveFavorite ==
  /\ \E s \in mine.favorites : mine' = [mine EXCEPT !.favorites = @ \ {s}]
  /\ Unrequested

\* An administrator deletes a song with what players have of it, or restores it.
DeleteFavoriteSong(s) ==
  /\ s \in live /\ ~SongLocked(s)
  /\ live' = live \ {s}
  /\ mine' = [mine EXCEPT !.favorites = @ \ {s}]
  /\ UNCHANGED <<request, orphans>>

RestoreFavoriteSong(s) ==
  /\ s \notin live /\ live' = live \cup {s}
  /\ UNCHANGED <<mine, request, orphans>>
-----------------------------------------------------------------------------
\* The player, and with it the favorites, comes with the first registration and
\* goes when the player's data or the user are deleted.

RegisterFirst ==
  /\ mine.user /\ ~mine.player /\ ~UserLocked
  /\ mine' = [mine EXCEPT !.player = TRUE]
  /\ Unrequested

DeletePlayerData ==
  /\ mine.player /\ ~UserLocked /\ ~PlayerLocked
  /\ mine' = [mine EXCEPT !.player = FALSE, !.favorites = {}]
  /\ Unrequested

DeleteResources ==
  /\ mine.user /\ ~UserLocked /\ ~PlayerLocked
  /\ mine' = [NewUser EXCEPT !.user = FALSE]
  /\ Unrequested

\* ExportSnapshot: one consistent read; deleted songs are left out.
Exported ==
  [goals |-> mine.goals, groups |-> mine.groups, filters |-> mine.filters,
   favorites |-> mine.favorites \cap live]

\* UserDataTransferSnapshot.Validate
ValidTransfer(t) ==
  /\ Cardinality(DOMAIN t.groups) <= MaxGroups /\ Contiguous(t.groups)
  /\ Cardinality(DOMAIN t.goals) <= MaxGoals /\ Contiguous(t.goals)
  /\ \A g \in DOMAIN t.goals : t.goals[g].list \in DOMAIN t.groups \cup {NoGroup}
  /\ Cardinality(DOMAIN t.filters) <= MaxFilters
  /\ Cardinality(t.favorites) <= MaxFavorites

\* isDestinationEmpty: tokens do not count.
DestinationEmpty ==
  /\ ~mine.player /\ mine.goals = NoRows /\ mine.groups = NoRows /\ mine.filters = NoRows

\* ImportSnapshot, with the user's row locked, into a user who has nothing.
BeginImport(r) ==
  \E t \in Transfer :
    /\ ValidTransfer(t)
    /\ Stage(r, "none") /\ mine.user /\ ~UserLocked /\ DestinationEmpty
    /\ Becomes(r, [pc |-> "import", data |-> t])
    /\ UNCHANGED <<mine, live, orphans>>

\* The rows are inserted, whatever song a favorite is of.
CommitImport(r) ==
  /\ Stage(r, "import") /\ Becomes(r, Ended) /\ ~mine.player
  /\ LET t == request[r].data
     IN /\ mine' = [mine EXCEPT !.player = TRUE, !.goals = t.goals, !.groups = t.groups,
                                !.filters = t.filters, !.favorites = t.favorites]
        /\ orphans' = orphans \cup (t.favorites \ live)
  /\ UNCHANGED live

ResourcesNext ==
  \/ \E r \in UserRequest :
       \/ LockUser(r) \/ Cancel(r)
       \/ GenerateToken(r) \/ CreateFilter(r)
       \/ CreateGoal(r) \/ UpdateGoal(r) \/ ReorderGoals(r) \/ DeleteGoal(r)
       \/ CreateGroup(r) \/ ReorderGroups(r) \/ DeleteGroup(r)
       \/ ReadFilter(r) \/ UpdateFilter(r)
       \/ AddFavorite(r) \/ SaveFavorite(r)
       \/ BeginImport(r) \/ CommitImport(r)
  \/ DeleteToken \/ DeleteFilter \/ RemoveFavorite
  \/ \E s \in Fav : DeleteFavoriteSong(s) \/ RestoreFavoriteSong(s)
  \/ RegisterFirst \/ DeletePlayerData \/ DeleteResources

ResourcesSpec == ResourcesInit /\ [][ResourcesNext]_resourcesVars
-----------------------------------------------------------------------------
\* However requests interleave, nobody has more than the limits allow.
LimitsHold ==
  /\ Cardinality(mine.tokens) <= MaxTokens
  /\ Cardinality(DOMAIN mine.goals) <= MaxGoals
  /\ Cardinality(DOMAIN mine.groups) <= MaxGroups
  /\ Cardinality(DOMAIN mine.filters) <= MaxFilters
  /\ Cardinality(mine.favorites) <= MaxFavorites

\* Whatever the user has done, what is exported is a file that is accepted on import:
\* no list has a gap or a number twice, no goal is in a group that is gone.  And it
\* leaves no favorite out, but those that came with an import for a deleted song.
AlwaysExportable ==
  /\ ValidTransfer(Exported)
  /\ mine.favorites \ Exported.favorites \subseteq orphans

\* What a user has is within the limits and can be taken along (user_data_transfer.go).
ResourcesSound == LimitsHold /\ AlwaysExportable
=============================================================================
