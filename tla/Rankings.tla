------------------------------ MODULE Rankings -------------------------------
(***************************************************************************)
(* Who is better on a chart.  A user sees the ranking of a chart among     *)
(* friends, and a comparison with one friend over all charts of a          *)
(* difficulty; an administrator sees the ranking of a chart among all      *)
(* users, cut at a limit.  The rows of each answer come from one           *)
(* statement, so that they are of one moment.                              *)
(*                                                                         *)
(* Left out: names, lamps and constants, which are shown as they are, and  *)
(* the rating of an entry, a function of its score (Rating).               *)
(***************************************************************************)
EXTENDS Integers, Sequences, FiniteSets
LOCAL INSTANCE SequencesExt

CONSTANTS
  Ranked,          \* users, numbered in the order of their usernames
  RankedChart,     \* charts, of different songs
  WorldsendChart,  \* those of WORLD'S END; the others are of one difficulty
  RankedScore,
  AdminLimit,      \* info.AdminChartRankingLimit
  MaxRankingSteps  \* bounds the changes explored

ASSUME RankingsAssumption ==
  /\ Ranked \subseteq Nat /\ RankedScore \subseteq Nat /\ AdminLimit \in Nat \ {0}
  /\ WorldsendChart \subseteq RankedChart /\ MaxRankingSteps \in Nat

VARIABLES
  plays,    \* tables player_records and player_worldsend_records: a score and updated_at
  asked,    \* table friendships: one direction, and its status
  shelved,  \* charts of deleted songs
  changes   \* changes so far; the time of the next one

rankingsVars == <<plays, asked, shelved, changes>>

Unplayed == [score |-> -1, at |-> -1]
Play == [score : RankedScore, at : Nat]

RankingsTypeOK ==
  /\ plays \in [Ranked -> [RankedChart -> Play \cup {Unplayed}]]
  /\ asked \in [Ranked -> [Ranked -> {"none", "pending", "accepted"}]]
  /\ shelved \subseteq RankedChart
  /\ changes \in 0 .. MaxRankingSteps

\* Nobody has played; the users are strangers, or friends of earlier days.
RankingsInit ==
  /\ plays = [u \in Ranked |-> [m \in RankedChart |-> Unplayed]]
  /\ \E status \in {"none", "accepted"} :
       asked = [u \in Ranked |-> [v \in Ranked |-> IF u = v THEN "none" ELSE status]]
  /\ shelved = {}
  /\ changes = 0

-----------------------------------------------------------------------------
Kind(m) == IF m \in WorldsendChart THEN "worldsend" ELSE "standard"
HasPlayed(u, m) == plays[u][m] # Unplayed

\* FindChart and FindWorldsendChart.
Findable(m, kind) == Kind(m) = kind /\ m \notin shelved

\* Both directions are accepted; the user among them.
RankingUsers(u) == {u} \cup {v \in Ranked : asked[u][v] = "accepted" /\ asked[v][u] = "accepted"}

\* ORDER BY score DESC, updated_at DESC, username ASC
RanksBefore(m, u, v) ==
  LET p == plays[u][m]
      q == plays[v][m]
  IN \/ p.score > q.score
     \/ p.score = q.score /\ p.at > q.at
     \/ p.score = q.score /\ p.at = q.at /\ u < v

\* ListRecords, ListWorldsendRecords: the users' names in order.
Listed(m, S) == SetToSortSeq({u \in S : HasPlayed(u, m)}, LAMBDA u, v : RanksBefore(m, u, v))

\* Mutant: the first entry is not told from one that ties with a score of 0.
RanksOf_ZeroTies(scores) ==
  FoldLeft(LAMBDA ranks, i :
             Append(ranks, IF scores[i] # (IF i = 1 THEN 0 ELSE scores[i - 1]) THEN i
                           ELSE IF i = 1 THEN 0 ELSE ranks[i - 1]),
           <<>>, [i \in DOMAIN scores |-> i])

\* A change of the score takes the place in the list, a tie the rank before it.
RanksOf(scores) ==
  FoldLeft(LAMBDA ranks, i :
             Append(ranks, IF i = 1 \/ scores[i] # scores[i - 1] THEN i ELSE ranks[i - 1]),
           <<>>, [i \in DOMAIN scores |-> i])

ScoresOf(m, names) == [i \in DOMAIN names |-> plays[names[i]][m].score]
NotFound == [found |-> FALSE]

\* The ranks by user; my_rank is null for a user without an entry.
ChartRanking(m, names) == [i \in DOMAIN names |-> RanksOf(ScoresOf(m, names))[i]]

FriendRanking(u, m, kind) ==
  IF ~Findable(m, kind) THEN NotFound
  ELSE LET names == Listed(m, RankingUsers(u))
           ranks == ChartRanking(m, names)
           mine == {ranks[i] : i \in {j \in DOMAIN names : names[j] = u}}
       IN [found |-> TRUE, names |-> names, ranks |-> ranks, my_rank |-> mine,
           total |-> Len(names)]

\* The records are counted and then listed up to the limit.
AdminList(m) ==
  LET all == Listed(m, Ranked)
  IN [names |-> SubSeq(all, 1, IF Len(all) < AdminLimit THEN Len(all) ELSE AdminLimit),
      total |-> Cardinality({u \in Ranked : HasPlayed(u, m)})]

AdminRanking(m, kind) ==
  IF ~Findable(m, kind) THEN NotFound
  ELSE LET list == AdminList(m)
       IN [found |-> TRUE, names |-> list.names, ranks |-> ChartRanking(m, list.names),
           total |-> list.total]

-----------------------------------------------------------------------------
\* FindAcceptedFriendPair; every user here has a player.
AcceptedPair(u, v) == u # v /\ asked[u][v] = "accepted" /\ asked[v][u] = "accepted"

\* normalizeComparisonPlay: who has not played a chart has a score of 0 on it.
ComparedScore(u, m) == IF HasPlayed(u, m) THEN plays[u][m].score ELSE 0

CompareScores(a, b) ==
  [difference |-> a - b,
   result |-> IF a > b THEN "self_win" ELSE IF a < b THEN "friend_win" ELSE "draw"]

\* The rows of all live charts of a kind, played or not.
Compared(u, v, kind) ==
  [m \in {m \in RankedChart : Findable(m, kind)} |->
     [self |-> HasPlayed(u, m), friend |-> HasPlayed(v, m)]
       @@ CompareScores(ComparedScore(u, m), ComparedScore(v, m))]

CountOf(items, result) == Cardinality({m \in DOMAIN items : items[m].result = result})
CountPlayed(items, self, friend) ==
  Cardinality({m \in DOMAIN items : items[m].self \in self /\ items[m].friend \in friend})

Summary(items) ==
  [total |-> Cardinality(DOMAIN items),
   self_wins |-> CountOf(items, "self_win"),
   draws |-> CountOf(items, "draw"),
   friend_wins |-> CountOf(items, "friend_win"),
   self_played |-> CountPlayed(items, {TRUE}, BOOLEAN),
   friend_played |-> CountPlayed(items, BOOLEAN, {TRUE}),
   both |-> CountPlayed(items, {TRUE}, {TRUE}),
   self_only |-> CountPlayed(items, {TRUE}, {FALSE}),
   friend_only |-> CountPlayed(items, {FALSE}, {TRUE}),
   neither |-> CountPlayed(items, {FALSE}, {FALSE})]

Comparison(u, v, kind) ==
  IF ~AcceptedPair(u, v) THEN NotFound
  ELSE LET items == Compared(u, v, kind)
       IN [found |-> TRUE, items |-> items, summary |-> Summary(items)]

-----------------------------------------------------------------------------
\* A registration of a result, which need not be better.
Registers(u, m) ==
  \E s \in RankedScore :
    /\ s # plays[u][m].score
    /\ plays' = [plays EXCEPT ![u][m] = [score |-> s, at |-> changes \div 2]]
    /\ UNCHANGED <<asked, shelved>>

\* A request, its acceptance, and the end of the friendship.
Befriends(u, v) ==
  /\ \/ /\ asked[u][v] = "none" /\ asked[v][u] = "none"
        /\ asked' = [asked EXCEPT ![u][v] = "pending"]
     \/ /\ asked[u][v] = "none" /\ asked[v][u] = "pending"
        /\ asked' = [asked EXCEPT ![u][v] = "accepted", ![v][u] = "accepted"]
     \/ /\ asked[u][v] = "accepted"
        /\ asked' = [asked EXCEPT ![u][v] = "none", ![v][u] = "none"]
  /\ UNCHANGED <<plays, shelved>>

\* The song of a chart is deleted or restored.
Shelves(m) ==
  /\ shelved' = IF m \in shelved THEN shelved \ {m} ELSE shelved \cup {m}
  /\ UNCHANGED <<plays, asked>>

RankingsNext ==
  /\ changes < MaxRankingSteps /\ changes' = changes + 1
  /\ \/ \E u \in Ranked, m \in RankedChart : Registers(u, m)
     \/ \E u, v \in Ranked : u # v /\ Befriends(u, v)
     \/ \E m \in RankedChart : Shelves(m)

RankingsSpec == RankingsInit /\ [][RankingsNext]_rankingsVars

-----------------------------------------------------------------------------
\* The rank of a user in an answer.
RankIn(answer, u) == answer.ranks[CHOOSE i \in DOMAIN answer.names : answer.names[i] = u]

\* A rank is one more than the number of better scores, whoever else is in the list,
\* however many tie, and also where the best score is 0.
RanksCount ==
  \A u \in Ranked, m \in RankedChart :
    LET answer == FriendRanking(u, m, Kind(m))
    IN answer.found =>
         /\ answer.my_rank = {} <=> ~HasPlayed(u, m)
         /\ \A v \in RankingUsers(u) :
              HasPlayed(v, m) =>
                RankIn(answer, v) =
                  1 + Cardinality({x \in RankingUsers(u) :
                         plays[x][m].score > plays[v][m].score})

\* Two friends see one another on the same charts, in the same order as a third user
\* sees them, and as the administrator does.
RankingsOneOrder ==
  \A u, v \in Ranked, m \in RankedChart :
    u # v /\ HasPlayed(u, m) /\ HasPlayed(v, m) /\ m \notin shelved =>
      LET sees == {w \in Ranked : {u, v} \subseteq RankingUsers(w)}
          better(answer) == RankIn(answer, u) < RankIn(answer, v)
          admin == AdminRanking(m, Kind(m))
      IN /\ u \in sees <=> v \in sees
         /\ \A w \in sees :
              better(FriendRanking(w, m, Kind(m))) <=> plays[u][m].score > plays[v][m].score
         /\ {u, v} \subseteq Range(admin.names) =>
              (better(admin) <=> plays[u][m].score > plays[v][m].score)
         /\ v \notin Range(admin.names) /\ u \in Range(admin.names) =>
              plays[u][m].score >= plays[v][m].score

\* A comparison is the mirror image of the friend's, agrees with the rankings, and its
\* summary counts every chart once.
ComparisonsMirror ==
  \A u, v \in Ranked, kind \in {"standard", "worldsend"} :
    LET mine == Comparison(u, v, kind)
        theirs == Comparison(v, u, kind)
        s == mine.summary
    IN /\ mine.found <=> (u # v /\ v \in RankingUsers(u))
       /\ mine.found <=> theirs.found
       /\ mine.found =>
            /\ \A m \in DOMAIN mine.items :
                 /\ mine.items[m].difference = -theirs.items[m].difference
                 /\ HasPlayed(u, m) /\ HasPlayed(v, m) =>
                      LET answer == FriendRanking(u, m, kind)
                      IN mine.items[m].result = "self_win" <=> RankIn(answer, u) < RankIn(answer, v)
            /\ s.self_wins = theirs.summary.friend_wins /\ s.draws = theirs.summary.draws
            /\ s.self_only = theirs.summary.friend_only /\ s.both = theirs.summary.both
            /\ s.total = s.self_wins + s.draws + s.friend_wins
            /\ s.total = s.both + s.self_only + s.friend_only + s.neither
            /\ s.self_played = s.both + s.self_only

\* The answers about who is better agree with one another.
RankingsAgree == RanksCount /\ RankingsOneOrder /\ ComparisonsMirror
=============================================================================
