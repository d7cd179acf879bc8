------------------------------- MODULE MCUsers ------------------------------
(***************************************************************************)
(* What belongs to users: friendships, the resources of one of them,       *)
(* accounts, one player with its registrations and its file, honors,       *)
(* rankings, the pages of a user, and what a request of one passes before  *)
(* it is handled.  They share no variable: one run explores each of them,  *)
(* the others standing still.                                              *)
(***************************************************************************)
EXTENDS Friendships, UserResources, Accounts, Transfer, Honors, Rankings, Profiles,
        Gate, TLC
CONSTANTS r1, r2, v1, v2, f1, f2, u1, u2, u3, x1, x2, x3, q1, q2, m1, m2, b1, w1, k1, gone,
          n1, n2, n3, ga, gb, gc, j1, j2, d1, d2, d3, d4, sa, sb, sc

VARIABLE part
-----------------------------------------------------------------------------
MCTransfer ==
  LET group == 1 :> [list |-> 0, sort_order |-> 1]
  IN {[goals |-> 1 :> [list |-> 1, sort_order |-> 1] @@ 2 :> [list |-> 0, sort_order |-> 1],
       groups |-> group, filters |-> 1 :> "new", favorites |-> {f1}],
      [goals |-> 1 :> [list |-> 1, sort_order |-> 2],
       groups |-> group, filters |-> <<>>, favorites |-> {}]}

MCFirstUsers ==
  u1 :> [role |-> "admin", uid |-> x1] @@ u2 :> [role |-> "admin", uid |-> NoUid]
    @@ u3 :> NoUser
-----------------------------------------------------------------------------
Entry(c, score, combo, slot, order) ==
  [chart |-> c, score |-> score, clear |-> "clear", combo |-> combo, chain |-> Absent,
   slot |-> slot, order |-> order]
Metric(r) == [rating |-> r, overpower |-> 4000, percent |-> 100000]
CourseEntry(c, score) == [chart |-> c, score |-> score, combo |-> 1, clear |-> TRUE]
Sends(r, standards, worldsends, results) ==
  [rating |-> r, overpower |-> 4000, percent |-> 100000,
   standard |-> standards, worldsend |-> worldsends, course |-> results]

\* Two bests; the second play of one of them is the last of the body.
MCBody ==
  {Sends(15000, <<Entry(m1, 900000, Absent, "best", 1), Entry(m2, 800000, 1, "best", 2)>>,
         <<Entry(w1, 700000, 1, Absent, Absent)>>, <<CourseEntry(k1, 5)>>),
   Sends(16000, <<Entry(m2, 1010000, 3, "best", 1), Entry(gone, 5, 1, Absent, Absent),
                  Entry(b1, 900000, 2, "none", Absent)>>,
         <<>>, <<CourseEntry(gone, 5)>>),
   Sends(16000, <<Entry(m2, 800000, 1, "new", 1), Entry(m1, 900000, 1, "best", 1),
                  Entry(m2, 1010000, 3, "new", 1)>>,
         <<Entry(w1, 700001, 1, Absent, Absent)>>, <<CourseEntry(k1, 6)>>),
   Sends(16000, <<Entry(m1, 900000, 1, "best", 1), Entry(gone, 5, 1, "new", 1)>>, <<>>, <<>>),
   Sends(16000, <<Entry(m1, 900000, 1, "best", 2)>>, <<>>, <<>>)}
MCLimit == [best |-> 2, new |-> 1, best_candidate |-> 1, new_candidate |-> 1]
-----------------------------------------------------------------------------
HonorEntry(slot, name, type, image) ==
  [slot |-> slot, name |-> name, type |-> type, image |-> image, random |-> FALSE]
\* ga and gb are addresses of one file.
MCHonorBody ==
  {{HonorEntry(1, n1, "sp", ga), HonorEntry(2, n2, "sp", gc)},
   {HonorEntry(1, n2, "sp", gc), HonorEntry(2, n1, "sp", gb),
    [HonorEntry(3, n3, "gold", NoImage) EXCEPT !.random = TRUE]},
   {HonorEntry(1, n3, "gold", gc), HonorEntry(1, n1, "sp", gb), HonorEntry(4, n3, "gold", gc)}}
MCHonorEdit == {[name |-> n1, type |-> "sp", image |-> gc]}
-----------------------------------------------------------------------------
\* Two charts of a song with equal constants, a chart of WORLD'S END and a course.
MCCatalog ==
  d1 :> [group |-> "standard", song |-> sa, difficulty |-> 3, const |-> 100]
    @@ d2 :> [group |-> "standard", song |-> sa, difficulty |-> 4, const |-> 100]
    @@ d3 :> [group |-> "worldsend", song |-> sb, difficulty |-> 5, const |-> 50]
    @@ d4 :> [group |-> "course", song |-> sc, difficulty |-> 6, const |-> 50]
SentPlay(score, lamp, slot) == [score |-> score, lamp |-> lamp, slot |-> slot]
\* Plays of equal OVER POWER on the two charts of a song; a play with a score of 0.
MCRegistered ==
  {d1 :> SentPlay(900000, "none", "best") @@ d2 :> SentPlay(900000, "none", "none")
     @@ d3 :> SentPlay(5, "none", "none"),
   d1 :> SentPlay(0, "none", "none") @@ d2 :> SentPlay(900000, "none", "best")
     @@ d4 :> SentPlay(7, "none", "none")}
-----------------------------------------------------------------------------
MCApiLimit == [player |-> 1, editor |-> 1, admin |-> 2]
MCLimitOf == [badges |-> 2, badge |-> 1, login |-> 1, register |-> 1, anonymous |-> 1]
-----------------------------------------------------------------------------
\* The two requests of a part are interchangeable.  As one part moves and the others are
\* as they began, those of all parts are swapped at once.
MCSymmetry ==
  {f \in Permutations({r1, r2, v1, v2, q1, q2}) :
     <<f[r1], f[r2], f[v1], f[v2], f[q1], f[q2]>>
       \in {<<r1, r2, v1, v2, q1, q2>>, <<r2, r1, v2, v1, q2, q1>>}}

usersVars ==
  <<part, vars, resourcesVars, accountsVars, registrationVars, transferVars, honorsVars,
    rankingsVars, profilesVars, gateVars>>

UsersInit ==
  /\ part \in {"friendships", "resources", "accounts", "registration", "honors", "rankings",
              "profiles", "gate"}
  /\ Init /\ ResourcesInit /\ AccountsInit /\ TransferInit /\ HonorsInit /\ RankingsInit
  /\ ProfilesInit /\ GateInit
  /\ part # "rankings" => \A u, v \in Ranked : asked[u][v] = "none"
  /\ part # "profiles" => owner.player = 0 /\ owner.private
  /\ part # "gate" => ~maintenance /\ person.role = "player" /\ person.token = "read"

\* The parts that stand still.
Rest(p) ==
  /\ p # "friendships" => UNCHANGED vars
  /\ p # "resources" => UNCHANGED resourcesVars
  /\ p # "accounts" => UNCHANGED accountsVars
  /\ p # "registration" => UNCHANGED <<registrationVars, transferVars>>
  /\ p # "honors" => UNCHANGED honorsVars
  /\ p # "rankings" => UNCHANGED rankingsVars
  /\ p # "profiles" => UNCHANGED profilesVars
  /\ p # "gate" => UNCHANGED gateVars

UsersNext ==
  /\ \/ part = "friendships" /\ Next
     \/ part = "resources" /\ ResourcesNext
     \/ part = "accounts" /\ AccountsNext
     \/ part = "registration" /\ TransferNext
     \/ part = "honors" /\ HonorsNext
     \/ part = "rankings" /\ RankingsNext
     \/ part = "profiles" /\ ProfilesNext
     \/ part = "gate" /\ GateNext
  /\ UNCHANGED part /\ Rest(part)

UsersSpec == UsersInit /\ [][UsersNext]_usersVars

\* The variables of the part that moves have their types.
UsersTypeOK ==
  /\ part = "friendships" => TypeOK
  /\ part = "resources" => ResourcesTypeOK
  /\ part = "accounts" => AccountsTypeOK
  /\ part = "registration" => TransferTypeOK
  /\ part = "honors" => HonorsTypeOK
  /\ part = "rankings" => RankingsTypeOK
  /\ part = "profiles" => ProfilesTypeOK
  /\ part = "gate" => GateTypeOK

\* RankingsAgree, looked at where it can change (the two rankings and the comparison).
RankingsHold == part = "rankings" => RankingsAgree
=============================================================================
