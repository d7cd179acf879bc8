---------------------------- MODULE RatingSlots -----------------------------
(***************************************************************************)
(* What is derived from the records of one player: the slots and averages  *)
(* that the recalculation rebuilds (buildUpdate), OVER POWER without the   *)
(* locked songs, the denominators of its percentage, and the list that a   *)
(* profile shows.  PlayerData models who recalculates when; here are the   *)
(* numbers themselves, with Rating's arithmetic.                           *)
(*                                                                         *)
(* A song is named by its index in the official list, a chart by its song  *)
(* and difficulty; every song has a MASTER chart.  Songs of WORLD'S END    *)
(* have records of their own that none of this counts.                     *)
(***************************************************************************)
EXTENDS Rating, FiniteSets, Sequences, TLC
LOCAL INSTANCE Functions
LOCAL INSTANCE FiniteSetsExt
LOCAL INSTANCE SequencesExt

CONSTANTS
  RatedChart,      \* <<song, "MASTER" or "ULTIMA">>
  ReleasedAt,      \* [song -> day, Unreleased without one]
  Unreleased,
  OperationalDay,  \* songs of later days are skipped
  VersionDay,      \* the days versions are released on
  RatedPlay,       \* [score, lamp] of the plays that are tried
  RatedConst,
  BestMax, NewMax, CandidateMax,  \* how many records a slot holds
  Unranked,        \* no slot_order
  MaxRatingSteps   \* bound: changes between recalculations

RatedSong == {c[1] : c \in RatedChart}

ASSUME RatingSlotsAssumption ==
  /\ RatedSong \subseteq Nat /\ \A s \in RatedSong : <<s, "MASTER">> \in RatedChart
  /\ RatedChart \subseteq RatedSong \X {"MASTER", "ULTIMA"}
  /\ {BestMax, NewMax} \subseteq Nat \ {0} /\ CandidateMax \in Nat
  /\ RatedConst \subseteq Nat \ {0}
  /\ \A p \in RatedPlay : /\ p.score \in Nat /\ p.score <= TheoreticalScore
                          /\ p.lamp \in ComboLamp

VARIABLES
  plays,      \* player_records: chart -> [score, lamp, slot, order]
  consts,     \* charts.const
  shut,       \* deleted songs
  lockRows,   \* player_locked_songs: <<song, is_ultima>>
  version,    \* the day the current version was released on
  current,    \* the player has played since then
  derived,    \* what the last recalculation has stored
  ratingSteps

ratingSlotsVars == <<plays, consts, shut, lockRows, version, current, derived,
                     ratingSteps>>

RatingSlotsTypeOK ==
  /\ DOMAIN plays \subseteq RatedChart /\ consts \in [RatedChart -> RatedConst]
  /\ \A c \in DOMAIN plays : plays[c].order = Unranked \/ plays[c].order \in Nat \ {0}
  /\ shut \subseteq RatedSong /\ lockRows \subseteq RatedSong \X BOOLEAN
  /\ version \in VersionDay /\ current \in BOOLEAN

Recorded(play, slot, order) ==
  [score |-> play.score, lamp |-> play.lamp, slot |-> slot, order |-> order]

\* Rows as earlier releases may have left them: in no slot, or all at the head of one.
RatingSlotsInit ==
  /\ \E played \in SUBSET RatedChart, place \in {<<"none", Unranked>>, <<"best", 1>>} :
       plays \in [played -> {Recorded(p, place[1], place[2]) : p \in RatedPlay}]
  /\ consts \in [RatedChart -> RatedConst]
  /\ shut = {} /\ lockRows = {} /\ current \in BOOLEAN
  /\ version = Min(VersionDay)
  /\ ratingSteps = 0
  /\ derived = [rating |-> 0, best |-> 0, new |-> 0, overpower |-> 0, percent |-> 0]
-----------------------------------------------------------------------------
\* Slots: the best plays of the songs of older versions and of the current one.

Pooled(c) == c[1] \notin shut /\ (ReleasedAt[c[1]] = Unreleased
                                    \/ ReleasedAt[c[1]] <= OperationalDay)
IsNew(c) == ReleasedAt[c[1]] = Unreleased \/ ReleasedAt[c[1]] >= version

RatingOfPlay(p, c) == CalcSingleRating(p[c].score, consts[c])

\* Mutant: the two plays change places in the first comparison.
Before_Lowest(p, a, b) == RatingOfPlay(p, a) < RatingOfPlay(p, b)

\* The order of slots (compareRatingSlotRecord), which need not tell all plays apart.
Before(p, a, b) ==
  LET key(c) == <<-RatingOfPlay(p, c), -consts[c], p[c].score, c[1]>>
      first == {i \in 1 .. 4 : key(a)[i] # key(b)[i]}
  IN first # {} /\ key(a)[Min(first)] < key(b)[Min(first)]

Main(ranked, limit) == SubSeq(ranked, 1, Min({limit, Len(ranked)}))

\* Below a full main slot: the plays that would enter it with SSS+.
Candidates(p, ranked, limit) ==
  LET last == RatingOfPlay(p, ranked[limit])
      worth(c) == /\ p[c].score < SSSPlusScore
                  /\ CalcSingleRating(SSSPlusScore, consts[c]) > last
      all == SelectSeq(SubSeq(ranked, limit + 1, Len(ranked)), worth)
  IN IF Len(ranked) < limit THEN <<>> ELSE SubSeq(all, 1, Min({CandidateMax, Len(all)}))

BuildRatingSlots(p) ==
  LET pool(new) == {c \in DOMAIN p : Pooled(c) /\ IsNew(c) = new}
      ranked(new) == SetToSortSeq(pool(new), LAMBDA a, b : Before(p, a, b))
  IN [best |-> Main(ranked(FALSE), BestMax),
      best_candidate |-> Candidates(p, ranked(FALSE), BestMax),
      new |-> Main(ranked(TRUE), NewMax),
      new_candidate |-> Candidates(p, ranked(TRUE), NewMax)]

SumOfRatings(p, S) == MapThenSumSet(LAMBDA c : RatingOfPlay(p, c), S)

AggregateOfficialRating(p, best, new) ==
  LET sum(S) == SumOfRatings(p, S)
  IN [rating |-> PlayerRating(sum(best), sum(new)),
      best |-> ScaledAverage(sum(best), Cardinality(best)),
      new |-> ScaledAverage(sum(new), Cardinality(new))]
-----------------------------------------------------------------------------
\* OVER POWER: of each song the play that earns most, unless it is locked.

IsSongLocked(s) == <<s, FALSE>> \in lockRows
IsUltimaLocked(s) == \E ultima \in BOOLEAN : <<s, ultima>> \in lockRows
IsLocked(c) == IF c[2] = "ULTIMA" THEN IsUltimaLocked(c[1]) ELSE IsSongLocked(c[1])

OverpowerOfPlay(p, c) == CalcSingleOverpower(p[c].score, consts[c], p[c].lamp)

CalcOverpowerSummary(p) ==
  LET counted == {c \in DOMAIN p : c[1] \notin shut /\ ~IsLocked(c)}
      best(s) == Max({OverpowerOfPlay(p, c) : c \in {d \in counted : d[1] = s}})
  IN MapThenSumSet(best, {c[1] : c \in counted})

HighestConst(charts) == Max({consts[c] : c \in charts})
ChartsOf(s) == {c \in RatedChart : c[1] = s}

\* The denominator at a registration: one query with the player's locks.
OverpowerTargetStats ==
  LET counts(s) == {c \in ChartsOf(s) : <<s, TRUE>> \notin lockRows \/ c[2] # "ULTIMA"}
  IN MapThenSumSet(LAMBDA s : CalcSongMaxOP(HighestConst(counts(s))),
                   {s \in RatedSong \ shut : <<s, FALSE>> \notin lockRows})

\* Mutant: a lock of ULTIMA alone is not looked at.
DynamicDenominator_NormalOnly ==
  MapThenSumSet(LAMBDA s : CalcSongMaxOP(HighestConst(ChartsOf(s))),
                {s \in RatedSong \ shut : ~IsSongLocked(s)})

\* The denominator of a profile: the snapshot of all songs, less what is locked.
DynamicDenominator ==
  LET max(s) == CalcSongMaxOP(HighestConst(ChartsOf(s)))
      withoutUltima(s) == CalcSongMaxOP(HighestConst(ChartsOf(s) \ {<<s, "ULTIMA">>}))
      less(s) == IF IsSongLocked(s) THEN max(s)
                 ELSE IF IsUltimaLocked(s) THEN max(s) - withoutUltima(s)
                 ELSE 0
      all == RatedSong \ shut
  IN MapThenSumSet(max, all) - MapThenSumSet(less, all)

\* The play of each live song that the profile marks; locks are not looked at.
OPTargets(p) ==
  LET shown == {c \in DOMAIN p : c[1] \notin shut}
      better(a, b) == \/ OverpowerOfPlay(p, a) > OverpowerOfPlay(p, b)
                      \/ /\ OverpowerOfPlay(p, a) = OverpowerOfPlay(p, b)
                         /\ a[2] = "ULTIMA" /\ b[2] # "ULTIMA"
  IN {c \in shown : ~\E d \in shown : d[1] = c[1] /\ better(d, c)}

\* What a profile lists: the records of live songs and the charts without one, in order
\* of song and difficulty.
CompletePlayerRecords(p) ==
  LET shown == {c \in DOMAIN p : c[1] \notin shut} \cup {c \in RatedChart : c[1] \notin shut}
  IN SetToSortSeq(shown, LAMBDA a, b : a[1] < b[1] \/ (a[1] = b[1] /\ a[2] = "MASTER"
                                                               /\ b[2] = "ULTIMA"))
-----------------------------------------------------------------------------
\* The recalculation (buildUpdate)

ValidSlotSet(p, slot, limit) ==
  LET held == {c \in DOMAIN p : p[c].slot = slot}
  IN /\ Cardinality(held) <= limit
     /\ \A c \in held : p[c].order # Unranked /\ p[c].order <= limit
     /\ \A c, d \in held : c # d => p[c].order # p[d].order

ValidMainSlots(p) == ValidSlotSet(p, "best", BestMax) /\ ValidSlotSet(p, "new", NewMax)

Rebuilds(p) ==
  \/ ~current
  \/ ~ValidMainSlots(p)
  \/ /\ \A c \in DOMAIN p : p[c].slot \notin {"best", "new"}
     /\ \E c \in DOMAIN p : Pooled(c)

\* The place of each chart in the slots that were built.
Assigned(slots) ==
  UNION {{[chart |-> slots[name][i], slot |-> name, order |-> i] : i \in 1 .. Len(slots[name])} :
           name \in DOMAIN slots}

\* Only what changes is written.
DiffSlots(p, slots) ==
  LET assigned == Assigned(slots)
      charts == {a.chart : a \in assigned}
  IN [clear |-> {c \in DOMAIN p \ charts : p[c].slot # "none" \/ p[c].order # Unranked},
      assign |-> {a \in assigned : p[a.chart].slot # a.slot \/ p[a.chart].order # a.order}]

Applied(p, diff) ==
  [c \in DOMAIN p |->
    IF c \in diff.clear THEN [p[c] EXCEPT !.slot = "none", !.order = Unranked]
    ELSE IF \E a \in diff.assign : a.chart = c
    THEN LET a == CHOOSE a \in diff.assign : a.chart = c
         IN [p[c] EXCEPT !.slot = a.slot, !.order = a.order]
    ELSE p[c]]

NoDiff == [clear |-> {}, assign |-> {}]

BuildUpdate(p) ==
  LET slots == BuildRatingSlots(p)
      held(slot) == {c \in DOMAIN p : p[c].slot = slot /\ Pooled(c)}
      best == IF Rebuilds(p) THEN ToSet(slots.best) ELSE held("best")
      new == IF Rebuilds(p) THEN ToSet(slots.new) ELSE held("new")
      stats == AggregateOfficialRating(p, best, new)
  IN [diff |-> IF Rebuilds(p) THEN DiffSlots(p, slots) ELSE NoDiff,
      derived |-> [rating |-> stats.rating, best |-> stats.best, new |-> stats.new,
                   overpower |-> CalcOverpowerSummary(p), percent |-> derived.percent]]

Recalculate ==
  LET update == BuildUpdate(plays)
  IN /\ plays' = Applied(plays, update.diff)
     /\ derived' = update.derived
     /\ UNCHANGED <<consts, shut, lockRows, version, current, ratingSteps>>
-----------------------------------------------------------------------------
\* What changes between recalculations

RatingStep == ratingSteps < MaxRatingSteps /\ ratingSteps' = ratingSteps + 1

\* Of the slots as they are, whatever the day (calculateAndUpdateRatings).
HeldRating(p) ==
  LET held(slot) == {c \in DOMAIN p : p[c].slot = slot /\ c[1] \notin shut}
  IN AggregateOfficialRating(p, held("best"), held("new"))

\* A registration of one record, in a slot that the client names: every other record
\* leaves its slot.
Play ==
  \E c \in RatedChart, play \in RatedPlay, slot \in {"none", "best"} :
    LET cleared == [d \in DOMAIN plays |-> [plays[d] EXCEPT !.slot = "none", !.order = Unranked]]
        after == (c :> Recorded(play, slot, IF slot = "none" THEN Unranked ELSE 1)) @@ cleared
        stats == HeldRating(after)
        overpower == CalcOverpowerSummary(after)
    IN /\ RatingStep
       /\ plays' = after
       /\ derived' = [rating |-> stats.rating, best |-> stats.best, new |-> stats.new,
                      overpower |-> overpower,
                      percent |-> CalcOverpowerPercent(overpower, OverpowerTargetStats)]
       /\ current' \in BOOLEAN
       /\ UNCHANGED <<consts, shut, lockRows, version>>

ChangeConst ==
  \E c \in RatedChart, const \in RatedConst :
    /\ RatingStep
    /\ consts' = [consts EXCEPT ![c] = const]
    /\ UNCHANGED <<plays, shut, lockRows, version, current, derived>>

\* Deleting a song drops the locks that players hold on it; they are not restored.
SetSongDeleted ==
  \E s \in RatedSong :
    /\ RatingStep
    /\ shut' = IF s \in shut THEN shut \ {s} ELSE shut \cup {s}
    /\ lockRows' = lockRows \ ({s} \X BOOLEAN)
    /\ UNCHANGED <<plays, consts, version, current, derived>>

\* Lock and Unlock: OVER POWER is taken anew, with the locks as they now are.
EditLock ==
  \E s \in RatedSong \ shut, ultima \in BOOLEAN, lock \in BOOLEAN :
    /\ RatingStep
    /\ lock /\ ultima => <<s, "ULTIMA">> \in RatedChart
    /\ lockRows' = IF lock THEN lockRows \cup {<<s, ultima>>} ELSE lockRows \ {<<s, ultima>>}
    /\ UNCHANGED <<plays, consts, shut, version, current>>
    /\ derived' = [derived EXCEPT !.overpower = CalcOverpowerSummary(plays)',
                                  !.percent = CalcOverpowerPercent(CalcOverpowerSummary(plays)',
                                                                   OverpowerTargetStats')]

NextVersion ==
  \E day \in VersionDay :
    /\ RatingStep
    /\ day > version /\ version' = day /\ current' = FALSE
    /\ UNCHANGED <<plays, consts, shut, lockRows, derived>>

RatingSlotsNext ==
  Recalculate \/ Play \/ ChangeConst \/ SetSongDeleted \/ EditLock \/ NextVersion
-----------------------------------------------------------------------------
\* The sum that the rating of a rebuilt player is taken of.
BuiltSum(p) ==
  LET slots == BuildRatingSlots(p)
  IN SumOfRatings(p, ToSet(slots.best)) + SumOfRatings(p, ToSet(slots.new))

WithSSSPlus(p, c) == [p EXCEPT ![c].score = SSSPlusScore]

\* The candidates are the plays that would raise the player's rating with SSS+, as many of
\* them as fit: none is listed in vain and none is passed over (BuildRatingSlots).
CandidatesPromise ==
  LET slots == BuildRatingSlots(plays)
      listed(new) == ToSet(IF new THEN slots.new_candidate ELSE slots.best_candidate)
      rest(new) == {c \in DOMAIN plays : Pooled(c) /\ IsNew(c) = new}
                     \ ToSet(IF new THEN slots.new ELSE slots.best)
      worth(c) == /\ plays[c].score < SSSPlusScore
                  /\ BuiltSum(WithSSSPlus(plays, c)) > BuiltSum(plays)
  IN \A new \in BOOLEAN :
       /\ \A c \in listed(new) : worth(c)
       /\ Cardinality(listed(new)) < CandidateMax =>
            {c \in rest(new) : worth(c)} \subseteq listed(new)

\* The two ways to the denominator agree, and no player is above it, whatever he has
\* locked (getOverpowerTargetStats, applyDynamicOverpowerPercent, PlayerLockedSongSet).
OverpowerWithinDenominator ==
  /\ OverpowerTargetStats = DynamicDenominator
  /\ CalcOverpowerSummary(plays) <= DynamicDenominator

\* A recalculation leaves valid slots and nothing for the next one to change (diffSlots).
RecalculationSettles ==
  LET after == Applied(plays, BuildUpdate(plays).diff)
  IN BuildUpdate(after) = [BuildUpdate(plays) EXCEPT !.diff = NoDiff] /\ ValidMainSlots(after)

\* Every live chart is listed once, and a song that has been played has one marked play.
ProfileComplete ==
  LET list == CompletePlayerRecords(plays)
  IN /\ IsInjective(list) /\ ToSet(list) = {c \in RatedChart : c[1] \notin shut}
     /\ \A s \in RatedSong :
          Cardinality({c \in OPTargets(plays) : c[1] = s}) =
            IF s \notin shut /\ \E c \in DOMAIN plays : c[1] = s THEN 1 ELSE 0

RatingsSound ==
  CandidatesPromise /\ OverpowerWithinDenominator /\ RecalculationSettles /\ ProfileComplete

\* A play that beats its record, and changes nothing else, never lowers what the player's
\* rating is taken of, whatever slots it moves through (CalcSingleRating, BuildRatingSlots).
RatingNeverFalls ==
  [][(/\ plays' # plays /\ <<consts, shut, version>> = <<consts', shut', version'>>
      /\ \A c \in DOMAIN plays : plays'[c].score >= plays[c].score)
        => BuiltSum(plays') >= BuiltSum(plays)]_ratingSlotsVars
=============================================================================
