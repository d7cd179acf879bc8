------------------------------- MODULE Rating -------------------------------
(***************************************************************************)
(* The arithmetic of rating and OVER POWER, in the integers the code       *)
(* counts in: a chart's constant in tenths, the rating of a play in        *)
(* hundredths, averages in ten-thousandths, OVER POWER in thousandths.     *)
(***************************************************************************)
EXTENDS Integers

CONSTANT PercentScale  \* percentScale: parts of a percent that are kept

ASSUME RatingAssumption == PercentScale \in Nat \ {0}

TheoreticalScore == 1010000
SSSPlusScore == 1009000
PlayerRatingSlots == 50
ComboLamp == {"none", "full combo", "all justice"}

NotNegative(n) == IF n < 0 THEN 0 ELSE n

\* How far a constant is above 5, below which low scores earn nothing.
Over5(const) == NotNegative(const - 50)

RatingFromS(score, base) ==
  IF score >= 1009000 THEN base + 215
  ELSE IF score >= 1007500 THEN base + 200 + (score - 1007500) \div 100
  ELSE IF score >= 1005000 THEN base + 150 + (score - 1005000) \div 50
  ELSE IF score >= 1000000 THEN base + 100 + (score - 1000000) \div 100
  ELSE IF score >= 990000 THEN base + 60 + (score - 990000) \div 250
  ELSE base + (score - 975000) \div 250

RatingFromA(score, base) ==
  IF score >= 950000 THEN base - 167 + (score - 950000) \div 150
  ELSE IF score >= 925000 THEN base - 334 + (score - 925000) \div 150
  ELSE base - 500 + (score - 900000) \div 150

RatingBelowA(score, over) ==
  IF score >= 800000 THEN 5 * over + ((score - 800000) * over) \div 20000
  ELSE IF score >= 500000 THEN ((score - 500000) * over) \div 60000
  ELSE 0

CalcSingleRating(score, const) ==
  IF score >= 975000 THEN RatingFromS(score, 10 * const)
  ELSE IF score >= 900000 THEN NotNegative(RatingFromA(score, 10 * const))
  ELSE RatingBelowA(score, Over5(const))
-----------------------------------------------------------------------------
OverpowerFromS(score, const) ==
  IF score >= 1007500 THEN 500 * (const + 20) + ((score - 1007500) * 3) \div 2
  ELSE IF score >= 1005000 THEN 500 * (const + 15) + score - 1005000
  ELSE IF score >= 1000000 THEN 500 * (const + 10) + (score - 1000000) \div 2
  ELSE 500 * const + (score - 975000) \div 5

OverpowerBelowA(score, over) ==
  IF score >= 800000 THEN 250 * over + ((score - 800000) * over) \div 400
  ELSE IF score >= 500000 THEN ((score - 500000) * over) \div 1200
  ELSE 0

\* What the score alone earns.
ScoreOverpower(score, const) ==
  IF score >= 975000 THEN OverpowerFromS(score, const)
  ELSE IF score >= 900000 THEN 500 * (const - 50) + (score - 900000) \div 3
  ELSE OverpowerBelowA(score, Over5(const))

\* What the lamp adds; the theoretical score has the highest bonus under any lamp.
LampOverpower(score, lamp) ==
  IF score = TheoreticalScore THEN 1250
  ELSE IF lamp = "all justice" THEN 1000
  ELSE IF lamp = "full combo" THEN 500
  ELSE 0

\* Truncated to a step that is coarser below S.
CalcSingleOverpower(score, const, lamp) ==
  LET unit == IF score >= 975000 THEN 5 ELSE 50
  IN NotNegative(
       ((ScoreOverpower(score, const) + LampOverpower(score, lamp)) \div unit) * unit)

CalcSongMaxOP(const) ==
  IF const <= 0 THEN 0 ELSE CalcSingleOverpower(TheoreticalScore, const, "all justice")

CalcOverpowerPercent(value, max) ==
  LET percent == NotNegative((value * 100 * PercentScale) \div max)
  IN IF max <= 0 THEN 0 ELSE IF percent > 100 * PercentScale THEN 100 * PercentScale ELSE percent

CalcSingleOverpowerPercent(score, const, lamp) ==
  CalcOverpowerPercent(CalcSingleOverpower(score, const, lamp), CalcSongMaxOP(const))

\* An average of hundredths in ten-thousandths.
ScaledAverage(sum, count) == IF count = 0 THEN 0 ELSE (sum * 100) \div count

PlayerRating(bestSum, newSum) == ScaledAverage(bestSum + newSum, PlayerRatingSlots)
=============================================================================
