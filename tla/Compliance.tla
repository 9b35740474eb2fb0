---- MODULE Compliance ----
(***************************************************************************)
(* The arithmetic of compliance_service.py.  A rating is its place in      *)
(* RATING_ORDER; a percentage and a stored score are counted in hundredths *)
(* of a point, the unrounded score in ten-thousandths, so that the sums    *)
(* are exact.                                                              *)
(***************************************************************************)
EXTENDS Integers

NonCompliant == 0
Bronze == 1
Silver == 2
Gold == 3
Platinum == 4
Rating == NonCompliant .. Platinum

\* Is a rating at least the minimum a rule asks for?
RatingMeetsMinimum(actual, minimum) == actual >= minimum

\* n points as an unrounded score.
Points(n) == n * 100 * 100

\* What a request gives: finite numbers, in the range of percentages or not.
Percentages == [mandatory : Int, bestPractice : Int, runtime : Int, metadata : Int]

\* The weighted sum, 60 : 20 : 15 : 5, in ten-thousandths of a point.
WeightedScore(pct) ==
  60 * pct.mandatory + 20 * pct.bestPractice + 15 * pct.runtime + 5 * pct.metadata

\* The rating of an unrounded score.
ScoreToRating(exact) ==
  IF exact >= Points(90) THEN Platinum
  ELSE IF exact >= Points(75) THEN Gold
  ELSE IF exact >= Points(60) THEN Silver
  ELSE IF exact >= Points(40) THEN Bronze
  ELSE NonCompliant

\* What round(score, 2) may store: the nearest hundredth, either one at a tie,
\* which the binary representation of the sum decides.
Rounded(exact) ==
  {s \in {exact \div 100, exact \div 100 + 1} : 100 * s - exact \in -50 .. 50}

\* (Mutant of CalculatePipelineScore: the rating leaves the metadata out.)
ScoreWithoutMetadata(pct) ==
  {[score |-> s, rating |-> ScoreToRating(WeightedScore([pct EXCEPT !.metadata = 0]))] :
     s \in Rounded(WeightedScore(pct))}

\* The pairs of score and rating calculate_pipeline_score may return.
CalculatePipelineScore(pct) ==
  {[score |-> s, rating |-> ScoreToRating(WeightedScore(pct))] : s \in Rounded(WeightedScore(pct))}
====
