------------------------------ MODULE Fidelity -------------------------------
(***************************************************************************)
(* The fidelity report: what a verdict scores, the weighted level of a     *)
(* window and of its slices with their intervals, calibration, trend,      *)
(* integrity and convergence.                                              *)
(*                                                                         *)
(* Ratios and scores are thousandths, rounded down; an interval is as      *)
(* exact as a square root in hundredths of a quest makes it.               *)
(***************************************************************************)
EXTENDS Integers, FiniteSetsExt, SequencesExt

CONSTANTS MinScoreable, Bins, Thresholds

Clamp(x) == IF x < 0 THEN 0 ELSE IF x > 1000 THEN 1000 ELSE x
Distance(a, b) == IF a < b THEN b - a ELSE a - b
Ratio(part, whole) == IF whole = 0 THEN 0 ELSE (1000 * part) \div whole
Total(seq) == FoldLeft(LAMBDA sum, x : sum + x, 0, seq)
Map(Op(_), seq) == [i \in DOMAIN seq |-> Op(seq[i])]

-----------------------------------------------------------------------------
(* One quest. A verdict is "none" until there is one.                      *)

Counts(verdict) == verdict \in {"confirm", "minor", "major", "reject"}
VerdictScore(verdict) ==
  CASE verdict = "confirm" -> 1000 [] verdict = "minor" -> 500
    [] verdict = "major" -> 200 [] verdict = "reject" -> 0

\* Slip: an easy question counts for nothing.
WeightFromZero(difficulty) == Clamp(difficulty)

\* A trivial question counts for half, a hard one for three times as much.
Weight(difficulty) == 500 + Clamp(difficulty)

-----------------------------------------------------------------------------
(* A slice of a window: its level, its size and its interval.              *)

Root(x) == CHOOSE r \in 0..(x + 1) : r * r <= x /\ (r + 1) * (r + 1) > x

\* Wilson's interval, times (n + z^2): s + z^2/2 -+ z * root(s(n-s)/n + z^2/4),
\* with z = 1.96, in hundredths of a quest.
Wilson(successes, n) ==
  IF n = 0 THEN <<0, 1000>>
  ELSE LET s == successes \div 10
           spread == (196 * Root((s * (100 * n - s)) \div n + 9604)) \div 100
           Bound(x) == Clamp((1000 * x) \div (100 * n + 384)) IN
       <<Bound(s + 192 - spread), Bound(s + 192 + spread)>>

Share(gained, weights) == IF weights = 0 THEN 0 ELSE gained \div weights
SliceOf(scored) ==
  [score |-> Share(Total(Map(LAMBDA q : VerdictScore(q.verdict) * Weight(q.difficulty), scored)),
                   Total(Map(LAMBDA q : Weight(q.difficulty), scored))),
   size |-> Len(scored),
   interval |-> Wilson(Total(Map(LAMBDA q : VerdictScore(q.verdict), scored)), Len(scored))]
Slice(quests) == SliceOf(SelectSeq(quests, LAMBDA q : Counts(q.verdict)))

-----------------------------------------------------------------------------
(* Calibration, over pairs <<confidence, hit>>.                            *)

Hit(pair) == IF pair[2] THEN 1000 ELSE 0
Brier(pairs) ==
  IF pairs = <<>> THEN 0
  ELSE Total(Map(LAMBDA p : ((Clamp(p[1]) - Hit(p)) * (Clamp(p[1]) - Hit(p))) \div 1000, pairs))
         \div Len(pairs)

Bin(confidence) == LET i == (Clamp(confidence) * Bins) \div 1000 IN IF i < Bins THEN i ELSE Bins - 1
Ece(pairs) ==
  IF pairs = <<>> \/ Bins = 0 THEN 0
  ELSE LET In(b) == SelectSeq(pairs, LAMBDA p : Bin(p[1]) = b)
           Error(b) == Distance(Total(Map(LAMBDA p : Clamp(p[1]), In(b))), Total(Map(Hit, In(b)))) IN
       Total([b \in 1..Bins |-> Error(b - 1)]) \div Len(pairs)

-----------------------------------------------------------------------------
(* The trend over the days, oldest first; a weight halves in thirty days.  *)

RECURSIVE Decayed(_)
Decayed(age) == IF age = 0 THEN 1000 ELSE (Decayed(age - 1) * 977) \div 1000

Ewma(daily) ==
  LET weights == [i \in DOMAIN daily |-> Decayed(Len(daily) - i)] IN
  Total([i \in DOMAIN daily |-> weights[i] * daily[i]]) \div Total(weights)

\* The level of each day; <<>> when there is no direction to speak of.
Trend(quests) ==
  LET days == SetToSortSeq({quests[i].day : i \in DOMAIN quests}, <)
      daily == [i \in DOMAIN days |-> Slice(SelectSeq(quests, LAMBDA q : q.day = days[i])).score] IN
  IF Len(days) < 2 THEN <<>> ELSE <<Ewma(daily)>>

-----------------------------------------------------------------------------
(* The report.                                                             *)

\* Reported beside the score, never folded into it.
LongestRun(quests) ==
  Max({0} \cup {n \in 1..Len(quests) : \E i \in 0..(Len(quests) - n) :
                  \A k \in 1..n : quests[i+k].verdict = "confirm"})
Integrity(holdout, decoys) ==
  LET all == holdout \o decoys
      Number(seq, Is(_)) == Len(SelectSeq(seq, Is))
      Answered(q) == q.verdict # "none" IN
  [decoyConfirmRate |-> Ratio(Number(decoys, LAMBDA q : q.verdict = "confirm"), Number(decoys, Answered)),
   decoys |-> Len(decoys),
   fastRate |-> Ratio(Number(all, LAMBDA q : Answered(q) /\ q.seconds < 2), Number(all, Answered)),
   longest |-> LongestRun(holdout),
   expiryRate |-> Ratio(Number(all, LAMBDA q : q.status = "expired"), Len(all))]

NoIntegrity == [decoyConfirmRate |-> 0, decoys |-> 0, fastRate |-> 0, longest |-> 0, expiryRate |-> 0]

Converged(score) ==
  /\ score.overall.score >= Thresholds.overall
  /\ score.overall.interval[1] >= Thresholds.lower
  /\ score.overall.size >= Thresholds.sample
  /\ score.ece <= Thresholds.ece
  /\ score.integrity.decoyConfirmRate <= Thresholds.decoys
  /\ DOMAIN score.byFacet # {}
  /\ \A f \in DOMAIN score.byFacet : score.byFacet[f].size >= Thresholds.perFacet

\* A claim that was trained on, or was meant to be wrong, refuses the whole
\* window; so does too small a sample.
SlicesBy(field, scoreable) ==
  [v \in {scoreable[i][field] : i \in DOMAIN scoreable} |-> Slice(SelectSeq(scoreable, LAMBDA q : q[field] = v))]
ScoreOf(scoreable, pairs) ==
  [overall |-> Slice(scoreable), byFacet |-> SlicesBy("facet", scoreable), byKind |-> SlicesBy("kind", scoreable),
   brier |-> Brier(pairs), ece |-> Ece(pairs), trend |-> Trend(scoreable),
   asOf |-> Max({0} \cup {scoreable[i].day : i \in DOMAIN scoreable}), integrity |-> NoIntegrity]
AggregateOf(quests, scoreable) ==
  IF \E i \in DOMAIN quests : ~quests[i].holdout \/ quests[i].decoy THEN [refused |-> "non_holdout"]
  ELSE IF Len(scoreable) < MinScoreable THEN [refused |-> "insufficient"]
  ELSE [refused |-> "no", score |-> ScoreOf(scoreable, Map(LAMBDA q : <<q.confidence, VerdictScore(q.verdict) >= 500>>, scoreable))]
Aggregate(quests) == AggregateOf(quests, SelectSeq(quests, LAMBDA q : Counts(q.verdict)))

-----------------------------------------------------------------------------
(* From the rows of the store: which quests are scored is decided by their *)
(* clear columns.                                                          *)

WindowStart(window, now) ==
  CASE window = "rolling30" -> now - 30 [] window = "rolling90" -> now - 90 [] window = "all" -> 0

Scoreable(rows, since) ==
  SelectSeq(rows, LAMBDA q : q.holdout /\ ~q.decoy /\ q.status = "answered" /\ q.day >= since)
Decoys(rows, since) == SelectSeq(rows, LAMBDA q : q.decoy /\ q.day >= since)

Judged(score) == [refused |-> "no", score |-> score, converged |-> Converged(score)]
ReportOf(report, integrity) == IF report.refused # "no" THEN report ELSE Judged([report.score EXCEPT !.integrity = integrity])
Report(rows, since) ==
  ReportOf(Aggregate(Scoreable(rows, since)), Integrity(Scoreable(rows, since), Decoys(rows, since)))

-----------------------------------------------------------------------------
(* What the report promises.                                               *)

Better(verdict) ==
  CASE verdict = "reject" -> "major" [] verdict = "major" -> "minor" [] OTHER -> "confirm"
LowestOf(set) == CHOOSE x \in set : \A y \in set : x <= y
HighestOf(set) == CHOOSE x \in set : \A y \in set : y <= x
Between(x, set) == LowestOf(set) <= x + 1 /\ x <= HighestOf(set)

\* Of a slice: certainty is never claimed, the interval holds what was
\* counted, and agreeing with the user once more never costs anything.
HonestSlice(quests) ==
  LET slice == Slice(quests)
      counted == SelectSeq(quests, LAMBDA q : Counts(q.verdict))
      mean == Total(Map(LAMBDA q : VerdictScore(q.verdict), counted)) \div Len(counted) IN
  counted # <<>> =>
    /\ 0 <= slice.interval[1] /\ slice.interval[2] <= 1000
    /\ slice.interval[1] <= mean /\ mean <= slice.interval[2] + 1
    /\ slice.interval[1] < 1000 /\ 0 < slice.interval[2]
    /\ Between(slice.score, {VerdictScore(counted[i].verdict) : i \in DOMAIN counted})
    /\ \A i \in DOMAIN counted :
         LET better == Slice([counted EXCEPT ![i].verdict = Better(@)]) IN
         /\ slice.score <= better.score
         /\ slice.interval[1] <= better.interval[1] /\ slice.interval[2] <= better.interval[2]

\* The slices are the sample, cut up; the level lies among theirs; the trend
\* lies among the days' and follows the newest; and nothing that was trained
\* on or meant to be wrong moves the level.
HonestReportOf(held, report) ==
  LET score == report.score
      Levels(slices) == {slices[v].score : v \in DOMAIN slices}
      daily == {Slice(SelectSeq(held, LAMBDA q : q.day = d)).score : d \in {held[i].day : i \in DOMAIN held}} IN
  IF Len(SelectSeq(held, LAMBDA q : Counts(q.verdict))) < MinScoreable
  THEN report.refused = "insufficient"
  ELSE
    /\ report.refused = "no"
    /\ HonestSlice(held)
    /\ score.overall = Slice(held)
    /\ \A slices \in {score.byFacet, score.byKind} :
         /\ score.overall.size = MapThenSumSet(LAMBDA v : slices[v].size, DOMAIN slices)
         /\ Between(score.overall.score, Levels(slices))
    /\ score.trend # <<>> => Between(score.trend[1], daily)
    /\ score.ece <= 1000 /\ score.brier <= score.ece + 1000
    /\ report.converged => score.integrity.decoyConfirmRate <= Thresholds.decoys
HonestReport(rows, since) ==
  HonestReportOf(SelectSeq(rows, LAMBDA q : q.holdout /\ ~q.decoy /\ q.status = "answered" /\ q.day >= since), Report(rows, since))

\* The trend leans to the newest days.
LeansToTheNewest(daily) ==
  (\A i \in 1..(Len(daily) - 1) : daily[i] < daily[i+1]) =>
    Len(daily) * (Ewma(daily) + 1) >= Total(daily)

\* docs/SPEC.md, 5.3: converged requires all of its criteria, among them sixty
\* distinct sealed days and twenty quests of every facet.
ConvergenceIsComplete(rows, since, sealedDays, facets) ==
  LET report == Report(rows, since) IN
  report.refused = "no" /\ report.converged =>
    /\ sealedDays >= Thresholds.days
    /\ \A f \in facets : f \in DOMAIN report.score.byFacet
=============================================================================
