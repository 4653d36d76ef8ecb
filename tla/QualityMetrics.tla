--------------------------- MODULE QualityMetrics ---------------------------
(* The metrics of services/quality/metrics.py and of the golden set, as
   functions of a set of items.  An item is a golden label with the score it is
   matched with: [cand, label, grade, reached, judge], where judge maps the
   dimensions of the judge to what was stored for them,
   [tier, score, evidence, confidence].

   A ratio is a pair <<numerator, denominator>>, or None; confidences are in
   tenths.  Means and gaps inside a calibration bin, and the error computed
   from them, are left out: no property is about them.                       *)
EXTENDS RuleEngine

CONSTANTS F1Target, EvidenceTarget, \* ratios, QUALITY_F1_TARGET and ..._COVERAGE_TARGET
          MinBucket                 \* QUALITY_CONFIDENCE_MIN_BUCKET_SIZE

ASSUME TargetsAssumption ==
  /\ F1Target \in Nat \X (Nat \ {0}) /\ EvidenceTarget \in Nat \X (Nat \ {0})
  /\ MinBucket \in Nat \ {0}

Ratio(n, d) == IF d = 0 THEN None ELSE <<n, d>>
AtLeast(r, t) == r[1] * t[2] >= t[1] * r[2]

---------------------------------------------------------------------------
PredictsAdvance(grade) == grade # "rejected"

(* rule_publication.bucket: the cell of the confusion matrix. *)
Cells == {"tp", "fp", "tn", "fn"}
Bucket(label, grade) ==
  IF label = "advance" THEN IF PredictsAdvance(grade) THEN "tp" ELSE "fn"
  ELSE IF PredictsAdvance(grade) THEN "fp" ELSE "tn"

Count(items, P(_)) == Cardinality({i \in items : P(i)})
Total(confusion) == confusion["tp"] + confusion["fp"] + confusion["tn"] + confusion["fn"]

(* metric_stats; precision, recall and accuracy are ratios of the same kind. *)
F1(confusion) ==
  Ratio(2 * confusion["tp"], 2 * confusion["tp"] + confusion["fp"] + confusion["fn"])

(* classification_metrics.  An item without a score is uncovered, even a
   borderline one.                                                           *)
ClassificationMetrics(items) ==
  LET scored == {i \in items : i.grade # None}
      decided == {i \in scored : i.label # "borderline"}
      confusion == [cell \in Cells |-> Count(decided, LAMBDA i : Bucket(i.label, i.grade) = cell)]
  IN [confusion |-> confusion,
      labeled |-> Cardinality(items),
      covered |-> Total(confusion),
      uncovered |-> Count(items, LAMBDA i : i.grade = None),
      borderline |-> Cardinality(scored \ decided),
      f1 |-> F1(confusion)]

(* Mutant. Borderline labels without a score are counted as borderline. *)
GoldenMetrics_AllBorderline(items) ==
  LET scored == {i \in items : i.grade # None}
      borderline == Count(items, LAMBDA i : i.label = "borderline")
      confusion == [cell \in Cells |->
        Count(scored, LAMBDA i : i.label # "borderline" /\ Bucket(i.label, i.grade) = cell)]
  IN [confusion |-> confusion,
      uncovered |-> Cardinality(items) - (Total(confusion) + borderline),
      borderline |-> borderline]

(* golden_metrics and _build_stats, the report of the golden set: uncovered is
   what the other counts leave.                                              *)
GoldenMetrics(items) ==
  LET scored == {i \in items : i.grade # None}
      borderline == Count(scored, LAMBDA i : i.label = "borderline")
      confusion == [cell \in Cells |->
        Count(scored, LAMBDA i : i.label # "borderline" /\ Bucket(i.label, i.grade) = cell)]
  IN [confusion |-> confusion,
      uncovered |-> Cardinality(items) - (Total(confusion) + borderline),
      borderline |-> borderline]

---------------------------------------------------------------------------
IsKnown(o) == o.tier # "unknown" /\ o.score # None

(* evidence_metrics: of the dimensions the bound rules expect of the candidates
   the judge saw, how many have a score with evidence.                       *)
EvidenceMetrics(items, dims) ==
  LET seen == {i \in items : i.reached}
      expected == seen \X dims
      covered == {p \in expected :
                    /\ p[2] \in DOMAIN p[1].judge
                    /\ IsKnown(p[1].judge[p[2]]) /\ p[1].judge[p[2]].evidence}
  IN [expected |-> Cardinality(expected), covered |-> Cardinality(covered),
      value |-> Ratio(Cardinality(covered), Cardinality(expected)),
      status |-> IF dims = {} THEN "not_applicable"
                 ELSE IF expected = {} THEN "insufficient_data" ELSE "ok"]

---------------------------------------------------------------------------
(* _weighted_confidence: over the dimensions with a bound positive weight, a
   known tier and a usable confidence; None when there is none.              *)
WeightedConfidence(judge, weight) ==
  LET used == {d \in DOMAIN judge \cap DOMAIN weight : weight[d] > 0 /\ IsKnown(judge[d])}
      mass == MapThenSumSet(LAMBDA d : weight[d], used)
  IN Ratio(MapThenSumSet(LAMBDA d : weight[d] * judge[d].confidence, used), 10 * mass)

(* _bin_index: five bins of 0.2, the last one closed. *)
Bins == 1..5
(* Mutant. A bin includes its upper edge. *)
BinIndex_Closed(confidence) ==
  IF \E b \in Bins : 5 * confidence[1] <= b * confidence[2]
  THEN Min({b \in Bins : 5 * confidence[1] <= b * confidence[2]}) ELSE 5

BinIndex(confidence) ==
  IF \E b \in Bins : 5 * confidence[1] < b * confidence[2]
  THEN Min({b \in Bins : 5 * confidence[1] < b * confidence[2]}) ELSE 5

(* confidence_metrics: the judged items with a decided label, by bin; a bin
   with too few of them has no accuracy.                                     *)
ConfidenceMetrics(items, weight) ==
  LET judged == {i \in items : i.label # "borderline" /\ i.grade # None /\ i.reached}
      rated == {<<i, WeightedConfidence(i.judge, weight)>> : i \in judged}
      usable == {p \in rated : p[2] # None}
      Correct(p) == PredictsAdvance(p[1].grade) = (p[1].label = "advance")
      bin == [b \in Bins |-> {p \in usable : BinIndex(p[2]) = b}]
  IN [unavailable |-> Cardinality(rated \ usable),
      count |-> [b \in Bins |-> Cardinality(bin[b])],
      accuracy |-> [b \in Bins |->
        IF Cardinality(bin[b]) >= MinBucket
        THEN Ratio(Count(bin[b], Correct), Cardinality(bin[b])) ELSE None]]

---------------------------------------------------------------------------
(* target_result, release_rollup and the part of _metric_block they decide. *)
TargetResult(value, target, nullStatus) ==
  IF value = None THEN nullStatus
  ELSE IF AtLeast(value, target) THEN "meets_target" ELSE "below_target"

(* Mutant. Missing data does not count against a release. *)
ReleaseRollup_OnlyBelow(f1, evidence) ==
  IF "below_target" \in {f1, evidence} THEN "below_target" ELSE "meets_target"

ReleaseRollup(f1, evidence) ==
  IF {f1, evidence} \cap {"below_target", "insufficient_data"} # {}
  THEN "below_target" ELSE "meets_target"

ReleaseStatus(items, dims) ==
  LET evidence == EvidenceMetrics(items, dims)  IN
  ReleaseRollup(
    TargetResult(ClassificationMetrics(items).f1, F1Target, "insufficient_data"),
    TargetResult(evidence.value, EvidenceTarget,
                 IF evidence.status = "not_applicable" THEN "not_applicable"
                 ELSE "insufficient_data"))
=============================================================================
