------------------------------ MODULE MCScoring ------------------------------
(* Model-checking instance of Scoring: a candidate whom the second version's
   filter stops, and one of unknown age, whom no filter stops; the second
   version has nothing for the judge and gives whole points.  Points are in
   half hundredths, and the totals 12 and 20 under v1 meet its thresholds.   *)
EXTENDS Scoring, TLC

CONSTANTS v1, v2, c1, c2

MCExtracted ==
  (c1 :> [age |-> 40, education |-> 3, jobs |-> <<[words |-> {"k"}, years |-> 3]>>]) @@
  (c2 :> [age |-> None, education |-> 4,
          jobs |-> <<[words |-> {"k", "m"}, years |-> 2], [words |-> {}, years |-> 4]>>])

MCSchema ==
  (v1 :> [filters |-> {[id |-> "age", kind |-> "age", bound |-> 45],
                       [id |-> "min_total", kind |-> "total", bound |-> 60]},
          rules |-> [edu |-> [method |-> "lookup", weight |-> 4, table |-> (3 :> 2 @@ 4 :> 4),
                              tiers |-> <<>>],
                     years |-> [method |-> "experience_years", weight |-> 4,
                                tiers |-> <<[minYears |-> 5, maxYears |-> None, score |-> 4,
                                             required |-> {"m"}],
                                            [minYears |-> 1, maxYears |-> None, score |-> 2,
                                             required |-> {}]>>]],
          judge |-> [fit |-> [weight |-> 8,
                              tiers |-> <<[label |-> "high", score |-> 8],
                                          [label |-> "mid", score |-> None]>>],
                    tone |-> [weight |-> 4,
                              tiers |-> <<[label |-> "high", score |-> 4],
                                          [label |-> "unknown", score |-> 8]>>]],
          thresholds |-> {[min |-> 12, grade |-> "B"], [min |-> 20, grade |-> "A"]}]) @@
  (v2 :> [filters |-> {[id |-> "edu", kind |-> "education", bound |-> 4]},
          rules |-> [skill |-> [method |-> "tiered_keyword_match", weight |-> 4,
                                tiers |-> <<[words |-> {"m"}, minYears |-> 3, score |-> 400],
                                            [words |-> {"k"}, minYears |-> None, score |-> 200],
                                            [words |-> {}, minYears |-> None, score |-> 0]>>]],
          judge |-> <<>>,
          thresholds |-> {[min |-> 200, grade |-> "A"]}])

(* Valid for fit, valid for tone, and neither. *)
MCAnswers ==
  {[tier |-> "high", score |-> 8, quotes |-> "found", confidence |-> 4],
   [tier |-> "high", score |-> 8, quotes |-> "found", confidence |-> 10],
   [tier |-> "mid", score |-> None, quotes |-> "none", confidence |-> 4],
   [tier |-> "high", score |-> 4, quotes |-> "found", confidence |-> 10],
   [tier |-> "unknown", score |-> 8, quotes |-> "found", confidence |-> None],
   [tier |-> "high", score |-> 8, quotes |-> "foreign", confidence |-> 10],
   [tier |-> "mid", score |-> 4, quotes |-> "none", confidence |-> 4]}

MCF1Target == <<3, 4>>
MCEvidenceTarget == <<9, 10>>
MCSampled == {<<c1, v1>>}
Symmetry == Permutations(Workers)
=============================================================================
