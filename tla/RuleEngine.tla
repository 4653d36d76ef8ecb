----------------------------- MODULE RuleEngine -----------------------------
(* The pure part of scoring: hard filters (scoring/hard_filter.py), the three
   rule methods (scoring/methods), the validation of the judge's answer
   (llm_judge.LLMJudge._validate), grades, and the What-If grade of a draft.

   A candidate is [age, education, jobs]: education is its rank, 0 for one the
   table does not know; a job is [words, years], on a given day.  A schema is
   [filters, rules, judge, thresholds]: rules and judge map ids to dimensions,
   whose tiers are sequences.  Points are counted in half hundredths, because
   the total is stored with two decimals.

   The code adds and compares binary floats.  A sum is here the exact one and
   an error, -1, 0 or 1: whether the float lies below, on or above the float
   nearest to the exact sum.  An error matters only where a sum meets a
   threshold; no threshold lies closer to a sum than floats err otherwise.   *)
EXTENDS Integers, Sequences, FiniteSets, FiniteSetsExt

CONSTANT None

(* Python's (x or 0). *)
OrZero(x) == IF x = None THEN 0 ELSE x

---------------------------------------------------------------------------
(* _eval_filter: TRUE, FALSE or None for unknown.  What was extracted from a
   resume has no total_score, so a filter on it is always unknown.           *)
EvalFilter(f, cand) ==
  CASE f.kind = "age"       -> IF cand.age = None THEN None ELSE cand.age <= f.bound
    [] f.kind = "education" -> IF cand.education = None THEN None
                               ELSE cand.education >= f.bound
    [] f.kind = "total"     -> None

(* run_hard_filters: the filters the candidate fails; an unknown one rejects
   nobody.                                                                   *)
FailedFilters(cand, filters) == {f.id : f \in {g \in filters : EvalFilter(g, cand) = FALSE}}

---------------------------------------------------------------------------
Words(cand) == UNION {cand.jobs[i].words : i \in DOMAIN cand.jobs}
YearsOf(cand, jobs) == MapThenSumSet(LAMBDA i : cand.jobs[i].years, jobs)

(* The tiers are tried by falling score, equal ones in their order: the first
   of the best among those in `fits`.                                        *)
FirstBest(tiers, fits) ==
  CHOOSE i \in fits : \A k \in fits :
    LET a == OrZero(tiers[i].score)
        b == OrZero(tiers[k].score)
    IN a > b \/ (a = b /\ i <= k)

ExperienceYears(cand, dim) ==
  LET total == YearsOf(cand, DOMAIN cand.jobs)
      fits == {i \in DOMAIN dim.tiers :
                 LET t == dim.tiers[i] IN
                 /\ t.minYears # None /\ total >= t.minYears
                 /\ t.maxYears = None \/ total <= t.maxYears
                 /\ t.required \subseteq Words(cand)}
  IN IF fits = {} THEN 0 ELSE OrZero(dim.tiers[FirstBest(dim.tiers, fits)].score)

(* A tier needs one of its keywords and, when it says so, enough years in the
   jobs that mention a keyword that was hit; otherwise the lowest tier.      *)
TieredKeywordMatch(cand, dim) ==
  LET hits(t) == t.words \cap Words(cand)
      years(t) == YearsOf(cand, {i \in DOMAIN cand.jobs :
                                   cand.jobs[i].words \cap hits(t) # {}})
      fits == {i \in DOMAIN dim.tiers :
                 /\ hits(dim.tiers[i]) # {}
                 /\ \/ dim.tiers[i].minYears = None
                    \/ years(dim.tiers[i]) >= dim.tiers[i].minYears}
  IN IF fits # {} THEN OrZero(dim.tiers[FirstBest(dim.tiers, fits)].score)
     ELSE IF dim.tiers = <<>> THEN 0
     ELSE Min({OrZero(dim.tiers[i].score) : i \in DOMAIN dim.tiers})

Lookup(cand, dim) ==
  IF cand.education # None /\ cand.education \in DOMAIN dim.table
  THEN dim.table[cand.education] ELSE 0

(* score_dimensions *)
ScoreDimensions(cand, rules) ==
  [d \in DOMAIN rules |->
     CASE rules[d].method = "lookup"               -> Lookup(cand, rules[d])
       [] rules[d].method = "experience_years"     -> ExperienceYears(cand, rules[d])
       [] rules[d].method = "tiered_keyword_match" -> TieredKeywordMatch(cand, rules[d])]

Sum(f) == MapThenSumSet(LAMBDA d : OrZero(f[d]), DOMAIN f)

---------------------------------------------------------------------------
(* _validate: one entry for each dimension asked for; a tier the dimension has;
   its score; and quotes from the resume exactly when it has a score.  Quotes
   are "none", "found" (all in the resume) or "foreign".                     *)
ValidEntry(entry, dim) ==
  LET named == {i \in DOMAIN dim.tiers : dim.tiers[i].label = entry.tier}
  IN /\ named # {}
     /\ entry.score = dim.tiers[Min(named)].score
     /\ entry.quotes = IF entry.score = None THEN "none" ELSE "found"

ValidJudge(answer, dims) ==
  /\ DOMAIN answer = DOMAIN dims
  /\ \A d \in DOMAIN dims : ValidEntry(answer[d], dims[d])

(* Points in quarters are sums of powers of two: floats add them exactly. *)
InQuarters(schema) ==
  /\ \A d \in DOMAIN schema.rules : schema.rules[d].method = "lookup" =>
       \A e \in DOMAIN schema.rules[d].table : schema.rules[d].table[e] % 50 = 0
  /\ \A d \in DOMAIN schema.rules : \A i \in DOMAIN schema.rules[d].tiers :
       OrZero(schema.rules[d].tiers[i].score) % 50 = 0
  /\ \A d \in DOMAIN schema.judge : \A i \in DOMAIN schema.judge[d].tiers :
       OrZero(schema.judge[d].tiers[i].score) % 50 = 0
Errors(schema) == IF InQuarters(schema) THEN {0} ELSE {-1, 0, 1}

(* _grade_from: the highest threshold that a sum with an error reaches. *)
Reaches(total, err, t) == total > t.min \/ (total = t.min /\ err >= 0)
GradeFrom(total, err, schema) ==
  LET reached == {t \in schema.thresholds : Reaches(total, err, t)}
  IN IF reached = {} THEN "rejected"
     ELSE (CHOOSE t \in reached : \A u \in reached : t.min >= u.min).grade

(* scores.total_score is NUMERIC(6, 2): rounded to hundredths.  A tie goes
   either way, since the float is hardly ever the tie itself.                *)
StoredTotals(total) == IF total % 2 = 0 THEN {total} ELSE {total - 1, total + 1}

---------------------------------------------------------------------------
(* Mutant. The rules' points are counted twice. *)
WhatIfGrade_StoredTotal(schema, cand, row, err) ==
  IF FailedFilters(cand, schema.filters) # {} THEN "rejected"
  ELSE IF row.judge = None THEN None
  ELSE GradeFrom(Sum(ScoreDimensions(cand, schema.rules)) + row.total, err, schema)

(* whatif_grade: the draft's rules with the judge's points of the stored score;
   None when the stored score never reached the judge.  A row is what Scoring
   stores: [total, grade, failed, rules, subtotal, judge]; err is the error of
   this sum, whatever that of the stored one was.                            *)
WhatIfGrade(schema, cand, row, err) ==
  IF FailedFilters(cand, schema.filters) # {} THEN "rejected"
  ELSE IF row.judge = None THEN None
  ELSE GradeFrom(Sum(ScoreDimensions(cand, schema.rules)) + (row.total - row.subtotal),
                 err, schema)
=============================================================================
