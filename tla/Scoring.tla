------------------------------ MODULE Scoring ------------------------------
(* Scoring (scoring/pipeline.py) by concurrent workers, and what is derived
   from the scores: second opinions queued by a score, by a golden label and by
   a reviewer's feedback (services/cross_check/sampling.py and triggers.py), and
   the metrics of QualityMetrics.  One JD.

   A worker commits its reads before it asks the judge; it inserts the score,
   decides on the second opinion and commits in a later transaction.  A golden
   import inserts its label, looks for scores that contradict it and commits.
   Both read only what is committed.  The cross-checks themselves are in the
   module CrossCheck; here, the reasons each was queued for.                 *)
EXTENDS QualityMetrics

CONSTANTS Candidates, Versions, Workers,
          Extracted,       \* candidate -> what was extracted from the resume, once
          Schema,          \* version -> its schema
          Answers,         \* entries the judge's answers are made of
          Sampled,         \* <<candidate, version>> in the deterministic sample
          LowConfidence,   \* CROSS_ENGINE_LOW_CONFIDENCE, in tenths
          MaxRuns,         \* bound: scoring runs started
          MaxInputs        \* bound: golden labels imported and decisions of a reviewer

ScoreKeys == Candidates \X Versions
GoldenLabels == {"advance", "reject", "borderline"}
TierLabels == {"high", "mid", "low", "unknown"}
Points == Int \cup {None}
Confidences == 0..10

(* A schema, as RuleSchema admits it. *)
IsTiers(tiers) ==
  /\ tiers \in Seq({tiers[i] : i \in DOMAIN tiers})
  /\ \A i \in DOMAIN tiers : tiers[i].score \in Points
IsRule(dim) ==
  /\ dim.method \in {"lookup", "experience_years", "tiered_keyword_match"}
  /\ IsTiers(dim.tiers)
  /\ dim.method = "lookup" => \A e \in DOMAIN dim.table : dim.table[e] \in Int
IsJudged(dim) ==
  /\ dim.weight \in Nat /\ IsTiers(dim.tiers)
  /\ \A i \in DOMAIN dim.tiers : dim.tiers[i].label \in TierLabels
IsSchema(s) ==
  /\ IsFiniteSet(s.thresholds) /\ \A t \in s.thresholds : t.min \in Int
  /\ IsFiniteSet(DOMAIN s.rules) /\ \A d \in DOMAIN s.rules : IsRule(s.rules[d])
  /\ IsFiniteSet(DOMAIN s.judge) /\ \A d \in DOMAIN s.judge : IsJudged(s.judge[d])

(* What the judge may say of a dimension; confidences are in tenths, quotes are
   as in ValidEntry.  The confidence that comes with an unknown tier is never
   read: none is given.                                                      *)
Entry == {e \in [tier : TierLabels, score : Points, quotes : {"none", "found", "foreign"},
                 confidence : Confidences \cup {None}] :
            (e.tier = "unknown") = (e.confidence = None)}

(* What is stored of the judge's answer to a version's dimensions, and a row of
   scores.                                                                   *)
Opinions(v) ==
  [DOMAIN Schema[v].judge -> [tier : TierLabels, score : Points, evidence : BOOLEAN,
                              confidence : Confidences \cup {None}]]
Grades(v) == {"rejected"} \cup {t.grade : t \in Schema[v].thresholds}
Rows(v) ==
  [total : Int, grade : Grades(v), failed : SUBSET {f.id : f \in Schema[v].filters},
   rules : {<<>>} \cup [DOMAIN Schema[v].rules -> Int], subtotal : Int,
   judge : {None} \cup Opinions(v)]

ASSUME SchemaAssumption ==
  /\ DOMAIN Schema = Versions /\ \A v \in Versions : IsSchema(Schema[v])
  /\ IsFiniteSet(Candidates)
  /\ Answers \subseteq Entry

ASSUME ScoringNoneAssumption ==
  /\ None \notin GoldenLabels \cup {"agreed", "disagreed", "hold"} \cup (Int \X Int) \cup Int
  /\ \A v \in Versions : None \notin Rows(v) \cup Opinions(v) \cup Grades(v)

(* A bound of the model. *)
ASSUME ScoringBoundsAssumption == MaxRuns \in Nat /\ MaxInputs \in Nat

VARIABLES scores,    \* key -> row of scores, or None
          golden,    \* candidate -> golden label, or None
          feedback,  \* key -> ai_agreed of the reviewer's decision, or None
          checks,    \* key -> sample_reasons of the queued cross-check
          worker,    \* worker -> its run
          runs,      \* number of runs started
          inputs,    \* number of labels and decisions given
          import,    \* the golden import in progress
          overlapped \* keys whose score and label were in flight together (auxiliary)

vars == <<scores, golden, feedback, checks, worker, runs, inputs, import, overlapped>>

Resting == [pc |-> "idle", key |-> None, judge |-> None, row |-> None, reasons |-> {}]
NoImport == [pc |-> "idle", cand |-> None, label |-> None, reasons |-> None]

Init ==
  /\ scores = [k \in ScoreKeys |-> None]
  /\ golden = [c \in Candidates |-> None]
  /\ feedback = [k \in ScoreKeys |-> None]
  /\ checks = [k \in ScoreKeys |-> {}]
  /\ worker = [w \in Workers |-> Resting]
  /\ runs = 0 /\ inputs = 0
  /\ import = NoImport
  /\ overlapped = {}

---------------------------------------------------------------------------
(* The decision to ask for a second opinion. *)

Weights(v) == [d \in DOMAIN Schema[v].judge |-> Schema[v].judge[d].weight]

(* eligible: a second engine is configured; there must be dimensions of the
   schema to judge again.                                                    *)
Eligible(v, judge) == judge # None /\ DOMAIN judge \cap DOMAIN Schema[v].judge # {}

(* sampling.weighted_confidence *)
SamplingConfidence(v, judge) ==
  LET weights == Weights(v)
      used == {d \in DOMAIN judge \cap DOMAIN weights :
                 weights[d] > 0 /\ judge[d].tier # "unknown"}
  IN Ratio(MapThenSumSet(LAMBDA d : weights[d] * judge[d].confidence, used),
           10 * MapThenSumSet(LAMBDA d : weights[d], used))

(* trigger_reasons *)
Reasons == {"deterministic_sample", "low_confidence", "golden_error", "ai_hr_disagreement"}
TriggerReasons(key, judge, grade, label, disagreed) ==
  LET confidence == SamplingConfidence(key[2], judge)  IN
  {r \in Reasons :
     CASE r = "deterministic_sample" -> key \in Sampled
       [] r = "low_confidence" -> confidence = None \/ ~ AtLeast(confidence, <<LowConfidence, 10>>)
       [] r = "golden_error" -> /\ label \in {"advance", "reject"}
                                /\ (grade # "rejected") # (label = "advance")
       [] r = "ai_hr_disagreement" -> disagreed}

(* queue_cross_check_for_score, for a committed score: the reasons it would be
   queued for.                                                               *)
QueueReasons(key, label, disagreed) ==
  IF Eligible(key[2], scores[key].judge)
  THEN TriggerReasons(key, scores[key].judge, scores[key].grade, label, disagreed)
  ELSE {}

---------------------------------------------------------------------------
(* ScoringPipeline.run.  The candidate, the version v that is active at this
   moment (publication, in RulePublication, may change it between any two runs)
   and the score that may exist are read, and the reads committed; a score that
   exists is the result.                                                     *)
StartScoring(w, c, v) ==
  LET key == <<c, v>>  IN
  /\ worker[w].pc = "idle"
  /\ scores[key] = None
  /\ runs < MaxRuns /\ runs' = runs + 1
  /\ worker' = [worker EXCEPT ![w] =
       [Resting EXCEPT !.key = key,
                       !.pc = IF FailedFilters(Extracted[c], Schema[v].filters) = {}
                              THEN "judge" ELSE "insert"]]
  /\ UNCHANGED <<scores, golden, feedback, checks, inputs, import, overlapped>>

(* The entries that are valid for some dimension of a version. *)
ValidEntries == [v \in Versions |->
  {e \in Answers : \E d \in DOMAIN Schema[v].judge : ValidEntry(e, Schema[v].judge[d])}]

(* Stage C: the judge answers, validly or not (an answer that is not valid, in
   the end, fails the run), or, without dimensions, is not asked.            *)
JudgeAnswers(w) ==
  LET v == worker[w].key[2]
      dims == Schema[v].judge
  IN
  /\ worker[w].pc = "judge"
  /\ \E asked \in SUBSET DOMAIN dims : \E answer \in [asked -> ValidEntries[v]] :
       /\ ValidJudge(answer, dims)
       /\ worker' = [worker EXCEPT ![w].pc = "insert",
            ![w].judge = [d \in asked |->
              [tier |-> answer[d].tier, score |-> answer[d].score,
               evidence |-> answer[d].quotes # "none", confidence |-> answer[d].confidence]]]
  /\ UNCHANGED <<scores, golden, feedback, checks, runs, inputs, import, overlapped>>

RunFails(w) ==
  /\ worker[w].pc # "idle"
  /\ worker' = [worker EXCEPT ![w] = Resting]
  /\ UNCHANGED <<scores, golden, feedback, checks, runs, inputs, import, overlapped>>

(* The rows a run may insert: rejected by the filters, or with the points of
   the rules and of the judge, graded with the error of their sum and then
   rounded.                                                                  *)
ScoreRows(key, judge) ==
  LET cand == Extracted[key[1]]
      schema == Schema[key[2]]
      failed == FailedFilters(cand, schema.filters)
      rules == ScoreDimensions(cand, schema.rules)
      total == Sum(rules) + Sum([d \in DOMAIN judge |-> judge[d].score])
  IN IF failed # {}
     THEN {[total |-> 0, grade |-> "rejected", failed |-> failed,
            rules |-> <<>>, subtotal |-> 0, judge |-> None]}
     ELSE {[total |-> stored, grade |-> GradeFrom(total, err, schema), failed |-> {},
            rules |-> rules, subtotal |-> Sum(rules), judge |-> judge]
           : stored \in StoredTotals(total), err \in Errors(schema)}

(* Mutant. A conflict overwrites the stored row. *)
RowsFor_Overwrites(key, judge) == ScoreRows(key, judge)

(* _upsert_score: ON CONFLICT DO NOTHING leaves a row that is there. *)
RowsFor(key, judge) == IF scores[key] # None THEN {scores[key]} ELSE ScoreRows(key, judge)

(* The insertion, after a wait for another transaction that is inserting the
   same key; then _maybe_queue_cross_check on the score that is stored, with
   the answer this run got.                                                  *)
InsertScore(w) ==
  LET key == worker[w].key
      judge == worker[w].judge
  IN
  /\ worker[w].pc = "insert"
  /\ ~ \E o \in Workers : worker[o].pc = "commit" /\ worker[o].key = key /\ scores[key] = None
  /\ \E row \in RowsFor(key, judge) :
       worker' = [worker EXCEPT ![w].pc = "commit", ![w].row = row,
         ![w].reasons = IF Eligible(key[2], judge)
                        THEN TriggerReasons(key, judge, row.grade, golden[key[1]], FALSE)
                        ELSE {}]
  /\ UNCHANGED <<scores, golden, feedback, checks, runs, inputs, import, overlapped>>

CommitScore(w) ==
  LET key == worker[w].key  IN
  /\ worker[w].pc = "commit"
  /\ scores' = [scores EXCEPT ![key] = worker[w].row]
  /\ checks' = [checks EXCEPT ![key] = @ \cup worker[w].reasons]
  /\ worker' = [worker EXCEPT ![w] = Resting]
  /\ overlapped' = IF scores[key] = None /\ import.cand = key[1]
                   THEN overlapped \cup {key} ELSE overlapped
  /\ UNCHANGED <<golden, feedback, runs, inputs, import>>

---------------------------------------------------------------------------
(* import_golden_set for one row of the file: the label is written, and the
   judged scores of the candidate examined under it ...                      *)
Disagreed(key) == feedback[key] = "disagreed"

(* Mutant. No second opinion is queued. *)
ImportLabel_NoQueue(c, label) ==
  /\ import.pc = "idle"
  /\ inputs < MaxInputs /\ inputs' = inputs + 1
  /\ import' = [pc |-> "commit", cand |-> c, label |-> label,
                reasons |-> [v \in Versions |-> {}]]
  /\ UNCHANGED <<scores, golden, feedback, checks, worker, runs, overlapped>>

ImportLabel(c, label) ==
  /\ import.pc = "idle"
  /\ inputs < MaxInputs /\ inputs' = inputs + 1
  /\ import' = [pc |-> "commit", cand |-> c, label |-> label,
                reasons |-> [v \in Versions |->
                  IF scores[<<c, v>>] = None THEN {}
                  ELSE QueueReasons(<<c, v>>, label, Disagreed(<<c, v>>))]]
  /\ UNCHANGED <<scores, golden, feedback, checks, worker, runs, overlapped>>

(* ... and committed, with the checks it queued. *)
CommitLabel ==
  LET c == import.cand  IN
  /\ import.pc = "commit"
  /\ golden' = [golden EXCEPT ![c] = import.label]
  /\ checks' = [k \in ScoreKeys |->
                  IF k[1] = c THEN checks[k] \cup import.reasons[k[2]] ELSE checks[k]]
  /\ import' = NoImport
  /\ overlapped' = overlapped \cup
       {worker[w].key : w \in {o \in Workers : worker[o].pc = "commit" /\ worker[o].key[1] = c
                                               /\ scores[worker[o].key] = None}}
  /\ UNCHANGED <<scores, feedback, worker, runs, inputs>>

(* derive_ai_agreed and upsert_feedback: one reviewer, whose last decision
   counts; the feedback and the check it queues are committed together.      *)
DeriveAiAgreed(grade, decision) ==
  IF decision = "hold" THEN "hold"
  ELSE IF (grade = "rejected") = (decision = "reject") THEN "agreed" ELSE "disagreed"

GiveFeedback(key, decision) ==
  LET agreed == DeriveAiAgreed(scores[key].grade, decision)  IN
  /\ scores[key] # None
  /\ inputs < MaxInputs /\ inputs' = inputs + 1
  /\ feedback' = [feedback EXCEPT ![key] = agreed]
  /\ checks' = [checks EXCEPT ![key] = @ \cup
                  QueueReasons(key, golden[key[1]], agreed = "disagreed")]
  /\ UNCHANGED <<scores, golden, worker, runs, import, overlapped>>

Next ==
  \/ \E w \in Workers :
       \/ \E c \in Candidates, v \in Versions : StartScoring(w, c, v)
       \/ JudgeAnswers(w) \/ InsertScore(w) \/ CommitScore(w) \/ RunFails(w)
  \/ \E c \in Candidates, l \in GoldenLabels : ImportLabel(c, l)
  \/ CommitLabel
  \/ \E k \in ScoreKeys, d \in {"advance", "reject", "hold"} : GiveFeedback(k, d)

Spec == Init /\ [][Next]_vars

---------------------------------------------------------------------------
RunsUnder(v) ==
  [pc : {"judge", "insert", "commit"}, key : ScoreKeys, judge : {None} \cup Opinions(v),
   row : {None} \cup Rows(v), reasons : SUBSET Reasons]
TypeOK ==
  /\ golden \in [Candidates -> GoldenLabels \cup {None}]
  /\ feedback \in [ScoreKeys -> {"agreed", "disagreed", "hold", None}]
  /\ DOMAIN scores = ScoreKeys /\ \A k \in ScoreKeys : scores[k] \in {None} \cup Rows(k[2])
  /\ checks \in [ScoreKeys -> SUBSET Reasons]
  /\ DOMAIN worker = Workers
  /\ \A w \in Workers : worker[w] = Resting \/ worker[w] \in RunsUnder(worker[w].key[2])
  /\ runs \in 0..MaxRuns /\ inputs \in 0..MaxInputs
  /\ \/ import = NoImport
     \/ import \in [pc : {"commit"}, cand : Candidates, label : GoldenLabels,
                    reasons : [Versions -> SUBSET Reasons]]
  /\ overlapped \subseteq ScoreKeys

(* A score is written once: a run that loses the race for a candidate, a JD and
   a version leaves the winner's row, grade and judge's answer as they are.  *)
ScoresAreFinal ==
  [][\A k \in ScoreKeys : scores[k] # None => scores'[k] = scores[k]]_scores

(* A threshold lies within half a hundredth of a total. *)
OnEdge(total, schema) == \E t \in schema.thresholds : t.min \in (total - 1)..(total + 1)

(* What-If on the rules a score was made with gives the grade it has, although
   it starts from the rounded total, takes the judge's points as what the
   stored subtotal leaves, and adds floats in another order: a draft equal to
   the active rules shows no change.  It can show one, up or down, only for a
   candidate whose total meets a threshold, and not with points in quarters. *)
WhatIfReproducesGrade ==
  \A k \in ScoreKeys : scores[k] # None =>
    LET row == scores[k]
        schema == Schema[k[2]]
    IN (InQuarters(schema) \/ ~ OnEdge(row.total, schema)) =>
         \A err \in Errors(schema) : WhatIfGrade(schema, Extracted[k[1]], row, err) = row.grade

(* The items of a release bound to version v, in a window that holds all
   scores (_gather).                                                         *)
Items(v) ==
  {LET row == scores[<<c, v>>] IN
   [cand |-> c, label |-> golden[c],
    grade |-> IF row = None THEN None ELSE row.grade,
    reached |-> row # None /\ row.judge # None,
    judge |-> IF row = None \/ row.judge = None THEN <<>> ELSE row.judge]
   : c \in {x \in Candidates : golden[x] # None}}

(* evaluate_draft, for a draft with the rules `draft` while v is active: the
   decided labels with a score of v are graded anew, each sum with its error.
   Borderline labels are counted whether scored or not.                      *)
DraftMetrics(draft, v, errs) ==
  LET decided == {c \in Candidates : golden[c] \in {"advance", "reject"}}
      rows == {c \in decided : scores[<<c, v>>] # None}
      grade == [c \in rows |-> WhatIfGrade(draft, Extracted[c], scores[<<c, v>>], errs[c])]
      evaluated == {c \in rows : grade[c] # None}
  IN [confusion |-> [cell \in Cells |->
        Count(evaluated, LAMBDA c : Bucket(golden[c], grade[c]) = cell)],
      indeterminate |-> Cardinality(rows \ evaluated),
      borderline |-> Cardinality({c \in Candidates : golden[c] = "borderline"}),
      uncovered |-> Cardinality(decided) - Cardinality(rows)]

(* Three reports count the same labels.  The golden-set report of a version and
   the classification block of a release bound to it agree on every count.  The
   evaluation of a draft against that version puts each label somewhere, and
   moves only the borderline labels without a score, from uncovered to
   borderline; with the version's own rules it decides every scored label, as
   the report did unless a total is on the edge of a grade.                  *)
ConfusionsAgree ==
  \A v \in Versions :
    LET items == Items(v)
        report == GoldenMetrics(items)
        release == ClassificationMetrics(items)
        moved == Count(items, LAMBDA i : i.grade = None /\ i.label = "borderline")
    IN /\ report.confusion = release.confusion
       /\ report.uncovered = release.uncovered
       /\ report.borderline = release.borderline
       /\ release.covered + release.uncovered + release.borderline = release.labeled
       /\ \A d \in Versions : \A errs \in [Candidates -> Errors(Schema[d]) \cup Errors(Schema[v])] :
            LET draft == DraftMetrics(Schema[d], v, errs)  IN
            /\ Total(draft.confusion) + draft.indeterminate + draft.uncovered
                 + draft.borderline = release.labeled
            /\ draft.borderline = report.borderline + moved
            /\ draft.uncovered = report.uncovered - moved
            /\ d = v => draft.indeterminate = 0
            /\ d = v /\ (\A i \in items : i.grade = None \/ InQuarters(Schema[v])
                                         \/ ~ OnEdge(scores[<<i.cand, v>>].total, Schema[v]))
                 => draft.confusion = report.confusion

(* A judged score that contradicts the golden label (a false cell of the
   confusion matrix) or that a reviewer disagrees with is queued for a second
   opinion for that reason, whichever came first, the score or the label;
   except that a label and a score in flight together may miss each other,
   since each transaction reads only what is committed.                      *)
DisputesQueued ==
  \A k \in ScoreKeys :
    (scores[k] # None /\ Eligible(k[2], scores[k].judge)) =>
      /\ (/\ golden[k[1]] \in {"advance", "reject"} /\ k \notin overlapped
          /\ Bucket(golden[k[1]], scores[k].grade) \in {"fp", "fn"})
           => "golden_error" \in checks[k]
      /\ Disagreed(k) => "ai_hr_disagreement" \in checks[k]

(* Calibration: every judged, decided item lands in the bin whose edges hold
   its confidence, and the sampling of second opinions and the release compute
   the same confidence of a stored answer, unless the answer has a dimension
   whose tier is known but has no score: only sampling counts that one.      *)
CalibrationAgrees ==
  \A v \in Versions :
    LET items == Items(v)
        m == ConfidenceMetrics(items, Weights(v))
        judged == {i \in items : i.reached /\ i.label # "borderline"}
        rated == {<<i.cand, WeightedConfidence(i.judge, Weights(v))>> : i \in judged}
        Inside(c, b) == /\ 5 * c[1] >= (b - 1) * c[2]
                        /\ 5 * c[1] < b * c[2] \/ (b = 5 /\ c[1] = c[2])
    IN /\ m.unavailable = Count(rated, LAMBDA p : p[2] = None)
       /\ \A b \in Bins :
            m.count[b] = Count(rated, LAMBDA p : p[2] # None /\ Inside(p[2], b))
       /\ \A i \in judged :
            (\A d \in DOMAIN i.judge : i.judge[d].tier # "unknown" => i.judge[d].score # None)
              => SamplingConfidence(v, i.judge) = WeightedConfidence(i.judge, Weights(v))

(* What a release says about its targets rests on evidence.  Its coverage lacks
   exactly the dimensions whose tier is unknown or has no score: a validated
   answer leaves no scored dimension without quotes.  It meets its targets only when some
   labelled candidate was scored and, under a positive target, rightly
   advanced, and, if the rules have dimensions to judge, the judge saw someone. *)
TargetsNeedEvidence ==
  \A v \in Versions :
    LET items == Items(v)
        dims == DOMAIN Schema[v].judge
        e == EvidenceMetrics(items, dims)
        unknown == UNION {{<<i.cand, d>> : d \in {x \in DOMAIN i.judge :
                             i.judge[x].tier = "unknown" \/ i.judge[x].score = None}}
                          : i \in items}
    IN /\ e.covered + Cardinality(unknown) = e.expected
       /\ (items # {} /\ ReleaseStatus(items, dims) = "meets_target") =>
            /\ \E i \in items :
                 /\ i.grade # None /\ i.label # "borderline"
                 /\ F1Target[1] > 0 => Bucket(i.label, i.grade) = "tp"
            /\ dims # {} => \E i \in items : i.reached
=============================================================================
