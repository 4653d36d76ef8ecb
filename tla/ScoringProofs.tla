----------------------------- MODULE ScoringProofs -----------------------------
(***************************************************************************)
(* Safety of Scoring, and agreement of what is derived from the scores,    *)
(* for any candidates, rules, labels, workers, answers and targets.        *)
(***************************************************************************)
EXTENDS Scoring, SetSums, SequenceTheorems

-----------------------------------------------------------------------------
(***************************************************************************)
(* Points.                                                                 *)
(***************************************************************************)

\* The model's sum is the sum of the entries, None counting nothing.
LEMMA SumIsSumOf ==
  ASSUME NEW f
  PROVE  Sum(f) = SumOf([d \in DOMAIN f |-> OrZero(f[d])], DOMAIN f)
<1>. DEFINE S == DOMAIN f
            g == [d \in S |-> OrZero(f[d])]
            rest(s) == s \ {Pick(s)}
            P(h) == h = [s \in SUBSET S |-> IF s = {} THEN 0
                                            ELSE OrZero(f[Pick(s)]) + h[rest(s)]]
<1>1. \A s \in SUBSET S : s # {} => g[Pick(s)] = OrZero(f[Pick(s)])
  BY DEF Pick
<1>2. ASSUME NEW h PROVE P(h) <=> IsSum(g, S, h)
  <2>. HIDE DEF g
  <2>1. [s \in SUBSET S |-> IF s = {} THEN 0 ELSE OrZero(f[Pick(s)]) + h[rest(s)]]
        = [s \in SUBSET S |-> IF s = {} THEN 0 ELSE g[Pick(s)] + h[rest(s)]]
    BY <1>1
  <2>. QED  BY <2>1 DEF IsSum
<1>3. (CHOOSE h : P(h)) = (CHOOSE h : IsSum(g, S, h))
  <2>. HIDE DEF P
  <2>. QED  BY <1>2
<1>4. Sum(f) = (CHOOSE h : P(h))[S]
  BY DEF Sum, MapThenSumSet, MapThenFoldSet, Pick
<1>5. SumOf(g, S) = (CHOOSE h : IsSum(g, S, h))[S]
  BY DEF SumOf, MapThenSumSet, MapThenFoldSet, IsSum, Pick
<1>. QED  BY <1>3, <1>4, <1>5

\* A kind of points (all, or those in hundredths) that adding and nothing stay within.
IsKind(N) == N \in SUBSET Int /\ 0 \in N /\ \A a, b \in N : a + b \in N

LEMMA SumOfKind ==
  ASSUME NEW f, IsFiniteSet(DOMAIN f), NEW N, IsKind(N),
         \A d \in DOMAIN f : OrZero(f[d]) \in N
  PROVE  Sum(f) \in N
<1>. DEFINE g == [d \in DOMAIN f |-> OrZero(f[d])]
<1>1. \A d \in DOMAIN f : g[d] \in N
  OBVIOUS
<1>. HIDE DEF g
<1>2. SumOf(g, DOMAIN f) \in N
  BY <1>1, SumClosed DEF IsKind
<1>. QED  BY <1>2, SumIsSumOf DEF g

LEMMA TiersFinite ==
  ASSUME NEW tiers, IsTiers(tiers)
  PROVE  DOMAIN tiers \in SUBSET Int /\ IsFiniteSet(DOMAIN tiers)
<1>1. PICK n \in Nat : DOMAIN tiers = 1..n
  BY DEF IsTiers
<1>. QED  BY <1>1, FS_Interval

\* The first of the best tiers is one of those that fit.
LEMMA FirstBestFits ==
  ASSUME NEW tiers, IsTiers(tiers), NEW fits \in SUBSET DOMAIN tiers, fits # {}
  PROVE  FirstBest(tiers, fits) \in fits
<1>. DEFINE a == [i \in fits |-> OrZero(tiers[i].score)]
            All == {a[i] : i \in fits}
            Best == {i \in fits : a[i] = Max(All)}
<1>1. fits \in SUBSET Int /\ IsFiniteSet(fits)
  <2>1. DOMAIN tiers \in SUBSET Int /\ IsFiniteSet(DOMAIN tiers)
    BY TiersFinite
  <2>. QED  BY <2>1, FS_Subset
<1>2. \A i \in fits : a[i] \in Int
  BY DEF IsTiers, Points, OrZero
<1>3. Max(All) \in All /\ \A x \in All : Max(All) >= x
  <2>1. IsFiniteSet(All)
    <3>. HIDE DEF a
    <3>. QED  BY <1>1, ImageFinite
  <2>2. All \in SUBSET Int /\ All # {}
    BY <1>2
  <2>. HIDE DEF All
  <2>. QED  BY <2>1, <2>2, LargestExists
<1>4. Min(Best) \in Best /\ \A i \in Best : Min(Best) <= i
  <2>1. Best \in SUBSET Int /\ IsFiniteSet(Best)
    BY <1>1, FS_Subset
  <2>2. Best # {}
    BY <1>3
  <2>. HIDE DEF Best
  <2>. QED  BY <2>1, <2>2, SmallestExists
<1>. DEFINE b == Min(Best)
<1>5. \A k \in fits : a[b] > a[k] \/ (a[b] = a[k] /\ b <= k)
  <2>. TAKE k \in fits
  <2>1. a[b] = Max(All) /\ b \in fits
    BY <1>4
  <2>2. CASE a[k] = Max(All)
    BY <1>4, <2>1, <2>2
  <2>3. CASE a[k] # Max(All)
    BY <1>2, <1>3, <2>1, <2>3
  <2>. QED  BY <2>2, <2>3
<1>6. \E i \in fits : \A k \in fits : a[i] > a[k] \/ (a[i] = a[k] /\ i <= k)
  BY <1>4, <1>5
<1>. QED  BY <1>6 DEF FirstBest

\* What a dimension of the rules may give.
PointsIn(dim, N) ==
  /\ \A i \in DOMAIN dim.tiers : OrZero(dim.tiers[i].score) \in N
  /\ dim.method = "lookup" => \A e \in DOMAIN dim.table : dim.table[e] \in N

LEMMA ExperienceGives ==
  ASSUME NEW dim, IsRule(dim), NEW cand, NEW N, IsKind(N), PointsIn(dim, N)
  PROVE  ExperienceYears(cand, dim) \in N
<1>. DEFINE total == YearsOf(cand, DOMAIN cand.jobs)
            fits == {i \in DOMAIN dim.tiers :
                       LET t == dim.tiers[i] IN
                       /\ t.minYears # None /\ total >= t.minYears
                       /\ t.maxYears = None \/ total <= t.maxYears
                       /\ t.required \subseteq Words(cand)}
<1>1. ExperienceYears(cand, dim)
      = IF fits = {} THEN 0 ELSE OrZero(dim.tiers[FirstBest(dim.tiers, fits)].score)
  BY DEF ExperienceYears
<1>2. fits \in SUBSET DOMAIN dim.tiers
  OBVIOUS
<1>. HIDE DEF fits
<1>3. fits # {} => FirstBest(dim.tiers, fits) \in fits
  BY <1>2, FirstBestFits DEF IsRule
<1>. QED  BY <1>1, <1>2, <1>3 DEF PointsIn, IsKind

LEMMA KeywordsGive ==
  ASSUME NEW dim, IsRule(dim), NEW cand, NEW N, IsKind(N), PointsIn(dim, N)
  PROVE  TieredKeywordMatch(cand, dim) \in N
<1>. DEFINE hits(t) == t.words \cap Words(cand)
            years(t) == YearsOf(cand, {i \in DOMAIN cand.jobs :
                                         cand.jobs[i].words \cap hits(t) # {}})
            fits == {i \in DOMAIN dim.tiers :
                       /\ hits(dim.tiers[i]) # {}
                       /\ \/ dim.tiers[i].minYears = None
                          \/ years(dim.tiers[i]) >= dim.tiers[i].minYears}
            low == {OrZero(dim.tiers[i].score) : i \in DOMAIN dim.tiers}
<1>1. TieredKeywordMatch(cand, dim)
      = IF fits # {} THEN OrZero(dim.tiers[FirstBest(dim.tiers, fits)].score)
        ELSE IF dim.tiers = <<>> THEN 0 ELSE Min(low)
  BY DEF TieredKeywordMatch
<1>2. fits \in SUBSET DOMAIN dim.tiers
  OBVIOUS
<1>. HIDE DEF fits
<1>3. fits # {} => FirstBest(dim.tiers, fits) \in fits
  BY <1>2, FirstBestFits DEF IsRule
<1>4. dim.tiers # <<>> => Min(low) \in low
  <2>. DEFINE g == [i \in DOMAIN dim.tiers |-> OrZero(dim.tiers[i].score)]
              D == DOMAIN dim.tiers
  <2>2. IsFiniteSet(D)
    BY TiersFinite DEF IsRule
  <2>3. IsFiniteSet({g[i] : i \in D})
    <3>. HIDE DEF g, D
    <3>. QED  BY <2>2, ImageFinite
  <2>4. {g[i] : i \in D} = low
    OBVIOUS
  <2>5. low \in SUBSET Int
    BY DEF PointsIn, IsKind
  <2>6. dim.tiers # <<>> => low # {}
    <3>1. dim.tiers \in Seq({dim.tiers[i] : i \in D})
      BY DEF IsRule, IsTiers
    <3>2. dim.tiers # <<>> => D # {}
      BY <3>1, EmptySeq
    <3>. QED  BY <3>2
  <2>. HIDE DEF low
  <2>. QED  BY <2>3, <2>4, <2>5, <2>6, SmallestExists
<1>. QED  BY <1>1, <1>2, <1>3, <1>4 DEF PointsIn, IsKind

LEMMA RulesGive ==
  ASSUME NEW rules, \A d \in DOMAIN rules : IsRule(rules[d]), NEW cand, NEW N, IsKind(N),
         \A d \in DOMAIN rules : PointsIn(rules[d], N)
  PROVE  /\ DOMAIN ScoreDimensions(cand, rules) = DOMAIN rules
         /\ ScoreDimensions(cand, rules) \in [DOMAIN rules -> N]
         /\ \A d \in DOMAIN rules : OrZero(ScoreDimensions(cand, rules)[d]) \in N
<1>1. ASSUME NEW d \in DOMAIN rules
      PROVE  ScoreDimensions(cand, rules)[d] \in N
  <2>1. CASE rules[d].method = "lookup"
    <3>1. ScoreDimensions(cand, rules)[d] = Lookup(cand, rules[d])
      BY <2>1 DEF ScoreDimensions
    <3>. QED  BY <2>1, <3>1 DEF Lookup, PointsIn, IsKind
  <2>2. CASE rules[d].method = "experience_years"
    <3>1. ScoreDimensions(cand, rules)[d] = ExperienceYears(cand, rules[d])
      BY <2>2 DEF ScoreDimensions
    <3>. QED  BY <3>1, ExperienceGives
  <2>3. CASE rules[d].method = "tiered_keyword_match"
    <3>1. ScoreDimensions(cand, rules)[d] = TieredKeywordMatch(cand, rules[d])
      BY <2>3 DEF ScoreDimensions
    <3>. QED  BY <3>1, KeywordsGive
  <2>. QED  BY <2>1, <2>2, <2>3 DEF IsRule
<1>2. /\ DOMAIN ScoreDimensions(cand, rules) = DOMAIN rules
      /\ ScoreDimensions(cand, rules) = [d \in DOMAIN rules |-> ScoreDimensions(cand, rules)[d]]
  <2>. DEFINE points(d) ==
         CASE rules[d].method = "lookup"               -> Lookup(cand, rules[d])
           [] rules[d].method = "experience_years"     -> ExperienceYears(cand, rules[d])
           [] rules[d].method = "tiered_keyword_match" -> TieredKeywordMatch(cand, rules[d])
  <2>1. ScoreDimensions(cand, rules) = [d \in DOMAIN rules |-> points(d)]
    BY DEF ScoreDimensions
  <2>. HIDE DEF points
  <2>. QED  BY <2>1
<1>3. \A x \in N : OrZero(x) \in N
  BY DEF OrZero, IsKind
<1>. QED  BY <1>1, <1>2, <1>3

-----------------------------------------------------------------------------
(***************************************************************************)
(* Rows.                                                                   *)
(***************************************************************************)

\* What is stored of an answer that _validate let through.
IsJudgement(v, j) ==
  /\ j \in Opinions(v)
  /\ \A d \in DOMAIN Schema[v].judge :
       /\ \E i \in DOMAIN Schema[v].judge[d].tiers :
            LET t == Schema[v].judge[d].tiers[i]
            IN j[d].tier = t.label /\ j[d].score = t.score
       /\ (j[d].confidence = None) = (j[d].tier = "unknown")
       /\ j[d].evidence = (j[d].score # None)

Failed(k) == FailedFilters(Extracted[k[1]], Schema[k[2]].filters)

\* The judge was asked unless a filter failed.
JudgedAs(k, j) == IF Failed(k) = {} THEN IsJudgement(k[2], j) ELSE j = None

LEMMA SchemaFacts ==
  ASSUME NEW v \in Versions
  PROVE  IsSchema(Schema[v])
BY SchemaAssumption

Quarters == {x \in Int : x % 50 = 0}

LEMMA Kinds == IsKind(Int) /\ IsKind(Quarters)
<1>1. \A a, b \in Int : a % 50 = 0 /\ b % 50 = 0 => (a + b) % 50 = 0
  OBVIOUS
<1>2. 0 % 50 = 0
  OBVIOUS
<1>. QED  BY <1>1, <1>2 DEF IsKind, Quarters

LEMMA ErrorsAreSmall ==
  ASSUME NEW schema, NEW err \in Errors(schema)
  PROVE  err \in {-1, 0, 1}
BY DEF Errors

\* The grade is that of a highest threshold among those reached.
LEMMA GradeReached ==
  ASSUME NEW v \in Versions, NEW total \in Int, NEW err \in {-1, 0, 1}
  PROVE  LET reached == {t \in Schema[v].thresholds : Reaches(total, err, t)}
         IN /\ reached = {} => GradeFrom(total, err, Schema[v]) = "rejected"
            /\ reached # {} => \E t \in reached : /\ \A u \in reached : t.min >= u.min
                                                 /\ GradeFrom(total, err, Schema[v]) = t.grade
<1>. DEFINE reached == {t \in Schema[v].thresholds : Reaches(total, err, t)}
            min == [t \in reached |-> t.min]
            All == {min[t] : t \in reached}
<1>1. IsFiniteSet(Schema[v].thresholds) /\ \A t \in Schema[v].thresholds : t.min \in Int
  BY SchemaFacts DEF IsSchema
<1>2. IsFiniteSet(reached) /\ \A t \in reached : min[t] \in Int
  BY <1>1, FS_Subset
<1>3. CASE reached = {}
  BY <1>3 DEF GradeFrom
<1>4. CASE reached # {}
  <2>1. IsFiniteSet(All)
    <3>. HIDE DEF reached, min
    <3>. QED  BY <1>2, ImageFinite
  <2>2. All \in SUBSET Int /\ All # {}
    BY <1>2, <1>4
  <2>3. Max(All) \in All /\ \A x \in All : Max(All) >= x
    <3>. HIDE DEF All
    <3>. QED  BY <2>1, <2>2, LargestExists
  <2>4. \E t \in reached : \A u \in reached : t.min >= u.min
    BY <2>3
  <2>5. GradeFrom(total, err, Schema[v])
        = (CHOOSE t \in reached : \A u \in reached : t.min >= u.min).grade
    BY <1>4 DEF GradeFrom
  <2>. HIDE DEF reached
  <2>6. \E t \in reached : /\ \A u \in reached : t.min >= u.min
                            /\ GradeFrom(total, err, Schema[v]) = t.grade
    BY <2>4, <2>5
  <2>. QED  BY <1>4, <2>6 DEF reached
<1>. QED  BY <1>3, <1>4

LEMMA GradeTyped ==
  ASSUME NEW v \in Versions, NEW total \in Int, NEW err \in {-1, 0, 1}
  PROVE  GradeFrom(total, err, Schema[v]) \in Grades(v)
BY GradeReached DEF Grades

\* A grade whose threshold is not lower than that of another; "rejected" is below all.
NotBelow(grade, other, thresholds) ==
  \/ other = "rejected"
  \/ \E t, u \in thresholds : t.min >= u.min /\ grade = t.grade /\ other = u.grade

\* A higher total never gives a lower grade, whatever the errors.
LEMMA GradeMonotone ==
  ASSUME NEW v \in Versions, NEW total \in Int, NEW higher \in Int, higher > total,
         NEW err \in {-1, 0, 1}, NEW err2 \in {-1, 0, 1}
  PROVE  NotBelow(GradeFrom(higher, err2, Schema[v]), GradeFrom(total, err, Schema[v]),
                  Schema[v].thresholds)
<1>. DEFINE reached(x, e) == {t \in Schema[v].thresholds : Reaches(x, e, t)}
<1>1. CASE reached(total, err) = {}
  BY <1>1, GradeReached DEF NotBelow
<1>2. CASE reached(total, err) # {}
  <2>1. PICK u \in reached(total, err) : GradeFrom(total, err, Schema[v]) = u.grade
    BY <1>2, GradeReached
  <2>2. u \in reached(higher, err2)
    <3>1. u \in Schema[v].thresholds /\ u.min \in Int /\ total >= u.min
      BY SchemaFacts DEF IsSchema, Reaches
    <3>. QED  BY <3>1 DEF Reaches
  <2>3. PICK t \in reached(higher, err2) : /\ \A x \in reached(higher, err2) : t.min >= x.min
                                           /\ GradeFrom(higher, err2, Schema[v]) = t.grade
    BY <2>2, GradeReached
  <2>. QED  BY <2>1, <2>2, <2>3 DEF NotBelow
<1>. QED  BY <1>1, <1>2

\* Away from the thresholds neither rounding nor errors matter.
LEMMA GradeSettled ==
  ASSUME NEW v \in Versions, NEW total \in Int, NEW stored \in Int,
         total \in (stored - 1)..(stored + 1), ~ OnEdge(stored, Schema[v]),
         NEW err \in {-1, 0, 1}, NEW err2 \in {-1, 0, 1}
  PROVE  GradeFrom(stored, err2, Schema[v]) = GradeFrom(total, err, Schema[v])
<1>1. ASSUME NEW t \in Schema[v].thresholds
      PROVE  Reaches(stored, err2, t) <=> Reaches(total, err, t)
  <2>1. t.min \in Int
    BY SchemaFacts DEF IsSchema
  <2>2. t.min < stored - 1 \/ t.min > stored + 1
    BY <2>1 DEF OnEdge
  <2>. QED  BY <2>1, <2>2 DEF Reaches
<1>. DEFINE A == {t \in Schema[v].thresholds : Reaches(stored, err2, t)}
            B == {t \in Schema[v].thresholds : Reaches(total, err, t)}
<1>2. A = B
  BY <1>1
<1>3. /\ GradeFrom(stored, err2, Schema[v])
         = IF A = {} THEN "rejected"
           ELSE (CHOOSE t \in A : \A u \in A : t.min >= u.min).grade
      /\ GradeFrom(total, err, Schema[v])
         = IF B = {} THEN "rejected"
           ELSE (CHOOSE t \in B : \A u \in B : t.min >= u.min).grade
  BY DEF GradeFrom
<1>. HIDE DEF A, B
<1>. QED  BY <1>2, <1>3

\* The points of a version's tiers are of the kind N.
SchemaPoints(v, N) ==
  /\ \A d \in DOMAIN Schema[v].rules : PointsIn(Schema[v].rules[d], N)
  /\ \A d \in DOMAIN Schema[v].judge : \A i \in DOMAIN Schema[v].judge[d].tiers :
       OrZero(Schema[v].judge[d].tiers[i].score) \in N

LEMMA SchemaKinds ==
  ASSUME NEW v \in Versions
  PROVE  /\ SchemaPoints(v, Int)
         /\ InQuarters(Schema[v]) => SchemaPoints(v, Quarters)
<1>1. \A x \in Points : OrZero(x) \in Int
  BY DEF Points, OrZero
<1>2. /\ \A d \in DOMAIN Schema[v].rules : IsRule(Schema[v].rules[d])
      /\ \A d \in DOMAIN Schema[v].judge : IsJudged(Schema[v].judge[d])
  BY SchemaFacts DEF IsSchema
<1>3. SchemaPoints(v, Int)
  BY <1>1, <1>2 DEF SchemaPoints, PointsIn, IsRule, IsJudged, IsTiers
<1>. QED  BY <1>3 DEF SchemaPoints, PointsIn, InQuarters, Quarters

LEMMA RulesOfKind ==
  ASSUME NEW v \in Versions, NEW cand, NEW N, IsKind(N), SchemaPoints(v, N)
  PROVE  Sum(ScoreDimensions(cand, Schema[v].rules)) \in N
<1>. DEFINE s == Schema[v]
            rules == ScoreDimensions(cand, s.rules)
<1>1. IsSchema(s)
  BY SchemaFacts
<1>2. DOMAIN rules = DOMAIN s.rules /\ \A d \in DOMAIN s.rules : OrZero(rules[d]) \in N
  <2>1. \A d \in DOMAIN s.rules : IsRule(s.rules[d]) /\ PointsIn(s.rules[d], N)
    BY <1>1 DEF IsSchema, SchemaPoints
  <2>. HIDE DEF s
  <2>. QED  BY <2>1, RulesGive
<1>3. IsFiniteSet(DOMAIN s.rules)
  BY <1>1 DEF IsSchema
<1>. HIDE DEF rules, s
<1>4. Sum(rules) \in N
  BY <1>2, <1>3, SumOfKind
<1>. QED  BY <1>4 DEF rules, s

LEMMA PointsOfKind ==
  ASSUME NEW k \in ScoreKeys, NEW j, IsJudgement(k[2], j),
         NEW N, IsKind(N), SchemaPoints(k[2], N)
  PROVE  /\ Sum(ScoreDimensions(Extracted[k[1]], Schema[k[2]].rules)) \in N
         /\ Sum([d \in DOMAIN j |-> j[d].score]) \in N
<1>. DEFINE s == Schema[k[2]]
            points == [d \in DOMAIN j |-> j[d].score]
<1>0. k[2] \in Versions /\ IsSchema(s)
  BY SchemaFacts DEF ScoreKeys
<1>1. Sum(ScoreDimensions(Extracted[k[1]], s.rules)) \in N
  BY <1>0, RulesOfKind
<1>2. Sum(points) \in N
  <2>1. DOMAIN points = DOMAIN s.judge /\ IsFiniteSet(DOMAIN s.judge)
    BY <1>0 DEF IsSchema, IsJudgement, Opinions
  <2>2. \A d \in DOMAIN points : OrZero(points[d]) \in N
    BY <2>1 DEF IsJudgement, SchemaPoints
  <2>. HIDE DEF points, s
  <2>. QED  BY <2>1, <2>2, SumOfKind
<1>. QED  BY <1>1, <1>2

\* What ScoreRows gives, field by field.
LEMMA RowFields ==
  ASSUME NEW k \in ScoreKeys, NEW j, JudgedAs(k, j), NEW row \in ScoreRows(k, j)
  PROVE  LET rules == ScoreDimensions(Extracted[k[1]], Schema[k[2]].rules)
             total == Sum(rules) + Sum([d \in DOMAIN j |-> j[d].score])
         IN /\ Failed(k) # {} => row.grade = "rejected" /\ row.judge = None /\ j = None
            /\ Failed(k) = {} =>
                 /\ row.judge = j /\ IsJudgement(k[2], j) /\ j # None
                 /\ Sum(rules) \in Int /\ total \in Int
                 /\ row.subtotal = Sum(rules)
                 /\ row.total \in StoredTotals(total) /\ row.total \in Int
                 /\ \E err \in Errors(Schema[k[2]]) :
                      row.grade = GradeFrom(total, err, Schema[k[2]])
            /\ row \in Rows(k[2]) /\ row # None
<1>. DEFINE s == Schema[k[2]]
            rules == ScoreDimensions(Extracted[k[1]], s.rules)
            total == Sum(rules) + Sum([d \in DOMAIN j |-> j[d].score])
<1>0. k[2] \in Versions
  BY DEF ScoreKeys
<1>1. CASE Failed(k) # {}
  <2>1. row = [total |-> 0, grade |-> "rejected", failed |-> Failed(k),
               rules |-> <<>>, subtotal |-> 0, judge |-> None] /\ j = None
    BY <1>1 DEF ScoreRows, Failed, JudgedAs
  <2>2. Failed(k) \in SUBSET {f.id : f \in s.filters}
    BY DEF Failed, FailedFilters
  <2>3. row \in Rows(k[2])
    BY <2>1, <2>2 DEF Rows, Grades
  <2>. QED  BY <1>0, <1>1, <2>1, <2>3, ScoringNoneAssumption
<1>2. CASE Failed(k) = {}
  <2>1. IsJudgement(k[2], j) /\ j \in Opinions(k[2]) /\ j # None
    BY <1>0, <1>2, ScoringNoneAssumption DEF JudgedAs, IsJudgement
  <2>2. PICK stored \in StoredTotals(total), err \in Errors(s) :
          row = [total |-> stored, grade |-> GradeFrom(total, err, s),
                 failed |-> {}, rules |-> rules, subtotal |-> Sum(rules), judge |-> j]
    BY <1>2 DEF ScoreRows, Failed
  <2>3. Sum(rules) \in Int /\ total \in Int
    <3>1. Sum(rules) \in Int /\ Sum([d \in DOMAIN j |-> j[d].score]) \in Int
      BY <1>0, <2>1, Kinds, SchemaKinds, PointsOfKind
    <3>. HIDE DEF rules
    <3>. QED  BY <3>1
  <2>4. rules \in [DOMAIN s.rules -> Int]
    <3>1. \A d \in DOMAIN s.rules : IsRule(s.rules[d]) /\ PointsIn(s.rules[d], Int)
      BY <1>0, SchemaFacts, SchemaKinds DEF IsSchema, SchemaPoints
    <3>. HIDE DEF s
    <3>. QED  BY <3>1, Kinds, RulesGive
  <2>5. stored \in Int /\ GradeFrom(total, err, s) \in Grades(k[2])
    <3>. HIDE DEF total
    <3>1. stored \in Int
      BY <2>3 DEF StoredTotals
    <3>2. err \in {-1, 0, 1}
      BY ErrorsAreSmall
    <3>. QED  BY <1>0, <2>3, <3>1, <3>2, GradeTyped
  <2>6. row \in Rows(k[2])
    <3>. HIDE DEF rules, total
    <3>. QED  BY <2>1, <2>2, <2>3, <2>4, <2>5 DEF Rows
  <2>7. row # None
    BY <1>0, <2>6, ScoringNoneAssumption
  <2>8. /\ row.judge = j /\ row.subtotal = Sum(rules)
        /\ row.total = stored /\ row.grade = GradeFrom(total, err, s)
    <3>. HIDE DEF total, rules, s
    <3>. QED  BY <2>2
  <2>9. \E e \in Errors(s) : row.grade = GradeFrom(total, e, s)
    <3>. HIDE DEF total, rules, s
    <3>. QED  BY <2>8
  <2>. HIDE DEF total, rules
  <2>. QED  BY <1>2, <2>1, <2>2, <2>3, <2>5, <2>6, <2>7, <2>8, <2>9 DEF total, rules
<1>. QED  BY <1>1, <1>2

\* On the rules a row was made with, What-If gives its grade, away from the thresholds
\* or with points that floats add exactly.
LEMMA RowReproduced ==
  ASSUME NEW k \in ScoreKeys, NEW j, JudgedAs(k, j), NEW row \in ScoreRows(k, j),
         InQuarters(Schema[k[2]]) \/ ~ OnEdge(row.total, Schema[k[2]]),
         NEW err2 \in Errors(Schema[k[2]])
  PROVE  WhatIfGrade(Schema[k[2]], Extracted[k[1]], row, err2) = row.grade
<1>. DEFINE s == Schema[k[2]]
            rules == ScoreDimensions(Extracted[k[1]], s.rules)
            given == Sum([d \in DOMAIN j |-> j[d].score])
<1>0. k[2] \in Versions
  BY DEF ScoreKeys
<1>1. CASE Failed(k) # {}
  BY <1>1, RowFields DEF WhatIfGrade, Failed
<1>2. CASE Failed(k) = {}
  <2>1. /\ row.judge # None /\ row.subtotal = Sum(rules) /\ Sum(rules) \in Int
        /\ Sum(rules) + given \in Int /\ row.total \in Int
        /\ row.total \in StoredTotals(Sum(rules) + given)
        /\ \E e \in Errors(s) : row.grade = GradeFrom(Sum(rules) + given, e, s)
    BY <1>2, RowFields
  <2>2. PICK err \in Errors(s) : row.grade = GradeFrom(Sum(rules) + given, err, s)
    BY <2>1
  <2>3. WhatIfGrade(s, Extracted[k[1]], row, err2)
        = GradeFrom(Sum(rules) + (row.total - row.subtotal), err2, s)
    BY <1>2, <2>1 DEF WhatIfGrade, Failed
  <2>4. InQuarters(s) => Sum(rules) \in Quarters /\ given \in Quarters
    <3>1. IsJudgement(k[2], j)
      BY <1>2 DEF JudgedAs
    <3>. QED  BY <1>0, <3>1, Kinds, SchemaKinds, PointsOfKind
  <2>5. InQuarters(s) => err = 0 /\ err2 = 0
    BY DEF Errors
  <2>6. err \in {-1, 0, 1} /\ err2 \in {-1, 0, 1}
    BY ErrorsAreSmall
  <2>. HIDE DEF rules, given
  <2>7. Sum(rules) + (row.total - row.subtotal) = row.total
    BY <2>1
  <2>8. CASE InQuarters(s)
    <3>1. (Sum(rules) + given) % 2 = 0
      <4>1. Sum(rules) + given \in Quarters
        BY <2>4, <2>8, Kinds DEF IsKind
      <4>2. \A x \in Int : x % 50 = 0 => x % 2 = 0
        OBVIOUS
      <4>. QED  BY <4>1, <4>2 DEF Quarters
    <3>2. row.total = Sum(rules) + given
      BY <2>1, <3>1 DEF StoredTotals
    <3>. QED  BY <2>2, <2>3, <2>5, <2>7, <2>8, <3>2
  <2>9. CASE ~ OnEdge(row.total, s)
    <3>. DEFINE total == Sum(rules) + given
    <3>1. total \in (row.total - 1)..(row.total + 1)
      BY <2>1 DEF StoredTotals
    <3>2. total \in Int
      BY <2>1
    <3>3. row.grade = GradeFrom(total, err, s)
      BY <2>2
    <3>. HIDE DEF total
    <3>4. GradeFrom(row.total, err2, s) = GradeFrom(total, err, s)
      BY <1>0, <2>1, <2>6, <2>9, <3>1, <3>2, GradeSettled
    <3>. QED  BY <2>3, <2>7, <3>3, <3>4
  <2>. QED  BY <2>8, <2>9
<1>. QED  BY <1>1, <1>2

-----------------------------------------------------------------------------
(***************************************************************************)
(* The inductive invariant.                                                *)
(***************************************************************************)

\* A run asks the judge when no filter failed; past the insert it holds the stored row,
\* or, while there is none, the one it is about to store.
WorkerOK(w) ==
  LET k == worker[w].key
      j == worker[w].judge
  IN /\ worker[w].pc = "judge" => Failed(k) = {}
     /\ worker[w].pc \in {"insert", "commit"} => JudgedAs(k, j)
     /\ worker[w].pc = "commit" => worker[w].row \in RowsFor(k, j)
WorkerInv == \A w \in Workers : WorkerOK(w)

\* Only one transaction is inserting a row.
AloneInv ==
  \A w, o \in Workers :
    /\ w # o /\ worker[w].pc = "commit" /\ worker[o].pc = "commit"
    /\ worker[w].key = worker[o].key
    => scores[worker[w].key] # None

\* A stored row is what the rules of its version make of an answer to them; feedback is
\* given on stored rows.
StoredAs(k, row) == JudgedAs(k, row.judge) /\ row \in ScoreRows(k, row.judge)
StoredInv == \A k \in ScoreKeys : scores[k] # None => StoredAs(k, scores[k])
FeedbackInv == \A k \in ScoreKeys : feedback[k] # None => scores[k] # None

Contradicts(label, grade) ==
  label \in {"advance", "reject"} /\ Bucket(label, grade) \in {"fp", "fn"}

\* A score about to be committed, and a label about to be committed, bring the second
\* opinions that the contradictions they cause call for.
InsertedOK(w) ==
  LET k == worker[w].key  IN
  /\ worker[w].pc = "commit" /\ scores[k] = None /\ k \notin overlapped
  /\ Eligible(k[2], worker[w].judge)
  /\ Contradicts(golden[k[1]], worker[w].row.grade)
  => "golden_error" \in worker[w].reasons
InsertedInv == \A w \in Workers : InsertedOK(w)
ImportedOK(v) ==
  LET k == <<import.cand, v>>  IN
  /\ import.pc = "commit" /\ scores[k] # None /\ k \notin overlapped
  /\ Eligible(v, scores[k].judge)
  /\ Contradicts(import.label, scores[k].grade)
  => "golden_error" \in import.reasons[v]
ImportedInv == \A v \in Versions : ImportedOK(v)

ScoringInv ==
  /\ TypeOK /\ WorkerInv /\ AloneInv /\ StoredInv /\ FeedbackInv
  /\ InsertedInv /\ ImportedInv /\ DisputesQueued

-----------------------------------------------------------------------------
(***************************************************************************)
(* Steps of the workers.                                                   *)
(***************************************************************************)

\* A step that changes nothing but one worker's run has only that run to answer for.
LEMMA RunStep ==
  ASSUME ScoringInv, NEW w \in Workers, NEW r,
         worker' = [worker EXCEPT ![w] = r], runs' \in 0..MaxRuns,
         UNCHANGED <<scores, golden, feedback, checks, inputs, import, overlapped>>,
         r = Resting \/ r \in RunsUnder(r.key[2]),
         WorkerOK(w)', InsertedOK(w)',
         \A o \in Workers : /\ o # w /\ worker[o].pc = "commit" /\ r.pc = "commit"
                            /\ worker[o].key = r.key
                            => scores[r.key] # None
  PROVE  ScoringInv'
<1>1. /\ DOMAIN worker' = Workers /\ worker'[w] = r
      /\ \A o \in Workers : o # w => worker'[o] = worker[o]
  BY DEF ScoringInv, TypeOK
<1>2. TypeOK'
  <2>1. \A o \in Workers : worker'[o] = Resting \/ worker'[o] \in RunsUnder(worker'[o].key[2])
    BY <1>1 DEF ScoringInv, TypeOK
  <2>. QED  BY <1>1, <2>1 DEF ScoringInv, TypeOK
<1>3. WorkerInv'
  <2>1. ASSUME NEW o \in Workers, o # w PROVE WorkerOK(o)'
    BY <1>1, <2>1 DEF ScoringInv, WorkerInv, WorkerOK, RowsFor
  <2>. QED  BY <2>1 DEF WorkerInv
<1>4. AloneInv'
  BY <1>1 DEF ScoringInv, AloneInv
<1>5. InsertedInv'
  <2>1. ASSUME NEW o \in Workers, o # w PROVE InsertedOK(o)'
    BY <1>1, <2>1 DEF ScoringInv, InsertedInv, InsertedOK
  <2>. QED  BY <2>1 DEF InsertedInv
<1>6. StoredInv' /\ FeedbackInv' /\ ImportedInv' /\ DisputesQueued'
  BY DEF ScoringInv, StoredInv, FeedbackInv, ImportedInv, ImportedOK, DisputesQueued, Disagreed
<1>. QED  BY <1>2, <1>3, <1>4, <1>5, <1>6 DEF ScoringInv

\* A run that is not resting has a key of its version.
LEMMA RunTyped ==
  ASSUME ScoringInv, NEW w \in Workers, worker[w].pc # "idle"
  PROVE  /\ worker[w] \in RunsUnder(worker[w].key[2])
         /\ worker[w].key \in ScoreKeys /\ worker[w].key[2] \in Versions
BY DEF ScoringInv, TypeOK, Resting, RunsUnder, ScoreKeys

LEMMA StartScoringStep ==
  ASSUME ScoringInv, NEW w \in Workers, NEW c \in Candidates, NEW v \in Versions,
         StartScoring(w, c, v)
  PROVE  ScoringInv'
<1>. DEFINE key == <<c, v>>
            r == [Resting EXCEPT !.key = key,
                    !.pc = IF FailedFilters(Extracted[c], Schema[v].filters) = {}
                           THEN "judge" ELSE "insert"]
<1>1. /\ worker' = [worker EXCEPT ![w] = r]
      /\ UNCHANGED <<scores, golden, feedback, checks, inputs, import, overlapped>>
  BY DEF StartScoring
<1>2. runs' \in 0..MaxRuns
  BY ScoringBoundsAssumption DEF StartScoring, ScoringInv, TypeOK
<1>3. /\ r.key = key /\ key[1] = c /\ key[2] = v /\ key \in ScoreKeys /\ r.judge = None
      /\ r.pc = IF Failed(key) = {} THEN "judge" ELSE "insert"
      /\ r \in RunsUnder(v)
  BY DEF Resting, RunsUnder, ScoreKeys, Failed
<1>4. worker'[w] = r
  BY <1>1 DEF ScoringInv, TypeOK
<1>. HIDE DEF r, key
<1>5. WorkerOK(w)' /\ InsertedOK(w)' /\ r.pc # "commit"
  BY <1>3, <1>4 DEF WorkerOK, InsertedOK, JudgedAs
<1>. QED  BY <1>1, <1>2, <1>3, <1>5, RunStep

LEMMA JudgeAnswersStep ==
  ASSUME ScoringInv, NEW w \in Workers, JudgeAnswers(w)
  PROVE  ScoringInv'
<1>. DEFINE k == worker[w].key
            dims == Schema[k[2]].judge
            stored(answer, asked) ==
              [d \in asked |->
                 [tier |-> answer[d].tier, score |-> answer[d].score,
                  evidence |-> answer[d].quotes # "none", confidence |-> answer[d].confidence]]
<1>1. /\ worker[w].pc = "judge" /\ runs' = runs
      /\ UNCHANGED <<scores, golden, feedback, checks, inputs, import, overlapped>>
  BY DEF JudgeAnswers
<1>2. PICK asked \in SUBSET DOMAIN dims : \E answer \in [asked -> Entry] :
        /\ ValidJudge(answer, dims)
        /\ worker' = [worker EXCEPT ![w].pc = "insert", ![w].judge = stored(answer, asked)]
  <2>. DEFINE entries == ValidEntries[k[2]]
  <2>1. PICK asked \in SUBSET DOMAIN dims : \E answer \in [asked -> entries] :
          /\ ValidJudge(answer, dims)
          /\ worker' = [worker EXCEPT ![w].pc = "insert", ![w].judge = stored(answer, asked)]
    BY DEF JudgeAnswers
  <2>2. [asked -> entries] \subseteq [asked -> Entry]
    <3>1. k[2] \in Versions
      BY <1>1, RunTyped DEF ScoringInv
    <3>2. entries \subseteq Entry
      BY <3>1, SchemaAssumption DEF ValidEntries
    <3>. QED  BY <3>2
  <2>. HIDE DEF entries, stored, dims
  <2>. QED  BY <2>1, <2>2
<1>3. PICK answer \in [asked -> Entry] :
        /\ ValidJudge(answer, dims)
        /\ worker' = [worker EXCEPT ![w].pc = "insert", ![w].judge = stored(answer, asked)]
  <2>. HIDE DEF stored, dims
  <2>. QED  BY <1>2
<1>. DEFINE j == stored(answer, asked)
            r == [worker[w] EXCEPT !.pc = "insert", !.judge = j]
<1>4. worker[w] \in RunsUnder(k[2]) /\ k \in ScoreKeys /\ k[2] \in Versions /\ Failed(k) = {}
  BY <1>1, RunTyped DEF ScoringInv, WorkerInv, WorkerOK
<1>5. IsJudgement(k[2], j)
  <2>1. asked = DOMAIN dims /\ \A d \in DOMAIN dims : ValidEntry(answer[d], dims[d])
    BY <1>3 DEF ValidJudge
  <2>2. ASSUME NEW d \in DOMAIN dims
        PROVE  /\ answer[d].tier \in TierLabels /\ answer[d].score \in Points
               /\ answer[d].confidence \in Confidences \cup {None}
               /\ (answer[d].confidence = None) = (answer[d].tier = "unknown")
               /\ \E i \in DOMAIN dims[d].tiers :
                    LET t == dims[d].tiers[i]
                    IN answer[d].tier = t.label /\ answer[d].score = t.score
               /\ (answer[d].quotes # "none") = (answer[d].score # None)
    <3>1. answer[d] \in Entry
      BY <2>1
    <3>2. ValidEntry(answer[d], dims[d])
      BY <2>1
    <3>3. /\ IsJudged(dims[d])
          /\ DOMAIN dims[d].tiers \in SUBSET Int /\ IsFiniteSet(DOMAIN dims[d].tiers)
      <4>1. IsJudged(dims[d])
        BY <1>4, SchemaFacts DEF IsSchema
      <4>2. IsTiers(dims[d].tiers)
        BY <4>1 DEF IsJudged
      <4>. QED  BY <4>1, <4>2, TiersFinite
    <3>. DEFINE named == {i \in DOMAIN dims[d].tiers : dims[d].tiers[i].label = answer[d].tier}
    <3>4. Min(named) \in named
      <4>1. named \in SUBSET Int /\ IsFiniteSet(named) /\ named # {}
        BY <3>2, <3>3, FS_Subset DEF ValidEntry
      <4>. HIDE DEF named
      <4>. QED  BY <4>1, SmallestExists
    <3>5. answer[d].score = dims[d].tiers[Min(named)].score
      BY <3>2 DEF ValidEntry
    <3>6. answer[d].quotes = IF answer[d].score = None THEN "none" ELSE "found"
      BY <3>2 DEF ValidEntry
    <3>. QED  BY <3>1, <3>4, <3>5, <3>6 DEF Entry, Points
  <2>3. \A d \in DOMAIN dims : j[d] = [tier |-> answer[d].tier, score |-> answer[d].score,
          evidence |-> answer[d].quotes # "none", confidence |-> answer[d].confidence]
    BY <2>1
  <2>4. j \in Opinions(k[2])
    <3>1. j = [d \in DOMAIN dims |-> j[d]]
      BY <2>1
    <3>2. ASSUME NEW d \in DOMAIN dims
          PROVE  j[d] \in [tier : TierLabels, score : Points, evidence : BOOLEAN,
                          confidence : Confidences \cup {None}]
      <4>. DEFINE quoted == answer[d].quotes # "none"
      <4>1. quoted \in BOOLEAN
        OBVIOUS
      <4>2. j[d] = [tier |-> answer[d].tier, score |-> answer[d].score,
                    evidence |-> quoted, confidence |-> answer[d].confidence]
        <5>. HIDE DEF j, dims
        <5>. QED  BY <2>3, Zenon
      <4>. HIDE DEF j, dims, quoted
      <4>. QED  BY <2>2, <4>1, <4>2
    <3>. HIDE DEF j
    <3>. QED  BY <3>1, <3>2 DEF Opinions
  <2>5. ASSUME NEW d \in DOMAIN dims
        PROVE  /\ \E i \in DOMAIN dims[d].tiers :
                    LET t == dims[d].tiers[i]
                    IN j[d].tier = t.label /\ j[d].score = t.score
               /\ (j[d].confidence = None) = (j[d].tier = "unknown")
               /\ j[d].evidence = (j[d].score # None)
    <3>. DEFINE quoted == answer[d].quotes # "none"
    <3>1. j[d] = [tier |-> answer[d].tier, score |-> answer[d].score,
                  evidence |-> quoted, confidence |-> answer[d].confidence]
      <4>. HIDE DEF j, dims
      <4>. QED  BY <2>3, Zenon
    <3>2. quoted = (answer[d].score # None)
      BY <2>2
    <3>3. /\ j[d].score = answer[d].score /\ j[d].tier = answer[d].tier
          /\ j[d].confidence = answer[d].confidence /\ j[d].evidence = quoted
      <4>. HIDE DEF j, dims, quoted
      <4>. QED  BY <3>1
    <3>. HIDE DEF j, dims, quoted
    <3>. QED  BY <2>2, <3>2, <3>3
  <2>. HIDE DEF j
  <2>. QED  BY <2>4, <2>5 DEF IsJudgement
<1>. HIDE DEF j
<1>6. worker' = [worker EXCEPT ![w] = r]
  BY <1>3 DEF ScoringInv, TypeOK, j
<1>7. r.key = k /\ r.judge = j /\ r.pc = "insert" /\ r \in RunsUnder(k[2])
  BY <1>4, <1>5 DEF RunsUnder, IsJudgement
<1>8. worker'[w] = r
  BY <1>6 DEF ScoringInv, TypeOK
<1>. HIDE DEF r, k
<1>9. WorkerOK(w)' /\ InsertedOK(w)'
  BY <1>4, <1>5, <1>7, <1>8 DEF WorkerOK, InsertedOK, JudgedAs
<1>10. runs' \in 0..MaxRuns
  BY <1>1 DEF ScoringInv, TypeOK
<1>. QED  BY <1>1, <1>6, <1>7, <1>9, <1>10, RunStep

LEMMA RunFailsStep ==
  ASSUME ScoringInv, NEW w \in Workers, RunFails(w)
  PROVE  ScoringInv'
<1>1. /\ worker' = [worker EXCEPT ![w] = Resting] /\ runs' = runs
      /\ UNCHANGED <<scores, golden, feedback, checks, inputs, import, overlapped>>
  BY DEF RunFails
<1>2. worker'[w] = Resting /\ Resting.pc = "idle"
  BY <1>1 DEF ScoringInv, TypeOK, Resting
<1>3. WorkerOK(w)' /\ InsertedOK(w)'
  BY <1>2 DEF WorkerOK, InsertedOK
<1>4. runs' \in 0..MaxRuns
  BY <1>1 DEF ScoringInv, TypeOK
<1>. QED  BY <1>1, <1>2, <1>3, <1>4, RunStep

\* A judged row that contradicts its label is queued for that.
LEMMA ContradictionTriggers ==
  ASSUME NEW key, NEW judge, NEW grade, NEW label, NEW disagreed
  PROVE  /\ TriggerReasons(key, judge, grade, label, disagreed) \subseteq Reasons
         /\ Contradicts(label, grade) =>
              "golden_error" \in TriggerReasons(key, judge, grade, label, disagreed)
         /\ disagreed = TRUE =>
              "ai_hr_disagreement" \in TriggerReasons(key, judge, grade, label, disagreed)
<1>1. "golden_error" \in Reasons /\ "ai_hr_disagreement" \in Reasons
  BY DEF Reasons
<1>2. Contradicts(label, grade) => /\ label \in {"advance", "reject"}
                                   /\ (grade # "rejected") # (label = "advance")
  BY DEF Contradicts, Bucket, PredictsAdvance
<1>. QED  BY <1>1, <1>2 DEF TriggerReasons

LEMMA InsertScoreStep ==
  ASSUME ScoringInv, NEW w \in Workers, InsertScore(w)
  PROVE  ScoringInv'
<1>. DEFINE k == worker[w].key
            j == worker[w].judge
            queued(row) ==
              IF Eligible(k[2], j)
              THEN TriggerReasons(k, j, row.grade, golden[k[1]], FALSE) ELSE {}
<1>1. /\ worker[w].pc = "insert" /\ runs' = runs
      /\ ~ \E o \in Workers : worker[o].pc = "commit" /\ worker[o].key = k /\ scores[k] = None
      /\ UNCHANGED <<scores, golden, feedback, checks, inputs, import, overlapped>>
  BY DEF InsertScore
<1>2. worker[w] \in RunsUnder(k[2]) /\ k \in ScoreKeys /\ k[2] \in Versions /\ JudgedAs(k, j)
  BY <1>1, RunTyped DEF ScoringInv, WorkerInv, WorkerOK
<1>3. PICK row \in RowsFor(k, j) :
        worker' = [worker EXCEPT ![w].pc = "commit", ![w].row = row, ![w].reasons = queued(row)]
  BY DEF InsertScore
<1>. DEFINE reasons == queued(row)
            r == [worker[w] EXCEPT !.pc = "commit", !.row = row, !.reasons = reasons]
<1>4. reasons \subseteq Reasons
  BY ContradictionTriggers
<1>5. row \in {None} \cup Rows(k[2])
  <2>1. scores[k] \in {None} \cup Rows(k[2])
    BY <1>2 DEF ScoringInv, TypeOK
  <2>2. row = scores[k] \/ row \in ScoreRows(k, j)
    BY DEF RowsFor
  <2>. QED  BY <1>2, <2>1, <2>2, RowFields
<1>6. worker' = [worker EXCEPT ![w] = r]
  <2>1. w \in DOMAIN worker
    BY DEF ScoringInv, TypeOK
  <2>. HIDE DEF queued
  <2>. QED  BY <1>3, <2>1
<1>. HIDE DEF reasons
<1>7. /\ r.key = k /\ r.judge = j /\ r.pc = "commit" /\ r.row = row /\ r.reasons = reasons
      /\ r \in RunsUnder(k[2])
  BY <1>2, <1>4, <1>5 DEF RunsUnder
<1>8. worker'[w] = r
  BY <1>6 DEF ScoringInv, TypeOK
<1>. HIDE DEF r, k, j
<1>9. WorkerOK(w)'
  BY <1>1, <1>2, <1>7, <1>8 DEF WorkerOK, RowsFor
<1>10. InsertedOK(w)'
  <2>1. Eligible(k[2], j) /\ Contradicts(golden[k[1]], row.grade) => "golden_error" \in reasons
    BY ContradictionTriggers DEF reasons
  <2>. QED  BY <1>1, <1>7, <1>8, <2>1 DEF InsertedOK
<1>11. runs' \in 0..MaxRuns
  BY <1>1 DEF ScoringInv, TypeOK
<1>12. \A o \in Workers : o # w /\ worker[o].pc = "commit" /\ r.pc = "commit"
                          /\ worker[o].key = r.key => scores[r.key] # None
  BY <1>1, <1>7
<1>. QED  BY <1>1, <1>6, <1>7, <1>9, <1>10, <1>11, <1>12, RunStep

\* A commit stores a row where there was none, and otherwise what was there.
LEMMA CommitFields ==
  ASSUME ScoringInv, NEW w \in Workers, CommitScore(w)
  PROVE  LET k == worker[w].key
             row == worker[w].row
         IN /\ k \in ScoreKeys /\ row \in Rows(k[2]) /\ row # None
            /\ scores[k] # None => row = scores[k]
            /\ scores[k] = None => StoredAs(k, row) /\ row.judge = worker[w].judge
            /\ DOMAIN scores' = ScoreKeys
            /\ \A x \in ScoreKeys : scores'[x] = IF x = k THEN row ELSE scores[x]
            /\ checks' \in [ScoreKeys -> SUBSET Reasons]
            /\ \A x \in ScoreKeys : checks[x] \subseteq checks'[x]
            /\ worker[w].reasons \subseteq checks'[k]
            /\ overlapped \subseteq overlapped' /\ overlapped' \subseteq ScoreKeys
            /\ scores[k] = None /\ import.cand = k[1] => k \in overlapped'
            /\ DOMAIN worker' = Workers /\ worker'[w] = Resting
            /\ \A o \in Workers : o # w => worker'[o] = worker[o]
<1>. DEFINE k == worker[w].key
            row == worker[w].row
            j == worker[w].judge
<1>1. worker[w].pc = "commit"
  BY DEF CommitScore
<1>2. /\ worker[w] \in RunsUnder(k[2]) /\ k \in ScoreKeys /\ k[2] \in Versions
      /\ JudgedAs(k, j)
      /\ row \in RowsFor(k, j)
  BY <1>1, RunTyped DEF ScoringInv, WorkerInv, WorkerOK
<1>3. row \in Rows(k[2]) /\ row # None
  <2>1. scores[k] \in {None} \cup Rows(k[2])
    BY <1>2 DEF ScoringInv, TypeOK
  <2>2. (row = scores[k] /\ scores[k] # None) \/ row \in ScoreRows(k, j)
    BY <1>2 DEF RowsFor
  <2>. QED  BY <1>2, <2>1, <2>2, RowFields
<1>4. scores[k] = None => StoredAs(k, row) /\ row.judge = j
  <2>. SUFFICES ASSUME scores[k] = None PROVE StoredAs(k, row) /\ row.judge = j
    OBVIOUS
  <2>1. row \in ScoreRows(k, j)
    BY <1>2 DEF RowsFor
  <2>2. row.judge = j
    <3>1. CASE Failed(k) # {}
      BY <1>2, <2>1, <3>1 DEF ScoreRows, Failed, JudgedAs
    <3>2. CASE Failed(k) = {}
      BY <1>2, <2>1, <3>2, RowFields
    <3>. QED  BY <3>1, <3>2
  <2>. QED  BY <1>2, <2>1, <2>2 DEF StoredAs
<1>5. /\ DOMAIN scores' = ScoreKeys
      /\ \A x \in ScoreKeys : scores'[x] = IF x = k THEN row ELSE scores[x]
  <2>1. DOMAIN scores = ScoreKeys /\ scores' = [scores EXCEPT ![k] = row]
    BY DEF CommitScore, ScoringInv, TypeOK
  <2>. QED  BY <1>2, <2>1
<1>6. /\ worker[w].reasons \subseteq Reasons
      /\ checks \in [ScoreKeys -> SUBSET Reasons]
      /\ checks' = [checks EXCEPT ![k] = @ \cup worker[w].reasons]
  BY <1>2 DEF CommitScore, ScoringInv, TypeOK, RunsUnder
<1>7. /\ checks' \in [ScoreKeys -> SUBSET Reasons]
      /\ \A x \in ScoreKeys : checks[x] \subseteq checks'[x]
      /\ worker[w].reasons \subseteq checks'[k]
  BY <1>2, <1>6
<1>8. /\ overlapped \subseteq overlapped' /\ overlapped' \subseteq ScoreKeys
      /\ scores[k] = None /\ import.cand = k[1] => k \in overlapped'
  BY <1>2 DEF CommitScore, ScoringInv, TypeOK
<1>9. /\ DOMAIN worker' = Workers /\ worker'[w] = Resting
      /\ \A o \in Workers : o # w => worker'[o] = worker[o]
  BY DEF CommitScore, ScoringInv, TypeOK
<1>10. scores[k] # None => row = scores[k]
  BY <1>2 DEF RowsFor
<1>. HIDE DEF k, row, j
<1>. QED  BY <1>2, <1>3, <1>10, <1>4, <1>5, <1>7, <1>8, <1>9 DEF k, row, j

LEMMA CommitScoreStep ==
  ASSUME ScoringInv, NEW w \in Workers, CommitScore(w)
  PROVE  ScoringInv'
<1>. DEFINE k == worker[w].key
            row == worker[w].row
<1>1. /\ k \in ScoreKeys /\ row \in Rows(k[2]) /\ row # None
      /\ scores[k] # None => row = scores[k]
      /\ scores[k] = None => StoredAs(k, row) /\ row.judge = worker[w].judge
      /\ DOMAIN scores' = ScoreKeys
      /\ \A x \in ScoreKeys : scores'[x] = IF x = k THEN row ELSE scores[x]
  BY CommitFields
<1>2. /\ checks' \in [ScoreKeys -> SUBSET Reasons]
      /\ \A x \in ScoreKeys : checks[x] \subseteq checks'[x]
      /\ worker[w].reasons \subseteq checks'[k]
      /\ overlapped \subseteq overlapped' /\ overlapped' \subseteq ScoreKeys
      /\ scores[k] = None /\ import.cand = k[1] => k \in overlapped'
  BY CommitFields
<1>3. /\ DOMAIN worker' = Workers /\ worker'[w] = Resting
      /\ \A o \in Workers : o # w => worker'[o] = worker[o]
  BY CommitFields
<1>4. /\ worker[w].pc = "commit" /\ UNCHANGED <<golden, feedback, runs, inputs, import>>
  BY DEF CommitScore
<1>5. \A x \in ScoreKeys : scores[x] # None => scores'[x] = scores[x]
  BY <1>1
<1>6. Resting.pc = "idle"
  BY DEF Resting
<1>. HIDE DEF k, row
<1>7. TypeOK'
  <2>1. \A x \in ScoreKeys : scores'[x] \in {None} \cup Rows(x[2])
    BY <1>1 DEF ScoringInv, TypeOK
  <2>2. \A o \in Workers : worker'[o] = Resting \/ worker'[o] \in RunsUnder(worker'[o].key[2])
    BY <1>3 DEF ScoringInv, TypeOK
  <2>. QED  BY <1>1, <1>2, <1>3, <1>4, <2>1, <2>2 DEF ScoringInv, TypeOK
<1>8. WorkerInv'
  <2>1. ASSUME NEW o \in Workers, o # w PROVE WorkerOK(o)'
    <3>1. worker'[o] = worker[o] /\ WorkerOK(o)
      BY <1>3, <2>1 DEF ScoringInv, WorkerInv
    <3>2. worker[o].pc = "commit" => scores'[worker[o].key] = scores[worker[o].key]
      <4>. SUFFICES ASSUME worker[o].pc = "commit"
                    PROVE  scores'[worker[o].key] = scores[worker[o].key]
        OBVIOUS
      <4>1. worker[o].key \in ScoreKeys
        BY RunTyped
      <4>2. worker[o].key = k => scores[k] # None
        BY <1>4, <2>1 DEF ScoringInv, AloneInv, k
      <4>. QED  BY <1>1, <4>1, <4>2
    <3>. QED  BY <3>1, <3>2 DEF WorkerOK, RowsFor
  <2>2. WorkerOK(w)'
    BY <1>3, <1>6 DEF WorkerOK
  <2>. QED  BY <2>1, <2>2 DEF WorkerInv
<1>9. AloneInv'
  <2>. SUFFICES ASSUME NEW o \in Workers, NEW p \in Workers, o # p,
                       worker'[o].pc = "commit", worker'[p].pc = "commit",
                       worker'[o].key = worker'[p].key
                PROVE  scores'[worker'[o].key] # None
    BY DEF AloneInv
  <2>1. worker'[o] = worker[o] /\ worker'[p] = worker[p]
    BY <1>3, <1>6
  <2>2. worker[o].key \in ScoreKeys /\ scores[worker[o].key] # None
    BY <2>1, RunTyped DEF ScoringInv, AloneInv
  <2>. QED  BY <1>5, <2>1, <2>2
<1>10. StoredInv'
  BY <1>1 DEF ScoringInv, StoredInv, StoredAs
<1>11. FeedbackInv'
  BY <1>4, <1>5 DEF ScoringInv, FeedbackInv
<1>12. InsertedInv'
  <2>1. ASSUME NEW o \in Workers, o # w PROVE InsertedOK(o)'
    <3>. SUFFICES ASSUME worker[o].pc = "commit", scores'[worker[o].key] = None,
                         worker[o].key \notin overlapped',
                         Eligible(worker[o].key[2], worker[o].judge),
                         Contradicts(golden[worker[o].key[1]], worker[o].row.grade)
                  PROVE  "golden_error" \in worker[o].reasons
      BY <1>3, <1>4, <2>1 DEF InsertedOK
    <3>1. worker[o].key \in ScoreKeys
      BY RunTyped
    <3>2. scores[worker[o].key] = None /\ worker[o].key \notin overlapped
      BY <1>2, <1>5, <3>1
    <3>. QED  BY <3>2 DEF ScoringInv, InsertedInv, InsertedOK
  <2>2. InsertedOK(w)'
    BY <1>3, <1>6 DEF InsertedOK
  <2>. QED  BY <2>1, <2>2 DEF InsertedInv
<1>13. ImportedInv'
  <2>. SUFFICES ASSUME NEW v \in Versions, import.pc = "commit",
                       scores'[<<import.cand, v>>] # None, <<import.cand, v>> \notin overlapped',
                       Eligible(v, scores'[<<import.cand, v>>].judge),
                       Contradicts(import.label, scores'[<<import.cand, v>>].grade)
                PROVE  "golden_error" \in import.reasons[v]
    BY <1>4 DEF ImportedInv, ImportedOK
  <2>. DEFINE x == <<import.cand, v>>
  <2>1. x \in ScoreKeys /\ x[1] = import.cand
    BY DEF ScoringInv, TypeOK, NoImport, ScoreKeys
  <2>2. x = k => scores[k] # None
    BY <1>2, <2>1
  <2>3. scores'[x] = scores[x] /\ x \notin overlapped
    BY <1>1, <1>2, <2>1, <2>2
  <2>. QED  BY <2>3 DEF ScoringInv, ImportedInv, ImportedOK
<1>14. DisputesQueued'
  <2>. SUFFICES ASSUME NEW x \in ScoreKeys, scores'[x] # None,
                       Eligible(x[2], scores'[x].judge)
                PROVE  /\ (/\ golden[x[1]] \in {"advance", "reject"} /\ x \notin overlapped'
                           /\ Bucket(golden[x[1]], scores'[x].grade) \in {"fp", "fn"})
                            => "golden_error" \in checks'[x]
                       /\ feedback[x] = "disagreed" => "ai_hr_disagreement" \in checks'[x]
    BY <1>4 DEF DisputesQueued, Disagreed
  <2>1. CASE scores[x] # None
    <3>1. scores'[x] = scores[x] /\ checks[x] \subseteq checks'[x] /\ overlapped \subseteq overlapped'
      BY <1>2, <1>5, <2>1
    <3>. QED  BY <2>1, <3>1 DEF ScoringInv, DisputesQueued, Disagreed
  <2>2. CASE scores[x] = None
    <3>1. x = k /\ scores'[x] = row /\ row.judge = worker[w].judge
      BY <1>1, <2>2
    <3>2. feedback[x] # "disagreed"
      BY <2>2, ScoringNoneAssumption DEF ScoringInv, FeedbackInv
    <3>3. InsertedOK(w)
      BY DEF ScoringInv, InsertedInv
    <3>4. k \notin overlapped' /\ Contradicts(golden[k[1]], row.grade)
          => "golden_error" \in worker[w].reasons
      BY <1>2, <1>4, <2>2, <3>1, <3>3 DEF InsertedOK, k, row
    <3>. QED  BY <1>2, <3>1, <3>2, <3>4 DEF Contradicts
  <2>. QED  BY <2>1, <2>2
<1>. QED  BY <1>7, <1>8, <1>9, <1>10, <1>11, <1>12, <1>13, <1>14 DEF ScoringInv

-----------------------------------------------------------------------------
(***************************************************************************)
(* Steps of the imports and of the reviewer.                              *)
(***************************************************************************)

LEMMA ImportLabelStep ==
  ASSUME ScoringInv, NEW c \in Candidates, NEW label \in GoldenLabels, ImportLabel(c, label)
  PROVE  ScoringInv'
<1>. DEFINE reasons == [v \in Versions |->
              IF scores[<<c, v>>] = None THEN {}
              ELSE QueueReasons(<<c, v>>, label, Disagreed(<<c, v>>))]
<1>1. /\ import' = [pc |-> "commit", cand |-> c, label |-> label, reasons |-> reasons]
      /\ UNCHANGED <<scores, golden, feedback, checks, worker, runs, overlapped>>
  BY DEF ImportLabel
<1>2. inputs' \in 0..MaxInputs
  BY ScoringBoundsAssumption DEF ImportLabel, ScoringInv, TypeOK
<1>3. ASSUME NEW v \in Versions, scores[<<c, v>>] # None
      PROVE  /\ reasons[v] \subseteq Reasons
             /\ Eligible(v, scores[<<c, v>>].judge) /\ Contradicts(label, scores[<<c, v>>].grade)
                => "golden_error" \in reasons[v]
  BY <1>3, ContradictionTriggers DEF QueueReasons
<1>4. reasons \in [Versions -> SUBSET Reasons]
  <2>1. \A v \in Versions : reasons[v] \in SUBSET Reasons
    BY <1>3
  <2>2. reasons = [v \in Versions |-> reasons[v]]
    OBVIOUS
  <2>. HIDE DEF reasons
  <2>. QED  BY <2>1, <2>2
<1>. HIDE DEF reasons
<1>5. TypeOK'
  BY <1>1, <1>2, <1>4 DEF ScoringInv, TypeOK
<1>6. ImportedInv'
  BY <1>1, <1>3 DEF ImportedInv, ImportedOK
<1>7. WorkerInv' /\ AloneInv' /\ StoredInv' /\ FeedbackInv' /\ InsertedInv' /\ DisputesQueued'
  BY <1>1 DEF ScoringInv, WorkerInv, WorkerOK, RowsFor, AloneInv, StoredInv, FeedbackInv, InsertedInv,
              InsertedOK, DisputesQueued, Disagreed
<1>. QED  BY <1>5, <1>6, <1>7 DEF ScoringInv

LEMMA CommitLabelStep ==
  ASSUME ScoringInv, CommitLabel
  PROVE  ScoringInv'
<1>. DEFINE c == import.cand
            flying == {worker[w].key : w \in {o \in Workers : worker[o].pc = "commit"
                          /\ worker[o].key[1] = c /\ scores[worker[o].key] = None}}
<1>1. /\ import.pc = "commit" /\ import' = NoImport
      /\ UNCHANGED <<scores, feedback, worker, runs, inputs>>
      /\ overlapped' = overlapped \cup flying
  BY DEF CommitLabel
<1>2. import \in [pc : {"commit"}, cand : Candidates, label : GoldenLabels,
                  reasons : [Versions -> SUBSET Reasons]]
  BY <1>1 DEF ScoringInv, TypeOK, NoImport
<1>3. /\ golden' \in [Candidates -> GoldenLabels \cup {None}]
      /\ \A x \in Candidates : golden'[x] = IF x = c THEN import.label ELSE golden[x]
  BY <1>2 DEF CommitLabel, ScoringInv, TypeOK
<1>4. /\ checks' \in [ScoreKeys -> SUBSET Reasons]
      /\ \A x \in ScoreKeys : /\ checks[x] \subseteq checks'[x]
                              /\ x[1] = c => import.reasons[x[2]] \subseteq checks'[x]
  <2>1. checks' = [x \in ScoreKeys |->
                     IF x[1] = c THEN checks[x] \cup import.reasons[x[2]] ELSE checks[x]]
    BY DEF CommitLabel
  <2>2. \A x \in ScoreKeys : checks[x] \subseteq Reasons /\ import.reasons[x[2]] \subseteq Reasons
    BY <1>2 DEF ScoringInv, TypeOK, ScoreKeys
  <2>. QED  BY <2>1, <2>2
<1>5. flying \subseteq ScoreKeys
  BY RunTyped
<1>6. ASSUME NEW w \in Workers, worker[w].pc = "commit", scores[worker[w].key] = None,
             worker[w].key[1] = c
      PROVE  worker[w].key \in overlapped'
  BY <1>1, <1>6
<1>. HIDE DEF c, flying
<1>7. TypeOK'
  BY <1>1, <1>3, <1>4, <1>5 DEF ScoringInv, TypeOK
<1>8. WorkerInv' /\ AloneInv' /\ StoredInv' /\ FeedbackInv'
  BY <1>1 DEF ScoringInv, WorkerInv, WorkerOK, RowsFor, AloneInv, StoredInv, FeedbackInv
<1>9. InsertedInv'
  <2>1. ASSUME NEW w \in Workers PROVE InsertedOK(w)'
    <3>. DEFINE x == worker[w].key
    <3>. SUFFICES ASSUME worker[w].pc = "commit", scores[x] = None, x \notin overlapped',
                         Eligible(x[2], worker[w].judge),
                         Contradicts(golden'[x[1]], worker[w].row.grade)
                  PROVE  "golden_error" \in worker[w].reasons
      BY <1>1 DEF InsertedOK
    <3>1. x \in ScoreKeys /\ x[1] \in Candidates
      BY RunTyped DEF ScoreKeys
    <3>2. x[1] # c /\ x \notin overlapped
      BY <1>1, <1>6
    <3>3. golden'[x[1]] = golden[x[1]]
      BY <1>3, <3>1, <3>2
    <3>4. InsertedOK(w)
      BY DEF ScoringInv, InsertedInv
    <3>. QED  BY <3>2, <3>3, <3>4 DEF InsertedOK
  <2>. QED  BY <2>1 DEF InsertedInv
<1>10. ImportedInv'
  BY <1>1 DEF ImportedInv, ImportedOK, NoImport
<1>11. DisputesQueued'
  <2>. SUFFICES ASSUME NEW x \in ScoreKeys, scores[x] # None, Eligible(x[2], scores[x].judge)
                PROVE  /\ (/\ golden'[x[1]] \in {"advance", "reject"} /\ x \notin overlapped'
                           /\ Bucket(golden'[x[1]], scores[x].grade) \in {"fp", "fn"})
                            => "golden_error" \in checks'[x]
                       /\ feedback[x] = "disagreed" => "ai_hr_disagreement" \in checks'[x]
    BY <1>1 DEF DisputesQueued, Disagreed
  <2>1. x[1] \in Candidates /\ x[2] \in Versions /\ x = <<x[1], x[2]>>
    BY DEF ScoreKeys
  <2>2. checks[x] \subseteq checks'[x] /\ overlapped \subseteq overlapped'
    BY <1>1, <1>4
  <2>3. feedback[x] = "disagreed" => "ai_hr_disagreement" \in checks'[x]
    BY <2>2 DEF ScoringInv, DisputesQueued, Disagreed
  <2>4. CASE x[1] # c
    <3>1. golden'[x[1]] = golden[x[1]]
      BY <1>3, <2>1, <2>4
    <3>. QED  BY <2>2, <2>3, <3>1 DEF ScoringInv, DisputesQueued
  <2>5. CASE x[1] = c
    <3>1. golden'[x[1]] = import.label /\ import.reasons[x[2]] \subseteq checks'[x]
      BY <1>3, <1>4, <2>1, <2>5
    <3>2. x = <<import.cand, x[2]>>
      BY <2>1, <2>5 DEF c
    <3>3. ImportedOK(x[2])
      BY <2>1 DEF ScoringInv, ImportedInv
    <3>4. x \notin overlapped /\ Contradicts(import.label, scores[x].grade)
          => "golden_error" \in import.reasons[x[2]]
      BY <1>1, <3>2, <3>3 DEF ImportedOK
    <3>. QED  BY <2>2, <2>3, <3>1, <3>4 DEF Contradicts
  <2>. QED  BY <2>4, <2>5
<1>. QED  BY <1>7, <1>8, <1>9, <1>10, <1>11 DEF ScoringInv

LEMMA GiveFeedbackStep ==
  ASSUME ScoringInv, NEW k \in ScoreKeys, NEW decision, GiveFeedback(k, decision)
  PROVE  ScoringInv'
<1>. DEFINE agreed == DeriveAiAgreed(scores[k].grade, decision)
            reasons == QueueReasons(k, golden[k[1]], agreed = "disagreed")
<1>1. /\ scores[k] # None
      /\ feedback' = [feedback EXCEPT ![k] = agreed]
      /\ checks' = [checks EXCEPT ![k] = @ \cup reasons]
      /\ UNCHANGED <<scores, golden, worker, runs, import, overlapped>>
      /\ inputs' \in 0..MaxInputs
  BY ScoringBoundsAssumption DEF GiveFeedback, ScoringInv, TypeOK
<1>2. agreed \in {"agreed", "disagreed", "hold"}
  BY DEF DeriveAiAgreed
<1>3. /\ reasons \subseteq Reasons
      /\ Eligible(k[2], scores[k].judge) /\ agreed = "disagreed"
         => "ai_hr_disagreement" \in reasons
  BY ContradictionTriggers DEF QueueReasons
<1>. HIDE DEF agreed, reasons
<1>4. /\ feedback' \in [ScoreKeys -> {"agreed", "disagreed", "hold", None}]
      /\ \A x \in ScoreKeys : feedback'[x] = IF x = k THEN agreed ELSE feedback[x]
  BY <1>1, <1>2 DEF ScoringInv, TypeOK
<1>5. /\ checks' \in [ScoreKeys -> SUBSET Reasons] /\ reasons \subseteq checks'[k]
      /\ \A x \in ScoreKeys : checks[x] \subseteq checks'[x]
  <2>1. checks \in [ScoreKeys -> SUBSET Reasons]
    BY DEF ScoringInv, TypeOK
  <2>. QED  BY <1>1, <1>3, <2>1
<1>6. TypeOK'
  BY <1>1, <1>4, <1>5 DEF ScoringInv, TypeOK
<1>7. WorkerInv' /\ AloneInv' /\ StoredInv' /\ InsertedInv' /\ ImportedInv'
  BY <1>1 DEF ScoringInv, WorkerInv, WorkerOK, RowsFor, AloneInv, StoredInv, InsertedInv,
              InsertedOK, ImportedInv, ImportedOK
<1>8. FeedbackInv'
  BY <1>1, <1>4 DEF ScoringInv, FeedbackInv
<1>9. DisputesQueued'
  <2>. SUFFICES ASSUME NEW x \in ScoreKeys, scores[x] # None, Eligible(x[2], scores[x].judge)
                PROVE  /\ (/\ golden[x[1]] \in {"advance", "reject"} /\ x \notin overlapped
                           /\ Bucket(golden[x[1]], scores[x].grade) \in {"fp", "fn"})
                            => "golden_error" \in checks'[x]
                       /\ feedback'[x] = "disagreed" => "ai_hr_disagreement" \in checks'[x]
    BY <1>1 DEF DisputesQueued, Disagreed
  <2>1. checks[x] \subseteq checks'[x]
    BY <1>5
  <2>2. feedback'[x] = "disagreed" => "ai_hr_disagreement" \in checks'[x]
    BY <1>3, <1>4, <1>5, <2>1 DEF ScoringInv, DisputesQueued, Disagreed
  <2>. QED  BY <2>1, <2>2 DEF ScoringInv, DisputesQueued
<1>. QED  BY <1>6, <1>7, <1>8, <1>9 DEF ScoringInv

-----------------------------------------------------------------------------
LEMMA ScoringInitially == Init => ScoringInv
<1>. SUFFICES ASSUME Init PROVE ScoringInv
  OBVIOUS
<1>1. /\ \A k \in ScoreKeys : scores[k] = None /\ feedback[k] = None /\ checks[k] = {}
      /\ \A w \in Workers : worker[w] = Resting /\ worker[w].pc = "idle"
      /\ import = NoImport /\ import.pc = "idle"
  BY DEF Init, Resting, NoImport
<1>2. TypeOK
  BY <1>1, ScoringBoundsAssumption DEF Init, TypeOK
<1>3. WorkerInv /\ AloneInv /\ InsertedInv /\ ImportedInv
  BY <1>1 DEF WorkerInv, WorkerOK, AloneInv, InsertedInv, InsertedOK, ImportedInv, ImportedOK
<1>4. StoredInv /\ FeedbackInv /\ DisputesQueued
  BY <1>1 DEF StoredInv, FeedbackInv, DisputesQueued
<1>. QED  BY <1>2, <1>3, <1>4 DEF ScoringInv

LEMMA ScoringNext == ScoringInv /\ [Next]_vars => ScoringInv'
<1>. SUFFICES ASSUME ScoringInv, [Next]_vars PROVE ScoringInv'
  OBVIOUS
<1>1. ASSUME NEW w \in Workers, NEW c \in Candidates, NEW v \in Versions, StartScoring(w, c, v)
      PROVE  ScoringInv'
  BY <1>1, StartScoringStep
<1>2. ASSUME NEW w \in Workers,
             JudgeAnswers(w) \/ InsertScore(w) \/ CommitScore(w) \/ RunFails(w)
      PROVE  ScoringInv'
  BY <1>2, JudgeAnswersStep, InsertScoreStep, CommitScoreStep, RunFailsStep
<1>3. ASSUME NEW c \in Candidates, NEW l \in GoldenLabels, ImportLabel(c, l)
      PROVE  ScoringInv'
  BY <1>3, ImportLabelStep
<1>4. CASE CommitLabel
  BY <1>4, CommitLabelStep
<1>5. ASSUME NEW k \in ScoreKeys, NEW d \in {"advance", "reject", "hold"}, GiveFeedback(k, d)
      PROVE  ScoringInv'
  BY <1>5, GiveFeedbackStep
<1>6. CASE UNCHANGED vars
  BY <1>6 DEF vars, ScoringInv, TypeOK, WorkerInv, WorkerOK, RowsFor, AloneInv, StoredInv, FeedbackInv,
              InsertedInv, InsertedOK, ImportedInv, ImportedOK, DisputesQueued, Disagreed
<1>. QED  BY <1>1, <1>2, <1>3, <1>4, <1>5, <1>6 DEF Next

\* Every reachable state satisfies the inductive invariant.
THEOREM ScoringInvariance == Spec => []ScoringInv
BY ScoringInitially, ScoringNext, PTL DEF Spec

\* Type correctness of the rows, the labels, the runs and the import.
THEOREM ScoringTypeCorrect == Spec => []TypeOK
<1>1. ScoringInv => TypeOK
  BY DEF ScoringInv
<1>. QED  BY <1>1, ScoringInvariance, PTL

\* Whichever run wins a race, and whatever fails, no stored score ever changes.
THEOREM ScoresStayFinal == Spec => ScoresAreFinal
<1>. DEFINE Kept == \A k \in ScoreKeys : scores[k] # None => scores'[k] = scores[k]
<1>1. ScoringInv /\ [Next]_vars => [Kept]_scores
  <2>. SUFFICES ASSUME ScoringInv, [Next]_vars PROVE Kept \/ scores' = scores
    OBVIOUS
  <2>1. ASSUME NEW w \in Workers, CommitScore(w) PROVE Kept
    BY <2>1, CommitFields
  <2>2. CASE ~ \E w \in Workers : CommitScore(w)
    BY <2>2 DEF Next, vars, StartScoring, JudgeAnswers, InsertScore, RunFails, ImportLabel,
                CommitLabel, GiveFeedback
  <2>. QED  BY <2>1, <2>2
<1>. QED  BY <1>1, ScoringInvariance, PTL DEF Spec, ScoresAreFinal

\* Whichever comes first, the score, the label or the feedback, a judged score that
\* contradicts its label or its reviewer is queued for a second opinion for that reason.
THEOREM DisputesAreQueued == Spec => []DisputesQueued
<1>1. ScoringInv => DisputesQueued
  BY DEF ScoringInv
<1>. QED  BY <1>1, ScoringInvariance, PTL

\* What-If on the rules of a stored score gives its grade, for any rules, rounding and
\* errors of either sum, unless its total meets a threshold; with points in quarters
\* always (pipeline.py:223, rule_publication.py:50).
THEOREM WhatIfAgrees == Spec => []WhatIfReproducesGrade
<1>1. ScoringInv => WhatIfReproducesGrade
  BY RowReproduced DEF ScoringInv, StoredInv, StoredAs, WhatIfReproducesGrade
<1>. QED  BY <1>1, ScoringInvariance, PTL

\* A version with the same thresholds whose filters let the candidate pass and whose
\* rules give at least a hundredth more than the score was made with is not shown as
\* lowering its grade, whatever the error of the sum (rule_publication.py:35).
HigherPointsKeepGrade ==
  \A k \in ScoreKeys, v \in Versions, err \in {-1, 0, 1} :
    (/\ scores[k] # None /\ scores[k].judge # None
     /\ Schema[v].thresholds = Schema[k[2]].thresholds
     /\ FailedFilters(Extracted[k[1]], Schema[v].filters) = {}
     /\ Sum(ScoreDimensions(Extracted[k[1]], Schema[v].rules)) >= scores[k].subtotal + 2)
    => NotBelow(WhatIfGrade(Schema[v], Extracted[k[1]], scores[k], err), scores[k].grade,
                Schema[v].thresholds)

\* What-If shows no stored score as losing its grade to rules that give it more points,
\* for any rules and candidates, although it starts from a rounded total and both sums
\* may err: half a hundredth of rounding and the errors do not make up for a hundredth.
THEOREM WhatIfMonotone == Spec => []HigherPointsKeepGrade
<1>1. ScoringInv => HigherPointsKeepGrade
  <2>. SUFFICES ASSUME ScoringInv, NEW k \in ScoreKeys, NEW v \in Versions,
                       NEW err \in {-1, 0, 1},
                       scores[k] # None, scores[k].judge # None,
                       Schema[v].thresholds = Schema[k[2]].thresholds,
                       FailedFilters(Extracted[k[1]], Schema[v].filters) = {},
                       Sum(ScoreDimensions(Extracted[k[1]], Schema[v].rules))
                         >= scores[k].subtotal + 2
                PROVE  NotBelow(WhatIfGrade(Schema[v], Extracted[k[1]], scores[k], err),
                                scores[k].grade, Schema[v].thresholds)
    BY DEF HigherPointsKeepGrade
  <2>. DEFINE row == scores[k]
              old == Sum(ScoreDimensions(Extracted[k[1]], Schema[k[2]].rules))
              new == Sum(ScoreDimensions(Extracted[k[1]], Schema[v].rules))
              total == old + Sum([d \in DOMAIN row.judge |-> row.judge[d].score])
              higher == new + (row.total - row.subtotal)
  <2>1. JudgedAs(k, row.judge) /\ row \in ScoreRows(k, row.judge)
    BY DEF ScoringInv, StoredInv, StoredAs
  <2>2. Failed(k) = {}
    BY <2>1 DEF JudgedAs
  <2>3. /\ old \in Int /\ total \in Int /\ row.subtotal = old
        /\ row.total \in StoredTotals(total) /\ row.total \in Int
        /\ \E e \in Errors(Schema[k[2]]) : row.grade = GradeFrom(total, e, Schema[k[2]])
    BY <2>1, <2>2, RowFields
  <2>4. new \in Int
    BY Kinds, SchemaKinds, RulesOfKind
  <2>5. WhatIfGrade(Schema[v], Extracted[k[1]], row, err) = GradeFrom(higher, err, Schema[v])
    BY DEF WhatIfGrade
  <2>6. PICK first \in {-1, 0, 1} : row.grade = GradeFrom(total, first, Schema[v])
    <3>. HIDE DEF total, row
    <3>1. PICK e \in Errors(Schema[k[2]]) : row.grade = GradeFrom(total, e, Schema[k[2]])
      BY <2>3
    <3>2. GradeFrom(total, e, Schema[k[2]]) = GradeFrom(total, e, Schema[v])
      BY DEF GradeFrom
    <3>. QED  BY <3>1, <3>2, ErrorsAreSmall
  <2>7. higher \in Int /\ higher > total
    <3>1. new >= row.subtotal + 2
      OBVIOUS
    <3>. HIDE DEF old, new, total, row
    <3>2. row.total >= total - 1
      BY <2>3 DEF StoredTotals
    <3>. QED  BY <2>3, <2>4, <3>1, <3>2
  <2>. HIDE DEF old, new, total, row, higher
  <2>8. NotBelow(GradeFrom(higher, err, Schema[v]), GradeFrom(total, first, Schema[v]),
                 Schema[v].thresholds)
    BY <2>3, <2>7, GradeMonotone
  <2>. QED  BY <2>5, <2>6, <2>8 DEF row
<1>. QED  BY <1>1, ScoringInvariance, PTL

-----------------------------------------------------------------------------
(***************************************************************************)
(* Items.                                                                  *)
(***************************************************************************)

LEMMA DisjointUnion ==
  ASSUME NEW S, NEW T, IsFiniteSet(S), IsFiniteSet(T), S \cap T = {}
  PROVE  /\ IsFiniteSet(S \cup T) /\ Cardinality(S) \in Nat /\ Cardinality(T) \in Nat
         /\ Cardinality(S \cup T) = Cardinality(S) + Cardinality(T)
<1>1. Cardinality(S \cap T) = 0
  BY FS_EmptySet
<1>2. Cardinality(S) \in Nat /\ Cardinality(T) \in Nat
  BY FS_CardinalityType
<1>3. /\ IsFiniteSet(S \cup T)
      /\ Cardinality(S \cup T) = Cardinality(S) + Cardinality(T) - Cardinality(S \cap T)
  BY FS_Union
<1>. QED  BY <1>1, <1>2, <1>3

\* The parts an item is in exactly one of: unscored, borderline, or a cell.
Unscored(items) == {i \in items : i.grade = None}
Undecided(items) == {i \in items : i.grade # None /\ i.label = "borderline"}
InCell(items, cell) ==
  {i \in items : i.grade # None /\ i.label # "borderline" /\ Bucket(i.label, i.grade) = cell}

LEMMA Partition ==
  ASSUME NEW items, IsFiniteSet(items)
  PROVE  /\ Cardinality(Unscored(items)) \in Nat /\ Cardinality(Undecided(items)) \in Nat
         /\ \A cell \in Cells : Cardinality(InCell(items, cell)) \in Nat
         /\ Cardinality(items)
            = Cardinality(Unscored(items)) + (Cardinality(Undecided(items))
              + (Cardinality(InCell(items, "tp")) + (Cardinality(InCell(items, "fp"))
                 + (Cardinality(InCell(items, "tn")) + Cardinality(InCell(items, "fn"))))))
<1>. DEFINE u == Unscored(items)
            b == Undecided(items)
            in(cell) == InCell(items, cell)
            s4 == in("tn") \cup in("fn")
            s3 == in("fp") \cup s4
            s2 == in("tp") \cup s3
            s1 == b \cup s2
<1>1. /\ IsFiniteSet(u) /\ IsFiniteSet(b)
      /\ \A cell : IsFiniteSet(in(cell))
  <2>1. u \in SUBSET items /\ b \in SUBSET items /\ \A cell : in(cell) \in SUBSET items
    BY DEF Unscored, Undecided, InCell
  <2>. QED  BY <2>1, FS_Subset
<1>2. /\ in("tn") \cap in("fn") = {} /\ in("fp") \cap s4 = {} /\ in("tp") \cap s3 = {}
      /\ b \cap s2 = {} /\ u \cap s1 = {} /\ u \cup s1 = items
  BY DEF Unscored, Undecided, InCell, Bucket
<1>. HIDE DEF u, b, in
<1>3. IsFiniteSet(s4) /\ Cardinality(s4) = Cardinality(in("tn")) + Cardinality(in("fn"))
  BY <1>1, <1>2, DisjointUnion
<1>. HIDE DEF s4
<1>4. IsFiniteSet(s3) /\ Cardinality(s3) = Cardinality(in("fp")) + Cardinality(s4)
  BY <1>1, <1>2, <1>3, DisjointUnion
<1>. HIDE DEF s3
<1>5. IsFiniteSet(s2) /\ Cardinality(s2) = Cardinality(in("tp")) + Cardinality(s3)
  BY <1>1, <1>2, <1>4, DisjointUnion
<1>. HIDE DEF s2
<1>6. IsFiniteSet(s1) /\ Cardinality(s1) = Cardinality(b) + Cardinality(s2)
  BY <1>1, <1>2, <1>5, DisjointUnion
<1>. HIDE DEF s1
<1>7. Cardinality(items) = Cardinality(u) + Cardinality(s1)
  BY <1>1, <1>2, <1>6, DisjointUnion
<1>8. /\ Cardinality(u) \in Nat /\ Cardinality(b) \in Nat
      /\ \A cell \in Cells : Cardinality(in(cell)) \in Nat
  BY <1>1, FS_CardinalityType
<1>. QED  BY <1>3, <1>4, <1>5, <1>6, <1>7, <1>8 DEF u, b, in

\* What the two reports of decisions come to.
LEMMA ReportFields ==
  ASSUME NEW items, IsFiniteSet(items)
  PROVE  LET confusion == [cell \in Cells |-> Cardinality(InCell(items, cell))]
             report == GoldenMetrics(items)
             release == ClassificationMetrics(items)
         IN /\ report.confusion = confusion /\ release.confusion = confusion
            /\ report.uncovered = Cardinality(Unscored(items))
            /\ release.uncovered = Cardinality(Unscored(items))
            /\ report.borderline = Cardinality(Undecided(items))
            /\ release.borderline = Cardinality(Undecided(items))
            /\ release.covered + release.uncovered + release.borderline = release.labeled
            /\ release.labeled = Cardinality(items) /\ release.f1 = F1(confusion)
<1>. DEFINE confusion == [cell \in Cells |-> Cardinality(InCell(items, cell))]
            scored == {i \in items : i.grade # None}
            decided == {i \in scored : i.label # "borderline"}
            n(cell) == Cardinality(InCell(items, cell))
<1>1. /\ \A cell : {i \in decided : Bucket(i.label, i.grade) = cell} = InCell(items, cell)
      /\ \A cell : {i \in scored : i.label # "borderline" /\ Bucket(i.label, i.grade) = cell}
                   = InCell(items, cell)
      /\ {i \in scored : i.label = "borderline"} = Undecided(items)
      /\ scored \ decided = Undecided(items)
      /\ {i \in items : i.grade = None} = Unscored(items)
  BY DEF InCell, Undecided, Unscored
<1>2. /\ "tp" \in Cells /\ "fp" \in Cells /\ "tn" \in Cells /\ "fn" \in Cells
  BY DEF Cells
<1>3. Total(confusion) = n("tp") + n("fp") + n("tn") + n("fn")
  BY <1>2 DEF Total
<1>4. /\ Cardinality(items) - (Total(confusion) + Cardinality(Undecided(items)))
         = Cardinality(Unscored(items))
      /\ Total(confusion) + Cardinality(Unscored(items)) + Cardinality(Undecided(items))
         = Cardinality(items)
  <2>1. /\ Cardinality(Unscored(items)) \in Nat /\ Cardinality(Undecided(items)) \in Nat
        /\ n("tp") \in Nat /\ n("fp") \in Nat /\ n("tn") \in Nat /\ n("fn") \in Nat
        /\ Cardinality(items)
           = Cardinality(Unscored(items)) + (Cardinality(Undecided(items))
             + (n("tp") + (n("fp") + (n("tn") + n("fn")))))
    BY <1>2, Partition
  <2>. HIDE DEF n
  <2>. QED  BY <1>3, <2>1
<1>5. ClassificationMetrics(items)
      = [confusion |-> confusion, labeled |-> Cardinality(items), covered |-> Total(confusion),
         uncovered |-> Cardinality(Unscored(items)),
         borderline |-> Cardinality(Undecided(items)), f1 |-> F1(confusion)]
  <2>1. ClassificationMetrics(items)
        = LET c == [cell \in Cells |->
                      Cardinality({i \in decided : Bucket(i.label, i.grade) = cell})]
          IN [confusion |-> c, labeled |-> Cardinality(items), covered |-> Total(c),
              uncovered |-> Cardinality({i \in items : i.grade = None}),
              borderline |-> Cardinality(scored \ decided), f1 |-> F1(c)]
    BY DEF ClassificationMetrics, Count
  <2>2. [cell \in Cells |-> Cardinality({i \in decided : Bucket(i.label, i.grade) = cell})]
        = confusion
    BY <1>1
  <2>. QED  BY <1>1, <2>1, <2>2
<1>6. GoldenMetrics(items)
      = [confusion |-> confusion,
         uncovered |-> Cardinality(items) - (Total(confusion) + Cardinality(Undecided(items))),
         borderline |-> Cardinality(Undecided(items))]
  <2>1. GoldenMetrics(items)
        = LET b == Cardinality({i \in scored : i.label = "borderline"})
              c == [cell \in Cells |-> Cardinality({i \in scored :
                      i.label # "borderline" /\ Bucket(i.label, i.grade) = cell})]
          IN [confusion |-> c, uncovered |-> Cardinality(items) - (Total(c) + b),
              borderline |-> b]
    BY DEF GoldenMetrics, Count
  <2>2. [cell \in Cells |-> Cardinality({i \in scored :
           i.label # "borderline" /\ Bucket(i.label, i.grade) = cell})] = confusion
    BY <1>1
  <2>. QED  BY <1>1, <2>1, <2>2
<1>. HIDE DEF confusion
<1>7. /\ GoldenMetrics(items).confusion = confusion
      /\ GoldenMetrics(items).uncovered = Cardinality(Unscored(items))
      /\ GoldenMetrics(items).borderline = Cardinality(Undecided(items))
  BY <1>4, <1>6
<1>8. /\ ClassificationMetrics(items).confusion = confusion
      /\ ClassificationMetrics(items).labeled = Cardinality(items)
      /\ ClassificationMetrics(items).covered = Total(confusion)
      /\ ClassificationMetrics(items).uncovered = Cardinality(Unscored(items))
      /\ ClassificationMetrics(items).borderline = Cardinality(Undecided(items))
      /\ ClassificationMetrics(items).f1 = F1(confusion)
  BY <1>5
<1>. QED  BY <1>4, <1>7, <1>8 DEF confusion

\* The items of a version, each of a candidate of its own, say what is stored.
ItemOK(v, i) ==
  LET row == scores[<<i.cand, v>>]  IN
  /\ i.cand \in Candidates /\ i.label \in GoldenLabels /\ i.label = golden[i.cand]
  /\ i.grade # None <=> row # None
  /\ i.grade # None => i.grade = row.grade
  /\ i.reached \in BOOLEAN
  /\ i.reached => i.grade # None /\ IsJudgement(v, i.judge)
  /\ ~ i.reached => DOMAIN i.judge = {}

LEMMA ItemFacts ==
  ASSUME ScoringInv, NEW v \in Versions
  PROVE  /\ IsFiniteSet(Items(v)) /\ \A i \in Items(v) : ItemOK(v, i)
         /\ \A i, k \in Items(v) : i.cand = k.cand => i = k
         /\ \A c \in Candidates : golden[c] # None => \E i \in Items(v) : i.cand = c
<1>. DEFINE Row(c) == scores[<<c, v>>]
            Seen(c) == Row(c) # None /\ Row(c).judge # None
            item == [c \in Candidates |->
                       [cand |-> c, label |-> golden[c],
                        grade |-> IF Row(c) = None THEN None ELSE Row(c).grade,
                        reached |-> Seen(c),
                        judge |-> IF Row(c) = None \/ Row(c).judge = None THEN <<>>
                                  ELSE Row(c).judge]]
            labelled == {c \in Candidates : golden[c] # None}
<1>1. Items(v) = {item[c] : c \in labelled}
  BY DEF Items
<1>2. IsFiniteSet(labelled)
  BY SchemaAssumption, FS_Subset
<1>3. IsFiniteSet(Items(v))
  <2>. HIDE DEF item, labelled
  <2>. QED  BY <1>1, <1>2, ImageFinite
<1>4. ASSUME NEW c \in labelled PROVE item[c].cand = c /\ ItemOK(v, item[c])
  <2>. DEFINE i == item[c]
  <2>1. /\ i.cand = c /\ i.label = golden[c]
        /\ i.grade = IF Row(c) = None THEN None ELSE Row(c).grade
        /\ i.judge = IF Row(c) = None \/ Row(c).judge = None THEN <<>> ELSE Row(c).judge
    OBVIOUS
  <2>2. i.reached = Seen(c)
    BY Zenon
  <2>3. <<c, v>> \in ScoreKeys /\ <<c, v>>[2] = v /\ golden[c] \in GoldenLabels
    BY DEF ScoreKeys, ScoringInv, TypeOK
  <2>4. Row(c) # None => Row(c).grade # None
    <3>1. Row(c) # None => Row(c) \in Rows(v)
      BY <2>3 DEF ScoringInv, TypeOK
    <3>2. Row(c) # None => Row(c).grade \in Grades(v)
      BY <3>1 DEF Rows
    <3>. QED  BY <3>2, ScoringNoneAssumption
  <2>5. Seen(c) => IsJudgement(v, Row(c).judge)
    <3>1. Seen(c) => StoredAs(<<c, v>>, Row(c))
      BY <2>3 DEF ScoringInv, StoredInv
    <3>. QED  BY <2>3, <3>1 DEF StoredAs, JudgedAs
  <2>6. DOMAIN <<>> = {}
    OBVIOUS
  <2>. HIDE DEF i
  <2>7. CASE Seen(c)
    <3>1. i.reached = TRUE /\ i.judge = Row(c).judge
      BY <2>1, <2>2, <2>7
    <3>. QED  BY <2>1, <2>3, <2>4, <2>5, <2>7, <3>1 DEF ItemOK, i
  <2>8. CASE ~ Seen(c)
    <3>1. i.reached = FALSE /\ i.judge = <<>>
      BY <2>1, <2>2, <2>8
    <3>. QED  BY <2>1, <2>3, <2>4, <2>6, <3>1 DEF ItemOK, i
  <2>. QED  BY <2>7, <2>8
<1>5. \A c \in Candidates : golden[c] # None => c \in labelled
  OBVIOUS
<1>. HIDE DEF item, labelled
<1>. QED  BY <1>1, <1>3, <1>4, <1>5

\* The candidates of some items are as many as the items.
LEMMA OfCandidates ==
  ASSUME ScoringInv, NEW v \in Versions, NEW S \in SUBSET Items(v), NEW T,
         \A i \in S : i.cand \in T, \A c \in T : \E i \in S : i.cand = c
  PROVE  IsFiniteSet(S) /\ IsFiniteSet(T) /\ Cardinality(S) = Cardinality(T)
<1>. DEFINE f == [i \in S |-> i.cand]
<1>1. IsFiniteSet(S) /\ \A i, k \in S : i.cand = k.cand => i = k
  BY ItemFacts, FS_Subset
<1>2. f \in [S -> T] /\ \A i \in S : f[i] = i.cand
  OBVIOUS
<1>3. T = {f[i] : i \in S}
  BY <1>2
<1>. HIDE DEF f
<1>4. f \in Injection(S, T)
  BY <1>1, <1>2 DEF Injection, IsInjective
<1>5. f \in Surjection(S, T)
  BY <1>2, <1>3 DEF Surjection
<1>6. f \in Bijection(S, T)
  BY <1>4, <1>5 DEF Bijection
<1>7. IsFiniteSet(T)
  BY <1>1, <1>3, ImageFinite
<1>. QED  BY <1>1, <1>6, <1>7, FS_Bijection DEF ExistsBijection

\* Whatever is put into the cells is in one of them.
LEMMA InOneCell ==
  ASSUME NEW S, IsFiniteSet(S), NEW f \in [S -> Cells]
  PROVE  Total([cell \in Cells |-> Cardinality({s \in S : f[s] = cell})]) = Cardinality(S)
<1>. DEFINE in(cell) == {s \in S : f[s] = cell}
            count == [cell \in Cells |-> Cardinality(in(cell))]
            s3 == in("tn") \cup in("fn")
            s2 == in("fp") \cup s3
<1>1. \A cell : IsFiniteSet(in(cell))
  <2>1. \A cell : in(cell) \in SUBSET S
    OBVIOUS
  <2>. HIDE DEF in
  <2>. QED  BY <2>1, FS_Subset
<1>2. /\ in("tn") \cap in("fn") = {} /\ in("fp") \cap s3 = {} /\ in("tp") \cap s2 = {}
      /\ in("tp") \cup s2 = S
  BY DEF Cells
<1>3. /\ count["tp"] = Cardinality(in("tp")) /\ count["fp"] = Cardinality(in("fp"))
      /\ count["tn"] = Cardinality(in("tn")) /\ count["fn"] = Cardinality(in("fn"))
  BY DEF Cells
<1>. HIDE DEF in
<1>4. IsFiniteSet(s3) /\ Cardinality(s3) = Cardinality(in("tn")) + Cardinality(in("fn"))
  BY <1>1, <1>2, DisjointUnion
<1>. HIDE DEF s3
<1>5. IsFiniteSet(s2) /\ Cardinality(s2) = Cardinality(in("fp")) + Cardinality(s3)
  BY <1>1, <1>2, <1>4, DisjointUnion
<1>. HIDE DEF s2
<1>6. Cardinality(S) = Cardinality(in("tp")) + Cardinality(s2)
  BY <1>1, <1>2, <1>5, DisjointUnion
<1>7. \A cell : Cardinality(in(cell)) \in Nat
  BY <1>1, FS_CardinalityType
<1>8. Total(count) = Cardinality(S)
  <2>. HIDE DEF count
  <2>. QED  BY <1>3, <1>4, <1>5, <1>6, <1>7 DEF Total
<1>. QED  BY <1>8 DEF in

\* On the rules of a version every score of it gets a grade from What-If, and the one it has
\* away from the thresholds or with points in quarters.
LEMMA OwnRulesDecide ==
  ASSUME ScoringInv, NEW k \in ScoreKeys, scores[k] # None, NEW err \in Errors(Schema[k[2]])
  PROVE  /\ WhatIfGrade(Schema[k[2]], Extracted[k[1]], scores[k], err) # None
         /\ InQuarters(Schema[k[2]]) \/ ~ OnEdge(scores[k].total, Schema[k[2]]) =>
              WhatIfGrade(Schema[k[2]], Extracted[k[1]], scores[k], err) = scores[k].grade
<1>. DEFINE s == Schema[k[2]]
            row == scores[k]
            rules == ScoreDimensions(Extracted[k[1]], s.rules)
<1>0. k[2] \in Versions
  BY DEF ScoreKeys
<1>1. JudgedAs(k, row.judge) /\ row \in ScoreRows(k, row.judge)
  BY DEF ScoringInv, StoredInv, StoredAs
<1>2. CASE Failed(k) # {}
  <2>1. WhatIfGrade(s, Extracted[k[1]], row, err) = "rejected" /\ "rejected" \in Grades(k[2])
    BY <1>2 DEF WhatIfGrade, Failed, Grades
  <2>. QED  BY <1>0, <1>1, <2>1, RowReproduced, ScoringNoneAssumption
<1>3. CASE Failed(k) = {}
  <2>1. row.judge # None /\ row.subtotal = Sum(rules) /\ Sum(rules) \in Int /\ row.total \in Int
    BY <1>1, <1>3, RowFields
  <2>2. WhatIfGrade(s, Extracted[k[1]], row, err)
        = GradeFrom(Sum(rules) + (row.total - row.subtotal), err, s)
    BY <1>3, <2>1 DEF WhatIfGrade, Failed
  <2>3. Sum(rules) + (row.total - row.subtotal) \in Int
    <3>. HIDE DEF rules, row
    <3>. QED  BY <2>1
  <2>4. GradeFrom(Sum(rules) + (row.total - row.subtotal), err, s) \in Grades(k[2])
    <3>. HIDE DEF rules, row
    <3>. QED  BY <1>0, <2>3, ErrorsAreSmall, GradeTyped
  <2>. QED  BY <1>0, <1>1, <2>2, <2>4, RowReproduced, ScoringNoneAssumption
<1>. QED  BY <1>2, <1>3

\* How the evaluation of a draft counts the items of the version it is compared with.
LEMMA DraftAgrees ==
  ASSUME ScoringInv, NEW v \in Versions, NEW d \in Versions,
         NEW errs \in [Candidates -> Errors(Schema[d]) \cup Errors(Schema[v])]
  PROVE  LET items == Items(v)
             moved == Cardinality({i \in items : i.grade = None /\ i.label = "borderline"})
             draft == DraftMetrics(Schema[d], v, errs)
         IN /\ Total(draft.confusion) + draft.indeterminate + draft.uncovered
                 + draft.borderline = Cardinality(items)
            /\ draft.borderline = Cardinality(Undecided(items)) + moved
            /\ draft.uncovered = Cardinality(Unscored(items)) - moved
            /\ d = v => draft.indeterminate = 0
            /\ d = v /\ (\A i \in items : i.grade = None \/ InQuarters(Schema[v])
                                         \/ ~ OnEdge(scores[<<i.cand, v>>].total, Schema[v]))
                 => draft.confusion = [cell \in Cells |-> Cardinality(InCell(items, cell))]
<1>. DEFINE items == Items(v)
            movedItems == {i \in items : i.grade = None /\ i.label = "borderline"}
            waiting == {i \in items : i.grade = None /\ i.label # "borderline"}
            ready == {i \in items : i.grade # None /\ i.label # "borderline"}
            decided == {c \in Candidates : golden[c] \in {"advance", "reject"}}
            borderline == {c \in Candidates : golden[c] = "borderline"}
            rows == {c \in decided : scores[<<c, v>>] # None}
            grade == [c \in rows |->
                        WhatIfGrade(Schema[d], Extracted[c], scores[<<c, v>>], errs[c])]
            evaluated == {c \in rows : grade[c] # None}
            cellOf == [c \in evaluated |-> Bucket(golden[c], grade[c])]
            draft == DraftMetrics(Schema[d], v, errs)
<1>1. /\ IsFiniteSet(items) /\ \A i \in items : ItemOK(v, i)
      /\ \A c \in Candidates : golden[c] # None => \E i \in items : i.cand = c
  BY ItemFacts
<1>2. /\ "advance" # None /\ "reject" # None /\ "borderline" # None
      /\ GoldenLabels = {"advance", "reject", "borderline"}
  BY ScoringNoneAssumption DEF GoldenLabels
<1>3. /\ draft.confusion
           = [cell \in Cells |-> Cardinality({c \in evaluated : Bucket(golden[c], grade[c]) = cell})]
      /\ draft.indeterminate = Cardinality(rows \ evaluated)
      /\ draft.borderline = Cardinality(borderline)
      /\ draft.uncovered = Cardinality(decided) - Cardinality(rows)
  <2>1. draft = [confusion |-> [cell \in Cells |->
                   Cardinality({c \in evaluated : Bucket(golden[c], grade[c]) = cell})],
                 indeterminate |-> Cardinality(rows \ evaluated),
                 borderline |-> Cardinality(borderline),
                 uncovered |-> Cardinality(decided) - Cardinality(rows)]
    BY DEF DraftMetrics, Count
  <2>. HIDE DEF draft, decided, borderline, rows, grade, evaluated
  <2>. QED  BY <2>1
\* The candidates and the items they are labelled in.
<1>4. /\ IsFiniteSet(borderline)
      /\ Cardinality(borderline) = Cardinality(movedItems \cup Undecided(items))
  <2>1. \A i \in movedItems \cup Undecided(items) : i.cand \in borderline
    BY <1>1 DEF Undecided, ItemOK
  <2>2. \A c \in borderline : \E i \in movedItems \cup Undecided(items) : i.cand = c
    BY <1>1, <1>2 DEF Undecided, ItemOK
  <2>3. movedItems \cup Undecided(items) \in SUBSET items
    BY DEF Undecided
  <2>. HIDE DEF borderline, movedItems
  <2>. QED  BY <2>1, <2>2, <2>3, OfCandidates
<1>5. IsFiniteSet(decided) /\ Cardinality(decided) = Cardinality(waiting \cup ready)
  <2>1. \A i \in waiting \cup ready : i.cand \in decided
    BY <1>1, <1>2 DEF ItemOK
  <2>2. \A c \in decided : \E i \in waiting \cup ready : i.cand = c
    BY <1>1, <1>2 DEF ItemOK
  <2>3. waiting \cup ready \in SUBSET items
    OBVIOUS
  <2>. HIDE DEF decided, waiting, ready
  <2>. QED  BY <2>1, <2>2, <2>3, OfCandidates
<1>6. IsFiniteSet(rows) /\ Cardinality(rows) = Cardinality(ready)
  <2>1. \A i \in ready : i.cand \in rows
    BY <1>1, <1>2 DEF ItemOK
  <2>2. \A c \in rows : \E i \in ready : i.cand = c
    BY <1>1, <1>2 DEF ItemOK
  <2>3. ready \in SUBSET items
    OBVIOUS
  <2>. HIDE DEF rows, ready
  <2>. QED  BY <2>1, <2>2, <2>3, OfCandidates
\* Sums.
<1>7. /\ IsFiniteSet(movedItems) /\ IsFiniteSet(waiting) /\ IsFiniteSet(ready)
      /\ IsFiniteSet(Undecided(items))
      /\ IsFiniteSet(evaluated) /\ IsFiniteSet(rows \ evaluated)
  <2>1. /\ movedItems \in SUBSET items /\ waiting \in SUBSET items /\ ready \in SUBSET items
        /\ Undecided(items) \in SUBSET items
    BY DEF Undecided
  <2>2. evaluated \in SUBSET rows /\ rows \ evaluated \in SUBSET rows
    OBVIOUS
  <2>. HIDE DEF movedItems, waiting, ready, rows, evaluated, items
  <2>. QED  BY <1>1, <1>6, <2>1, <2>2, FS_Subset
<1>8. /\ Cardinality(movedItems \cup Undecided(items))
         = Cardinality(movedItems) + Cardinality(Undecided(items))
      /\ Cardinality(waiting \cup ready) = Cardinality(waiting) + Cardinality(ready)
      /\ Cardinality(Unscored(items)) = Cardinality(movedItems) + Cardinality(waiting)
      /\ Cardinality(items) = Cardinality(movedItems \cup Undecided(items))
                              + Cardinality(waiting \cup ready)
      /\ Cardinality(rows) = Cardinality(evaluated) + Cardinality(rows \ evaluated)
  <2>1. /\ movedItems \cap Undecided(items) = {} /\ waiting \cap ready = {}
        /\ movedItems \cap waiting = {} /\ Unscored(items) = movedItems \cup waiting
        /\ (movedItems \cup Undecided(items)) \cap (waiting \cup ready) = {}
        /\ items = (movedItems \cup Undecided(items)) \cup (waiting \cup ready)
    BY DEF Undecided, Unscored
  <2>2. evaluated \cap (rows \ evaluated) = {} /\ rows = evaluated \cup (rows \ evaluated)
    OBVIOUS
  <2>. HIDE DEF movedItems, waiting, ready, rows, evaluated, items
  <2>3. /\ IsFiniteSet(movedItems \cup Undecided(items)) /\ IsFiniteSet(waiting \cup ready)
        /\ Cardinality(movedItems \cup Undecided(items))
           = Cardinality(movedItems) + Cardinality(Undecided(items))
        /\ Cardinality(waiting \cup ready) = Cardinality(waiting) + Cardinality(ready)
        /\ Cardinality(movedItems \cup waiting) = Cardinality(movedItems) + Cardinality(waiting)
    BY <1>7, <2>1, DisjointUnion
  <2>4. Cardinality((movedItems \cup Undecided(items)) \cup (waiting \cup ready))
        = Cardinality(movedItems \cup Undecided(items)) + Cardinality(waiting \cup ready)
    BY <2>1, <2>3, DisjointUnion
  <2>5. Cardinality(evaluated \cup (rows \ evaluated))
        = Cardinality(evaluated) + Cardinality(rows \ evaluated)
    BY <1>7, <2>2, DisjointUnion
  <2>. QED  BY <2>1, <2>2, <2>3, <2>4, <2>5
<1>9. /\ Cardinality(movedItems) \in Nat /\ Cardinality(waiting) \in Nat
      /\ Cardinality(ready) \in Nat /\ Cardinality(Undecided(items)) \in Nat
      /\ Cardinality(evaluated) \in Nat /\ Cardinality(rows \ evaluated) \in Nat
  BY <1>7, FS_CardinalityType
<1>10. Total(draft.confusion) = Cardinality(evaluated)
  <2>1. cellOf \in [evaluated -> Cells]
    BY DEF Bucket, Cells
  <2>2. \A cell : {c \in evaluated : Bucket(golden[c], grade[c]) = cell}
                  = {c \in evaluated : cellOf[c] = cell}
    OBVIOUS
  <2>. HIDE DEF evaluated, cellOf, grade, draft
  <2>3. draft.confusion = [cell \in Cells |-> Cardinality({c \in evaluated : cellOf[c] = cell})]
    BY <1>3, <2>2
  <2>. QED  BY <1>7, <2>1, <2>3, InOneCell
<1>11. /\ Total(draft.confusion) + draft.indeterminate + draft.uncovered + draft.borderline
          = Cardinality(items)
       /\ draft.borderline = Cardinality(Undecided(items)) + Cardinality(movedItems)
       /\ draft.uncovered = Cardinality(Unscored(items)) - Cardinality(movedItems)
  <2>. HIDE DEF movedItems, waiting, ready, rows, evaluated, items, decided, borderline, draft,
                grade
  <2>. QED  BY <1>3, <1>4, <1>5, <1>6, <1>8, <1>9, <1>10
\* The version's own rules.
<1>12. ASSUME d = v, NEW c \in rows
       PROVE  /\ <<c, v>> \in ScoreKeys /\ errs[c] \in Errors(Schema[v])
              /\ grade[c] = WhatIfGrade(Schema[v], Extracted[c], scores[<<c, v>>], errs[c])
              /\ grade[c] # None
              /\ InQuarters(Schema[v]) \/ ~ OnEdge(scores[<<c, v>>].total, Schema[v]) =>
                   grade[c] = scores[<<c, v>>].grade
  <2>1. /\ <<c, v>> \in ScoreKeys /\ scores[<<c, v>>] # None
        /\ <<c, v>>[1] = c /\ <<c, v>>[2] = v
    BY DEF ScoreKeys
  <2>2. errs[c] \in Errors(Schema[v])
    BY <1>12
  <2>3. grade[c] = WhatIfGrade(Schema[v], Extracted[c], scores[<<c, v>>], errs[c])
    BY <1>12
  <2>. HIDE DEF grade, rows
  <2>. QED  BY <2>1, <2>2, <2>3, OwnRulesDecide
<1>13. d = v => evaluated = rows /\ draft.indeterminate = 0
  <2>1. d = v => evaluated = rows
    <3>. HIDE DEF rows, grade
    <3>. QED  BY <1>12
  <2>2. rows \ rows = {} /\ Cardinality({}) = 0
    BY FS_EmptySet
  <2>. HIDE DEF evaluated, rows, draft
  <2>. QED  BY <1>3, <2>1, <2>2
<1>14. ASSUME d = v, \A i \in items : i.grade = None \/ InQuarters(Schema[v])
                                      \/ ~ OnEdge(scores[<<i.cand, v>>].total, Schema[v])
       PROVE  draft.confusion = [cell \in Cells |-> Cardinality(InCell(items, cell))]
  <2>1. ASSUME NEW cell \in Cells
        PROVE  Cardinality(InCell(items, cell))
               = Cardinality({c \in evaluated : Bucket(golden[c], grade[c]) = cell})
    <3>1. \A c \in rows : grade[c] = scores[<<c, v>>].grade
      <4>. SUFFICES ASSUME NEW c \in rows PROVE grade[c] = scores[<<c, v>>].grade
        OBVIOUS
      <4>1. c \in Candidates /\ golden[c] # None /\ scores[<<c, v>>] # None
        BY <1>2
      <4>2. PICK i \in items : i.cand = c
        BY <1>1, <4>1
      <4>3. i.grade # None
        BY <1>1, <4>1, <4>2 DEF ItemOK
      <4>. HIDE DEF grade, rows, items
      <4>. QED  BY <1>12, <1>14, <4>2, <4>3
    <3>2. \A i \in InCell(items, cell) :
            /\ i.cand \in rows /\ Bucket(golden[i.cand], scores[<<i.cand, v>>].grade) = cell
      BY <1>1, <1>2 DEF InCell, ItemOK
    <3>3. \A c \in rows : \E i \in items :
            /\ i.cand = c /\ i.label # "borderline" /\ i.grade # None
            /\ i.label = golden[c] /\ i.grade = scores[<<c, v>>].grade
      BY <1>1, <1>2 DEF ItemOK
    <3>4. InCell(items, cell) \in SUBSET items
      BY DEF InCell
    <3>5. evaluated = rows
      BY <1>13, <1>14
    <3>. DEFINE T == {c \in evaluated : Bucket(golden[c], grade[c]) = cell}
    <3>6. \A i \in InCell(items, cell) : i.cand \in T
      <4>. HIDE DEF rows, evaluated, grade, items
      <4>. QED  BY <3>1, <3>2, <3>5
    <3>7. \A c \in T : \E i \in InCell(items, cell) : i.cand = c
      <4>. SUFFICES ASSUME NEW c \in T PROVE \E i \in InCell(items, cell) : i.cand = c
        OBVIOUS
      <4>1. c \in rows /\ Bucket(golden[c], grade[c]) = cell
        BY <3>5
      <4>. HIDE DEF T, rows, evaluated, grade, items
      <4>2. PICK i \in items : /\ i.cand = c /\ i.label # "borderline" /\ i.grade # None
                               /\ i.label = golden[c] /\ i.grade = scores[<<c, v>>].grade
        BY <3>3, <4>1
      <4>3. Bucket(i.label, i.grade) = cell
        BY <3>1, <4>1, <4>2
      <4>. QED  BY <4>2, <4>3 DEF InCell
    <3>. HIDE DEF T
    <3>8. Cardinality(InCell(items, cell)) = Cardinality(T)
      BY <3>4, <3>6, <3>7, OfCandidates
    <3>. QED  BY <3>8 DEF T
  <2>. HIDE DEF evaluated, grade, items, draft, rows
  <2>. QED  BY <1>3, <2>1
<1>. HIDE DEF draft, items, movedItems
<1>. QED  BY <1>11, <1>13, <1>14 DEF draft, items, movedItems

\* The golden-set report, the release and a draft's evaluation count the same labels, for any
\* drafts, labels and errors of the sums.
THEOREM ReportsAgree == Spec => []ConfusionsAgree
<1>1. ASSUME ScoringInv, NEW v \in Versions
      PROVE  LET items == Items(v)
                 report == GoldenMetrics(items)
                 release == ClassificationMetrics(items)
                 moved == Cardinality({i \in items : i.grade = None /\ i.label = "borderline"})
             IN /\ report.confusion = release.confusion
                /\ report.uncovered = release.uncovered
                /\ report.borderline = release.borderline
                /\ release.covered + release.uncovered + release.borderline = release.labeled
                /\ \A d \in Versions :
                   \A errs \in [Candidates -> Errors(Schema[d]) \cup Errors(Schema[v])] :
                     LET draft == DraftMetrics(Schema[d], v, errs)  IN
                     /\ Total(draft.confusion) + draft.indeterminate + draft.uncovered
                          + draft.borderline = release.labeled
                     /\ draft.borderline = report.borderline + moved
                     /\ draft.uncovered = report.uncovered - moved
                     /\ d = v => draft.indeterminate = 0
                     /\ d = v /\ (\A i \in items :
                                    i.grade = None \/ InQuarters(Schema[v])
                                    \/ ~ OnEdge(scores[<<i.cand, v>>].total, Schema[v]))
                          => draft.confusion = report.confusion
  <2>. DEFINE items == Items(v)
              report == GoldenMetrics(items)
              release == ClassificationMetrics(items)
              moved == Cardinality({i \in items : i.grade = None /\ i.label = "borderline"})
              confusion == [cell \in Cells |-> Cardinality(InCell(items, cell))]
  <2>1. IsFiniteSet(items)
    BY <1>1, ItemFacts
  <2>2. /\ report.confusion = confusion /\ release.confusion = confusion
        /\ report.uncovered = Cardinality(Unscored(items))
        /\ release.uncovered = Cardinality(Unscored(items))
        /\ report.borderline = Cardinality(Undecided(items))
        /\ release.borderline = Cardinality(Undecided(items))
        /\ release.covered + release.uncovered + release.borderline = release.labeled
        /\ release.labeled = Cardinality(items)
    BY <2>1, ReportFields
  <2>3. ASSUME NEW d \in Versions,
               NEW errs \in [Candidates -> Errors(Schema[d]) \cup Errors(Schema[v])]
        PROVE  LET draft == DraftMetrics(Schema[d], v, errs)  IN
               /\ Total(draft.confusion) + draft.indeterminate + draft.uncovered
                    + draft.borderline = release.labeled
               /\ draft.borderline = report.borderline + moved
               /\ draft.uncovered = report.uncovered - moved
               /\ d = v => draft.indeterminate = 0
               /\ d = v /\ (\A i \in items :
                              i.grade = None \/ InQuarters(Schema[v])
                              \/ ~ OnEdge(scores[<<i.cand, v>>].total, Schema[v]))
                    => draft.confusion = report.confusion
    <3>. DEFINE draft == DraftMetrics(Schema[d], v, errs)
                safe == \A i \in items : i.grade = None \/ InQuarters(Schema[v])
                                         \/ ~ OnEdge(scores[<<i.cand, v>>].total, Schema[v])
    <3>1. /\ Total(draft.confusion) + draft.indeterminate + draft.uncovered
               + draft.borderline = Cardinality(items)
          /\ draft.borderline = Cardinality(Undecided(items)) + moved
          /\ draft.uncovered = Cardinality(Unscored(items)) - moved
          /\ d = v => draft.indeterminate = 0
          /\ d = v /\ safe => draft.confusion = confusion
      BY <1>1, DraftAgrees
    <3>. HIDE DEF report, release, draft, safe, moved, items, confusion
    <3>2. /\ Total(draft.confusion) + draft.indeterminate + draft.uncovered
               + draft.borderline = release.labeled
          /\ draft.borderline = report.borderline + moved
          /\ draft.uncovered = report.uncovered - moved
          /\ d = v => draft.indeterminate = 0
          /\ d = v /\ safe => draft.confusion = report.confusion
      BY <2>2, <3>1
    <3>. QED  BY <3>2 DEF draft, safe
  <2>. HIDE DEF report, release, moved, items
  <2>4. /\ report.confusion = release.confusion /\ report.uncovered = release.uncovered
        /\ report.borderline = release.borderline
        /\ release.covered + release.uncovered + release.borderline = release.labeled
    BY <2>2
  <2>. QED  BY <2>3, <2>4 DEF report, release, moved, items
<1>2. ScoringInv => ConfusionsAgree
  BY <1>1 DEF ConfusionsAgree, Count
<1>. QED  BY <1>2, ScoringInvariance, PTL


\* What is stored of an answer has evidence where it has a score, and a confidence where its
\* tier is known.
LEMMA KnownHasEvidence ==
  ASSUME NEW v \in Versions, NEW j, IsJudgement(v, j), NEW d \in DOMAIN Schema[v].judge
  PROVE  /\ d \in DOMAIN j
         /\ IsKnown(j[d]) => j[d].evidence
         /\ ~ IsKnown(j[d]) <=> j[d].tier = "unknown" \/ j[d].score = None
BY DEF IsJudgement, Opinions, IsKnown

\* A bijection between pairs of an item and something, and pairs of its candidate and it.
LEMMA ByCandidate ==
  ASSUME NEW S, IsFiniteSet(S), NEW T,
         \A p \in S : <<p[1].cand, p[2]>> \in T,
         \A q \in T : \E p \in S : q = <<p[1].cand, p[2]>>,
         \A p, q \in S : p[1].cand = q[1].cand /\ p[2] = q[2] => p = q
  PROVE  Cardinality(S) = Cardinality(T)
<1>. DEFINE f == [p \in S |-> <<p[1].cand, p[2]>>]
<1>1. \A p \in S : f[p] = <<p[1].cand, p[2]>>
  OBVIOUS
<1>2. f \in [S -> T]
  OBVIOUS
<1>. HIDE DEF f
<1>3. f \in Injection(S, T)
  BY <1>1, <1>2 DEF Injection, IsInjective
<1>4. f \in Surjection(S, T)
  BY <1>1, <1>2 DEF Surjection
<1>5. f \in Bijection(S, T)
  BY <1>3, <1>4 DEF Bijection
<1>. QED  BY <1>5, FS_Bijection DEF ExistsBijection

\* Of the dimensions expected of the candidates the judge saw, those not covered are
\* those it called unknown or gave no score.
LEMMA EvidenceCounts ==
  ASSUME ScoringInv, NEW v \in Versions
  PROVE  LET dims == DOMAIN Schema[v].judge
             e == EvidenceMetrics(Items(v), dims)
             unknown == UNION {{<<i.cand, d>> : d \in {x \in DOMAIN i.judge :
                                  i.judge[x].tier = "unknown" \/ i.judge[x].score = None}}
                               : i \in Items(v)}
         IN e.covered + Cardinality(unknown) = e.expected
<1>. DEFINE dims == DOMAIN Schema[v].judge
            seen == {i \in Items(v) : i.reached}
            expected == seen \X dims
            covered == {p \in expected :
                          /\ p[2] \in DOMAIN p[1].judge
                          /\ IsKnown(p[1].judge[p[2]]) /\ p[1].judge[p[2]].evidence}
            rest == expected \ covered
            of(i) == {<<i.cand, d>> : d \in {x \in DOMAIN i.judge :
                        i.judge[x].tier = "unknown" \/ i.judge[x].score = None}}
            unknown == UNION {of(i) : i \in Items(v)}
<1>1. /\ IsFiniteSet(Items(v)) /\ \A i \in Items(v) : ItemOK(v, i)
      /\ \A i, k \in Items(v) : i.cand = k.cand => i = k
  BY ItemFacts
<1>2. IsFiniteSet(expected) /\ IsFiniteSet(covered) /\ IsFiniteSet(rest)
  <2>1. IsFiniteSet(seen) /\ IsFiniteSet(dims)
    BY <1>1, FS_Subset, SchemaFacts DEF IsSchema
  <2>2. IsFiniteSet(expected)
    <3>. HIDE DEF seen, dims
    <3>. QED  BY <2>1, FS_Product
  <2>3. covered \in SUBSET expected /\ rest \in SUBSET expected
    OBVIOUS
  <2>. HIDE DEF expected, covered, rest
  <2>. QED  BY <2>2, <2>3, FS_Subset
<1>3. ASSUME NEW p \in expected
      PROVE  /\ p = <<p[1], p[2]>> /\ p[1] \in Items(v) /\ p[2] \in DOMAIN p[1].judge
             /\ p \in rest <=> \/ p[1].judge[p[2]].tier = "unknown"
                               \/ p[1].judge[p[2]].score = None
  <2>1. p = <<p[1], p[2]>> /\ p[1] \in seen /\ p[2] \in dims
    <3>. HIDE DEF seen, dims
    <3>. QED  OBVIOUS
  <2>2. p[1] \in Items(v) /\ IsJudgement(v, p[1].judge)
    BY <1>1, <2>1 DEF ItemOK
  <2>. QED  BY <2>1, <2>2, KnownHasEvidence
<1>4. ASSUME NEW i \in Items(v), NEW d \in DOMAIN i.judge
      PROVE  <<i, d>> \in expected
  <2>1. i.reached /\ IsJudgement(v, i.judge)
    BY <1>1, <1>4 DEF ItemOK
  <2>. QED  BY <2>1 DEF IsJudgement, Opinions
<1>5. Cardinality(rest) = Cardinality(unknown)
  <2>1. ASSUME NEW p \in rest PROVE <<p[1].cand, p[2]>> \in unknown
    <3>1. <<p[1].cand, p[2]>> \in of(p[1]) /\ p[1] \in Items(v)
      BY <1>3
    <3>. HIDE DEF of
    <3>. QED  BY <3>1
  <2>2. ASSUME NEW q \in unknown PROVE \E p \in rest : q = <<p[1].cand, p[2]>>
    <3>1. PICK i \in Items(v) : q \in of(i)
      OBVIOUS
    <3>2. PICK d \in DOMAIN i.judge :
            (i.judge[d].tier = "unknown" \/ i.judge[d].score = None) /\ q = <<i.cand, d>>
      BY <3>1
    <3>3. <<i, d>> \in rest
      BY <1>3, <1>4, <3>2
    <3>. HIDE DEF rest
    <3>. QED  BY <3>2, <3>3
  <2>3. \A p, q \in rest : p[1].cand = q[1].cand /\ p[2] = q[2] => p = q
    BY <1>1, <1>3
  <2>. HIDE DEF rest, unknown
  <2>. QED  BY <1>2, <2>1, <2>2, <2>3, ByCandidate
<1>6. Cardinality(covered) + Cardinality(rest) = Cardinality(expected)
  <2>1. covered \cap rest = {} /\ covered \cup rest = expected
    OBVIOUS
  <2>. HIDE DEF covered, rest, expected
  <2>. QED  BY <1>2, <2>1, DisjointUnion
<1>7. /\ EvidenceMetrics(Items(v), dims).covered = Cardinality(covered)
      /\ EvidenceMetrics(Items(v), dims).expected = Cardinality(expected)
  BY DEF EvidenceMetrics
<1>. HIDE DEF covered, rest, expected, unknown, dims, of
<1>8. EvidenceMetrics(Items(v), dims).covered + Cardinality(unknown)
      = EvidenceMetrics(Items(v), dims).expected
  BY <1>5, <1>6, <1>7
<1>. QED  BY <1>8 DEF unknown, dims, of

\* The targets are met only on decided, rightly advanced and judged candidates.
LEMMA MetOnEvidence ==
  ASSUME ScoringInv, NEW v \in Versions,
         ReleaseStatus(Items(v), DOMAIN Schema[v].judge) = "meets_target"
  PROVE  /\ \E i \in Items(v) : /\ i.grade # None /\ i.label # "borderline"
                                /\ F1Target[1] > 0 => Bucket(i.label, i.grade) = "tp"
         /\ DOMAIN Schema[v].judge # {} => \E i \in Items(v) : i.reached
<1>. DEFINE items == Items(v)
            dims == DOMAIN Schema[v].judge
            e == EvidenceMetrics(items, dims)
            n(cell) == Cardinality(InCell(items, cell))
            confusion == [cell \in Cells |-> n(cell)]
            value == F1(confusion)
            f1 == TargetResult(value, F1Target, "insufficient_data")
            evidence == TargetResult(e.value, EvidenceTarget,
                          IF e.status = "not_applicable" THEN "not_applicable"
                          ELSE "insufficient_data")
<1>0. IsFiniteSet(items)
  BY ItemFacts
<1>1. ReleaseRollup(f1, evidence) = "meets_target"
  <2>1. ClassificationMetrics(items).f1 = value
    BY <1>0, ReportFields
  <2>. QED  BY <2>1 DEF ReleaseStatus
<1>2. f1 \notin {"below_target", "insufficient_data"} /\ evidence # "insufficient_data"
  <2>. HIDE DEF f1, evidence
  <2>. QED  BY <1>1 DEF ReleaseRollup
<1>3. value # None /\ AtLeast(value, F1Target)
  <2>. HIDE DEF value
  <2>. QED  BY <1>2 DEF TargetResult
<1>4. /\ n("tp") \in Nat /\ n("fp") \in Nat /\ n("fn") \in Nat
      /\ value = Ratio(2 * n("tp"), 2 * n("tp") + n("fp") + n("fn"))
  <2>1. "tp" \in Cells /\ "fp" \in Cells /\ "fn" \in Cells
    BY DEF Cells
  <2>2. confusion["tp"] = n("tp") /\ confusion["fp"] = n("fp") /\ confusion["fn"] = n("fn")
    BY <2>1
  <2>3. n("tp") \in Nat /\ n("fp") \in Nat /\ n("fn") \in Nat
    BY <1>0, <2>1, Partition
  <2>. HIDE DEF confusion
  <2>. QED  BY <2>2, <2>3 DEF F1
<1>. DEFINE d == 2 * n("tp") + n("fp") + n("fn")
<1>. HIDE DEF n, value
<1>5. d # 0 /\ value = <<2 * n("tp"), d>>
  BY <1>3, <1>4 DEF Ratio
<1>6. \E cell \in {"tp", "fp", "fn"} : n(cell) # 0
  BY <1>4, <1>5
<1>7. F1Target[1] > 0 => n("tp") # 0
  <2>1. F1Target[1] \in Nat /\ F1Target[2] \in Nat
    BY TargetsAssumption
  <2>2. (2 * n("tp")) * F1Target[2] >= F1Target[1] * d
    BY <1>3, <1>5 DEF AtLeast
  <2>3. ASSUME n("tp") = 0, F1Target[1] > 0 PROVE FALSE
    <3>1. d \in Nat /\ d > 0
      BY <1>4, <1>5
    <3>2. 0 >= F1Target[1] * d
      BY <2>1, <2>2, <2>3
    <3>. HIDE DEF d
    <3>3. \A a, b \in Nat : a > 0 /\ b > 0 => a * b > 0
      OBVIOUS
    <3>4. F1Target[1] * d > 0
      BY <2>1, <2>3, <3>1, <3>3
    <3>5. F1Target[1] * d \in Int
      BY <2>1, <3>1
    <3>. QED  BY <3>2, <3>4, <3>5
  <2>. QED  BY <2>3
<1>8. \A cell : n(cell) # 0 => \E i \in items : /\ i.grade # None /\ i.label # "borderline"
                                               /\ Bucket(i.label, i.grade) = cell
  <2>. SUFFICES ASSUME NEW cell, n(cell) # 0
                PROVE  \E i \in items : /\ i.grade # None /\ i.label # "borderline"
                                        /\ Bucket(i.label, i.grade) = cell
    OBVIOUS
  <2>1. InCell(items, cell) # {}
    BY FS_EmptySet DEF n
  <2>. QED  BY <2>1 DEF InCell
<1>9. dims # {} => \E i \in items : i.reached
  <2>. SUFFICES ASSUME dims # {} PROVE \E i \in items : i.reached
    OBVIOUS
  <2>. DEFINE expected == {i \in items : i.reached} \X dims
  <2>1. /\ e.status # "not_applicable"
        /\ \E m : e.value = Ratio(m, Cardinality(expected))
    BY DEF EvidenceMetrics
  <2>. HIDE DEF e, expected
  <2>2. e.value # None
    BY <1>2, <2>1 DEF TargetResult
  <2>3. Cardinality(expected) # 0
    BY <2>1, <2>2 DEF Ratio
  <2>4. expected # {}
    BY <2>3, FS_EmptySet
  <2>. QED  BY <2>4 DEF expected
<1>. QED  BY <1>6, <1>7, <1>8, <1>9

\* What a release says about its targets rests on evidence, for any targets.
THEOREM TargetsRestOnEvidence == Spec => []TargetsNeedEvidence
<1>1. ScoringInv => TargetsNeedEvidence
  BY EvidenceCounts, MetOnEvidence DEF TargetsNeedEvidence
<1>. QED  BY <1>1, ScoringInvariance, PTL


-----------------------------------------------------------------------------
(***************************************************************************)
(* Confidences.                                                            *)
(***************************************************************************)

\* The weighted confidences of an answer over some of its dimensions, in tenths.
Mass(w, S) == MapThenSumSet(LAMBDA d : w[d], S)
WeightedSum(w, j, S) == MapThenSumSet(LAMBDA d : w[d] * j[d].confidence, S)

LEMMA WeightedSumIsSumOf ==
  ASSUME NEW w, NEW j, NEW S
  PROVE  WeightedSum(w, j, S) = SumOf([d \in S |-> w[d] * j[d].confidence], S)
<1>. DEFINE g == [d \in S |-> w[d] * j[d].confidence]
            rest(s) == s \ {Pick(s)}
            P(h) == h = [s \in SUBSET S |->
                          IF s = {} THEN 0
                          ELSE w[Pick(s)] * j[Pick(s)].confidence + h[rest(s)]]
<1>1. \A s \in SUBSET S : s # {} => g[Pick(s)] = w[Pick(s)] * j[Pick(s)].confidence
  BY DEF Pick
<1>2. ASSUME NEW h PROVE P(h) <=> IsSum(g, S, h)
  <2>. HIDE DEF g
  <2>1. [s \in SUBSET S |-> IF s = {} THEN 0
                            ELSE w[Pick(s)] * j[Pick(s)].confidence + h[rest(s)]]
        = [s \in SUBSET S |-> IF s = {} THEN 0 ELSE g[Pick(s)] + h[rest(s)]]
    BY <1>1
  <2>. QED  BY <2>1 DEF IsSum
<1>3. (CHOOSE h : P(h)) = (CHOOSE h : IsSum(g, S, h))
  <2>. HIDE DEF P
  <2>. QED  BY <1>2
<1>4. WeightedSum(w, j, S) = (CHOOSE h : P(h))[S]
  BY DEF WeightedSum, MapThenSumSet, MapThenFoldSet, Pick
<1>5. SumOf(g, S) = (CHOOSE h : IsSum(g, S, h))[S]
  BY DEF SumOf, MapThenSumSet, MapThenFoldSet, IsSum, Pick
<1>. QED  BY <1>3, <1>4, <1>5

\* A weighted mean of confidences is one: a ratio between 0 and 1.
LEMMA MeanBounded ==
  ASSUME NEW w, NEW j, NEW S, IsFiniteSet(S),
         \A d \in S : w[d] \in Nat /\ j[d].confidence \in 0..10
  PROVE  /\ WeightedSum(w, j, S) \in Nat /\ Mass(w, S) \in Nat
         /\ WeightedSum(w, j, S) <= 10 * Mass(w, S)
<1>. DEFINE f == [d \in S |-> w[d] * j[d].confidence]
            Q == {T \in SUBSET S : /\ SumOf(f, T) \in Nat /\ SumOf(w, T) \in Nat
                                   /\ SumOf(f, T) <= 10 * SumOf(w, T)}
<1>1. \A d \in S : f[d] \in Nat /\ f[d] <= 10 * w[d]
  <2>1. \A a \in Nat, c \in 0..10 : a * c \in Nat /\ a * c <= 10 * a
    OBVIOUS
  <2>2. \A d \in S : f[d] = w[d] * j[d].confidence
    OBVIOUS
  <2>. HIDE DEF f
  <2>. QED  BY <2>1, <2>2
<1>. HIDE DEF f
<1>2. ASSUME NEW T \in SUBSET S, \A U \in SUBSET T : U # T => U \in Q
      PROVE  T \in Q
  <2>0. IsFiniteSet(T)
    BY FS_Subset
  <2>1. CASE T = {}
    <3>1. SumOf(f, {}) = 0 /\ SumOf(w, {}) = 0
      BY FS_EmptySet, SumStep
    <3>. QED  BY <2>1, <3>1
  <2>2. CASE T # {}
    <3>. DEFINE c == Pick(T)
    <3>1. /\ c \in T /\ SumOf(f, T) = f[c] + SumOf(f, T \ {c})
          /\ SumOf(w, T) = w[c] + SumOf(w, T \ {c})
      BY <2>0, <2>2, SumStep
    <3>. HIDE DEF c
    <3>2. T \ {c} \in Q
      BY <1>2, <3>1
    <3>3. /\ SumOf(f, T \ {c}) \in Nat /\ SumOf(w, T \ {c}) \in Nat
          /\ SumOf(f, T \ {c}) <= 10 * SumOf(w, T \ {c})
          /\ f[c] \in Nat /\ w[c] \in Nat /\ f[c] <= 10 * w[c]
      BY <1>1, <3>1, <3>2
    <3>4. /\ SumOf(f, T) \in Nat /\ SumOf(w, T) \in Nat
          /\ SumOf(f, T) <= 10 * SumOf(w, T)
      BY <3>1, <3>3
    <3>. QED  BY <3>4
  <2>. QED  BY <2>1, <2>2
<1>3. \A T \in SUBSET S : T \in Q
  <2>. HIDE DEF Q
  <2>. QED  BY <1>2, SubsetInduction
<1>4. Mass(w, S) = SumOf(w, S)
  BY DEF Mass, SumOf
<1>. QED  BY <1>3, <1>4, WeightedSumIsSumOf DEF f

\* The release and the sampling compute the same confidence of what is stored of an answer
\* whose known tiers have scores.
LEMMA SameConfidence ==
  ASSUME NEW v \in Versions, NEW j, IsJudgement(v, j)
  PROVE  LET c == WeightedConfidence(j, Weights(v))
         IN /\ (\A d \in DOMAIN j : j[d].tier # "unknown" => j[d].score # None)
                 => SamplingConfidence(v, j) = c
            /\ c # None => /\ c = <<c[1], c[2]>> /\ c[1] \in Nat /\ c[2] \in Nat
                           /\ c[2] > 0 /\ c[1] <= c[2]
<1>. DEFINE w == Weights(v)
            used == {d \in DOMAIN j \cap DOMAIN w : w[d] > 0 /\ IsKnown(j[d])}
            n == WeightedSum(w, j, used)
            m == 10 * Mass(w, used)
<1>1. DOMAIN j = DOMAIN w /\ DOMAIN w = DOMAIN Schema[v].judge /\ IsFiniteSet(DOMAIN w)
  BY SchemaFacts DEF Weights, IsJudgement, Opinions, IsSchema
<1>2. (\A d \in DOMAIN j : j[d].tier # "unknown" => j[d].score # None)
        => used = {d \in DOMAIN j \cap DOMAIN w : w[d] > 0 /\ j[d].tier # "unknown"}
  BY DEF IsKnown
<1>3. (\A d \in DOMAIN j : j[d].tier # "unknown" => j[d].score # None)
        => SamplingConfidence(v, j) = Ratio(n, m)
  BY <1>2 DEF SamplingConfidence, WeightedSum, Mass
<1>4. WeightedConfidence(j, w) = Ratio(n, m)
  BY DEF WeightedConfidence, WeightedSum, Mass
<1>5. IsFiniteSet(used) /\ \A d \in used : w[d] \in Nat /\ j[d].confidence \in 0..10
  <2>1. IsFiniteSet(used)
    BY <1>1, FS_Subset
  <2>2. ASSUME NEW d \in used PROVE w[d] \in Nat /\ j[d].confidence \in 0..10
    <3>1. d \in DOMAIN Schema[v].judge /\ w[d] = Schema[v].judge[d].weight
      BY <1>1 DEF Weights
    <3>2. j[d].tier # "unknown"
      BY DEF IsKnown
    <3>3. j[d].confidence \in Confidences \cup {None}
      BY <3>1 DEF IsJudgement, Opinions
    <3>4. j[d].confidence # None
      BY <3>1, <3>2 DEF IsJudgement
    <3>5. Schema[v].judge[d].weight \in Nat
      BY <3>1, SchemaFacts DEF IsSchema, IsJudged
    <3>. QED  BY <3>1, <3>3, <3>4, <3>5 DEF Confidences
  <2>. QED  BY <2>1, <2>2
<1>. HIDE DEF used, w
<1>6. n \in Nat /\ m \in Nat /\ n <= m
  <2>1. n \in Nat /\ Mass(w, used) \in Nat /\ n <= 10 * Mass(w, used)
    BY <1>5, MeanBounded
  <2>. QED  BY <2>1
<1>. HIDE DEF n, m
<1>7. Ratio(n, m) # None => Ratio(n, m) = <<n, m>> /\ m # 0
  BY DEF Ratio
<1>. QED  BY <1>3, <1>4, <1>6, <1>7 DEF w

\* The bin of a confidence is the one whose edges hold it.
InsideBin(c, b) == /\ 5 * c[1] >= (b - 1) * c[2]
                   /\ 5 * c[1] < b * c[2] \/ (b = 5 /\ c[1] = c[2])

LEMMA BinHolds ==
  ASSUME NEW n \in Nat, NEW d \in Nat, d > 0, n <= d, NEW b \in Bins
  PROVE  BinIndex(<<n, d>>) = b <=> InsideBin(<<n, d>>, b)
<1>. DEFINE above == {x \in Bins : 5 * n < x * d}
            m == Min(above)
<1>1. Bins = {1, 2, 3, 4, 5}
  BY DEF Bins
<1>2. BinIndex(<<n, d>>) = IF above # {} THEN m ELSE 5
  BY DEF BinIndex
<1>3. above # {} => m \in above /\ \A x \in above : m <= x
  <2>1. above \in SUBSET Int /\ IsFiniteSet(above)
    <3>1. IsFiniteSet(1..5) /\ Bins = 1..5
      <4>1. 1 \in Int /\ 5 \in Int
        OBVIOUS
      <4>2. IsFiniteSet(1..5)
        BY <4>1, FS_Interval, Zenon
      <4>3. Bins = 1..5
        BY DEF Bins
      <4>. QED  BY <4>2, <4>3, Zenon
    <3>2. above \subseteq 1..5 /\ 1..5 \in SUBSET Int
      BY <3>1
    <3>. HIDE DEF above
    <3>. QED  BY <3>1, <3>2, FS_Subset
  <2>. HIDE DEF above
  <2>. QED  BY <2>1, SmallestExists
<1>4. /\ 1 \in above <=> 5 * n < d
      /\ 2 \in above <=> 5 * n < 2 * d
      /\ 3 \in above <=> 5 * n < 3 * d
      /\ 4 \in above <=> 5 * n < 4 * d
      /\ 5 \in above <=> 5 * n < 5 * d
  BY <1>1
<1>5. above \subseteq {1, 2, 3, 4, 5}
  BY <1>1
<1>6. InsideBin(<<n, d>>, b) <=> /\ 5 * n >= (b - 1) * d
                                 /\ 5 * n < b * d \/ (b = 5 /\ n = d)
  BY DEF InsideBin
<1>. HIDE DEF above, m
<1>7. above = {} <=> n = d
  BY <1>4, <1>5
<1>8. CASE above = {}
  BY <1>1, <1>2, <1>6, <1>7, <1>8
<1>9. CASE above # {}
  <2>1. m \in above /\ \A x \in above : m <= x
    BY <1>3, <1>9
  <2>2. m \in {1, 2, 3, 4, 5}
    BY <1>5, <2>1
  <2>3. n < d
    BY <1>7, <1>9
  <2>4. CASE b = 1
    BY <1>2, <1>4, <1>6, <1>9, <2>1, <2>2, <2>3, <2>4
  <2>5. CASE b = 2
    BY <1>2, <1>4, <1>6, <1>9, <2>1, <2>2, <2>3, <2>5
  <2>6. CASE b = 3
    BY <1>2, <1>4, <1>6, <1>9, <2>1, <2>2, <2>3, <2>6
  <2>7. CASE b = 4
    BY <1>2, <1>4, <1>6, <1>9, <2>1, <2>2, <2>3, <2>7
  <2>8. CASE b = 5
    BY <1>2, <1>4, <1>6, <1>9, <2>1, <2>2, <2>3, <2>8
  <2>. QED  BY <1>1, <2>4, <2>5, <2>6, <2>7, <2>8
<1>. QED  BY <1>8, <1>9

\* The judged items with a decided label, by bin.
LEMMA Calibrated ==
  ASSUME ScoringInv, NEW v \in Versions
  PROVE  LET m == ConfidenceMetrics(Items(v), Weights(v))
             rated == {<<i.cand, WeightedConfidence(i.judge, Weights(v))>>
                         : i \in {x \in Items(v) : x.reached /\ x.label # "borderline"}}
         IN /\ m.unavailable = Count(rated, LAMBDA p : p[2] = None)
            /\ \A b \in Bins :
                 m.count[b] = Count(rated, LAMBDA p : p[2] # None /\ InsideBin(p[2], b))
<1>. DEFINE w == Weights(v)
            judged == {i \in Items(v) : i.label # "borderline" /\ i.grade # None /\ i.reached}
            byItem == {<<i, WeightedConfidence(i.judge, w)>> : i \in judged}
            byCand == {<<i.cand, WeightedConfidence(i.judge, w)>>
                         : i \in {x \in Items(v) : x.reached /\ x.label # "borderline"}}
            usable == {p \in byItem : p[2] # None}
            metrics == ConfidenceMetrics(Items(v), w)
<1>1. /\ IsFiniteSet(Items(v)) /\ \A i \in Items(v) : ItemOK(v, i)
      /\ \A i, k \in Items(v) : i.cand = k.cand => i = k
  BY ItemFacts
<1>2. ASSUME NEW i \in judged
      PROVE  LET c == WeightedConfidence(i.judge, w)
             IN c # None => /\ c = <<c[1], c[2]>> /\ c[1] \in Nat /\ c[2] \in Nat
                            /\ c[2] > 0 /\ c[1] <= c[2]
  BY <1>1, SameConfidence DEF ItemOK
<1>3. judged = {x \in Items(v) : x.reached /\ x.label # "borderline"}
  BY <1>1 DEF ItemOK
<1>4. IsFiniteSet(byItem)
  <2>. DEFINE pair == [i \in judged |-> <<i, WeightedConfidence(i.judge, w)>>]
  <2>1. byItem = {pair[i] : i \in judged} /\ IsFiniteSet(judged)
    BY <1>1, FS_Subset
  <2>. HIDE DEF pair, judged, byItem
  <2>. QED  BY <2>1, ImageFinite
<1>5. ASSUME NEW Q
      PROVE  Cardinality({p \in byItem : p[2] \in Q}) = Cardinality({p \in byCand : p[2] \in Q})
  <2>. DEFINE S == {p \in byItem : p[2] \in Q}
              T == {p \in byCand : p[2] \in Q}
              conf(i) == WeightedConfidence(i.judge, w)
  <2>0. byCand = {<<i.cand, conf(i)>> : i \in judged}
    BY <1>3
  <2>1. /\ \A p \in byItem : p[1] \in judged /\ p[2] = conf(p[1]) /\ p = <<p[1], p[2]>>
        /\ \A i \in judged : <<i, conf(i)>> \in byItem
    <3>1. byItem = {<<i, conf(i)>> : i \in judged}
      OBVIOUS
    <3>. HIDE DEF byItem, judged, conf
    <3>. QED  BY <3>1
  <2>2. /\ \A i \in judged : <<i.cand, conf(i)>> \in byCand
        /\ \A q \in byCand : \E i \in judged : q = <<i.cand, conf(i)>>
    <3>. HIDE DEF judged, conf, byCand
    <3>. QED  BY <2>0
  <2>3. \A i, k \in judged : i.cand = k.cand => i = k
    BY <1>1
  <2>4. IsFiniteSet(S)
    BY <1>4, FS_Subset
  <2>. HIDE DEF byItem, byCand, judged, conf
  <2>5. \A p \in S : <<p[1].cand, p[2]>> \in T
    BY <2>1, <2>2
  <2>6. ASSUME NEW q \in T PROVE \E p \in S : q = <<p[1].cand, p[2]>>
    <3>1. PICK i \in judged : q = <<i.cand, conf(i)>>
      BY <2>2
    <3>2. <<i, conf(i)>> \in S
      BY <2>1, <3>1
    <3>. QED  BY <3>1, <3>2
  <2>7. \A p, q \in S : p[1].cand = q[1].cand /\ p[2] = q[2] => p = q
    BY <2>1, <2>3
  <2>. HIDE DEF S, T
  <2>8. Cardinality(S) = Cardinality(T)
    BY <2>4, <2>5, <2>6, <2>7, ByCandidate
  <2>. QED  BY <2>8 DEF S, T
<1>6. /\ metrics.unavailable = Cardinality(byItem \ usable)
      /\ \A b \in Bins : metrics.count[b] = Cardinality({p \in usable : BinIndex(p[2]) = b})
  BY DEF ConfidenceMetrics
<1>7. metrics.unavailable = Count(byCand, LAMBDA p : p[2] = None)
  <2>1. byItem \ usable = {p \in byItem : p[2] \in {None}}
    OBVIOUS
  <2>2. {p \in byCand : p[2] = None} = {p \in byCand : p[2] \in {None}}
    OBVIOUS
  <2>. HIDE DEF byItem, byCand, usable, metrics
  <2>. QED  BY <1>5, <1>6, <2>1, <2>2 DEF Count
<1>8. ASSUME NEW b \in Bins
      PROVE  metrics.count[b] = Count(byCand, LAMBDA p : p[2] # None /\ InsideBin(p[2], b))
  <2>. DEFINE Q == {c \in {p[2] : p \in byItem \cup byCand} : c # None /\ InsideBin(c, b)}
  <2>1. {p \in usable : BinIndex(p[2]) = b} = {p \in byItem : p[2] \in Q}
    <3>1. ASSUME NEW p \in byItem, p[2] # None PROVE BinIndex(p[2]) = b <=> InsideBin(p[2], b)
      <4>1. PICK i \in judged : p[2] = WeightedConfidence(i.judge, w)
        <5>. HIDE DEF judged
        <5>. QED  OBVIOUS
      <4>2. /\ p[2] = <<p[2][1], p[2][2]>> /\ p[2][1] \in Nat /\ p[2][2] \in Nat
            /\ p[2][2] > 0 /\ p[2][1] <= p[2][2]
        BY <1>2, <3>1, <4>1
      <4>. HIDE DEF byItem
      <4>. QED  BY <4>2, BinHolds
    <3>. HIDE DEF byItem, byCand
    <3>. QED  BY <3>1
  <2>2. {p \in byCand : p[2] # None /\ InsideBin(p[2], b)} = {p \in byCand : p[2] \in Q}
    <3>. HIDE DEF byItem, byCand
    <3>. QED  OBVIOUS
  <2>. HIDE DEF byItem, byCand, usable, metrics, Q
  <2>. QED  BY <1>5, <1>6, <2>1, <2>2 DEF Count
<1>. QED  BY <1>7, <1>8

\* Each judged and decided item is in the bin of its confidence, and sampling computes the same
\* one of an answer whose known tiers have scores, for any weights and confidences.
THEOREM CalibrationCounts == Spec => []CalibrationAgrees
<1>1. ASSUME ScoringInv, NEW v \in Versions,
             NEW i \in Items(v), i.reached, i.label # "borderline",
             \A d \in DOMAIN i.judge : i.judge[d].tier # "unknown" => i.judge[d].score # None
      PROVE  SamplingConfidence(v, i.judge) = WeightedConfidence(i.judge, Weights(v))
  BY <1>1, ItemFacts, SameConfidence DEF ItemOK
<1>2. ScoringInv => CalibrationAgrees
  BY <1>1, Calibrated DEF CalibrationAgrees, InsideBin
<1>. QED  BY <1>2, ScoringInvariance, PTL
=============================================================================
