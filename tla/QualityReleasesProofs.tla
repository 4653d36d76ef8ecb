------------------------- MODULE QualityReleasesProofs -------------------------
(***************************************************************************)
(* Safety of QualityReleases for any number of releasers, attempts and     *)
(* failures, over every behaviour of the rule publication beside it.       *)
(***************************************************************************)
EXTENDS QualityReleases, FiniteSetTheorems, TLAPS

\* A request names rows that exist, and rows are never deleted.
RequestInv ==
  \A e \in Editors :
    /\ ed[e].pc \in {"insert", "lock", "publish", "measure", "cli"} =>
         ed[e].jd \in JDs /\ ed[e].label \in Labels /\ jds[ed[e].jd] # None
    /\ ed[e].pc \in {"lock", "publish", "measure"} => ver[Mine(e)] # None
    /\ ed[e].pc = "sync" =>
         ed[e].jd \in JDs /\ (ed[e].saw # None => jds[ed[e].jd] # None)

\* A publisher that has passed its checks holds the lock of its JD, so what it read
\* under that lock is still what the rows say.
PublisherInv ==
  \A e \in Editors : ed[e].pc = "publish" =>
    /\ jdLock[ed[e].jd] = e
    /\ ed[e].saw = jds[ed[e].jd]
    /\ ver[Mine(e)].status = "draft" /\ ver[Mine(e)].metrics

\* What the command line imported is still there.
ImportedInv == \A v \in imported : ver[v] # None

\* The two halves of PublishedIsActive.
ActiveIsPublished ==
  \A j \in JDs : jds[j] # None /\ jds[j].active # None =>
    HasStatus(<<j, jds[j].active>>, "published")
OutOfForce(j) ==
  {l \in Labels : HasStatus(<<j, l>>, "published") /\ ~ InForce(<<j, l>>)}
ImportedOf(j) == {v \in imported : v[1] = j}
LeftByImports ==
  \A j \in JDs : Cardinality(OutOfForce(j)) <= Cardinality(ImportedOf(j))

RuleInv ==
  /\ RuleTypeOK
  /\ RequestInv
  /\ PublisherInv
  /\ ImportedInv
  /\ ActiveIsPublished
  /\ LeftByImports
-----------------------------------------------------------------------------
\* The labels are finitely many, and so are the versions of a JD.
LEMMA FiniteVersions ==
  ASSUME NEW j \in JDs, NEW S \in SUBSET Labels, NEW I \in SUBSET Versions
  PROVE  IsFiniteSet(S) /\ IsFiniteSet({v \in I : v[1] = j})
<1>1. IsFiniteSet({j} \X Labels)
  BY FS_Singleton, FS_Product, LabelsAssumption
<1>2. {v \in I : v[1] = j} \in SUBSET ({j} \X Labels)
  BY DEF Versions
<1>. QED  BY <1>1, <1>2, FS_Subset, LabelsAssumption

\* A step that puts no version out of force and forgets no import keeps the bound.
LEMMA NoneLeft ==
  ASSUME RuleTypeOK, RuleTypeOK', LeftByImports,
         imported \subseteq imported',
         \A j \in JDs : OutOfForce(j)' \subseteq OutOfForce(j)
  PROVE  LeftByImports'
<1>. SUFFICES ASSUME NEW j \in JDs
              PROVE  Cardinality(OutOfForce(j)') <= Cardinality(ImportedOf(j)')
  BY DEF LeftByImports
<1>1. ImportedOf(j) \subseteq ImportedOf(j)'
  BY DEF ImportedOf
<1>2. /\ IsFiniteSet(OutOfForce(j)) /\ IsFiniteSet(ImportedOf(j))
      /\ IsFiniteSet(OutOfForce(j)') /\ IsFiniteSet(ImportedOf(j)')
  BY FiniteVersions DEF OutOfForce, ImportedOf, RuleTypeOK
<1>3. Cardinality(OutOfForce(j)') <= Cardinality(OutOfForce(j))
  BY <1>2, FS_Subset
<1>4. Cardinality(ImportedOf(j)) <= Cardinality(ImportedOf(j)')
  BY <1>1, <1>2, FS_Subset
<1>5. Cardinality(OutOfForce(j)) <= Cardinality(ImportedOf(j))
  BY DEF LeftByImports
<1>6. /\ Cardinality(OutOfForce(j)) \in Nat /\ Cardinality(ImportedOf(j)) \in Nat
      /\ Cardinality(OutOfForce(j)') \in Nat /\ Cardinality(ImportedOf(j)') \in Nat
  BY <1>2, FS_CardinalityType
<1>. QED  BY <1>3, <1>4, <1>5, <1>6

\* What a request names is a version, and a row that is there has the type of a row.
LEMMA RowTypes ==
  ASSUME RuleTypeOK, RequestInv
  PROVE  /\ \A e \in Editors :
              ed[e].pc \in {"insert", "lock", "publish", "measure", "cli"} =>
                /\ ed[e].jd \in JDs /\ ed[e].label \in Labels
                /\ jds[ed[e].jd] \in JDRow
                /\ Mine(e) \in Versions
                /\ ed[e].pc \in {"lock", "publish", "measure"} => ver[Mine(e)] \in VersionRow
         /\ \A j \in JDs : jds[j] # None => jds[j].active \in Labels \cup {None}
<1>1. \A j \in JDs : jds[j] # None => jds[j] \in JDRow
  BY DEF RuleTypeOK
<1>2. \A v \in Versions : ver[v] # None => ver[v] \in VersionRow
  BY DEF RuleTypeOK
<1>. QED  BY <1>1, <1>2 DEF RequestInv, Mine, Versions, JDRow

\* A step that leaves the active versions alone, publishes nothing and archives
\* nothing keeps PublishedIsActive.
SameActive ==
  \A j \in JDs : IF jds[j] = None
                 THEN jds'[j] = None \/ jds'[j].active = None
                 ELSE jds'[j] # None /\ jds'[j].active = jds[j].active
SamePublished ==
  \A v \in Versions : /\ ver[v] # None => ver'[v] # None
                      /\ HasStatus(v, "published")' <=> HasStatus(v, "published")
LEMMA NothingPublished ==
  ASSUME RuleInv, RuleTypeOK', SameActive, SamePublished, UNCHANGED imported
  PROVE  ImportedInv' /\ ActiveIsPublished' /\ LeftByImports'
<1>1. ImportedInv'
  BY DEF RuleInv, RuleTypeOK, ImportedInv, SamePublished
<1>2. ActiveIsPublished'
  <2>. SUFFICES ASSUME NEW j \in JDs, jds'[j] # None, jds'[j].active # None
                PROVE  HasStatus(<<j, jds[j].active>>, "published")'
    BY DEF ActiveIsPublished
  <2>1. jds[j] # None /\ jds'[j].active = jds[j].active /\ <<j, jds[j].active>> \in Versions
    BY RowTypes DEF RuleInv, SameActive, Versions
  <2>2. HasStatus(<<j, jds[j].active>>, "published")
    BY <2>1 DEF RuleInv, ActiveIsPublished
  <2>. QED  BY <2>1, <2>2 DEF SamePublished, HasStatus
<1>3. \A j \in JDs : OutOfForce(j)' \subseteq OutOfForce(j)
  BY DEF OutOfForce, InForce, SameActive, SamePublished, Versions, HasStatus
<1>4. LeftByImports'
  BY <1>3, NoneLeft DEF RuleInv
<1>. QED  BY <1>1, <1>2, <1>4
\* A request that has ended, while no row was deleted, leaves the others theirs.
LEMMA RequestEnds ==
  ASSUME RuleTypeOK, RequestInv, NEW e \in Editors,
         ed'[e].pc = "idle", \A d \in Editors \ {e} : ed'[d] = ed[d],
         \A j \in JDs : jds[j] # None => jds'[j] # None,
         \A v \in Versions : ver[v] # None => ver'[v] # None
  PROVE  RequestInv'
<1>. SUFFICES ASSUME NEW d \in Editors, d # e
              PROVE  /\ ed[d].pc \in {"insert", "lock", "publish", "measure", "cli"} =>
                          ed[d].jd \in JDs /\ ed[d].label \in Labels /\ jds'[ed[d].jd] # None
                     /\ ed[d].pc \in {"lock", "publish", "measure"} => ver'[Mine(d)] # None
                     /\ ed[d].pc = "sync" =>
                          ed[d].jd \in JDs /\ (ed[d].saw # None => jds'[ed[d].jd] # None)
  BY DEF RequestInv, Mine
<1>1. ed[d].pc \in {"lock", "publish", "measure"} => Mine(d) \in Versions
  BY RowTypes
<1>. QED  BY <1>1 DEF RequestInv
-----------------------------------------------------------------------------
\* A request that begins has looked its rows up.
LEMMA CreateDraftStep ==
  ASSUME RuleInv, NEW e \in Editors, NEW j \in JDs, NEW l \in Labels,
         CreateDraft(e, j, l) \/ EvaluateDraft(e, j, l) \/ Publish(e, j, l)
  PROVE  RuleInv'
<1>. USE DEF RuleInv, CreateDraft, EvaluateDraft, Publish, Begin
<1>1. RuleTypeOK'
  BY RequestsAssumption DEF RuleTypeOK, RequestStates
<1>2. RequestInv'
  BY NoneAssumption DEF RequestInv, RuleTypeOK, Mine
<1>3. PublisherInv'
  BY NoneAssumption DEF PublisherInv, RequestInv, RuleTypeOK, Mine
<1>4. ImportedInv' /\ ActiveIsPublished' /\ LeftByImports'
  <2>1. SameActive /\ SamePublished
    BY NoneAssumption DEF SameActive, SamePublished, HasStatus
  <2>. QED  BY <1>1, <2>1, NothingPublished
<1>. QED  BY <1>1, <1>2, <1>3, <1>4

\* A draft is inserted under a label no row had.
LEMMA InsertDraftStep ==
  ASSUME RuleInv, NEW e \in Editors, InsertDraft(e)
  PROVE  RuleInv'
<1>. USE DEF RuleInv
<1>0. Mine(e) \in Versions /\ UNCHANGED <<jds, golden, jdLock, requests, goldenImports, imported>>
  BY RowTypes DEF InsertDraft
<1>. DEFINE row == [status |-> "draft", metrics |-> FALSE]
<1>r. /\ row \in VersionRow /\ row.status = "draft"
      /\ \/ ver' = ver
         \/ ver[Mine(e)] = None /\ ver' = [ver EXCEPT ![Mine(e)] = row]
  BY DEF InsertDraft, VersionRow
<1>. HIDE DEF row
<1>a. \A v \in Versions :
        \/ ver'[v] = ver[v]
        \/ ver[v] = None /\ ver'[v] \in VersionRow /\ ver'[v].status = "draft"
  BY <1>0, <1>r DEF RuleTypeOK
<1>b. /\ ed' \in [Editors -> [pc : RequestStates, jd : JDs \cup {None},
                             label : Labels \cup {None}, saw : JDRow \cup {None}]]
      /\ \A d \in Editors \ {e} : ed'[d] = ed[d]
      /\ ed'[e].pc = "idle"
  BY DEF InsertDraft, Respond, Idle, RuleTypeOK, RequestStates
<1>1. RuleTypeOK'
  <2>1. ver' \in [Versions -> VersionRow \cup {None}]
    BY <1>0, <1>r DEF RuleTypeOK
  <2>. QED  BY <1>0, <1>b, <2>1 DEF RuleTypeOK
<1>2. RequestInv'
  BY <1>0, <1>a, <1>b, RequestEnds, NoneAssumption
<1>3. PublisherInv'
  BY <1>0, <1>a, <1>b, RowTypes, NoneAssumption DEF PublisherInv, RequestInv, Mine
<1>4. ImportedInv' /\ ActiveIsPublished' /\ LeftByImports'
  <2>1. SameActive /\ SamePublished
    BY <1>0, <1>a, NoneAssumption DEF SameActive, SamePublished, HasStatus
  <2>. QED  BY <1>0, <1>1, <2>1, NothingPublished
<1>. QED  BY <1>1, <1>2, <1>3, <1>4

\* Metrics are added to a row that exists, whatever its status has become.
LEMMA RecordMetricsStep ==
  ASSUME RuleInv, NEW e \in Editors, RecordMetrics(e)
  PROVE  RuleInv'
<1>. USE DEF RuleInv
<1>0. /\ Mine(e) \in Versions /\ ver[Mine(e)] \in VersionRow
      /\ UNCHANGED <<jds, golden, jdLock, requests, goldenImports, imported>>
  BY RowTypes DEF RecordMetrics
<1>a. \A v \in Versions :
        IF v = Mine(e)
        THEN ver'[v] \in VersionRow /\ ver'[v].status = ver[v].status /\ ver'[v].metrics
        ELSE ver'[v] = ver[v]
  BY <1>0 DEF RecordMetrics, RuleTypeOK, VersionRow
<1>b. /\ ed' \in [Editors -> [pc : RequestStates, jd : JDs \cup {None},
                             label : Labels \cup {None}, saw : JDRow \cup {None}]]
      /\ \A d \in Editors \ {e} : ed'[d] = ed[d]
      /\ ed'[e].pc = "idle"
  BY DEF RecordMetrics, Respond, Idle, RuleTypeOK, RequestStates
<1>1. RuleTypeOK'
  <2>1. ver' \in [Versions -> VersionRow \cup {None}]
    BY <1>0 DEF RecordMetrics, RuleTypeOK, VersionRow
  <2>. QED  BY <1>0, <1>b, <2>1 DEF RuleTypeOK
<1>2. RequestInv'
  BY <1>0, <1>a, <1>b, RequestEnds, NoneAssumption
<1>3. PublisherInv'
  BY <1>0, <1>a, <1>b, RowTypes, NoneAssumption DEF PublisherInv, Mine
<1>4. ImportedInv' /\ ActiveIsPublished' /\ LeftByImports'
  <2>1. SameActive /\ SamePublished
    BY <1>0, <1>a, NoneAssumption DEF SameActive, SamePublished, HasStatus
  <2>. QED  BY <1>0, <1>1, <2>1, NothingPublished
<1>. QED  BY <1>1, <1>2, <1>3, <1>4

\* The lock is taken when it is free, and the checks made on what is read under it.
LEMMA PublishLockStep ==
  ASSUME RuleInv, NEW e \in Editors, PublishLock(e)
  PROVE  RuleInv'
<1>. USE DEF RuleInv, PublishLock, Respond, Idle
<1>1. RuleTypeOK'
  BY DEF RuleTypeOK, RequestStates, RequestInv
<1>2. RequestInv'
  BY NoneAssumption DEF RequestInv, RuleTypeOK, Mine
<1>3. PublisherInv'
  <2>. SUFFICES ASSUME NEW d \in Editors, ed'[d].pc = "publish"
                PROVE  /\ jdLock'[ed'[d].jd] = d
                       /\ ed'[d].saw = jds[ed'[d].jd]
                       /\ ver[<<ed'[d].jd, ed'[d].label>>].status = "draft"
                       /\ ver[<<ed'[d].jd, ed'[d].label>>].metrics
    BY DEF PublisherInv, Mine
  <2>1. CASE d = e
    BY <2>1, RowTypes DEF RuleTypeOK, Mine
  <2>2. CASE d # e
    <3>1. ed'[d] = ed[d] /\ jdLock[ed[d].jd] = d
      BY <2>2 DEF RuleTypeOK, PublisherInv
    <3>2. jdLock'[ed[d].jd] = d
      BY <2>2, <3>1, RowTypes, NoneAssumption DEF RuleTypeOK
    <3>. QED  BY <3>1, <3>2 DEF PublisherInv, Mine
  <2>. QED  BY <2>1, <2>2
<1>4. ImportedInv' /\ ActiveIsPublished' /\ LeftByImports'
  <2>1. SameActive /\ SamePublished
    BY NoneAssumption DEF SameActive, SamePublished, HasStatus
  <2>. QED  BY <1>1, <2>1, NothingPublished
<1>. QED  BY <1>1, <1>2, <1>3, <1>4

\* The version archived is the one in force, so the draft is the only version that
\* comes into force and nothing goes out of force published.
LEMMA PublishCommitStep ==
  ASSUME RuleInv, NEW e \in Editors, PublishCommit(e)
  PROVE  RuleInv'
<1>. USE DEF RuleInv
<1>. DEFINE jd == ed[e].jd
            old == <<jd, jds[jd].active>>
<1>0. /\ jd \in JDs /\ ed[e].label \in Labels /\ Mine(e) = <<jd, ed[e].label>>
      /\ jds[jd] \in JDRow /\ Mine(e) \in Versions /\ ver[Mine(e)] \in VersionRow
      /\ ed[e].saw = jds[jd] /\ jdLock[jd] = e
      /\ ver[Mine(e)].status = "draft"
      /\ UNCHANGED <<golden, requests, goldenImports, imported>>
  BY RowTypes DEF PublishCommit, PublisherInv, Mine
<1>a. old \in Versions => ver[old] \in VersionRow /\ ver[old].status = "published"
  BY <1>0, NoneAssumption DEF ActiveIsPublished, HasStatus, RuleTypeOK, Versions
<1>b. \A v \in Versions :
        /\ v = Mine(e) => ver'[v] = [ver[v] EXCEPT !.status = "published"]
        /\ v # Mine(e) /\ v = old => ver'[v] = [ver[v] EXCEPT !.status = "archived"]
        /\ v # Mine(e) /\ v # old => ver'[v] = ver[v]
  BY <1>0 DEF PublishCommit
<1>c. \A v \in Versions :
        /\ v = Mine(e) => ver'[v] \in VersionRow /\ ver'[v].status = "published"
        /\ v # Mine(e) /\ v = old => ver'[v] \in VersionRow /\ ver'[v].status = "archived"
  <2>1. \A v \in Versions : v = Mine(e) \/ v = old => ver[v] \in VersionRow
    BY <1>0, <1>a
  <2>2. ASSUME NEW v \in Versions, v = Mine(e)
        PROVE  ver'[v] \in VersionRow /\ ver'[v].status = "published"
    BY <1>b, <2>1, <2>2 DEF VersionRow
  <2>3. ASSUME NEW v \in Versions, v # Mine(e), v = old
        PROVE  ver'[v] \in VersionRow /\ ver'[v].status = "archived"
    BY <1>b, <2>1, <2>3 DEF VersionRow
  <2>. QED  BY <2>2, <2>3
<1>d. /\ \A j \in JDs \ {jd} : jds'[j] = jds[j]
      /\ jds'[jd] \in JDRow /\ jds'[jd].active = ed[e].label
  BY <1>0 DEF PublishCommit, RuleTypeOK, JDRow
<1>e. /\ ed' \in [Editors -> [pc : RequestStates, jd : JDs \cup {None},
                             label : Labels \cup {None}, saw : JDRow \cup {None}]]
      /\ \A d \in Editors \ {e} : ed'[d] = ed[d]
      /\ ed'[e].pc = "idle"
  BY DEF PublishCommit, Respond, Idle, RuleTypeOK, RequestStates
<1>1. RuleTypeOK'
  <2>1. ver' \in [Versions -> VersionRow \cup {None}]
    BY <1>b, <1>c DEF PublishCommit, RuleTypeOK
  <2>2. jds' \in [JDs -> JDRow \cup {None}]
    BY <1>0, <1>d DEF PublishCommit, RuleTypeOK
  <2>. QED  BY <1>0, <1>e, <2>1, <2>2 DEF PublishCommit, RuleTypeOK
<1>2. RequestInv'
  BY <1>b, <1>c, <1>d, <1>e, RequestEnds, NoneAssumption
<1>3. PublisherInv'
  <2>. SUFFICES ASSUME NEW d \in Editors, ed'[d].pc = "publish"
                PROVE  /\ jdLock'[ed[d].jd] = d
                       /\ ed[d].saw = jds'[ed[d].jd]
                       /\ ver'[Mine(d)].status = "draft" /\ ver'[Mine(d)].metrics
    BY <1>e DEF PublisherInv, Mine
  <2>1. d # e /\ ed[d].pc = "publish"
    BY <1>e
  <2>2. ed[d].jd \in JDs /\ Mine(d) \in Versions
    BY <2>1, RowTypes
  <2>3. /\ jdLock[ed[d].jd] = d
        /\ ed[d].saw = jds[ed[d].jd]
        /\ ver[Mine(d)].status = "draft" /\ ver[Mine(d)].metrics
    BY <2>1 DEF PublisherInv
  <2>4. ed[d].jd # jd
    BY <1>0, <2>1, <2>3
  <2>. QED  BY <1>0, <1>b, <1>d, <2>2, <2>3, <2>4 DEF PublishCommit, Mine, RuleTypeOK
<1>4. ImportedInv'
  <2>1. \A v \in Versions : ver[v] # None => ver'[v] # None
    BY <1>b, <1>c, NoneAssumption
  <2>. QED  BY <1>0, <2>1 DEF ImportedInv, RuleTypeOK
<1>5. ActiveIsPublished'
  <2>. SUFFICES ASSUME NEW j \in JDs, jds'[j] # None, jds'[j].active # None
                PROVE  HasStatus(<<j, jds[j].active>>, "published")'
    BY DEF ActiveIsPublished
  <2>1. CASE j = jd
    <3>1. ver'[Mine(e)] \in VersionRow /\ ver'[Mine(e)].status = "published"
      BY <1>0, <1>c
    <3>. QED  BY <1>0, <1>d, <2>1, <3>1, NoneAssumption DEF HasStatus
  <2>2. CASE j # jd
    <3>1. <<j, jds[j].active>> \in Versions /\ HasStatus(<<j, jds[j].active>>, "published")
      BY <1>d, <2>2, RowTypes DEF ActiveIsPublished, Versions
    <3>. QED  BY <1>0, <1>b, <1>d, <2>2, <3>1 DEF HasStatus
  <2>. QED  BY <2>1, <2>2
<1>6. LeftByImports'
  <2>1. ASSUME NEW j \in JDs, NEW l \in OutOfForce(j)'
        PROVE  l \in OutOfForce(j)
    <3>. DEFINE v == <<j, l>>
    <3>1. /\ l \in Labels /\ v \in Versions
          /\ ver'[v] # None /\ ver'[v].status = "published"
          /\ jds'[j] = None \/ jds'[j].active # l
      BY DEF OutOfForce, HasStatus, InForce, Versions
    <3>2. v # Mine(e)
      BY <1>0, <1>d, <3>1, NoneAssumption
    <3>3. v # old /\ ver'[v] = ver[v]
      BY <1>b, <1>c, <3>1, <3>2
    <3>4. jds[j] = None \/ jds[j].active # l
      BY <1>d, <3>1, <3>3
    <3>. QED  BY <3>1, <3>3, <3>4 DEF OutOfForce, HasStatus, InForce
  <2>. QED  BY <1>0, <1>1, <2>1, NoneLeft
<1>. QED  BY <1>1, <1>2, <1>3, <1>4, <1>5, <1>6

\* A publisher that dies gives up its own lock only.
LEMMA EditorDiesStep ==
  ASSUME RuleInv, NEW e \in Editors, EditorDies(e)
  PROVE  RuleInv'
<1>. USE DEF RuleInv, EditorDies, Respond, Idle
<1>1. RuleTypeOK'
  BY DEF RuleTypeOK, RequestStates
<1>2. RequestInv'
  BY NoneAssumption DEF RequestInv, RuleTypeOK, Mine
<1>3. PublisherInv'
  BY NoneAssumption DEF PublisherInv, RequestInv, RuleTypeOK, Mine
<1>4. ImportedInv' /\ ActiveIsPublished' /\ LeftByImports'
  <2>1. SameActive /\ SamePublished
    BY NoneAssumption DEF SameActive, SamePublished, HasStatus
  <2>. QED  BY <1>1, <2>1, NothingPublished
<1>. QED  BY <1>1, <1>2, <1>3, <1>4

\* A JD the workbook creates has no version in force.
LEMMA ImportRulesStep ==
  ASSUME RuleInv, NEW e \in Editors, NEW j \in JDs, NEW l \in Labels, ImportRules(e, j, l)
  PROVE  RuleInv'
<1>. USE DEF RuleInv, ImportRules, Begin
<1>1. RuleTypeOK'
  BY RequestsAssumption DEF RuleTypeOK, RequestStates, JDRow
<1>2. RequestInv'
  BY NoneAssumption DEF RequestInv, RuleTypeOK, Mine, JDRow
<1>3. PublisherInv'
  BY NoneAssumption DEF PublisherInv, RequestInv, RuleTypeOK, Mine
<1>4. ImportedInv' /\ ActiveIsPublished' /\ LeftByImports'
  <2>1. SameActive /\ SamePublished
    BY NoneAssumption DEF SameActive, SamePublished, HasStatus, RuleTypeOK
  <2>. QED  BY <1>1, <2>1, NothingPublished
<1>. QED  BY <1>1, <1>2, <1>3, <1>4

\* An import puts at most one version out of force, the one that was in force, and
\* counts one version more among those imported.
LEMMA ImportApplyStep ==
  ASSUME RuleInv, NEW e \in Editors, ImportApply(e)
  PROVE  RuleInv'
<1>. USE DEF RuleInv
<1>. DEFINE jd == ed[e].jd
<1>0. /\ jd \in JDs /\ ed[e].label \in Labels /\ Mine(e) = <<jd, ed[e].label>>
      /\ jds[jd] \in JDRow /\ Mine(e) \in Versions /\ jdLock[jd] = None
      /\ UNCHANGED <<golden, jdLock, requests, goldenImports>>
  BY RowTypes DEF ImportApply, Mine
<1>e. /\ ed' \in [Editors -> [pc : RequestStates, jd : JDs \cup {None},
                             label : Labels \cup {None}, saw : JDRow \cup {None}]]
      /\ \A d \in Editors \ {e} : ed'[d] = ed[d]
      /\ ed'[e].pc = "idle"
  BY DEF ImportApply, Respond, Idle, RuleTypeOK, RequestStates
<1>1. CASE ver[Mine(e)] # None
  <2>0. UNCHANGED <<jds, ver, imported>>
    BY <1>1 DEF ImportApply
  <2>1. RuleTypeOK'
    BY <1>0, <1>e, <2>0 DEF RuleTypeOK
  <2>2. RequestInv' /\ PublisherInv'
    BY <1>0, <1>e, <2>0 DEF RequestInv, PublisherInv, Mine
  <2>3. SameActive /\ SamePublished
    BY <2>0 DEF SameActive, SamePublished, HasStatus
  <2>. QED  BY <2>0, <2>1, <2>2, <2>3, NothingPublished
<1>2. CASE ver[Mine(e)] = None
  <2>0. /\ ver' = [ver EXCEPT ![Mine(e)] = [status |-> "published", metrics |-> FALSE]]
        /\ jds' = [jds EXCEPT ![jd].active = ed[e].label]
        /\ imported' = imported \cup {Mine(e)}
    BY <1>2 DEF ImportApply
  <2>a. \A v \in Versions :
          /\ v = Mine(e) => ver'[v] \in VersionRow /\ ver'[v].status = "published"
          /\ v # Mine(e) => ver'[v] = ver[v]
    BY <1>0, <2>0 DEF RuleTypeOK, VersionRow
  <2>b. /\ \A j \in JDs \ {jd} : jds'[j] = jds[j]
        /\ jds'[jd] \in JDRow /\ jds'[jd].active = ed[e].label
    BY <1>0, <2>0 DEF RuleTypeOK, JDRow
  <2>1. RuleTypeOK'
    <3>1. ver' \in [Versions -> VersionRow \cup {None}]
      BY <1>0, <2>0, <2>a DEF RuleTypeOK
    <3>2. jds' \in [JDs -> JDRow \cup {None}]
      BY <1>0, <2>0, <2>b DEF RuleTypeOK
    <3>. QED  BY <1>0, <1>e, <2>0, <3>1, <3>2 DEF RuleTypeOK
  <2>2. RequestInv'
    BY <1>0, <2>a, <2>b, <1>e, RequestEnds, NoneAssumption
  <2>3. PublisherInv'
    <3>. SUFFICES ASSUME NEW d \in Editors, ed'[d].pc = "publish"
                  PROVE  /\ jdLock'[ed[d].jd] = d
                         /\ ed[d].saw = jds'[ed[d].jd]
                         /\ ver'[Mine(d)].status = "draft" /\ ver'[Mine(d)].metrics
      BY <1>e DEF PublisherInv, Mine
    <3>1. ed[d].pc = "publish" /\ ed[d].jd \in JDs /\ Mine(d) \in Versions /\ Mine(d)[1] = ed[d].jd
      BY <1>e, RowTypes DEF Mine
    <3>2. /\ jdLock[ed[d].jd] = d
          /\ ed[d].saw = jds[ed[d].jd]
          /\ ver[Mine(d)].status = "draft" /\ ver[Mine(d)].metrics
      BY <3>1 DEF PublisherInv
    <3>3. ed[d].jd # jd /\ Mine(d) # Mine(e)
      BY <1>0, <3>1, <3>2, NoneAssumption
    <3>. QED  BY <1>0, <2>a, <2>b, <3>1, <3>2, <3>3
  <2>4. ImportedInv'
    BY <1>0, <2>0, <2>a, NoneAssumption DEF ImportedInv, RuleTypeOK
  <2>5. ActiveIsPublished'
    <3>. SUFFICES ASSUME NEW j \in JDs, jds'[j] # None, jds'[j].active # None
                  PROVE  HasStatus(<<j, jds[j].active>>, "published")'
      BY DEF ActiveIsPublished
    <3>1. CASE j = jd
      BY <1>0, <2>a, <2>b, <3>1, NoneAssumption DEF HasStatus
    <3>2. CASE j # jd
      <4>1. <<j, jds[j].active>> \in Versions /\ HasStatus(<<j, jds[j].active>>, "published")
        BY <2>b, <3>2, RowTypes DEF ActiveIsPublished, Versions
      <4>. QED  BY <1>0, <2>a, <2>b, <3>2, <4>1 DEF HasStatus
    <3>. QED  BY <3>1, <3>2
  <2>6. LeftByImports'
    <3>. SUFFICES ASSUME NEW j \in JDs
                  PROVE  Cardinality(OutOfForce(j)') <= Cardinality(ImportedOf(j)')
      BY DEF LeftByImports
    <3>1. /\ IsFiniteSet(OutOfForce(j)) /\ IsFiniteSet(ImportedOf(j))
          /\ IsFiniteSet(OutOfForce(j)') /\ IsFiniteSet(ImportedOf(j)')
      BY <2>1, FiniteVersions DEF OutOfForce, ImportedOf, RuleTypeOK
    <3>2. Cardinality(OutOfForce(j)) <= Cardinality(ImportedOf(j))
      BY DEF LeftByImports
    <3>3. CASE j # jd
      <4>1. OutOfForce(j)' = OutOfForce(j)
        BY <1>0, <2>a, <2>b, <3>3 DEF OutOfForce, HasStatus, InForce, Versions
      <4>2. ImportedOf(j)' = ImportedOf(j)
        BY <1>0, <2>0, <3>3 DEF ImportedOf
      <4>. QED  BY <3>2, <4>1, <4>2
    <3>4. CASE j = jd
      <4>. DEFINE S == OutOfForce(j) \cup {jds[j].active}
      <4>1. OutOfForce(j)' \subseteq S
        BY <1>0, <2>a, <2>b, <3>4, NoneAssumption
           DEF OutOfForce, HasStatus, InForce, Versions
      <4>2. ImportedOf(j)' = ImportedOf(j) \cup {Mine(e)} /\ Mine(e) \notin ImportedOf(j)
        BY <1>0, <1>2, <2>0, <3>4 DEF ImportedOf, ImportedInv
      <4>3. /\ Cardinality(OutOfForce(j)) \in Nat /\ Cardinality(ImportedOf(j)) \in Nat
            /\ Cardinality(OutOfForce(j)') \in Nat
        BY <3>1, FS_CardinalityType
      <4>4. /\ IsFiniteSet(S)
            /\ Cardinality(S) = IF jds[j].active \in OutOfForce(j)
                                THEN Cardinality(OutOfForce(j))
                                ELSE Cardinality(OutOfForce(j)) + 1
        BY <3>1, FS_AddElement
      <4>5. Cardinality(OutOfForce(j)') <= Cardinality(S)
        BY <4>1, <4>4, FS_Subset
      <4>6. Cardinality(ImportedOf(j)') = Cardinality(ImportedOf(j)) + 1
        BY <3>1, <4>2, FS_AddElement
      <4>. HIDE DEF S
      <4>. QED  BY <3>2, <4>3, <4>4, <4>5, <4>6
    <3>. QED  BY <3>3, <3>4
  <2>. QED  BY <2>1, <2>2, <2>3, <2>4, <2>5, <2>6
<1>. QED  BY <1>1, <1>2

\* The refresh of job descriptions reads a row ...
LEMMA SyncReadStep ==
  ASSUME RuleInv, NEW e \in Editors, NEW j \in JDs, SyncRead(e, j)
  PROVE  RuleInv'
<1>. USE DEF RuleInv, SyncRead, Begin
<1>1. RuleTypeOK'
  BY RequestsAssumption DEF RuleTypeOK, RequestStates
<1>2. RequestInv'
  BY NoneAssumption DEF RequestInv, RuleTypeOK, Mine
<1>3. PublisherInv'
  BY NoneAssumption DEF PublisherInv, RequestInv, RuleTypeOK, Mine
<1>4. ImportedInv' /\ ActiveIsPublished' /\ LeftByImports'
  <2>1. SameActive /\ SamePublished
    BY NoneAssumption DEF SameActive, SamePublished, HasStatus
  <2>. QED  BY <1>1, <2>1, NothingPublished
<1>. QED  BY <1>1, <1>2, <1>3, <1>4

\* ... and writes its text, and never what it saw of the active version.  A row that
\* a publisher holds is left alone.
LEMMA SyncWriteStep ==
  ASSUME RuleInv, NEW e \in Editors, NEW t \in Texts, SyncWrite(e, t)
  PROVE  RuleInv'
<1>. USE DEF RuleInv, SyncWrite, Respond, Idle
<1>1. RuleTypeOK'
  BY DEF RuleTypeOK, RequestStates, JDRow, RequestInv
<1>2. RequestInv'
  BY NoneAssumption DEF RequestInv, RuleTypeOK, Mine, JDRow
<1>3. PublisherInv'
  BY NoneAssumption DEF PublisherInv, RequestInv, RuleTypeOK, Mine
<1>4. ImportedInv' /\ ActiveIsPublished' /\ LeftByImports'
  <2>1. SameActive /\ SamePublished
    BY NoneAssumption DEF SameActive, SamePublished, HasStatus, RuleTypeOK, RequestInv, JDRow
  <2>. QED  BY <1>1, <2>1, NothingPublished
<1>. QED  BY <1>1, <1>2, <1>3, <1>4

\* Golden labels are no part of a rule version.
LEMMA ImportGoldenSetStep ==
  ASSUME RuleInv, ImportGoldenSet
  PROVE  RuleInv'
<1>. USE DEF RuleInv, ImportGoldenSet
<1>1. RuleTypeOK'
  BY RequestsAssumption DEF RuleTypeOK
<1>2. RequestInv'
  BY NoneAssumption DEF RequestInv, RuleTypeOK, Mine
<1>3. PublisherInv'
  BY NoneAssumption DEF PublisherInv, RequestInv, RuleTypeOK, Mine
<1>4. ImportedInv' /\ ActiveIsPublished' /\ LeftByImports'
  <2>1. SameActive /\ SamePublished
    BY NoneAssumption DEF SameActive, SamePublished, HasStatus
  <2>. QED  BY <1>1, <2>1, NothingPublished
<1>. QED  BY <1>1, <1>2, <1>3, <1>4
-----------------------------------------------------------------------------
\* RuleInv is an inductive invariant.
LEMMA RuleInvInit == RuleInit => RuleInv
<1>. SUFFICES ASSUME RuleInit PROVE RuleInv
  OBVIOUS
<1>1. RuleTypeOK
  BY RequestsAssumption DEF RuleInit, RuleTypeOK, RequestStates, Idle
<1>2. RequestInv /\ PublisherInv
  BY DEF RuleInit, RequestInv, PublisherInv, Idle
<1>3. ImportedInv
  <2>1. [status |-> "published", metrics |-> FALSE] \in VersionRow
    BY DEF VersionRow
  <2>. QED  BY <2>1, NoneAssumption DEF RuleInit, ImportedInv
<1>4. ActiveIsPublished
  <2>. SUFFICES ASSUME NEW j \in JDs, jds[j] # None, jds[j].active # None
                PROVE  HasStatus(<<j, jds[j].active>>, "published")
    BY DEF ActiveIsPublished
  <2>1. <<j, jds[j].active>> \in Versions
    BY <1>1, NoneAssumption DEF RuleTypeOK, JDRow, Versions
  <2>. QED  BY <2>1 DEF RuleInit, HasStatus
<1>5. LeftByImports
  <2>. SUFFICES ASSUME NEW j \in JDs
                PROVE  Cardinality(OutOfForce(j)) <= Cardinality(ImportedOf(j))
    BY DEF LeftByImports
  <2>1. OutOfForce(j) = {}
    BY DEF RuleInit, OutOfForce, HasStatus, InForce, Versions
  <2>2. Cardinality(ImportedOf(j)) \in Nat
    BY <1>1, FiniteVersions, FS_CardinalityType DEF ImportedOf, RuleTypeOK
  <2>. QED  BY <2>1, <2>2, FS_EmptySet
<1>. QED  BY <1>1, <1>2, <1>3, <1>4, <1>5 DEF RuleInv

LEMMA RuleInvStep == RuleInv /\ [RuleNext]_ruleVars => RuleInv'
<1>. SUFFICES ASSUME RuleInv, [RuleNext]_ruleVars PROVE RuleInv'
  OBVIOUS
<1>1. ASSUME NEW e \in Editors, NEW j \in JDs, NEW l \in Labels,
             CreateDraft(e, j, l) \/ EvaluateDraft(e, j, l) \/ Publish(e, j, l)
               \/ ImportRules(e, j, l)
      PROVE  RuleInv'
  BY <1>1, CreateDraftStep, ImportRulesStep
<1>2. ASSUME NEW e \in Editors,
             \/ InsertDraft(e) \/ RecordMetrics(e) \/ PublishLock(e) \/ PublishCommit(e)
             \/ ImportApply(e) \/ EditorDies(e)
             \/ \E j \in JDs : SyncRead(e, j)
             \/ \E t \in Texts : SyncWrite(e, t)
      PROVE  RuleInv'
  BY <1>2, InsertDraftStep, RecordMetricsStep, PublishLockStep, PublishCommitStep,
     ImportApplyStep, EditorDiesStep, SyncReadStep, SyncWriteStep
<1>3. CASE ImportGoldenSet
  BY <1>3, ImportGoldenSetStep
<1>4. CASE UNCHANGED ruleVars
  <2>. USE <1>4 DEF ruleVars
  <2>1. RuleTypeOK' /\ RequestInv' /\ PublisherInv'
    BY DEF RuleInv, RuleTypeOK, RequestInv, PublisherInv, Mine
  <2>2. SameActive /\ SamePublished
    BY DEF SameActive, SamePublished, HasStatus
  <2>. QED  BY <2>1, <2>2, NothingPublished DEF RuleInv
<1>. QED  BY <1>1, <1>2, <1>3, <1>4 DEF RuleNext

\* A step moves a version forward only: a publisher publishes the draft it has locked,
\* and archives the version in force, which is published.
LEMMA StatusStep ==
  ASSUME RuleInv, [RuleNext]_ruleVars, NEW v \in Versions, ver[v] # None
  PROVE  /\ ver'[v] # None
         /\ \/ ver'[v].status = ver[v].status
            \/ ver[v].status = "draft" /\ ver'[v].status = "published" /\ ver'[v].metrics
            \/ ver[v].status = "published" /\ ver'[v].status = "archived"
<1>. USE DEF RuleInv
<1>0. ver \in [Versions -> VersionRow \cup {None}] /\ ver[v] \in VersionRow
  BY DEF RuleTypeOK
<1>1. ASSUME NEW e \in Editors, InsertDraft(e) \/ ImportApply(e)
      PROVE  ver'[v] = ver[v]
  BY <1>0, <1>1 DEF InsertDraft, ImportApply
<1>2. ASSUME NEW e \in Editors, RecordMetrics(e)
      PROVE  ver'[v] # None /\ ver'[v].status = ver[v].status
  <2>1. ver'[v] = ver[v] \/ ver'[v] = [ver[v] EXCEPT !.metrics = TRUE]
    BY <1>0, <1>2 DEF RecordMetrics
  <2>2. [ver[v] EXCEPT !.metrics = TRUE] \in VersionRow
    BY <1>0 DEF VersionRow
  <2>. QED  BY <1>0, <2>1, <2>2, NoneAssumption DEF VersionRow
<1>3. ASSUME NEW e \in Editors, PublishCommit(e)
      PROVE  /\ ver'[v] # None
             /\ \/ ver'[v].status = ver[v].status
                \/ /\ ver[v].status = "draft"
                   /\ ver'[v].status = "published" /\ ver'[v].metrics
                \/ ver[v].status = "published" /\ ver'[v].status = "archived"
  <2>. DEFINE old == <<ed[e].jd, ed[e].saw.active>>
  <2>1. ed[e].jd \in JDs /\ ed[e].saw = jds[ed[e].jd] /\ jds[ed[e].jd] # None
        /\ ver[Mine(e)].status = "draft" /\ ver[Mine(e)].metrics
    BY <1>3, RowTypes DEF PublishCommit, PublisherInv, RequestInv
  <2>2. CASE v = Mine(e)
    <3>1. ver'[v] = [ver[v] EXCEPT !.status = "published"]
      BY <1>3, <2>2 DEF PublishCommit
    <3>. QED  BY <1>0, <2>1, <2>2, <3>1, NoneAssumption DEF VersionRow
  <2>3. CASE v # Mine(e) /\ v = old
    <3>1. ver'[v] = [ver[v] EXCEPT !.status = "archived"]
      BY <1>3, <2>3 DEF PublishCommit
    <3>2. ver[v].status = "published"
      BY <2>1, <2>3, NoneAssumption DEF ActiveIsPublished, HasStatus, Versions
    <3>. QED  BY <1>0, <3>1, <3>2, NoneAssumption DEF VersionRow
  <2>4. CASE v # Mine(e) /\ v # old
    BY <1>3, <2>4 DEF PublishCommit
  <2>. QED  BY <2>2, <2>3, <2>4
<1>. SUFFICES ASSUME ~ \E e \in Editors : \/ InsertDraft(e) \/ ImportApply(e)
                                         \/ RecordMetrics(e) \/ PublishCommit(e)
              PROVE  ver' = ver
  BY <1>1, <1>2, <1>3
<1>. QED
  BY DEF RuleNext, ruleVars, CreateDraft, EvaluateDraft, Publish, ImportRules, PublishLock,
         EditorDies, SyncRead, SyncWrite, ImportGoldenSet

\* Every reachable state satisfies the inductive invariant.
THEOREM RuleInvariant == RuleSpec => []RuleInv
BY RuleInvInit, RuleInvStep, PTL DEF RuleSpec

\* Type correctness of the tables and the requests.
THEOREM RuleTypeCorrect == RuleSpec => []RuleTypeOK
<1>1. RuleInv => RuleTypeOK
  BY DEF RuleInv
<1>. QED  BY <1>1, RuleInvariant, PTL

\* Whatever publications, command-line imports and refreshes interleave, the version
\* in force is published and all other published versions are accounted for by imports.
THEOREM RulePublishedIsActive == RuleSpec => []PublishedIsActive
<1>1. RuleInv => PublishedIsActive
  BY DEF RuleInv, ActiveIsPublished, LeftByImports, OutOfForce, ImportedOf, PublishedIsActive
<1>. QED  BY <1>1, RuleInvariant, PTL

\* No request, in whatever order requests interleave, moves a version back, publishes
\* one without its metrics, or deletes one.
THEOREM RuleStatusForward == RuleSpec => StatusForward
<1>. DEFINE Forward ==
       \A v \in Versions : ver[v] # None =>
         /\ ver'[v] # None
         /\ \/ ver'[v].status = ver[v].status
            \/ ver[v].status = "draft" /\ ver'[v].status = "published" /\ ver'[v].metrics
            \/ ver[v].status = "published" /\ ver'[v].status = "archived"
<1>1. RuleInv /\ [RuleNext]_ruleVars => [Forward]_ver
  BY StatusStep
<1>. QED  BY <1>1, RuleInvariant, PTL DEF RuleSpec, StatusForward

-----------------------------------------------------------------------------

ReleaseRow == [id : Releasers, bindings : SUBSET Versions, rows : GoldenRowSets,
               snapshot : Releasers]
Request == [pc : ReleaseStates, codes : {None} \cup SUBSET JDs,
            seen : {None} \cup Inputs,
            expected : {None} \cup ((SUBSET Versions) \X GoldenRowSets),
            attempt : 0..MaxAttempts, view : {None} \cup DatabaseState,
            bindings : SUBSET Versions, rows : GoldenRowSets,
            snapshot : {None} \cup SnapshotRow]

ReleaseTyped ==
  /\ rel \in [Releasers -> Request]
  /\ snapshots \subseteq SnapshotRow
  /\ releases \subseteq ReleaseRow
  /\ failures \in 0..MaxFailures

\* A request carries the fingerprint of the preview its user saw, and past the check
\* of the fingerprint works on the inputs it identifies.
PreviewOf(r) ==
  /\ rel[r].seen # None /\ rel[r].pc # "created" =>
       rel[r].expected = InputFingerprint(rel[r].seen.bindings, rel[r].seen.rows)
  /\ rel[r].pc \in {"snapshot", "commit"} /\ rel[r].expected # None =>
       rel[r].expected = InputFingerprint(rel[r].bindings, rel[r].rows)

\* An attempt is begun only while one is left.
AttemptOf(r) ==
  /\ rel[r].pc \in {"idle", "previewGolden", "previewed"} => rel[r].attempt = 0
  /\ rel[r].pc = "begin" => rel[r].attempt < MaxAttempts

\* What a transaction has read comes from its view, which was committed at a moment
\* of this attempt.
ViewOf(r) ==
  rel[r].pc \in InAttempt =>
    /\ rel[r].view # None
    /\ Contents(rel[r].view) \in during[r]
    /\ rel[r].view.snapshots \subseteq snapshots
    /\ rel[r].bindings = ResolveBindings(rel[r].view, rel[r].codes)
    /\ rel[r].pc # "golden" => rel[r].rows = GoldenRows(rel[r].view, rel[r].bindings)

RequestsInv == \A r \in Releasers : PreviewOf(r) /\ AttemptOf(r) /\ ViewOf(r)

\* The rows of golden_set_snapshots: content and id are unique, also among those
\* inserted and not committed.
StoredInv ==
  \A s \in snapshots :
    /\ s.entries = s.hash /\ rel[s.id].pc = "created"
    /\ \A t \in snapshots : s.hash = t.hash \/ s.id = t.id => s = t
InsertedInv ==
  \A r \in Releasers :
    /\ rel[r].snapshot # None <=> rel[r].pc = "commit"
    /\ rel[r].pc = "commit" =>
         /\ rel[r].snapshot.hash = rel[r].rows /\ rel[r].snapshot.entries = rel[r].rows
         /\ \/ rel[r].snapshot \in snapshots
            \/ /\ rel[r].snapshot.id = r
               /\ \A s \in snapshots : s.hash # rel[r].rows
               /\ \A o \in Releasers \ {r} : ~ InsertedBy(o, rel[r].rows)

\* A release was created by a request that has ended, from what its preview showed,
\* and names the snapshot of its labels.
ReleasedInv ==
  \A q \in releases :
    /\ rel[q.id].pc = "created"
    /\ rel[q.id].seen # None => rel[q.id].seen = [bindings |-> q.bindings, rows |-> q.rows]
    /\ \E s \in snapshots : s.id = q.snapshot /\ s.hash = q.rows

ReleaseInv ==
  /\ ReleaseTyped
  /\ RequestsInv
  /\ StoredInv
  /\ InsertedInv
  /\ ReleasedInv
-----------------------------------------------------------------------------
\* What is read from the tables has the type of what a request carries.
LEMMA ReadsTyped ==
  ASSUME NEW db \in DatabaseState, NEW codes, NEW bindings
  PROVE  /\ Bindable(db, codes) => ResolveBindings(db, codes) \in SUBSET Versions
         /\ GoldenRows(db, bindings) \in GoldenRowSets
<1>1. ASSUME Bindable(db, codes), NEW j \in SelectedJDs(db, codes)
      PROVE  <<j, db.jds[j].active>> \in Versions
  BY <1>1 DEF Bindable, SelectedJDs, DatabaseState, JDRow, Versions
<1>2. ASSUME NEW k \in GoldenKeys, db.golden[k] # None
      PROVE  <<k[1], k[2], db.golden[k]>> \in JDs \X Candidates \X GoldenLabels
  BY <1>2 DEF DatabaseState, GoldenKeys
<1>. QED  BY <1>1, <1>2 DEF ResolveBindings, GoldenRows, Rows, GoldenRowSets

\* The request of a releaser that has sent none.
LEMMA NoRequestTyped ==
  /\ NoRequest \in Request /\ NoRequest.pc = "idle" /\ NoRequest.snapshot = None
  /\ NoRequest.seen = None /\ NoRequest.expected = None /\ NoRequest.attempt = 0
BY ReleaseAssumption DEF NoRequest, Request, ReleaseStates, GoldenRowSets

\* The committed state is a state of the tables.
LEMMA DatabaseTyped ==
  ASSUME RuleTypeOK, ReleaseTyped
  PROVE  Database \in DatabaseState
BY DEF RuleTypeOK, ReleaseTyped, Database, DatabaseState

\* The bindings of a view were in force in it together.
LEMMA BindingsInForce ==
  ASSUME NEW db, NEW codes
  PROVE  ResolveBindings(db, codes) \subseteq Contents(db).jds
BY DEF ResolveBindings, Contents, SelectedJDs

\* A request that takes no part in a step keeps its part of the invariant.
LEMMA Bystander ==
  ASSUME ReleaseTyped, NEW r \in Releasers, Observe,
         PreviewOf(r), AttemptOf(r), ViewOf(r),
         rel'[r] = rel[r], snapshots \subseteq snapshots'
  PROVE  PreviewOf(r)' /\ AttemptOf(r)' /\ ViewOf(r)'
<1>1. PreviewOf(r)' /\ AttemptOf(r)'
  BY DEF PreviewOf, AttemptOf
<1>2. rel[r].pc \in InAttempt => during[r] \subseteq during'[r]
  BY DEF Observe
<1>. QED  BY <1>1, <1>2 DEF ViewOf

\* A step of the requests for rules leaves the releases alone.
LEMMA RulesStep ==
  ASSUME ReleaseInv, Observe, UNCHANGED <<rel, snapshots, releases, failures>>
  PROVE  ReleaseInv'
<1>1. ReleaseTyped'
  BY DEF ReleaseInv, ReleaseTyped
<1>2. RequestsInv'
  BY Bystander DEF ReleaseInv, RequestsInv
<1>3. StoredInv' /\ InsertedInv' /\ ReleasedInv'
  BY DEF ReleaseInv, StoredInv, InsertedInv, InsertedBy, ReleasedInv
<1>. QED  BY <1>1, <1>2, <1>3 DEF ReleaseInv

\* A step of one request that neither inserts a snapshot nor commits only has to keep
\* the request's own part of the invariant.
LEMMA QuietStep ==
  ASSUME ReleaseInv, Observe, NEW r \in Releasers,
         rel[r].pc # "created",
         rel' \in [Releasers -> Request], \A o \in Releasers \ {r} : rel'[o] = rel[o],
         rel'[r].snapshot = None, rel'[r].pc # "commit",
         UNCHANGED <<snapshots, releases>>, failures' \in 0..MaxFailures,
         PreviewOf(r)', AttemptOf(r)', ViewOf(r)'
  PROVE  ReleaseInv'
<1>. USE DEF ReleaseInv
<1>1. ReleaseTyped'
  BY DEF ReleaseTyped
<1>2. RequestsInv'
  BY Bystander DEF RequestsInv
<1>3. StoredInv'
  BY DEF StoredInv, ReleaseTyped, SnapshotRow
<1>4. InsertedInv'
  BY DEF InsertedInv, InsertedBy
<1>5. ReleasedInv'
  BY DEF ReleasedInv, ReleaseTyped, ReleaseRow
<1>. QED  BY <1>1, <1>2, <1>3, <1>4, <1>5

\* An error ends the request.
LEMMA RefuseStep ==
  ASSUME ReleaseInv, Observe, NEW r \in Releasers, Refuse(r), rel[r].pc # "created",
         UNCHANGED <<snapshots, releases>>, failures' \in 0..MaxFailures
  PROVE  ReleaseInv'
<1>1. /\ rel' \in [Releasers -> Request]
      /\ \A o \in Releasers \ {r} : rel'[o] = rel[o]
      /\ rel'[r] = [NoRequest EXCEPT !.pc = "refused"]
  BY ReleaseAssumption DEF Refuse, ReleaseInv, ReleaseTyped, Request, NoRequest, ReleaseStates,
                           GoldenRowSets
<1>2. rel'[r].pc = "refused" /\ rel'[r].snapshot = None /\ rel'[r].seen = None
  BY <1>1 DEF NoRequest
<1>3. PreviewOf(r)' /\ AttemptOf(r)' /\ ViewOf(r)'
  BY <1>2 DEF PreviewOf, AttemptOf, ViewOf, InAttempt
<1>. QED  BY <1>1, <1>2, <1>3, QuietStep

\* A conflict ends the attempt, and with it everything read in it.
LEMMA RetryStep ==
  ASSUME ReleaseInv, Observe, NEW r \in Releasers, Retry(r), rel[r].pc # "created",
         UNCHANGED <<snapshots, releases>>, failures' \in 0..MaxFailures
  PROVE  ReleaseInv'
<1>1. /\ rel' \in [Releasers -> Request]
      /\ \A o \in Releasers \ {r} : rel'[o] = rel[o]
      /\ rel'[r].pc = IF rel[r].attempt < MaxAttempts THEN "begin" ELSE "conflict"
      /\ rel'[r].snapshot = None
      /\ rel'[r].seen = rel[r].seen /\ rel'[r].expected = rel[r].expected
      /\ rel'[r].attempt = rel[r].attempt
  <2>1. rel[r] \in Request /\ rel \in [Releasers -> Request]
    BY DEF ReleaseInv, ReleaseTyped
  <2>2. /\ \A o \in Releasers \ {r} : rel'[o] = rel[o]
        /\ rel'[r].pc = IF rel[r].attempt < MaxAttempts THEN "begin" ELSE "conflict"
        /\ rel'[r].snapshot = None
        /\ rel'[r].seen = rel[r].seen /\ rel'[r].expected = rel[r].expected
        /\ rel'[r].attempt = rel[r].attempt
    BY <2>1 DEF Retry
  <2>3. rel'[r] \in Request /\ rel' \in [Releasers -> Request]
    BY <2>1, <2>2 DEF Request, ReleaseStates, GoldenRowSets, Retry
  <2>. QED  BY <2>2, <2>3
<1>2. PreviewOf(r)' /\ AttemptOf(r)' /\ ViewOf(r)'
  BY <1>1 DEF ReleaseInv, RequestsInv, PreviewOf, AttemptOf, ViewOf, InAttempt
<1>. QED  BY <1>1, <1>2, QuietStep
-----------------------------------------------------------------------------
\* The first statement of a preview resolves the bindings ...
LEMMA PreviewBindingsStep ==
  ASSUME ReleaseInv, Observe, RuleTypeOK, NEW r \in Releasers, NEW codes \in Codes,
         PreviewBindings(r, codes)
  PROVE  ReleaseInv'
<1>. USE DEF ReleaseInv, PreviewBindings
<1>0. failures' \in 0..MaxFailures /\ rel[r].pc # "created" /\ UNCHANGED <<snapshots, releases>>
  BY DEF ReleaseTyped
<1>1. CASE ~ Bindable(Database, codes)
  BY <1>0, <1>1, RefuseStep
<1>2. CASE Bindable(Database, codes)
  <2>0. ResolveBindings(Database, codes) \in SUBSET Versions /\ codes \in {None} \cup SUBSET JDs
    BY <1>2, DatabaseTyped, ReadsTyped DEF Codes
  <2>1. /\ rel' \in [Releasers -> Request]
        /\ \A o \in Releasers \ {r} : rel'[o] = rel[o]
        /\ rel'[r].pc = "previewGolden"
        /\ rel'[r].snapshot = rel[r].snapshot
        /\ rel'[r].seen = rel[r].seen /\ rel'[r].expected = rel[r].expected
        /\ rel'[r].attempt = rel[r].attempt
    BY <1>2, <2>0 DEF ReleaseTyped, Request, ReleaseStates
  <2>2. rel'[r].snapshot = None
    BY <2>1 DEF InsertedInv
  <2>3. PreviewOf(r)' /\ AttemptOf(r)' /\ ViewOf(r)'
    BY <2>1 DEF RequestsInv, PreviewOf, AttemptOf, ViewOf, InAttempt
  <2>. QED  BY <1>0, <2>1, <2>2, <2>3, QuietStep
<1>. QED  BY <1>1, <1>2

\* ... and the second reads the labels; the user sees both and their fingerprint.
LEMMA PreviewGoldenStep ==
  ASSUME ReleaseInv, Observe, RuleTypeOK, NEW r \in Releasers, PreviewGolden(r)
  PROVE  ReleaseInv'
<1>. DEFINE rows == GoldenRows(Database, rel[r].bindings)
            inputs == [bindings |-> rel[r].bindings, rows |-> rows]
<1>. USE DEF ReleaseInv
<1>0. /\ failures' \in 0..MaxFailures /\ rel[r].pc = "previewGolden"
      /\ UNCHANGED <<snapshots, releases>>
  BY DEF ReleaseTyped, PreviewGolden
<1>1. CASE rows = {}
  BY <1>0, <1>1, RefuseStep DEF PreviewGolden
<1>2. CASE rows # {}
  <2>0. /\ rows \in GoldenRowSets
        /\ inputs \in Inputs /\ inputs.bindings = rel[r].bindings /\ inputs.rows = rows
        /\ <<rel[r].bindings, rows>> \in (SUBSET Versions) \X GoldenRowSets
    <3>1. rows \in GoldenRowSets
      BY DatabaseTyped, ReadsTyped
    <3>2. rel[r].bindings \in SUBSET Versions
      BY DEF ReleaseTyped, Request
    <3>. HIDE DEF rows
    <3>3. inputs \in Inputs /\ inputs.bindings = rel[r].bindings /\ inputs.rows = rows
      BY <3>1, <3>2 DEF Inputs
    <3>4. <<rel[r].bindings, rows>> \in (SUBSET Versions) \X GoldenRowSets
      BY <3>1, <3>2
    <3>. QED  BY <3>1, <3>3, <3>4
  <2>a. rel' = [rel EXCEPT ![r].pc = "previewed", ![r].seen = inputs,
                           ![r].expected = <<rel[r].bindings, rows>>, ![r].bindings = {}]
    BY <1>2 DEF PreviewGolden, InputFingerprint, GoldenContentHash
  <2>. HIDE DEF inputs, rows
  <2>1. /\ rel' \in [Releasers -> Request]
        /\ \A o \in Releasers \ {r} : rel'[o] = rel[o]
        /\ rel'[r].pc = "previewed"
        /\ rel'[r].snapshot = rel[r].snapshot
        /\ rel'[r].seen = inputs /\ rel'[r].expected = <<rel[r].bindings, rows>>
        /\ rel'[r].attempt = rel[r].attempt
    <3>1. rel[r] \in Request /\ rel \in [Releasers -> Request]
      BY DEF ReleaseInv, ReleaseTyped
    <3>2. /\ \A o \in Releasers \ {r} : rel'[o] = rel[o]
          /\ rel'[r].pc = "previewed"
          /\ rel'[r].snapshot = rel[r].snapshot
          /\ rel'[r].seen = inputs /\ rel'[r].expected = <<rel[r].bindings, rows>>
          /\ rel'[r].attempt = rel[r].attempt
      BY <3>1, <2>0, <2>a
    <3>3. rel'[r] \in Request /\ rel' \in [Releasers -> Request]
      <4>1. rel'[r] = [rel[r] EXCEPT !.pc = "previewed", !.seen = inputs,
                                     !.expected = <<rel[r].bindings, rows>>, !.bindings = {}]
        BY <3>1, <2>a
      <4>2. rel'[r] \in Request
        BY <3>1, <2>0, <4>1 DEF Request, ReleaseStates
      <4>. QED  BY <2>a, <3>1, <3>2, <4>2
    <3>. QED  BY <3>2, <3>3
  <2>2. rel'[r].snapshot = None
    BY <1>0, <2>1 DEF InsertedInv
  <2>3. PreviewOf(r)' /\ AttemptOf(r)' /\ ViewOf(r)'
    BY <1>0, <2>0, <2>1 DEF RequestsInv, PreviewOf, AttemptOf, ViewOf, InAttempt,
                            InputFingerprint, GoldenContentHash
  <2>. QED  BY <1>0, <2>1, <2>2, <2>3, QuietStep
<1>. QED  BY <1>1, <1>2

\* A request to create carries what the user saw.
LEMMA RequestReleaseStep ==
  ASSUME ReleaseInv, Observe, NEW r \in Releasers, NEW codes \in Codes,
         RequestRelease(r, codes)
  PROVE  ReleaseInv'
<1>. USE DEF ReleaseInv, RequestRelease
<1>0. failures' \in 0..MaxFailures /\ codes \in {None} \cup SUBSET JDs
  BY DEF ReleaseTyped, Codes
<1>1. /\ rel' \in [Releasers -> Request]
      /\ \A o \in Releasers \ {r} : rel'[o] = rel[o]
      /\ rel'[r].pc = "begin"
      /\ rel'[r].snapshot = rel[r].snapshot
      /\ rel'[r].seen = rel[r].seen /\ rel'[r].expected = rel[r].expected
      /\ rel'[r].attempt = rel[r].attempt
  <2>1. rel[r] \in Request /\ rel \in [Releasers -> Request]
    BY DEF ReleaseInv, ReleaseTyped
  <2>2. /\ \A o \in Releasers \ {r} : rel'[o] = rel[o]
        /\ rel'[r].pc = "begin"
        /\ rel'[r].snapshot = rel[r].snapshot
        /\ rel'[r].seen = rel[r].seen /\ rel'[r].expected = rel[r].expected
        /\ rel'[r].attempt = rel[r].attempt
    BY <2>1, <1>0
  <2>3. rel'[r] \in Request /\ rel' \in [Releasers -> Request]
    BY <2>1, <2>2, <1>0 DEF Request, ReleaseStates, GoldenRowSets
  <2>. QED  BY <2>2, <2>3
<1>2. rel'[r].snapshot = None
  BY <1>1 DEF InsertedInv
<1>3. PreviewOf(r)' /\ AttemptOf(r)' /\ ViewOf(r)'
  BY <1>1, ReleaseAssumption DEF RequestsInv, PreviewOf, AttemptOf, ViewOf, InAttempt
<1>. QED  BY <1>0, <1>1, <1>2, <1>3, QuietStep

\* An attempt begins with a view of what is committed, and what is committed now is
\* the first thing observed in it.
LEMMA BeginAttemptStep ==
  ASSUME ReleaseInv, Observe, RuleTypeOK, NEW r \in Releasers, BeginAttempt(r),
         UNCHANGED ruleVars
  PROVE  ReleaseInv'
<1>. USE DEF ReleaseInv
<1>0. /\ failures' \in 0..MaxFailures /\ rel[r].pc = "begin"
      /\ UNCHANGED <<snapshots, releases>>
      /\ Database \in DatabaseState
  BY DatabaseTyped DEF ReleaseTyped, BeginAttempt
<1>1. CASE ~ Bindable(Database, rel[r].codes)
  BY <1>0, <1>1, RefuseStep DEF BeginAttempt
<1>2. CASE Bindable(Database, rel[r].codes)
  <2>. DEFINE bindings == ResolveBindings(Database, rel[r].codes)
  <2>0. /\ bindings \in SUBSET Versions
        /\ rel[r].attempt + 1 \in 0..MaxAttempts
        /\ rel[r].attempt + 1 # rel[r].attempt
    BY <1>0, <1>2, ReadsTyped, ReleaseAssumption DEF ReleaseTyped, Request, RequestsInv, AttemptOf
  <2>a. rel' = [rel EXCEPT ![r].pc = "golden", ![r].attempt = rel[r].attempt + 1,
                           ![r].view = Database, ![r].bindings = bindings]
    BY <1>2 DEF BeginAttempt
  <2>. HIDE DEF bindings
  <2>1. /\ rel' \in [Releasers -> Request]
        /\ \A o \in Releasers \ {r} : rel'[o] = rel[o]
        /\ rel'[r].pc = "golden"
        /\ rel'[r].snapshot = rel[r].snapshot
        /\ rel'[r].seen = rel[r].seen /\ rel'[r].expected = rel[r].expected
        /\ rel'[r].attempt = rel[r].attempt + 1
        /\ rel'[r].view = Database /\ rel'[r].bindings = bindings
        /\ rel'[r].codes = rel[r].codes
    BY <1>0, <2>0, <2>a DEF ReleaseTyped, Request, ReleaseStates
  <2>2. rel'[r].snapshot = None
    BY <1>0, <2>1 DEF InsertedInv
  <2>3. PreviewOf(r)' /\ AttemptOf(r)'
    BY <1>0, <2>1 DEF RequestsInv, PreviewOf, AttemptOf
  <2>4. ViewOf(r)'
    <3>1. Contents(Database)' = Contents(Database)
      BY <1>0 DEF Contents, Database, Rows, ruleVars
    <3>2. Contents(rel'[r].view) \in during'[r]
      BY <2>0, <2>1, <3>1 DEF Observe, InAttempt
    <3>3. rel'[r].view # None /\ rel'[r].view.snapshots = snapshots
      BY <1>0, <2>1, ReleaseNoneAssumption DEF Database
    <3>4. rel'[r].bindings = ResolveBindings(rel'[r].view, rel'[r].codes)
      BY <2>1 DEF bindings
    <3>. QED  BY <1>0, <2>1, <3>2, <3>3, <3>4 DEF ViewOf, Contents
  <2>. QED  BY <1>0, <2>1, <2>2, <2>3, <2>4, QuietStep
<1>. QED  BY <1>1, <1>2

\* The labels are read from the view of the attempt, whatever has been imported since.
LEMMA GatherGoldenStep ==
  ASSUME ReleaseInv, Observe, NEW r \in Releasers, GatherGolden(r)
  PROVE  ReleaseInv'
<1>. DEFINE rows == GoldenRows(rel[r].view, rel[r].bindings)
            same == rel[r].expected \in {None, InputFingerprint(rel[r].bindings, rows)}
<1>. USE DEF ReleaseInv
<1>0. /\ failures' \in 0..MaxFailures /\ rel[r].pc = "golden"
      /\ UNCHANGED <<snapshots, releases>>
      /\ ViewOf(r) /\ rel[r].view \in DatabaseState
  BY DEF ReleaseTyped, GatherGolden, RequestsInv, ViewOf, InAttempt, Request
<1>1. CASE ~ (rows # {} /\ same)
  BY <1>0, <1>1, RefuseStep DEF GatherGolden
<1>2. CASE rows # {} /\ same
  <2>0. rows \in GoldenRowSets
    BY <1>0, ReadsTyped
  <2>a. rel' = [rel EXCEPT ![r].pc = "snapshot", ![r].rows = rows]
    BY <1>2 DEF GatherGolden
  <2>. HIDE DEF rows
  <2>1. /\ rel' \in [Releasers -> Request]
        /\ \A o \in Releasers \ {r} : rel'[o] = rel[o]
        /\ rel'[r].pc = "snapshot"
        /\ rel'[r].snapshot = rel[r].snapshot
        /\ rel'[r].seen = rel[r].seen /\ rel'[r].expected = rel[r].expected
        /\ rel'[r].attempt = rel[r].attempt
        /\ rel'[r].view = rel[r].view /\ rel'[r].bindings = rel[r].bindings
        /\ rel'[r].codes = rel[r].codes
        /\ rel'[r].rows = rows
    <3>1. rel[r] \in Request /\ rel \in [Releasers -> Request]
      BY DEF ReleaseInv, ReleaseTyped
    <3>2. /\ \A o \in Releasers \ {r} : rel'[o] = rel[o]
          /\ rel'[r].pc = "snapshot"
          /\ rel'[r].snapshot = rel[r].snapshot
          /\ rel'[r].seen = rel[r].seen /\ rel'[r].expected = rel[r].expected
          /\ rel'[r].attempt = rel[r].attempt
          /\ rel'[r].view = rel[r].view /\ rel'[r].bindings = rel[r].bindings
          /\ rel'[r].codes = rel[r].codes
          /\ rel'[r].rows = rows
      BY <3>1, <1>0, <2>0, <2>a
    <3>3. rel'[r] \in Request /\ rel' \in [Releasers -> Request]
      <4>1. rel'[r] = [rel[r] EXCEPT !.pc = "snapshot", !.rows = rows]
        BY <3>1, <2>a
      <4>2. rel'[r] \in Request
        BY <3>1, <2>0, <4>1 DEF Request, ReleaseStates
      <4>. QED  BY <2>a, <3>1, <3>2, <4>2
    <3>. QED  BY <3>2, <3>3
  <2>2. rel'[r].snapshot = None
    BY <1>0, <2>1 DEF InsertedInv
  <2>3. PreviewOf(r)' /\ AttemptOf(r)'
    BY <1>0, <1>2, <2>1 DEF RequestsInv, PreviewOf, AttemptOf
  <2>4. ViewOf(r)'
    BY <1>0, <2>1 DEF ViewOf, Observe, InAttempt, rows
  <2>. QED  BY <1>0, <2>1, <2>2, <2>3, <2>4, QuietStep
<1>. QED  BY <1>1, <1>2

\* A snapshot of the same labels is reused when the view has it, and inserted only when
\* nobody has inserted it, committed or not.
LEMMA UpsertSnapshotStep ==
  ASSUME ReleaseInv, Observe, NEW r \in Releasers, UpsertSnapshot(r)
  PROVE  ReleaseInv'
<1>. DEFINE hash == rel[r].rows
            row == [id |-> r, hash |-> hash, entries |-> hash]
<1>. USE DEF ReleaseInv
<1>0. /\ failures' \in 0..MaxFailures /\ rel[r].pc = "snapshot"
      /\ UNCHANGED <<snapshots, releases, failures>>
      /\ ViewOf(r) /\ rel[r].view \in DatabaseState /\ rel[r].view.snapshots \subseteq snapshots
      /\ rel[r] \in Request /\ rel \in [Releasers -> Request] /\ hash \in GoldenRowSets
  BY DEF ReleaseTyped, UpsertSnapshot, RequestsInv, ViewOf, InAttempt, Request
<1>1. CASE Retry(r)
  BY <1>0, <1>1, RetryStep
<1>2. CASE \E s \in SnapshotRow :
             /\ rel' = [rel EXCEPT ![r].pc = "commit", ![r].snapshot = s]
             /\ s.hash = hash /\ s.entries = hash
             /\ \/ s \in snapshots
                \/ /\ s.id = r
                   /\ \A t \in snapshots : t.hash # hash
                   /\ \A o \in Releasers \ {r} : ~ InsertedBy(o, hash)
  <2>. PICK s \in SnapshotRow :
         /\ rel' = [rel EXCEPT ![r].pc = "commit", ![r].snapshot = s]
         /\ s.hash = hash /\ s.entries = hash
         /\ \/ s \in snapshots
            \/ /\ s.id = r
               /\ \A t \in snapshots : t.hash # hash
               /\ \A o \in Releasers \ {r} : ~ InsertedBy(o, hash)
    BY <1>2
  <2>1. /\ \A o \in Releasers \ {r} : rel'[o] = rel[o]
        /\ rel'[r].pc = "commit" /\ rel'[r].snapshot = s
        /\ rel'[r].seen = rel[r].seen /\ rel'[r].expected = rel[r].expected
        /\ rel'[r].attempt = rel[r].attempt
        /\ rel'[r].view = rel[r].view /\ rel'[r].bindings = rel[r].bindings
        /\ rel'[r].codes = rel[r].codes
        /\ rel'[r].rows = rel[r].rows
    BY <1>0
  <2>2. s # None
    BY ReleaseNoneAssumption
  <2>3. ReleaseTyped'
    <3>1. rel'[r] = [rel[r] EXCEPT !.pc = "commit", !.snapshot = s]
      BY <1>0
    <3>2. rel'[r] \in Request
      BY <1>0, <3>1 DEF Request, ReleaseStates
    <3>. QED  BY <1>0, <2>1, <3>2 DEF ReleaseTyped
  <2>4. RequestsInv'
    <3>1. PreviewOf(r)' /\ AttemptOf(r)'
      BY <1>0, <2>1 DEF RequestsInv, PreviewOf, AttemptOf
    <3>2. ViewOf(r)'
      BY <1>0, <2>1 DEF ViewOf, Observe, InAttempt
    <3>. QED  BY <1>0, <2>1, <3>1, <3>2, Bystander DEF RequestsInv
  <2>5. StoredInv'
    BY <1>0, <2>1 DEF StoredInv, ReleaseTyped, SnapshotRow
  <2>6. InsertedInv'
    <3>1. ASSUME NEW o \in Releasers \ {r}, rel[o].pc = "commit", rel[o].snapshot \notin snapshots
          PROVE  ~ InsertedBy(r, rel[o].rows)'
      <4>1. rel[o].snapshot # None /\ rel[o].snapshot.hash = rel[o].rows
        BY <3>1 DEF InsertedInv
      <4>2. InsertedBy(o, rel[o].rows)
        BY <3>1, <4>1 DEF InsertedBy
      <4>. QED  BY <1>0, <2>1, <4>2 DEF InsertedBy
    <3>2. ASSUME NEW o \in Releasers \ {r}, NEW h
          PROVE  InsertedBy(o, h)' <=> InsertedBy(o, h)
      BY <1>0, <2>1 DEF InsertedBy
    <3>. QED  BY <1>0, <2>1, <2>2, <3>1, <3>2 DEF InsertedInv
  <2>7. ReleasedInv'
    BY <1>0, <2>1 DEF ReleasedInv, ReleaseTyped, ReleaseRow
  <2>. QED  BY <2>3, <2>4, <2>5, <2>6, <2>7
<1>3. CASE \E s \in SnapshotOf(rel[r].view, hash) :
             rel' = [rel EXCEPT ![r].pc = "commit", ![r].snapshot = s]
  <2>. PICK s \in SnapshotOf(rel[r].view, hash) :
         rel' = [rel EXCEPT ![r].pc = "commit", ![r].snapshot = s]
    BY <1>3
  <2>1. s \in snapshots /\ s.hash = hash /\ s.entries = hash /\ s \in SnapshotRow
    BY <1>0 DEF SnapshotOf, StoredInv, ReleaseTyped
  <2>. QED  BY <1>2, <2>1
<1>4. CASE /\ ~ \E o \in Releasers \ {r} : InsertedBy(o, hash)
           /\ SnapshotOf(Database, hash) = {}
           /\ rel' = [rel EXCEPT ![r].pc = "commit", ![r].snapshot = row]
  <2>1. row \in SnapshotRow /\ row.id = r /\ row.hash = hash /\ row.entries = hash
    BY <1>0 DEF SnapshotRow
  <2>2. \A t \in snapshots : t.hash # hash
    BY <1>4 DEF SnapshotOf, Database
  <2>. HIDE DEF row
  <2>. QED  BY <1>2, <1>4, <2>1, <2>2
<1>. QED  BY <1>1, <1>3, <1>4 DEF UpsertSnapshot, GoldenContentHash

\* The commit makes an inserted snapshot the only one of its labels, and the release
\* names it.
LEMMA CommitReleaseStep ==
  ASSUME ReleaseInv, Observe, NEW r \in Releasers, CommitRelease(r)
  PROVE  ReleaseInv'
<1>. DEFINE s == rel[r].snapshot
            q == [id |-> r, bindings |-> rel[r].bindings, rows |-> rel[r].rows,
                  snapshot |-> s.id]
            done == [NoRequest EXCEPT !.pc = "created", !.seen = rel[r].seen]
<1>. USE DEF ReleaseInv
<1>0. /\ rel[r].pc = "commit" /\ rel[r] \in Request /\ rel \in [Releasers -> Request]
      /\ snapshots' = snapshots \cup {s} /\ releases' = releases \cup {q}
      /\ rel' = [rel EXCEPT ![r] = done] /\ failures' = failures
  BY DEF CommitRelease, ReleaseTyped
<1>a. /\ s \in SnapshotRow /\ s.hash = rel[r].rows /\ s.entries = rel[r].rows
      /\ s \in snapshots \/ (s.id = r /\ \A t \in snapshots : t.hash # s.hash)
  BY <1>0 DEF InsertedInv, Request
<1>b. /\ q \in ReleaseRow /\ q.id = r /\ q.bindings = rel[r].bindings /\ q.rows = rel[r].rows
      /\ q.snapshot = s.id
  BY <1>0, <1>a DEF ReleaseRow, Request, SnapshotRow
<1>c. /\ done \in Request /\ done.pc = "created" /\ done.seen = rel[r].seen
      /\ done.snapshot = None /\ done.expected = None
  <2>. HIDE DEF NoRequest
  <2>. QED  BY <1>0, NoRequestTyped DEF Request, ReleaseStates
<1>d. /\ \A o \in Releasers \ {r} : rel'[o] = rel[o]
      /\ rel'[r] = done
  BY <1>0
<1>. HIDE DEF done, q
<1>1. ReleaseTyped'
  BY <1>0, <1>a, <1>b, <1>c DEF ReleaseTyped
<1>2. RequestsInv'
  <2>1. PreviewOf(r)' /\ AttemptOf(r)' /\ ViewOf(r)'
    BY <1>c, <1>d DEF PreviewOf, AttemptOf, ViewOf, InAttempt
  <2>. QED  BY <1>0, <1>d, <2>1, Bystander DEF RequestsInv
<1>3. StoredInv'
  <2>1. \A t \in snapshots : t.id # r
    BY <1>0 DEF StoredInv
  <2>2. \A t \in snapshots' : rel'[t.id].pc = "created"
    BY <1>0, <1>a, <1>c, <1>d, <2>1 DEF StoredInv, ReleaseTyped, SnapshotRow
  <2>. QED  BY <1>0, <1>a, <2>1, <2>2 DEF StoredInv
<1>4. InsertedInv'
  <2>. SUFFICES ASSUME NEW o \in Releasers \ {r}, rel[o].pc = "commit",
                       rel[o].snapshot \notin snapshots'
                PROVE  /\ rel[o].snapshot.id = o
                       /\ \A t \in snapshots' : t.hash # rel[o].rows
                       /\ \A p \in Releasers \ {o} : ~ InsertedBy(p, rel[o].rows)'
    BY <1>0, <1>c, <1>d DEF InsertedInv
  <2>1. /\ rel[o].snapshot.id = o
        /\ \A t \in snapshots : t.hash # rel[o].rows
        /\ \A p \in Releasers \ {o} : ~ InsertedBy(p, rel[o].rows)
    BY <1>0 DEF InsertedInv
  <2>2. s.hash # rel[o].rows
    BY <1>0, <1>a, <2>1 DEF InsertedInv, InsertedBy
  <2>3. \A p \in Releasers \ {o} : ~ InsertedBy(p, rel[o].rows)'
    BY <1>0, <1>c, <1>d, <2>1 DEF InsertedBy
  <2>. QED  BY <1>0, <2>1, <2>2, <2>3
<1>5. ReleasedInv'
  <2>1. rel[r].seen # None => rel[r].seen = [bindings |-> q.bindings, rows |-> q.rows]
    <3>. HAVE rel[r].seen # None
    <3>1. rel[r].seen \in Inputs
      BY <1>0 DEF Request
    <3>2. <<rel[r].seen.bindings, rel[r].seen.rows>> \in (SUBSET Versions) \X GoldenRowSets
      BY <3>1 DEF Inputs
    <3>3. /\ rel[r].expected = <<rel[r].seen.bindings, rel[r].seen.rows>>
          /\ rel[r].expected # None
      BY <1>0, <3>2, ReleaseNoneAssumption DEF RequestsInv, PreviewOf, InputFingerprint, GoldenContentHash
    <3>4. rel[r].expected = <<rel[r].bindings, rel[r].rows>>
      BY <1>0, <3>3 DEF RequestsInv, PreviewOf, InputFingerprint, GoldenContentHash
    <3>. QED  BY <1>b, <3>1, <3>3, <3>4 DEF Inputs
  <2>2. ASSUME NEW p \in releases
        PROVE  /\ rel'[p.id].pc = "created"
               /\ rel'[p.id].seen # None =>
                    rel'[p.id].seen = [bindings |-> p.bindings, rows |-> p.rows]
               /\ \E t \in snapshots' : t.id = p.snapshot /\ t.hash = p.rows
    BY <1>0, <1>d DEF ReleasedInv, ReleaseTyped, ReleaseRow
  <2>3. s \in snapshots' /\ s.id = q.snapshot /\ s.hash = q.rows
    BY <1>0, <1>a, <1>b
  <2>4. /\ rel'[q.id].pc = "created"
        /\ rel'[q.id].seen # None =>
             rel'[q.id].seen = [bindings |-> q.bindings, rows |-> q.rows]
    BY <1>b, <1>c, <1>d, <2>1
  <2>5. ASSUME NEW p \in releases', p = q
        PROVE  \E t \in snapshots' : t.id = p.snapshot /\ t.hash = p.rows
    BY <2>3, <2>5
  <2>. QED  BY <1>0, <2>2, <2>4, <2>5 DEF ReleasedInv
<1>. QED  BY <1>1, <1>2, <1>3, <1>4, <1>5

\* A failure of the database ends the attempt or the request.
LEMMA AttemptFailsStep ==
  ASSUME ReleaseInv, Observe, NEW r \in Releasers, AttemptFails(r)
  PROVE  ReleaseInv'
<1>1. /\ failures' \in 0..MaxFailures /\ rel[r].pc # "created" /\ UNCHANGED <<snapshots, releases>>
      /\ Retry(r) \/ Refuse(r)
  BY ReleaseAssumption DEF AttemptFails, ReleaseInv, ReleaseTyped
<1>. QED  BY <1>1, RetryStep, RefuseStep
-----------------------------------------------------------------------------
\* The composition implements the rule publication by itself: a step of a releaser
\* changes none of its variables.
THEOREM ImplementsRuleSpec == Spec => RuleSpec
<1>1. Init => RuleInit
  BY DEF Init
<1>2. [Next]_vars => [RuleNext]_ruleVars
  BY DEF Next, vars
<1>. QED  BY <1>1, <1>2, PTL DEF Spec, RuleSpec

\* ReleaseInv is an inductive invariant, given the types of the tables it reads.
LEMMA ReleaseInvInit == Init => ReleaseInv
<1>. SUFFICES ASSUME Init PROVE ReleaseInv
  OBVIOUS
<1>1. /\ rel = [r \in Releasers |-> NoRequest]
      /\ snapshots = {} /\ releases = {} /\ failures = 0
  BY DEF Init, ReleaseInit
<1>. QED
  BY <1>1, NoRequestTyped, ReleaseAssumption
     DEF ReleaseInv, ReleaseTyped, RequestsInv, PreviewOf, AttemptOf, ViewOf, InAttempt,
         StoredInv, InsertedInv, ReleasedInv

LEMMA ReleaseInvStep == RuleTypeOK /\ ReleaseInv /\ [Next]_vars => ReleaseInv'
<1>. SUFFICES ASSUME RuleTypeOK, ReleaseInv, [Next]_vars PROVE ReleaseInv'
  OBVIOUS
<1>1. CASE UNCHANGED vars
  BY <1>1 DEF vars, releaseVars, ReleaseInv, ReleaseTyped, RequestsInv, PreviewOf, AttemptOf,
              ViewOf, StoredInv, InsertedInv, InsertedBy, ReleasedInv
<1>2. CASE RuleNext /\ UNCHANGED <<rel, snapshots, releases, failures>> /\ Observe
  BY <1>2, RulesStep
<1>3. CASE ReleaseNext /\ UNCHANGED ruleVars /\ Observe
  <2>1. ASSUME NEW r \in Releasers, NEW codes \in Codes,
               PreviewBindings(r, codes) \/ RequestRelease(r, codes)
        PROVE  ReleaseInv'
    BY <1>3, <2>1, PreviewBindingsStep, RequestReleaseStep
  <2>2. ASSUME NEW r \in Releasers,
               \/ PreviewGolden(r)  \/ BeginAttempt(r)  \/ GatherGolden(r)
               \/ UpsertSnapshot(r) \/ CommitRelease(r) \/ AttemptFails(r)
        PROVE  ReleaseInv'
    BY <1>3, <2>2, PreviewGoldenStep, BeginAttemptStep, GatherGoldenStep,
       UpsertSnapshotStep, CommitReleaseStep, AttemptFailsStep
  <2>. QED  BY <1>3, <2>1, <2>2 DEF ReleaseNext
<1>. QED  BY <1>1, <1>2, <1>3 DEF Next

THEOREM Invariance == Spec => [](RuleInv /\ ReleaseInv)
<1>1. RuleInv => RuleTypeOK
  BY DEF RuleInv
<1>. QED  BY <1>1, ImplementsRuleSpec, RuleInvariant, ReleaseInvInit, ReleaseInvStep, PTL DEF Spec

\* Type correctness of the tables, the requests for rules and those for releases.
THEOREM TypeCorrect == Spec => []TypeOK
<1>1. RuleInv /\ ReleaseInv => TypeOK
  BY DEF RuleInv, ReleaseInv, ReleaseTyped, TypeOK, Request, SnapshotRow, GoldenRowSets
<1>. QED  BY <1>1, Invariance, PTL

\* Beside any releases, the version in force is the published one.
THEOREM ActiveVersionPublished == Spec => []PublishedIsActive
BY ImplementsRuleSpec, RulePublishedIsActive, PTL

\* Beside any releases, a version's status only moves forward.
THEOREM StatusOnlyForward == Spec => StatusForward
BY ImplementsRuleSpec, RuleStatusForward, PTL

\* A release is computed from what its preview showed.
THEOREM ReleasedAsPreviewed == Spec => []ReleaseIsWhatWasPreviewed
<1>1. ReleaseInv => ReleaseIsWhatWasPreviewed
  BY DEF ReleaseInv, ReleasedInv, ReleaseIsWhatWasPreviewed
<1>. QED  BY <1>1, Invariance, PTL

\* Two releases share a snapshot exactly when their labels are the same.
THEOREM OneSnapshotPerContent == Spec => []SnapshotPerContent
<1>1. ReleaseInv => SnapshotPerContent
  <2>. SUFFICES ASSUME ReleaseInv, NEW p \in releases, NEW q \in releases
                PROVE  /\ (p.snapshot = q.snapshot) <=> (p.rows = q.rows)
                       /\ \E s \in snapshots : s.id = p.snapshot /\ s.entries = p.rows
    BY DEF SnapshotPerContent
  <2>1. PICK s \in snapshots : s.id = p.snapshot /\ s.hash = p.rows
    BY DEF ReleaseInv, ReleasedInv
  <2>2. PICK t \in snapshots : t.id = q.snapshot /\ t.hash = q.rows
    BY DEF ReleaseInv, ReleasedInv
  <2>3. s.hash = t.hash \/ s.id = t.id => s = t
    BY DEF ReleaseInv, StoredInv
  <2>. QED  BY <2>1, <2>2, <2>3 DEF ReleaseInv, StoredInv
<1>. QED  BY <1>1, Invariance, PTL

\* What a release is committed with was in force together at a moment of its attempt.
LEMMA CoherentStep ==
  ASSUME ReleaseInv, [Next]_vars, NEW r \in Releasers,
         rel[r].pc = "commit", rel'[r].pc = "created"
  PROVE  \E h \in during[r] :
           /\ rel[r].bindings \subseteq h.jds
           /\ rel[r].rows = {row \in h.rows : \E b \in rel[r].bindings : b[1] = row[1]}
<1>1. /\ Contents(rel[r].view) \in during[r]
      /\ rel[r].bindings = ResolveBindings(rel[r].view, rel[r].codes)
      /\ rel[r].rows = GoldenRows(rel[r].view, rel[r].bindings)
  BY DEF ReleaseInv, RequestsInv, ViewOf, InAttempt
<1>2. rel[r].bindings \subseteq Contents(rel[r].view).jds
  BY <1>1, BindingsInForce
<1>3. Contents(rel[r].view).rows = Rows(rel[r].view.golden)
  BY DEF Contents
<1>. QED  BY <1>1, <1>2, <1>3 DEF GoldenRows

THEOREM ReleasesCoherent == Spec => ReleaseCoherent
<1>1. ReleaseInv /\ [Next]_vars
      => [\A r \in Releasers : rel[r].pc = "commit" /\ rel'[r].pc = "created" =>
            \E h \in during[r] :
              /\ rel[r].bindings \subseteq h.jds
              /\ rel[r].rows = {row \in h.rows : \E b \in rel[r].bindings : b[1] = row[1]}]_rel
  BY CoherentStep
<1>. QED  BY <1>1, Invariance, PTL DEF Spec, ReleaseCoherent
=============================================================================
