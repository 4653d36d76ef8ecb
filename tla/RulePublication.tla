-------------------------- MODULE RulePublication --------------------------
(* The tables jds, rule_versions and golden_set, and the requests that write
   them: creating, evaluating and publishing a rule draft
   (services/rule_publication.py), the command-line import of a rule workbook
   (cli/import_rules.py), the refresh of job descriptions from the recruiting
   source (sync_jd_metadata) and the import of golden labels.

   A request runs in a session of its own, READ COMMITTED, so what it loads in
   one step may be stale in the next one; FOR UPDATE is the variable jdLock.  A
   draft's row is locked by nobody but the publisher that holds the lock of its
   JD.  Schemas are immutable after creation and are left out; of the metrics
   an evaluation computes, whether they are recorded.                        *)
EXTENDS Naturals, FiniteSets

CONSTANTS JDs,          \* job descriptions, by code
          Labels,       \* version labels; a rule version is a pair <<jd, label>>
          Candidates,
          Editors,      \* sessions of the requests
          Texts,        \* values of name and description
          MaxRequests,  \* bound on the number of requests
          MaxGoldenImports,
          GoldenLabels, \* "advance", "reject", "borderline"
          None

ASSUME LabelsAssumption == IsFiniteSet(Labels)     \* version is a String(32)
ASSUME RequestsAssumption == MaxRequests \in Nat /\ MaxGoldenImports \in Nat

Versions == JDs \X Labels
GoldenKeys == JDs \X Candidates

VARIABLES jds,       \* jd -> the row of jds, or None
          ver,       \* version -> the row of rule_versions, or None
          golden,    \* key -> label, or None
          jdLock,    \* jd -> the publisher that holds the row FOR UPDATE
          ed,        \* editor -> the request it serves
          requests,  \* number of requests so far
          goldenImports, \* number of golden imports so far
          imported   \* versions the command line imported (auxiliary)

ruleVars == <<jds, ver, golden, jdLock, ed, requests, goldenImports, imported>>

JDRow == [text : Texts, active : Labels \cup {None}]
VersionRow == [status : {"draft", "published", "archived"},
               metrics : BOOLEAN]   \* golden_set_metrics is not NULL

ASSUME NoneAssumption ==
  None \notin JDRow \cup VersionRow \cup GoldenLabels \cup JDs \cup Labels \cup Editors

(* What a request carries between its steps; the row of the JD it has read, if
   a later step depends on what it read.                                     *)
Idle == [pc |-> "idle", jd |-> None, label |-> None, saw |-> None]
RequestStates ==
  {"idle", "insert", "lock", "publish", "measure", "cli", "sync"}

(* A JD may be unknown, or have no active version, or one that was imported or
   published before; besides, it may have drafts, evaluated or not.          *)
RuleInit ==
  /\ jds \in [JDs -> JDRow \cup {None}]
  /\ ver \in [Versions -> VersionRow \cup {None}]
  /\ \A v \in Versions :
       /\ jds[v[1]] = None => ver[v] = None
       /\ IF jds[v[1]] # None /\ jds[v[1]].active = v[2]
          THEN ver[v] # None /\ ver[v].status = "published"
          ELSE ver[v] # None => ver[v].status = "draft"
  /\ imported = {v \in Versions : ver[v] = [status |-> "published", metrics |-> FALSE]}
  /\ golden = [k \in GoldenKeys |-> None]
  /\ jdLock = [j \in JDs |-> None]
  /\ ed = [e \in Editors |-> Idle]
  /\ requests = 0 /\ goldenImports = 0

Begin(e, pc, j, l) ==
  /\ ed[e].pc = "idle" /\ requests < MaxRequests
  /\ requests' = requests + 1
  /\ ed' = [ed EXCEPT ![e] = [pc |-> pc, jd |-> j, label |-> l,
                              saw |-> IF pc \in {"lock", "sync"} THEN jds[j] ELSE None]]

(* The response is sent, or an exception raised; the session closes. *)
Respond(e) == ed' = [ed EXCEPT ![e] = Idle]

Mine(e) == <<ed[e].jd, ed[e].label>>

---------------------------------------------------------------------------
(* POST /rule-versions.  The schema is valid; the version is looked up ...    *)
CreateDraft(e, j, l) ==
  /\ jds[j] # None
  /\ ver[<<j, l>>] = None
  /\ Begin(e, "insert", j, l)
  /\ UNCHANGED <<jds, ver, golden, jdLock, goldenImports, imported>>

(* ... and inserted, which uq_rule_versions_jd_version refuses when a request
   that ran meanwhile inserted it first.  The insert locks the row of the JD
   FOR KEY SHARE and so waits for a publisher.                               *)
InsertDraft(e) ==
  /\ ed[e].pc = "insert" /\ jdLock[ed[e].jd] = None
  /\ IF ver[Mine(e)] = None
     THEN ver' = [ver EXCEPT ![Mine(e)] = [status |-> "draft", metrics |-> FALSE]]
     ELSE UNCHANGED ver                                        \* VersionExists
  /\ Respond(e)
  /\ UNCHANGED <<jds, golden, jdLock, requests, goldenImports, imported>>

---------------------------------------------------------------------------
(* POST /evaluate: _load_jd and _load_version, then the check of the status
   on the row just loaded.                                                   *)
EvaluateDraft(e, j, l) ==
  /\ jds[j] # None /\ ver[<<j, l>>] # None
  /\ ver[<<j, l>>].status = "draft"
  /\ Begin(e, "measure", j, l)
  /\ UNCHANGED <<jds, ver, golden, jdLock, goldenImports, imported>>

(* The labels are counted, the labelled candidates scored again under the
   draft, and the metrics written without a lock and without another look at
   the status, by an UPDATE that waits only for a publisher of this draft.   *)
RecordMetrics(e) ==
  /\ ed[e].pc = "measure"
  /\ \A p \in Editors : ~ (ed[p].pc = "publish" /\ Mine(p) = Mine(e))
  /\ ver' = [ver EXCEPT ![Mine(e)].metrics = TRUE]
  /\ Respond(e)
  /\ UNCHANGED <<jds, golden, jdLock, requests, goldenImports, imported>>

---------------------------------------------------------------------------
(* POST /publish: the rows are loaded ...                                     *)
Publish(e, j, l) ==
  /\ jds[j] # None /\ ver[<<j, l>>] # None
  /\ Begin(e, "lock", j, l)
  /\ UNCHANGED <<jds, ver, golden, jdLock, goldenImports, imported>>

(* Mutant. The JD is not locked: the previous version is the one loaded before. *)
PublishLock_NoLock(e) ==
  /\ ed[e].pc = "lock"
  /\ IF ver[Mine(e)].status = "draft" /\ ver[Mine(e)].metrics
     THEN ed' = [ed EXCEPT ![e].pc = "publish"]
     ELSE Respond(e)
  /\ UNCHANGED <<jds, ver, golden, jdLock, requests, goldenImports, imported>>

(* Mutant. The status is not checked again under the lock. *)
PublishLock_AnyStatus(e) ==
  LET j == ed[e].jd  IN
  /\ ed[e].pc = "lock" /\ jdLock[j] = None
  /\ IF ver[Mine(e)].metrics
     THEN /\ jdLock' = [jdLock EXCEPT ![j] = e]
          /\ ed' = [ed EXCEPT ![e].pc = "publish", ![e].saw = jds[j]]
     ELSE Respond(e) /\ UNCHANGED jdLock
  /\ UNCHANGED <<jds, ver, golden, requests, goldenImports, imported>>

(* ... then locked and read again, the JD first; NotADraft and
   RegressionNotRecorded end the request.                                    *)
PublishLock(e) ==
  LET j == ed[e].jd  IN
  /\ ed[e].pc = "lock" /\ jdLock[j] = None
  /\ IF ver[Mine(e)].status = "draft" /\ ver[Mine(e)].metrics
     THEN /\ jdLock' = [jdLock EXCEPT ![j] = e]
          /\ ed' = [ed EXCEPT ![e].pc = "publish", ![e].saw = jds[j]]
     ELSE Respond(e) /\ UNCHANGED jdLock
  /\ UNCHANGED <<jds, ver, golden, requests, goldenImports, imported>>

(* The previous version is archived, the draft published and made active, in
   one commit.                                                               *)
PublishCommit(e) ==
  LET j == ed[e].jd
      previous == ed[e].saw.active
  IN
  /\ ed[e].pc = "publish"
  /\ ver' = [v \in Versions |->
               IF v = Mine(e) THEN [ver[v] EXCEPT !.status = "published"]
               ELSE IF v = <<j, previous>> THEN [ver[v] EXCEPT !.status = "archived"]
               ELSE ver[v]]
  /\ jds' = [jds EXCEPT ![j].active = ed[e].label]
  /\ jdLock' = [jdLock EXCEPT ![j] = None]
  /\ Respond(e)
  /\ UNCHANGED <<golden, requests, goldenImports, imported>>

(* The process dies or the connection is lost before the commit: the database
   rolls back and releases the locks.                                        *)
EditorDies(e) ==
  /\ ed[e].pc # "idle"
  /\ jdLock' = [j \in JDs |-> IF jdLock[j] = e THEN None ELSE jdLock[j]]
  /\ Respond(e)
  /\ UNCHANGED <<jds, ver, golden, requests, goldenImports, imported>>

---------------------------------------------------------------------------
(* import-rules, for one JD of the workbook: the JD is created when it is
   missing, in a commit of its own, with the code as its name ...            *)
ImportRules(e, j, l) ==
  /\ Begin(e, "cli", j, l)
  /\ \/ jds[j] # None /\ UNCHANGED jds
     \/ /\ jds[j] = None
        /\ \E t \in Texts : jds' = [jds EXCEPT ![j] = [text |-> t, active |-> None]]
  /\ UNCHANGED <<ver, golden, jdLock, goldenImports, imported>>

(* ... then the version is inserted as published (the server's default) and
   made active, whatever was active before; a label in use is an error.      *)
ImportApply(e) ==
  LET j == ed[e].jd  IN
  /\ ed[e].pc = "cli" /\ jdLock[j] = None
  /\ IF ver[Mine(e)] = None
     THEN /\ ver' = [ver EXCEPT ![Mine(e)] = [status |-> "published", metrics |-> FALSE]]
          /\ jds' = [jds EXCEPT ![j].active = ed[e].label]
          /\ imported' = imported \cup {Mine(e)}
     ELSE UNCHANGED <<jds, ver, imported>>
  /\ Respond(e)
  /\ UNCHANGED <<golden, jdLock, requests, goldenImports>>

---------------------------------------------------------------------------
(* sync_jd_metadata for one listed job: the row is read (the label stands for
   nothing here) ...                                                         *)
SyncRead(e, j) ==
  /\ Begin(e, "sync", j, None)
  /\ UNCHANGED <<jds, ver, golden, jdLock, goldenImports, imported>>

(* ... and inserted with no active version unless it exists by now, or its name
   and description, and nothing else, are updated.  The update waits for the
   row lock.  The transaction commits.                                       *)
SyncWrite(e, text) ==
  LET j == ed[e].jd  IN
  /\ ed[e].pc = "sync"
  /\ IF ed[e].saw = None
     THEN jds' = IF jds[j] = None
                 THEN [jds EXCEPT ![j] = [text |-> text, active |-> None]]
                 ELSE jds                              \* ON CONFLICT DO NOTHING
     ELSE /\ jdLock[j] = None \/ ed[e].saw.text = text
          /\ jds' = IF ed[e].saw.text = text THEN jds
                    ELSE [jds EXCEPT ![j].text = text]
  /\ Respond(e)
  /\ UNCHANGED <<ver, golden, jdLock, requests, goldenImports, imported>>

---------------------------------------------------------------------------
(* POST /golden-set/import: the labels of the file, one per key once the last
   row for a key has won, inserted or updated in one transaction.  Rows whose
   JD or candidate is unknown are reported and skipped; nothing is deleted.  *)
ImportGoldenSet ==
  /\ goldenImports < MaxGoldenImports
  /\ goldenImports' = goldenImports + 1
  /\ \E keys \in SUBSET {k \in GoldenKeys : jds[k[1]] # None} :
       \E rows \in [keys -> GoldenLabels] :
         golden' = [k \in GoldenKeys |-> IF k \in keys THEN rows[k] ELSE golden[k]]
  /\ UNCHANGED <<jds, ver, jdLock, ed, requests, imported>>

RuleNext ==
  \/ \E e \in Editors, j \in JDs, l \in Labels :
       \/ CreateDraft(e, j, l) \/ EvaluateDraft(e, j, l)
       \/ Publish(e, j, l)     \/ ImportRules(e, j, l)
  \/ \E e \in Editors :
       \/ InsertDraft(e) \/ RecordMetrics(e)
       \/ PublishLock(e) \/ PublishCommit(e) \/ ImportApply(e)
       \/ EditorDies(e)
       \/ \E j \in JDs : SyncRead(e, j)
       \/ \E t \in Texts : SyncWrite(e, t)
  \/ ImportGoldenSet

RuleSpec == RuleInit /\ [][RuleNext]_ruleVars

RuleTypeOK ==
  /\ jds \in [JDs -> JDRow \cup {None}]
  /\ ver \in [Versions -> VersionRow \cup {None}]
  /\ golden \in [GoldenKeys -> GoldenLabels \cup {None}]
  /\ jdLock \in [JDs -> Editors \cup {None}]
  /\ ed \in [Editors -> [pc : RequestStates, jd : JDs \cup {None},
                         label : Labels \cup {None}, saw : JDRow \cup {None}]]
  /\ requests \in 0..MaxRequests
  /\ goldenImports \in 0..MaxGoldenImports
  /\ imported \subseteq Versions

---------------------------------------------------------------------------
InForce(v) == jds[v[1]] # None /\ jds[v[1]].active = v[2]
HasStatus(v, status) == ver[v] # None /\ ver[v].status = status

(* The version a JD scores with exists and is published, and it is the only
   published one: no order of publications, imports and refreshes of the JD
   leaves it scoring with a draft or an archived version, and a publication
   archives the version it replaces.  Only an import from the command line,
   which archives nothing, leaves published versions behind that are not in
   force, at most one for each import.                                       *)
PublishedIsActive ==
  \A j \in JDs :
    /\ jds[j] # None /\ jds[j].active # None => HasStatus(<<j, jds[j].active>>, "published")
    /\ Cardinality({l \in Labels : HasStatus(<<j, l>>, "published") /\ ~ InForce(<<j, l>>)})
         <= Cardinality({v \in imported : v[1] = j})

(* A rule version goes from draft to published, once its evaluation has been
   recorded (the gate of WP6c), to archived, and never back; no row is
   deleted.  An archived version cannot come back into force.                *)
StatusForward ==
  [][\A v \in Versions : ver[v] # None =>
       /\ ver'[v] # None
       /\ \/ ver'[v].status = ver[v].status
          \/ ver[v].status = "draft" /\ ver'[v].status = "published" /\ ver'[v].metrics
          \/ ver[v].status = "published" /\ ver'[v].status = "archived"]_ver
=============================================================================
