-------------------------- MODULE QualityReleases --------------------------
(* Quality releases (services/quality/releases.py): a user previews what a
   release would be computed from, and creates it under the fingerprint of
   that preview.  A preview reads READ COMMITTED, each statement on its own; an
   attempt to create runs in a fresh REPEATABLE READ transaction, whose reads
   all come from the state committed when it began, and is repeated on genuine
   write conflicts.  Composes with RulePublication, whose requests change the
   golden labels and the active rules meanwhile.

   The window is fixed by the request; scores, feedback and usage, read in the
   same transaction, and the metrics computed from them are in the module
   QualityMetrics.  A SHA-256 digest is modelled as the content it digests.  *)
EXTENDS RulePublication

CONSTANTS Releasers,      \* users' requests for a release
          MaxAttempts,    \* MAX_RELEASE_ATTEMPTS
          MaxFailures     \* bound on the failures of the database

ASSUME ReleaseAssumption == MaxAttempts \in Nat \ {0} /\ MaxFailures \in Nat

VARIABLES rel,        \* releaser -> its request
          snapshots,  \* rows of golden_set_snapshots, with their entries
          releases,   \* rows of quality_releases, with their quality_release_jds
          failures,   \* failures of the database so far
          during      \* releaser -> what was committed since its attempt began
                      \* (auxiliary)

releaseVars == <<rel, snapshots, releases, failures, during>>
vars == <<ruleVars, releaseVars>>

(* What _gather reads. *)
Database == [jds |-> jds, golden |-> golden, snapshots |-> snapshots]
Rows(g) == {<<k[1], k[2], g[k]>> : k \in {x \in GoldenKeys : g[x] # None}}
Contents(db) == [jds |-> {<<j, db.jds[j].active>> : j \in {i \in JDs : db.jds[i] # None}},
                 rows |-> Rows(db.golden)]

(* The values a request carries. *)
GoldenRowSets == SUBSET (JDs \X Candidates \X GoldenLabels)
SnapshotRow == [id : Releasers, hash : GoldenRowSets, entries : GoldenRowSets]
DatabaseState == [jds : [JDs -> JDRow \cup {None}],
                  golden : [GoldenKeys -> GoldenLabels \cup {None}],
                  snapshots : SUBSET SnapshotRow]
Inputs == [bindings : SUBSET Versions, rows : GoldenRowSets]

ASSUME ReleaseNoneAssumption ==
  None \notin SnapshotRow \cup DatabaseState \cup Inputs
               \cup ((SUBSET Versions) \X GoldenRowSets)

NoRequest == [pc |-> "idle", codes |-> None, seen |-> None, expected |-> None,
              attempt |-> 0, view |-> None, bindings |-> {}, rows |-> {},
              snapshot |-> None]
ReleaseStates == {"idle", "previewGolden", "previewed", "begin", "golden",
                  "snapshot", "commit", "created", "refused", "conflict"}

ReleaseInit ==
  /\ rel = [r \in Releasers |-> NoRequest]
  /\ snapshots = {} /\ releases = {} /\ failures = 0
  /\ during = [r \in Releasers |-> {}]

Init == RuleInit /\ ReleaseInit

---------------------------------------------------------------------------
(* _resolve_bindings: the selected JDs, those asked for or those with labels,
   each bound to its active version.  GoldenSetEmpty and ActiveRuleMissing are
   errors.                                                                   *)
SelectedJDs(db, codes) ==
  {j \in JDs : /\ db.jds[j] # None
               /\ IF codes # None THEN j \in codes
                  ELSE \E c \in Candidates : db.golden[<<j, c>>] # None}
Bindable(db, codes) ==
  /\ SelectedJDs(db, codes) # {}
  /\ \A j \in SelectedJDs(db, codes) : db.jds[j].active # None
ResolveBindings(db, codes) ==
  {<<j, db.jds[j].active>> : j \in SelectedJDs(db, codes)}

(* The golden rows of the bound JDs. *)
GoldenRows(db, bindings) ==
  {row \in Rows(db.golden) : \E b \in bindings : b[1] = row[1]}

(* golden_content_hash and input_fingerprint: the window, the targets and the
   version of the metrics do not change between preview and create.          *)
GoldenContentHash(rows) == rows
(* Mutant. The bound versions are not part of the identity. *)
InputFingerprint_NoBindings(bindings, rows) == <<{}, GoldenContentHash(rows)>>

InputFingerprint(bindings, rows) == <<bindings, GoldenContentHash(rows)>>

Refuse(r) == rel' = [rel EXCEPT ![r] = [NoRequest EXCEPT !.pc = "refused"]]

---------------------------------------------------------------------------
(* POST /quality/releases/preview, two statements apart. *)
PreviewBindings(r, codes) ==
  /\ rel[r].pc = "idle"
  /\ IF Bindable(Database, codes)
     THEN rel' = [rel EXCEPT ![r].pc = "previewGolden", ![r].codes = codes,
                             ![r].bindings = ResolveBindings(Database, codes)]
     ELSE Refuse(r)
  /\ UNCHANGED <<snapshots, releases, failures>>

PreviewGolden(r) ==
  LET rows == GoldenRows(Database, rel[r].bindings)  IN
  /\ rel[r].pc = "previewGolden"
  /\ IF rows # {}
     THEN rel' = [rel EXCEPT
            ![r].pc = "previewed",
            ![r].seen = [bindings |-> rel[r].bindings, rows |-> rows],
            ![r].expected = InputFingerprint(rel[r].bindings, rows),
            ![r].bindings = {}]
     ELSE Refuse(r)
  /\ UNCHANGED <<snapshots, releases, failures>>

(* POST /quality/releases, under the fingerprint of the preview or, without a
   preview, under none.                                                      *)
RequestRelease(r, codes) ==
  /\ \/ rel[r].pc = "previewed" /\ codes = rel[r].codes
     \/ rel[r].pc = "idle"
  /\ rel' = [rel EXCEPT ![r].pc = "begin", ![r].codes = codes]
  /\ UNCHANGED <<snapshots, releases, failures>>

(* The next attempt: the first statement of the transaction fixes what it
   sees; the bindings are resolved in it.                                    *)
BeginAttempt(r) ==
  /\ rel[r].pc = "begin"
  /\ IF Bindable(Database, rel[r].codes)
     THEN rel' = [rel EXCEPT
            ![r].pc = "golden", ![r].attempt = @ + 1, ![r].view = Database,
            ![r].bindings = ResolveBindings(Database, rel[r].codes)]
     ELSE Refuse(r)
  /\ UNCHANGED <<snapshots, releases, failures>>

(* Mutant. Each statement reads what is committed by then. *)
GatherGolden_ReadCommitted(r) ==
  LET rows == GoldenRows(Database, rel[r].bindings)  IN
  /\ rel[r].pc = "golden"
  /\ IF /\ rows # {}
        /\ rel[r].expected \in {None, InputFingerprint(rel[r].bindings, rows)}
     THEN rel' = [rel EXCEPT ![r].pc = "snapshot", ![r].rows = rows]
     ELSE Refuse(r)
  /\ UNCHANGED <<snapshots, releases, failures>>

(* The golden rows, from the same view; GoldenSetEmpty, or ReleaseInputChanged
   when the fingerprint is not the expected one.                             *)
GatherGolden(r) ==
  LET rows == GoldenRows(rel[r].view, rel[r].bindings)  IN
  /\ rel[r].pc = "golden"
  /\ IF /\ rows # {}
        /\ rel[r].expected \in {None, InputFingerprint(rel[r].bindings, rows)}
     THEN rel' = [rel EXCEPT ![r].pc = "snapshot", ![r].rows = rows]
     ELSE Refuse(r)
  /\ UNCHANGED <<snapshots, releases, failures>>

(* A conflict ends the attempt; MAX_RELEASE_ATTEMPTS of them the request
   (ReleaseTransactionConflict).                                             *)
Retry(r) ==
  rel' = [rel EXCEPT ![r] =
            [@ EXCEPT !.pc = IF rel[r].attempt < MaxAttempts THEN "begin" ELSE "conflict",
                      !.view = None, !.bindings = {}, !.rows = {}, !.snapshot = None]]

(* _upsert_snapshot: the snapshot of this content in the transaction's view is
   reused; otherwise it is inserted.  uq_golden_snapshots_content_sha256 makes
   the insert wait for a transaction that has inserted the same content and not
   committed, and fail when one has committed since the view was taken.      *)
SnapshotOf(db, hash) == {s \in db.snapshots : s.hash = hash}
InsertedBy(o, hash) == rel[o].snapshot # None /\ rel[o].snapshot.hash = hash
                         /\ rel[o].snapshot \notin snapshots

(* Mutant. No unique index. *)
UpsertSnapshot_Blind(r) ==
  LET hash == GoldenContentHash(rel[r].rows)  IN
  /\ rel[r].pc = "snapshot"
  /\ \/ \E s \in SnapshotOf(rel[r].view, hash) :
          rel' = [rel EXCEPT ![r].pc = "commit", ![r].snapshot = s]
     \/ /\ SnapshotOf(rel[r].view, hash) = {}
        /\ rel' = [rel EXCEPT ![r].pc = "commit",
                     ![r].snapshot = [id |-> r, hash |-> hash, entries |-> rel[r].rows]]
  /\ UNCHANGED <<snapshots, releases, failures>>

UpsertSnapshot(r) ==
  LET hash == GoldenContentHash(rel[r].rows)  IN
  /\ rel[r].pc = "snapshot"
  /\ \/ \E s \in SnapshotOf(rel[r].view, hash) :
          rel' = [rel EXCEPT ![r].pc = "commit", ![r].snapshot = s]
     \/ /\ SnapshotOf(rel[r].view, hash) = {}
        /\ ~ \E o \in Releasers \ {r} : InsertedBy(o, hash)
        /\ IF SnapshotOf(Database, hash) = {}
           THEN rel' = [rel EXCEPT ![r].pc = "commit",
                          ![r].snapshot = [id |-> r, hash |-> hash,
                                           entries |-> rel[r].rows]]
           ELSE Retry(r)
  /\ UNCHANGED <<snapshots, releases, failures>>

(* The release, its bindings and its audit rows are inserted and committed
   with the snapshot.                                                        *)
CommitRelease(r) ==
  /\ rel[r].pc = "commit"
  /\ snapshots' = snapshots \cup {rel[r].snapshot}
  /\ releases' = releases \cup {[id |-> r, bindings |-> rel[r].bindings,
                                 rows |-> rel[r].rows,
                                 snapshot |-> rel[r].snapshot.id]}
  /\ rel' = [rel EXCEPT ![r] = [NoRequest EXCEPT !.pc = "created", !.seen = rel[r].seen]]
  /\ UNCHANGED failures

(* The database ends an attempt: a serialization failure or a deadlock
   (RETRYABLE_SQLSTATES), or any other error, which is raised.               *)
AttemptFails(r) ==
  /\ rel[r].pc \in {"golden", "snapshot", "commit"}
  /\ failures < MaxFailures /\ failures' = failures + 1
  /\ \/ Retry(r)
     \/ Refuse(r)
  /\ UNCHANGED <<snapshots, releases>>

Codes == {None} \cup (SUBSET JDs \ {{}})

ReleaseNext ==
  \/ \E r \in Releasers, codes \in Codes :
       PreviewBindings(r, codes) \/ RequestRelease(r, codes)
  \/ \E r \in Releasers :
       \/ PreviewGolden(r)  \/ BeginAttempt(r)  \/ GatherGolden(r)
       \/ UpsertSnapshot(r) \/ CommitRelease(r) \/ AttemptFails(r)

InAttempt == {"golden", "snapshot", "commit"}
Observe ==
  during' = [r \in Releasers |->
    IF rel'[r].pc \notin InAttempt THEN {}
    ELSE {Contents(Database)'} \cup
           (IF rel'[r].attempt = rel[r].attempt THEN during[r] ELSE {})]

Next ==
  /\ \/ RuleNext /\ UNCHANGED <<rel, snapshots, releases, failures>>
     \/ ReleaseNext /\ UNCHANGED ruleVars
  /\ Observe

Spec == Init /\ [][Next]_vars

---------------------------------------------------------------------------
TypeOK ==
  /\ RuleTypeOK
  /\ \A r \in Releasers :
       /\ rel[r].pc \in ReleaseStates
       /\ rel[r].attempt \in 0..MaxAttempts
       /\ rel[r].bindings \subseteq Versions
       /\ rel[r].rows \subseteq (JDs \X Candidates \X GoldenLabels)
  /\ \A s \in snapshots : s.entries \subseteq (JDs \X Candidates \X GoldenLabels)
  /\ failures \in 0..MaxFailures

(* "A retry can never mix rows observed under two snapshots" (create_release):
   the bindings and the labels a release is computed from were in force
   together, at one moment of the attempt that creates it.                   *)
ReleaseCoherent ==
  [][\A r \in Releasers : rel[r].pc = "commit" /\ rel'[r].pc = "created" =>
       \E h \in during[r] :
         /\ rel[r].bindings \subseteq h.jds
         /\ rel[r].rows = {row \in h.rows : \E b \in rel[r].bindings : b[1] = row[1]}]_rel

(* A release created from a preview is computed from the rows and the rule
   versions that preview showed, whatever was published or imported between
   the two requests or between two attempts.                                 *)
ReleaseIsWhatWasPreviewed ==
  \A q \in releases :
    rel[q.id].seen # None =>
      rel[q.id].seen = [bindings |-> q.bindings, rows |-> q.rows]

(* One snapshot per content, shared by the releases computed from it: two
   releases name the same snapshot exactly when their labels are the same, and
   its entries are those labels.                                             *)
SnapshotPerContent ==
  \A p, q \in releases :
    /\ (p.snapshot = q.snapshot) <=> (p.rows = q.rows)
    /\ \E s \in snapshots : s.id = p.snapshot /\ s.entries = p.rows
=============================================================================
