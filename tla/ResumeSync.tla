------------------------------ MODULE ResumeSync ------------------------------
(***************************************************************************)
(* Resume synchronisation.  A pull (run_sync) reads the source's cursor,   *)
(* lists what changed since the cursor less an overlap, ingests the oldest *)
(* MaxItems of it and writes the cursor; a replay (replay_failed) drives   *)
(* failed ledger rows again.  Both are Celery tasks that nothing keeps     *)
(* apart: after a worker outage several pulls start at once, and a replay  *)
(* runs beside them.                                                       *)
(*                                                                         *)
(* A task is a sequence of short transactions with a call to the source or *)
(* to the object store between two of them; each transaction is one step.  *)
(* Ingestion itself is the subject of module Ingestion; here a pair of an  *)
(* external id and a content joins handed once its job is committed.       *)
(***************************************************************************)
EXTENDS Integers, FiniteSets, FiniteSetsExt

CONSTANTS
  Items,        \* source_external_id of the candidates the source may hold
  Contents,     \* attachments, told apart by sha256
  Unknown,      \* UNKNOWN_SHA256, the placeholder hash of a failed download
  None,         \* no attachment, no item in hand, or no cursor row
  Pulls,        \* run_sync tasks that may overlap
  Replays,      \* replay_failed tasks that may overlap
  Overlap,      \* SYNC_OVERLAP_SECONDS, in ticks of the clock
  Lookback,     \* FIRST_RUN_LOOKBACK, in ticks of the clock
  Skew,         \* by how much a change may become visible late
  MaxItems,     \* SYNC_MAX_ITEMS_PER_RUN
  MaxAttempts,  \* SYNC_MAX_ITEM_ATTEMPTS
  MaxTime,      \* bound on the clock
  MaxEdits      \* bound on the changes the source makes

\* overlap_start: the overlap is there to absorb ties and clock skew.
ASSUME OverlapAssumption == Overlap \in Nat /\ Skew \in 0..Overlap

ASSUME BoundsAssumption ==
  /\ MaxItems \in Nat \ {0} /\ MaxAttempts \in Nat \ {0} /\ MaxTime \in Nat \ {0}
  /\ MaxEdits \in Nat /\ Lookback \in Nat /\ IsFiniteSet(Items)

ASSUME NamesAssumption ==
  /\ Unknown \notin Contents /\ None \notin Contents \cup {Unknown}
  /\ None \notin Int /\ Pulls \cap Replays = {}

Hashes == Contents \cup {Unknown}

\* What a cursor can say: a pull without one looks back before the clock's start.
Times == (0 - Lookback)..MaxTime

\* uq_sync_source_items_identity, for the one source of an adapter.
Keys == Items \X Hashes

Tasks == Pulls \cup Replays

VARIABLES
  \* the source
  edits,     \* changes so far
  clock,     \* the time, to the source and to the workers
  updated,   \* updated_at of each candidate, 0 before it exists
  content,   \* its attachment, or None
  \* the tables
  cursor,    \* sync_cursors.cursor_value, None while there is no row
  outcome,   \* sync_source_items.outcome; "none" where there is no row
  attempts,  \* sync_source_items.attempts, counted up to MaxAttempts
  handed,    \* pairs whose ingestion job has been committed
  \* the tasks
  pc,        \* where each task is
  todo,      \* ledger keys it has still to look at; a pull's have the hash Unknown
  held,      \* of a replay's rows, those whose id has not been deleted since
  goal,      \* the cursor a pull has read and, after the listing, will write
  base,      \* history: the lookback that what it reads from rests on
  key,       \* the key it works on
  bytes,     \* the content it has downloaded
  \* history
  origin     \* the newest lookback that a cursor was written from

sourceVars == <<edits, clock, updated, content>>
ledgerVars == <<outcome, attempts>>
taskVars == <<pc, todo, held, goal, base, key, bytes>>
vars == <<sourceVars, cursor, origin, ledgerVars, handed, taskVars>>

PC == {"idle", "list", "item", "check", "discard", "ingest", "record"}

TypeOK ==
  /\ edits \in 0..MaxEdits
  /\ clock \in 0..MaxTime
  /\ updated \in [Items -> 0..MaxTime]
  /\ content \in [Items -> Contents \cup {None}]
  /\ cursor \in Times \cup {None}
  /\ origin \in Times
  /\ outcome \in [Keys -> {"none", "ingested", "failed"}]
  /\ attempts \in [Keys -> 0..MaxAttempts]
  /\ handed \in SUBSET (Items \X Contents)
  /\ pc \in [Tasks -> PC]
  /\ todo \in [Tasks -> SUBSET Keys]
  /\ held \in [Tasks -> SUBSET Keys]
  /\ goal \in [Tasks -> Times]
  /\ base \in [Tasks -> Times]
  /\ key \in [Tasks -> Keys \cup {None}]
  /\ bytes \in [Tasks -> Contents \cup {None}]

Init ==
  /\ edits = 0
  /\ clock = 0
  /\ updated = [i \in Items |-> 0]
  /\ content = [i \in Items |-> None]
  /\ cursor = None
  /\ origin = 0 - Lookback
  /\ outcome = [k \in Keys |-> "none"]
  /\ attempts = [k \in Keys |-> 0]
  /\ handed = {}
  /\ pc = [t \in Tasks |-> "idle"]
  /\ todo = [t \in Tasks |-> {}]
  /\ held = [t \in Tasks |-> {}]
  /\ goal = [t \in Tasks |-> 0]
  /\ base = [t \in Tasks |-> 0]
  /\ key = [t \in Tasks |-> None]
  /\ bytes = [t \in Tasks |-> None]
-----------------------------------------------------------------------------
(***************************************************************************)
(* The source and the time.  They are outside the repository: what is      *)
(* assumed of them is what overlap_start, list_changed and describe rely   *)
(* on.                                                                     *)
(***************************************************************************)

\* Time passes without a change.
TimePasses ==
  /\ clock < MaxTime
  /\ clock' = clock + 1
  /\ UNCHANGED <<edits, updated, content, cursor, origin, ledgerVars, handed, taskVars>>

\* A candidate appears or changes, with or without an attachment.  The change
\* may become visible up to Skew ticks after the timestamp it shows.
SourceChanges(i, c) ==
  /\ edits < MaxEdits
  /\ edits' = edits + 1
  /\ \E t \in (clock - Skew)..(clock + 1) :
       /\ t \in 1..MaxTime /\ t >= updated[i]
       /\ updated' = [updated EXCEPT ![i] = t]
       /\ clock' = Max({clock, t})
  /\ content' = [content EXCEPT ![i] = c]
  /\ UNCHANGED <<cursor, origin, ledgerVars, handed, taskVars>>

\* A recruiter attaches the resume later, which need not move the timestamp.
SourceAttaches(i, c) ==
  /\ edits < MaxEdits
  /\ edits' = edits + 1
  /\ updated[i] > 0 /\ content[i] = None
  /\ content' = [content EXCEPT ![i] = c]
  /\ UNCHANGED <<clock, updated, cursor, origin, ledgerVars, handed, taskVars>>

\* The server's answer to "changed since".
Changed(since) == {i \in Items : updated[i] > 0 /\ updated[i] >= since}

\* Mutant of ListChanged: the newest of the page are kept.
ListChanged_Newest(since) ==
  {batch \in SUBSET Changed(since) :
     /\ Cardinality(batch) = Min({MaxItems, Cardinality(Changed(since))})
     /\ \A i \in batch, j \in Changed(since) \ batch : updated[i] >= updated[j]}

\* list_changed sorts the page, oldest first, and the runner keeps the first
\* MaxItems: ties are broken by the server's order.
ListChanged(since) ==
  {batch \in SUBSET Changed(since) :
     /\ Cardinality(batch) = Min({MaxItems, Cardinality(Changed(since))})
     /\ \A i \in batch, j \in Changed(since) \ batch : updated[i] <= updated[j]}
-----------------------------------------------------------------------------
(***************************************************************************)
(* The ledger.                                                             *)
(***************************************************************************)

\* Mutant of OverlapStart: the cursor as an exclusive bound, without an overlap.
OverlapStart_Exclusive(value) == value + 1

\* overlap_start
OverlapStart(value) == value - Overlap

\* next_cursor: the newest item of the batch, never backwards.
NextCursor(current, batch) == Max({current} \cup {updated[i] : i \in batch})

\* already_ingested
AlreadyIngested(i, c) == outcome[<<i, c>>] = "ingested"

Bumped(k) == Min({attempts[k] + 1, MaxAttempts})

\* record_item: one upsert; attempts is 1 on an insert and grows on a repeat.
RecordItem(k, o) ==
  /\ outcome' = [outcome EXCEPT ![k] = o]
  /\ attempts' = [attempts EXCEPT ![k] = Bumped(k)]

\* A task turns to its next item.
NextItem(t) ==
  /\ pc' = [pc EXCEPT ![t] = "item"]
  /\ todo' = [todo EXCEPT ![t] = @ \ {key[t]}]
  /\ key' = [key EXCEPT ![t] = None]
  /\ bytes' = [bytes EXCEPT ![t] = None]
  /\ UNCHANGED <<goal, base>>

Goto(t, label) ==
  /\ pc' = [pc EXCEPT ![t] = label]
  /\ UNCHANGED <<todo, held, goal, base, key, bytes>>

\* A task ends: completed, aborted or killed.
End(t) ==
  /\ pc' = [pc EXCEPT ![t] = "idle"]
  /\ todo' = [todo EXCEPT ![t] = {}]
  /\ held' = [held EXCEPT ![t] = {}]
  /\ goal' = [goal EXCEPT ![t] = 0]
  /\ base' = [base EXCEPT ![t] = 0]
  /\ key' = [key EXCEPT ![t] = None]
  /\ bytes' = [bytes EXCEPT ![t] = None]

\* adapter.fetch of the item of k succeeds.
Download(t, k) ==
  /\ pc[t] = "item" /\ k \in todo[t]
  /\ content[k[1]] # None
  /\ pc' = [pc EXCEPT ![t] = "check"]
  /\ key' = [key EXCEPT ![t] = k]
  /\ bytes' = [bytes EXCEPT ![t] = content[k[1]]]
  /\ UNCHANGED <<sourceVars, cursor, origin, ledgerVars, handed, todo, held, goal, base>>

\* The pair under which a task has downloaded its content.
Fetched(t) == <<key[t][1], bytes[t]>>

\* ingest_upload commits a job, or finds the active job of these bytes.
IngestUpload(t) ==
  /\ pc[t] = "ingest"
  /\ handed' = handed \cup {Fetched(t)}
  /\ Goto(t, "record")
  /\ UNCHANGED <<sourceVars, cursor, origin, ledgerVars>>
-----------------------------------------------------------------------------
(***************************************************************************)
(* The pull (run_sync).                                                    *)
(***************************************************************************)

\* read_cursor with its default: while there is no row, each pull looks back from
\* the time it starts at.
ReadCursor == IF cursor = None THEN clock - Lookback ELSE cursor

StartPull(r) ==
  /\ pc[r] = "idle"
  /\ pc' = [pc EXCEPT ![r] = "list"]
  /\ goal' = [goal EXCEPT ![r] = ReadCursor]
  /\ base' = [base EXCEPT ![r] = IF cursor = None THEN ReadCursor ELSE origin]
  /\ UNCHANGED <<sourceVars, cursor, origin, ledgerVars, handed, todo, held, key, bytes>>

\* The batch and the cursor that will be written once all of it is processed.
ListBatch(r) ==
  /\ pc[r] = "list"
  /\ pc' = [pc EXCEPT ![r] = "item"]
  /\ \E batch \in ListChanged(OverlapStart(goal[r])) :
       /\ todo' = [todo EXCEPT ![r] = batch \X {Unknown}]
       /\ goal' = [goal EXCEPT ![r] = NextCursor(goal[r], batch)]
  /\ UNCHANGED <<sourceVars, cursor, origin, ledgerVars, handed, held, base, key, bytes>>

\* Mutant of PullFetchFails: the failure leaves no ledger row.
PullFetchFails_NoRow(r, k) ==
  /\ pc[r] = "item" /\ k \in todo[r]
  /\ todo' = [todo EXCEPT ![r] = @ \ {k}]
  /\ UNCHANGED <<sourceVars, cursor, origin, ledgerVars, handed, pc, held, goal, base, key, bytes>>

\* ItemUnavailable: a failed row under the placeholder hash.
PullFetchFails(r, k) ==
  /\ pc[r] = "item" /\ k \in todo[r]
  /\ RecordItem(k, "failed")
  /\ todo' = [todo EXCEPT ![r] = @ \ {k}]
  /\ UNCHANGED <<sourceVars, cursor, origin, handed, pc, held, goal, base, key, bytes>>

\* already_ingested in a transaction of its own.
PullCheck(r) ==
  /\ pc[r] = "check"
  /\ IF AlreadyIngested(key[r][1], bytes[r])
       THEN NextItem(r) /\ UNCHANGED held
       ELSE Goto(r, "ingest")
  /\ UNCHANGED <<sourceVars, cursor, origin, ledgerVars, handed>>

\* The row that says so, in a transaction after the job's.
PullRecord(r) ==
  /\ pc[r] = "record"
  /\ RecordItem(Fetched(r), "ingested")
  /\ NextItem(r)
  /\ UNCHANGED <<sourceVars, cursor, origin, handed, held>>

\* The upload is rejected, or the upload or the row fails.
PullItemFails(r) ==
  /\ pc[r] \in {"ingest", "record"}
  /\ RecordItem(Fetched(r), "failed")
  /\ NextItem(r)
  /\ UNCHANGED <<sourceVars, cursor, origin, handed, held>>

\* write_cursor, after the whole batch: a row is inserted or updated.  Of two first
\* pulls that insert at once, one fails on the primary key and is an AbortPull.
FinishPull(r) ==
  /\ pc[r] = "item" /\ todo[r] = {}
  /\ cursor' = goal[r]
  /\ origin' = Max({origin, base[r]})
  /\ End(r)
  /\ UNCHANGED <<sourceVars, ledgerVars, handed>>

\* SourceUnavailable, any other exception, a time limit or a crash: the cursor
\* is not written.
AbortPull(r) ==
  /\ pc[r] # "idle"
  /\ End(r)
  /\ UNCHANGED <<sourceVars, cursor, origin, ledgerVars, handed>>
-----------------------------------------------------------------------------
(***************************************************************************)
(* The replay (replay_failed).                                             *)
(***************************************************************************)

Replayable(k) == outcome[k] = "failed" /\ attempts[k] < MaxAttempts

\* The failed rows below the attempts bound, read once.
StartReplay(p) ==
  LET rows == {k \in Keys : Replayable(k)} IN
  /\ pc[p] = "idle"
  /\ rows # {}
  /\ pc' = [pc EXCEPT ![p] = "item"]
  /\ todo' = [todo EXCEPT ![p] = rows]
  /\ held' = [held EXCEPT ![p] = rows]
  /\ UNCHANGED <<sourceVars, cursor, origin, ledgerVars, handed, goal, base, key, bytes>>

\* describe or fetch answers ItemUnavailable: _spend_attempt on the stored key.
ReplayFetchFails(p, k) ==
  /\ pc[p] = "item" /\ k \in todo[p]
  /\ RecordItem(k, "failed")
  /\ todo' = [todo EXCEPT ![p] = @ \ {k}]
  /\ UNCHANGED <<sourceVars, cursor, origin, handed, pc, held, goal, base, key, bytes>>

ReplayCheck(p) ==
  /\ pc[p] = "check"
  /\ Goto(p, IF AlreadyIngested(key[p][1], bytes[p]) THEN "discard" ELSE "ingest")
  /\ UNCHANGED <<sourceVars, cursor, origin, ledgerVars, handed>>

\* DELETE ... WHERE id: gone is the key of the deleted row, if it still exists.
\* No replay that selected the row can delete a later row of the same key.
Forget(gone) == held' = [t \in Tasks |-> held[t] \ gone]

\* _discard of a row whose content has been ingested.
Discard(p) ==
  LET gone == {key[p]} \cap held[p] IN
  /\ pc[p] = "discard"
  /\ outcome' = [k \in Keys |-> IF k \in gone THEN "none" ELSE outcome[k]]
  /\ attempts' = [k \in Keys |-> IF k \in gone THEN 0 ELSE attempts[k]]
  /\ Forget(gone)
  /\ NextItem(p)
  /\ UNCHANGED <<sourceVars, cursor, origin, handed>>

\* The row of the content, and the end of a placeholder, in one transaction.
ReplayRecord(p) ==
  LET gone == IF bytes[p] = key[p][2] THEN {} ELSE {key[p]} \cap held[p] IN
  /\ pc[p] = "record"
  /\ outcome' = [k \in Keys |-> IF k = Fetched(p) THEN "ingested"
                                ELSE IF k \in gone THEN "none" ELSE outcome[k]]
  /\ attempts' = [k \in Keys |-> IF k = Fetched(p) THEN Bumped(k)
                                 ELSE IF k \in gone THEN 0 ELSE attempts[k]]
  /\ Forget(gone)
  /\ NextItem(p)
  /\ UNCHANGED <<sourceVars, cursor, origin, handed>>

\* Mutant of ReplayItemFails: the failure is recorded under the fetched hash.
ReplayItemFails_FetchedHash(p) ==
  /\ pc[p] \in {"ingest", "record"}
  /\ RecordItem(Fetched(p), "failed")
  /\ NextItem(p)
  /\ UNCHANGED <<sourceVars, cursor, origin, handed, held>>

\* The upload or the row fails: _spend_attempt on the stored key.
ReplayItemFails(p) ==
  /\ pc[p] \in {"ingest", "record"}
  /\ RecordItem(key[p], "failed")
  /\ NextItem(p)
  /\ UNCHANGED <<sourceVars, cursor, origin, handed, held>>

\* The pass is over, or it is given up: the adapter cannot describe, the source
\* is unavailable, an exception, a time limit or a crash.
EndReplay(p) ==
  /\ pc[p] # "idle"
  /\ End(p)
  /\ UNCHANGED <<sourceVars, cursor, origin, ledgerVars, handed>>
-----------------------------------------------------------------------------
PullStep(r) ==
  \/ StartPull(r)
  \/ ListBatch(r)
  \/ \E k \in Keys : Download(r, k)
  \/ \E k \in Keys : PullFetchFails(r, k)
  \/ PullCheck(r)
  \/ IngestUpload(r)
  \/ PullRecord(r)
  \/ PullItemFails(r)
  \/ FinishPull(r)
  \/ AbortPull(r)

ReplayStep(p) ==
  \/ StartReplay(p)
  \/ \E k \in Keys : Download(p, k)
  \/ \E k \in Keys : ReplayFetchFails(p, k)
  \/ ReplayCheck(p)
  \/ Discard(p)
  \/ IngestUpload(p)
  \/ ReplayRecord(p)
  \/ ReplayItemFails(p)
  \/ EndReplay(p)

SourceStep ==
  \/ TimePasses
  \/ \E i \in Items, c \in Contents \cup {None} : SourceChanges(i, c)
  \/ \E i \in Items, c \in Contents : SourceAttaches(i, c)

Next ==
  \/ SourceStep
  \/ \E r \in Pulls : PullStep(r)
  \/ \E p \in Replays : ReplayStep(p)

Spec == Init /\ [][Next]_vars

\* A replay through the one adapter of the repository, which cannot describe an
\* item: it is over at its first row, and no attempt is spent.
InertReplay(p) == StartReplay(p) \/ EndReplay(p)

InertNext ==
  \/ SourceStep
  \/ \E r \in Pulls : PullStep(r)
  \/ \E p \in Replays : InertReplay(p)

InertSpec == Init /\ [][InertNext]_vars
-----------------------------------------------------------------------------
(***************************************************************************)
(* Safety.                                                                 *)
(***************************************************************************)

\* The candidate is within reach of the lookbacks that a cursor was written from,
\* and the next pull will not list it again.
Passed(i) ==
  /\ cursor # None /\ updated[i] > 0
  /\ updated[i] >= OverlapStart(origin) /\ updated[i] < OverlapStart(cursor)

\* The candidate has a ledger row or a job, for whichever content.
Seen(i) == \E h \in Hashes : <<i, h>> \in handed \/ outcome[<<i, h>>] # "none"

\* The cursor never leaves a candidate behind that no pull has looked at: not
\* when a batch is truncated, a pull is aborted, or two pulls write the cursor.
\* The promise begins with the lookback of the first pull that wrote a cursor, and
\* with the later one's when two pulls that found none overlap: an aborted first
\* pull does not hold its window (runner.py: FIRST_RUN_LOOKBACK).
NoCandidateLost == \A i \in Items : Passed(i) => Seen(i)

\* The same for the resume the source holds now, as long as replays are inert: it
\* has been handed to ingestion, or a row remembers that it could not be.
NoVersionLost ==
  \A i \in Items : Passed(i) /\ content[i] # None =>
    \/ <<i, content[i]>> \in handed
    \/ \E h \in {content[i], Unknown} : outcome[<<i, h>>] # "none"
-----------------------------------------------------------------------------
(***************************************************************************)
(* Liveness.  Beat keeps starting pulls and replays.  Any of them may fail, *)
(* and the time limit ends one that hangs, but not all of them fail: the   *)
(* source, the database and the object store let one through all of its    *)
(* items time and again, be it that an item is unavailable or rejected.    *)
(***************************************************************************)
PullFairness(r) == []<><<FinishPull(r)>>_vars

FinishReplay(p) == pc[p] = "item" /\ todo[p] = {} /\ EndReplay(p)

ReplayFairness(p) ==
  /\ WF_vars(StartReplay(p)) /\ WF_vars(EndReplay(p))
  /\ []<><<StartReplay(p)>>_vars => []<><<FinishReplay(p)>>_vars

FairPullSpec == Spec /\ \A r \in Pulls : PullFairness(r)

FairReplaySpec == Spec /\ \A p \in Replays : ReplayFairness(p)

\* The next pull will list the candidate, if its batch reaches that far.
Listable(i) == cursor # None /\ updated[i] > 0 /\ updated[i] >= OverlapStart(cursor)

\* The window up to the cursor fills a batch, so that no pull can move the cursor.
Crowded ==
  /\ cursor # None
  /\ Cardinality({i \in Changed(OverlapStart(cursor)) : updated[i] <= cursor}) >= MaxItems

\* Every candidate in reach of the cursor is looked at, through truncated batches and
\* aborted pulls, unless the overlap window stays as full as one batch
\* (runner.py: run_sync; ledger.py: overlap_start, next_cursor).
CandidatesSeen == \A i \in Items : Listable(i) ~> (Seen(i) \/ []Crowded)

\* Every failed row leaves the replay's selection, by success or by exhaustion:
\* no row is driven again forever.
RowsSettle == \A k \in Keys : Replayable(k) ~> ~Replayable(k)
=============================================================================
