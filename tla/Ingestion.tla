------------------------------- MODULE Ingestion -------------------------------
(***************************************************************************)
(* Asynchronous resume ingestion: API processes store an uploaded file in  *)
(* MinIO and insert a job row; Celery workers claim the job and drive it   *)
(* through parsing, extraction and scoring; a periodic sweeper reclaims    *)
(* jobs of dead workers and re-sends lost messages.                        *)
(*                                                                         *)
(* Every committed transaction is one step.  An external call (MinIO,      *)
(* MinerU, the LLM, the broker) separates two steps, because a process may *)
(* die on either side of it.  The object key is unique per upload and a    *)
(* job keeps the key of the upload that created it, so one id stands for   *)
(* the request, its object in MinIO and its job row.                       *)
(*                                                                         *)
(* Time is relative: a lease is kept as the ticks left until it expires    *)
(* (negative once expired), and a running task as the ticks left until     *)
(* Celery's task_time_limit kills it.                                      *)
(***************************************************************************)
EXTENDS IngestionStates, Integers

CONSTANTS
  Uploads,      \* upload requests; also the ids of their objects and job rows
  Files,        \* file contents, told apart by sha256
  People,       \* identities the extractor may return, told apart by pii_hash
  Workers,      \* Celery worker processes
  MaxAttempts,  \* INGESTION_MAX_ATTEMPTS
  TimeLimit,    \* Celery's task_time_limit, in ticks
  LeaseSeconds, \* INGESTION_LEASE_SECONDS, in ticks
  MaxMessages,  \* bound on the copies of one message in the broker
  None          \* SQL NULL

\* config.py and celery_app.py both require the lease to outlive the hard time
\* limit of the task that holds it (900 and 600 seconds by default).
ASSUME LeaseAssumption ==
  TimeLimit \in Nat /\ LeaseSeconds \in Nat /\ TimeLimit < LeaseSeconds

ASSUME AttemptsAssumption == MaxAttempts \in Nat \ {0}

ASSUME MessagesAssumption == MaxMessages \in Nat \ {0}

ASSUME NoneAssumption ==
  None \notin Uploads /\ None \notin People /\ None \notin Files /\ None \notin Int

VARIABLES
  \* table ingestion_jobs, one function per column
  state,        \* state; "none" while the row does not exist
  attempts,     \* attempts
  lease,        \* ticks left until lease_expires_at, or None
  age,          \* ticks since updated_at, counted while the row is queued
  candidateId,  \* candidate_id
  \* the other stores
  candidates,   \* table candidates: raw_file_key of the row of each pii_hash
  scores,       \* table scores: the candidates that have a score
  objects,      \* keys present in the MinIO bucket
  messages,     \* copies of each job's message in the broker
  \* processes
  upc,          \* where each upload request is
  file,         \* the content each request uploads
  outbox,       \* jobs a sweep has committed and not sent yet
  wpc,          \* where each worker is
  wjob,         \* the job it holds in memory
  wperson,      \* the candidate it holds in memory
  wrule,        \* jd_has_active_rule, as read at the start of run_job
  left          \* ticks until its task is killed

jobVars == <<state, attempts, lease, age, candidateId>>
storeVars == <<candidates, scores, objects>>
apiVars == <<upc, file>>
workerVars == <<wpc, wjob, wperson, wrule, left>>
vars == <<jobVars, storeVars, messages, apiVars, outbox, workerVars>>

(***************************************************************************)
(* Worker program counters.  The worker's in-memory row is never re-read,  *)
(* so its state is a function of the program counter: transition() asserts *)
(* on this value and then overwrites whatever the table holds.             *)
(***************************************************************************)
RunPC == {"parse", "extract", "delete", "resume", "link", "score", "complete"}
FailPC == {"fail_retryable", "fail_terminal"}

InMemoryState(pc) ==
  CASE pc \in {"parse", "resume"}           -> "parsing"
    [] pc \in {"extract", "delete", "link"} -> "extracting"
    [] pc \in {"score", "complete"}         -> "scoring"

Running(w) == wpc[w] # "idle"

UploadPC == {"idle", "find", "insert", "reread", "redundant", "cleanup",
             "enqueue", "done"}

TypeOK ==
  /\ state \in [Uploads -> IngestionState \cup {"none"}]
  /\ attempts \in [Uploads -> Nat]
  /\ lease \in [Uploads -> Int \cup {None}]
  /\ age \in [Uploads -> Nat]
  /\ candidateId \in [Uploads -> People \cup {None}]
  /\ candidates \in [People -> Uploads \cup {None}]
  /\ scores \in SUBSET People
  /\ objects \in SUBSET Uploads
  /\ messages \in [Uploads -> 0..MaxMessages]
  /\ upc \in [Uploads -> UploadPC]
  /\ file \in [Uploads -> Files \cup {None}]
  /\ outbox \in SUBSET Uploads
  /\ wpc \in [Workers -> {"idle"} \cup RunPC \cup FailPC]
  /\ wjob \in [Workers -> Uploads \cup {None}]
  /\ wperson \in [Workers -> People \cup {None}]
  /\ wrule \in [Workers -> BOOLEAN]
  /\ left \in [Workers -> 0..TimeLimit]

Init ==
  /\ state = [u \in Uploads |-> "none"]
  /\ attempts = [u \in Uploads |-> 0]
  /\ lease = [u \in Uploads |-> None]
  /\ age = [u \in Uploads |-> 0]
  /\ candidateId = [u \in Uploads |-> None]
  /\ candidates = [p \in People |-> None]
  /\ scores = {}
  /\ objects = {}
  /\ messages = [u \in Uploads |-> 0]
  /\ upc = [u \in Uploads |-> "idle"]
  /\ file = [u \in Uploads |-> None]
  /\ outbox = {}
  /\ wpc = [w \in Workers |-> "idle"]
  /\ wjob = [w \in Workers |-> None]
  /\ wperson = [w \in Workers |-> None]
  /\ wrule = [w \in Workers |-> FALSE]
  /\ left = [w \in Workers |-> 0]
-----------------------------------------------------------------------------
(***************************************************************************)
(* Intake (ingest_upload, IngestionJobService.create_or_reuse) and the     *)
(* upload routes.  Validation and the malware scan only reject a request.  *)
(***************************************************************************)

Goto(u, pc) == upc' = [upc EXCEPT ![u] = pc]

\* _find_active_by_sha256
ActiveJobs(f) == {j \in Uploads : file[j] = f /\ state[j] \in ActiveStates}

\* storage.store: the object is put under a fresh key and verified.
Store(u, f) ==
  /\ upc[u] = "idle"
  /\ Goto(u, "find")
  /\ file' = [file EXCEPT ![u] = f]
  /\ objects' = objects \cup {u}
  /\ UNCHANGED <<jobVars, candidates, scores, messages, outbox, workerVars>>

\* The fast path of create_or_reuse: a SELECT outside any lock.
FindActive(u) ==
  /\ upc[u] = "find"
  /\ Goto(u, IF ActiveJobs(file[u]) = {} THEN "insert" ELSE "redundant")
  /\ UNCHANGED <<jobVars, storeVars, messages, file, outbox, workerVars>>

\* Mutant of InsertJob: the table has no unique index on active sha256.
InsertJob_NoIndex(u) ==
  /\ upc[u] = "insert"
  /\ state' = [state EXCEPT ![u] = "queued"]
  /\ Goto(u, "enqueue")
  /\ UNCHANGED <<attempts, lease, age, candidateId, storeVars, messages, file,
                 outbox, workerVars>>

\* INSERT ... ON CONFLICT DO NOTHING against the partial unique index, and the
\* commit of ingest_upload when the row was created.
InsertJob(u) ==
  /\ upc[u] = "insert"
  /\ ActiveJobs(file[u]) = {}
  /\ state' = [state EXCEPT ![u] = "queued"]
  /\ Goto(u, "enqueue")
  /\ UNCHANGED <<attempts, lease, age, candidateId, storeVars, messages, file,
                 outbox, workerVars>>

\* The INSERT met an active row of the same sha256.
InsertConflict(u) ==
  /\ upc[u] = "insert"
  /\ ActiveJobs(file[u]) # {}
  /\ Goto(u, "reread")
  /\ UNCHANGED <<jobVars, storeVars, messages, file, outbox, workerVars>>

\* The row is read again; RuntimeError when it is no longer active.
Reread(u) ==
  /\ upc[u] = "reread"
  /\ Goto(u, IF ActiveJobs(file[u]) = {} THEN "cleanup" ELSE "redundant")
  /\ UNCHANGED <<jobVars, storeVars, messages, file, outbox, workerVars>>

\* A statement or the commit of ingest_upload fails and is rolled back.
IntakeFails(u) ==
  /\ upc[u] \in {"find", "insert", "reread"}
  /\ Goto(u, "cleanup")
  /\ UNCHANGED <<jobVars, storeVars, messages, file, outbox, workerVars>>

\* A job was reused: the object just stored is dropped.  A failed delete
\* raises StorageError and is tried once more by the exception handler.
DropRedundant(u) ==
  /\ upc[u] = "redundant"
  /\ \/ Goto(u, "done") /\ objects' = objects \ {u}
     \/ Goto(u, "cleanup") /\ UNCHANGED objects
  /\ UNCHANGED <<jobVars, candidates, scores, messages, file, outbox, workerVars>>

\* The exception handler of ingest_upload; a failed delete is only logged.
CleanUp(u) ==
  /\ upc[u] = "cleanup"
  /\ Goto(u, "done")
  /\ objects' \in {objects, objects \ {u}}
  /\ UNCHANGED <<jobVars, candidates, scores, messages, file, outbox, workerVars>>

\* A message is published only while the bound leaves room for it.
Send(j) ==
  /\ messages[j] < MaxMessages
  /\ messages' = [messages EXCEPT ![j] = @ + 1]

\* enqueue_job, called by the routes after the commit.
EnqueueJob(u) ==
  /\ upc[u] = "enqueue"
  /\ Send(u)
  /\ Goto(u, "done")
  /\ UNCHANGED <<jobVars, storeVars, file, outbox, workerVars>>

\* The API process dies, or the broker refuses the message: whatever the
\* request has not done yet is never done.
ApiDies(u) ==
  /\ upc[u] \notin {"idle", "done"}
  /\ Goto(u, "done")
  /\ UNCHANGED <<jobVars, storeVars, messages, file, outbox, workerVars>>

-----------------------------------------------------------------------------
(***************************************************************************)
(* The worker (parse_and_score_task, run_job, _fail_job).                  *)
(***************************************************************************)

Continue(w, pc) == wpc' = [wpc EXCEPT ![w] = pc]

\* The task returns or its process is gone: its memory is lost.
Release(w) ==
  /\ Continue(w, "idle")
  /\ wjob' = [wjob EXCEPT ![w] = None]
  /\ wperson' = [wperson EXCEPT ![w] = None]
  /\ wrule' = [wrule EXCEPT ![w] = FALSE]
  /\ left' = [left EXCEPT ![w] = 0]

\* Mutant of Transition: lease_expires_at is not cleared.
Transition_KeepsLease(j, inMemory, target) ==
  /\ AssertTransition(inMemory, target)
  /\ state' = [state EXCEPT ![j] = target]
  /\ UNCHANGED <<attempts, lease, age>>

\* IngestionJobService.transition and its commit: the assertion is on the state
\* the caller has in memory, the write is unconditional.
Transition(j, inMemory, target) ==
  /\ AssertTransition(inMemory, target)
  /\ state' = [state EXCEPT ![j] = target]
  /\ lease' = IF target \in ProcessingStates
                THEN lease ELSE [lease EXCEPT ![j] = None]
  /\ UNCHANGED <<attempts, age>>

\* A worker takes a message off the broker and claims the row with
\* FOR UPDATE SKIP LOCKED; the JD's active rule is read once, here.
Claim(w, j) ==
  /\ wpc[w] = "idle"
  /\ messages[j] > 0
  /\ state[j] = "queued"
  /\ messages' = [messages EXCEPT ![j] = @ - 1]
  /\ state' = [state EXCEPT ![j] = "parsing"]
  /\ attempts' = [attempts EXCEPT ![j] = @ + 1]
  /\ lease' = [lease EXCEPT ![j] = LeaseSeconds]
  /\ age' = [age EXCEPT ![j] = 0]
  /\ Continue(w, IF candidateId[j] = None THEN "parse" ELSE "resume")
  /\ wjob' = [wjob EXCEPT ![w] = j]
  /\ wperson' = [wperson EXCEPT ![w] = candidateId[j]]
  /\ \E rule \in BOOLEAN : wrule' = [wrule EXCEPT ![w] = rule]
  /\ left' = [left EXCEPT ![w] = TimeLimit]
  /\ UNCHANGED <<candidateId, storeVars, apiVars, outbox>>

\* A duplicate message finds no queued row and the task returns.
ClaimNothing(j) ==
  /\ \E w \in Workers : wpc[w] = "idle"
  /\ messages[j] > 0
  /\ state[j] # "queued"
  /\ messages' = [messages EXCEPT ![j] = @ - 1]
  /\ UNCHANGED <<jobVars, storeVars, apiVars, outbox, workerVars>>

\* download_verified and MinerU succeed; the job enters extracting.
Parse(w) ==
  LET j == wjob[w] IN
  /\ wpc[w] = "parse"
  /\ j \in objects
  /\ Transition(j, InMemoryState("parse"), "extracting")
  /\ Continue(w, "extract")
  /\ UNCHANGED <<candidateId, storeVars, messages, apiVars, outbox,
                 wjob, wperson, wrule, left>>

\* Mutant of EnterTail: candidate_id is never assigned to the job.
EnterTail_NotLinked(w, p) ==
  /\ Transition(wjob[w], "extracting", IF wrule[w] THEN "scoring" ELSE "ready")
  /\ IF wrule[w]
       THEN /\ Continue(w, "score")
            /\ wperson' = [wperson EXCEPT ![w] = p]
            /\ UNCHANGED <<wjob, wrule, left>>
       ELSE Release(w)
  /\ UNCHANGED candidateId

\* candidate_id and the transition out of extracting are committed together.
EnterTail(w, p) ==
  LET j == wjob[w] IN
  /\ candidateId' = [candidateId EXCEPT ![j] = p]
  /\ Transition(j, "extracting", IF wrule[w] THEN "scoring" ELSE "ready")
  /\ IF wrule[w]
       THEN /\ Continue(w, "score")
            /\ wperson' = [wperson EXCEPT ![w] = p]
            /\ UNCHANGED <<wjob, wrule, left>>
       ELSE Release(w)

\* The extractor returns p and the INSERT of a new candidate wins; candidate,
\* candidate_id and the next state are one transaction.
InsertCandidate(w, p) ==
  /\ wpc[w] = "extract"
  /\ candidates[p] = None
  /\ candidates' = [candidates EXCEPT ![p] = wjob[w]]
  /\ EnterTail(w, p)
  /\ UNCHANGED <<scores, objects, messages, apiVars, outbox>>

\* The pii_hash exists already and the raw file of its row is verified.
ReuseCandidate(w, p) ==
  /\ wpc[w] = "extract"
  /\ candidates[p] \in objects
  /\ Continue(w, "delete")
  /\ wperson' = [wperson EXCEPT ![w] = p]
  /\ UNCHANGED <<jobVars, storeVars, messages, apiVars, outbox, wjob, wrule, left>>

\* Mutant of DeleteDuplicate: the key of the existing candidate is deleted.
DeleteDuplicate_CanonicalKey(w) ==
  /\ wpc[w] = "delete"
  /\ objects' = objects \ {candidates[wperson[w]]}
  /\ Continue(w, "link")
  /\ UNCHANGED <<jobVars, candidates, scores, messages, apiVars, outbox,
                 wjob, wperson, wrule, left>>

\* storage.delete of the job's own object, before anything is committed.
DeleteDuplicate(w) ==
  /\ wpc[w] = "delete"
  /\ objects' = objects \ {wjob[w]}
  /\ Continue(w, "link")
  /\ UNCHANGED <<jobVars, candidates, scores, messages, apiVars, outbox,
                 wjob, wperson, wrule, left>>

\* A retry that already has a candidate goes straight to extracting.
Resume(w) ==
  /\ wpc[w] = "resume"
  /\ Transition(wjob[w], InMemoryState("resume"), "extracting")
  /\ Continue(w, "link")
  /\ UNCHANGED <<candidateId, storeVars, messages, apiVars, outbox,
                 wjob, wperson, wrule, left>>

\* The common tail of run_job for a candidate that exists.
Link(w) ==
  /\ wpc[w] = "link"
  /\ EnterTail(w, wperson[w])
  /\ UNCHANGED <<storeVars, messages, apiVars, outbox>>

\* ScoringPipeline.run commits the score (or finds it) in transactions of its own.
Score(w) ==
  /\ wpc[w] = "score"
  /\ scores' = scores \cup {wperson[w]}
  /\ Continue(w, "complete")
  /\ UNCHANGED <<jobVars, candidates, objects, messages, apiVars, outbox,
                 wjob, wperson, wrule, left>>

\* score_id and the transition to completed.
Complete(w) ==
  /\ wpc[w] = "complete"
  /\ Transition(wjob[w], InMemoryState("complete"), "completed")
  /\ Release(w)
  /\ UNCHANGED <<candidateId, storeVars, messages, apiVars, outbox>>

\* An error outside TERMINAL_ERRORS: any call may raise one, and a missing
\* object or an unverifiable existing candidate always does.
RaiseRetryable(w) ==
  /\ wpc[w] \in RunPC
  /\ Continue(w, "fail_retryable")
  /\ UNCHANGED <<jobVars, storeVars, messages, apiVars, outbox,
                 wjob, wperson, wrule, left>>

\* TERMINAL_ERRORS come from MinerU and from the LLM gateway.
RaiseTerminal(w) ==
  /\ wpc[w] \in {"parse", "extract", "score"}
  /\ wpc[w] = "parse" => wjob[w] \in objects
  /\ Continue(w, "fail_terminal")
  /\ UNCHANGED <<jobVars, storeVars, messages, apiVars, outbox,
                 wjob, wperson, wrule, left>>

\* _fail_job: the row is read in a fresh session without a lock; an
\* InvalidTransitionError leaves it as it is.
FailJob(w) ==
  LET j == wjob[w]
      target == IF wpc[w] = "fail_terminal"
                  THEN "terminal_failed" ELSE "retryable_failed"
  IN
  /\ wpc[w] \in FailPC
  /\ IF state[j] \in IngestionState /\ AssertTransition(state[j], target)
       THEN Transition(j, state[j], target)
       ELSE UNCHANGED <<state, attempts, lease, age>>
  /\ Release(w)
  /\ UNCHANGED <<candidateId, storeVars, messages, apiVars, outbox>>

\* The worker process crashes, is killed by the time limit, or _fail_job itself
\* raises: the row keeps its processing state and its lease.
WorkerDies(w) ==
  /\ Running(w)
  /\ Release(w)
  /\ UNCHANGED <<jobVars, storeVars, messages, apiVars, outbox>>

-----------------------------------------------------------------------------
(***************************************************************************)
(* The sweeper (sweep, sweep_task), the broker and time.                   *)
(***************************************************************************)

\* Mutant of Expired: the lease is not compared with the clock.
Expired_AnyLease(j) == state[j] \in ProcessingStates /\ lease[j] # None

\* Step 1: processing rows whose lease has expired.
Expired(j) == state[j] \in ProcessingStates /\ lease[j] # None /\ lease[j] < 0

\* Steps 2 and 3 look at the rows of step 1 and at retryable_failed rows.
Retryable(j) == Expired(j) \/ state[j] = "retryable_failed"

\* Mutant of Requeued: off by one at the attempts limit.
Requeued_OffByOne(j) == Retryable(j) /\ attempts[j] <= MaxAttempts

\* Step 2.
Requeued(j) == Retryable(j) /\ attempts[j] < MaxAttempts

\* Mutant of Stranded: the NULL test is inverted.
Stranded_Leased(j) == state[j] = "queued" /\ lease[j] # None /\ age[j] > LeaseSeconds

\* Step 4: queued, never claimed, not updated for longer than the lease.
Stranded(j) == state[j] = "queued" /\ lease[j] = None /\ age[j] > LeaseSeconds

\* One sweep and its commit.
Sweep ==
  /\ \E j \in Uploads : Retryable(j) \/ Stranded(j)
  /\ state' = [j \in Uploads |-> IF Requeued(j) THEN "queued"
                                 ELSE IF Retryable(j) THEN "terminal_failed"
                                 ELSE state[j]]
  /\ lease' = [j \in Uploads |-> IF Expired(j) THEN None ELSE lease[j]]
  /\ age' = [j \in Uploads |-> IF Retryable(j) THEN 0 ELSE age[j]]
  /\ outbox' = outbox \cup {j \in Uploads : Requeued(j) \/ Stranded(j)}
  /\ UNCHANGED <<attempts, candidateId, storeVars, messages, apiVars, workerVars>>

\* send_task for one requeued id, after the commit.
SendRequeued(j) ==
  /\ j \in outbox
  /\ Send(j)
  /\ outbox' = outbox \ {j}
  /\ UNCHANGED <<jobVars, storeVars, apiVars, workerVars>>

\* The sweep task dies or the broker fails between the commit and the last send.
SweeperDies ==
  /\ outbox # {}
  /\ outbox' = {}
  /\ UNCHANGED <<jobVars, storeVars, messages, apiVars, workerVars>>

\* The broker loses a message.
LoseMessage(j) ==
  /\ messages[j] > 0
  /\ messages' = [messages EXCEPT ![j] = @ - 1]
  /\ UNCHANGED <<jobVars, storeVars, apiVars, outbox, workerVars>>

\* Time passes; a task at its time limit is killed before it does.
Tick ==
  /\ \A w \in Workers : Running(w) => left[w] > 0
  /\ lease' = [j \in Uploads |-> IF lease[j] # None /\ lease[j] >= 0
                                   THEN lease[j] - 1 ELSE lease[j]]
  /\ age' = [j \in Uploads |-> IF state[j] = "queued" /\ age[j] <= LeaseSeconds
                                 THEN age[j] + 1 ELSE age[j]]
  /\ left' = [w \in Workers |-> IF Running(w) THEN left[w] - 1 ELSE left[w]]
  /\ UNCHANGED <<state, attempts, candidateId, storeVars, messages, apiVars,
                 outbox, wpc, wjob, wperson, wrule>>

-----------------------------------------------------------------------------
UploadStep(u) ==
  \/ \E f \in Files : Store(u, f)
  \/ FindActive(u)
  \/ InsertJob(u)
  \/ InsertConflict(u)
  \/ Reread(u)
  \/ IntakeFails(u)
  \/ DropRedundant(u)
  \/ CleanUp(u)
  \/ EnqueueJob(u)
  \/ ApiDies(u)

WorkerStep(w) ==
  \/ \E j \in Uploads : Claim(w, j)
  \/ Parse(w)
  \/ \E p \in People : InsertCandidate(w, p)
  \/ \E p \in People : ReuseCandidate(w, p)
  \/ DeleteDuplicate(w)
  \/ Resume(w)
  \/ Link(w)
  \/ Score(w)
  \/ Complete(w)
  \/ RaiseRetryable(w)
  \/ RaiseTerminal(w)
  \/ FailJob(w)
  \/ WorkerDies(w)

Next ==
  \/ \E u \in Uploads : UploadStep(u)
  \/ \E w \in Workers : WorkerStep(w)
  \/ \E j \in Uploads : ClaimNothing(j) \/ SendRequeued(j) \/ LoseMessage(j)
  \/ Sweep
  \/ SweeperDies
  \/ Tick

Spec == Init /\ [][Next]_vars
-----------------------------------------------------------------------------
(***************************************************************************)
(* Safety.                                                                 *)
(***************************************************************************)

\* A running worker's view of its job is current: the in-memory state on which
\* transition() asserts is the committed one, the lease has not expired, and no
\* other worker runs the job.  Nothing in the code compares a lease owner; this
\* rests on the lease outliving the time limit.
InMemoryStateCurrent ==
  \A w \in Workers : Running(w) =>
    LET j == wjob[w] IN
    /\ wpc[w] \in RunPC => state[j] = InMemoryState(wpc[w])
    /\ state[j] \in ProcessingStates
    /\ ~Expired(j)
    /\ \A v \in Workers : Running(v) /\ wjob[v] = j => v = w

\* The raw file of every candidate stays in MinIO: neither the duplicate branch
\* of _insert_or_reuse_candidate nor the compensating deletes of intake ever
\* remove the canonical copy.
CandidateFileIntact ==
  \A p \in People : candidates[p] # None => candidates[p] \in objects

\* A row has a lease exactly while it is processing.  A processing row without
\* one is never reclaimed, a queued row with one is never re-sent.
LeaseIffProcessing ==
  \A j \in Uploads : lease[j] # None <=> state[j] \in ProcessingStates

\* A job reported ready or completed names a candidate that exists, and a
\* completed one a candidate that has a score.
ResultsBehindJobs ==
  \A j \in Uploads :
    /\ state[j] \in {"ready", "completed"} => /\ candidateId[j] # None
                                              /\ candidates[candidateId[j]] # None
    /\ state[j] = "completed" => candidateId[j] \in scores

\* The partial unique index is never at stake after the insert either: no
\* worker or sweep revives a job whose sha256 has been taken by a newer one.
OneActiveJobPerFile ==
  \A f \in Files : \A i, j \in ActiveJobs(f) : i = j

Lifecycle == INSTANCE JobLifecycle WITH Jobs <- Uploads

\* Every job implements the lifecycle, although transition() and _fail_job
\* write without looking at the row they overwrite.
JobsFollowLifecycle == Lifecycle!Spec

-----------------------------------------------------------------------------
(***************************************************************************)
(* Liveness.  Beat keeps starting sweeps, Celery kills a task that reaches *)
(* its time limit, and the broker loses messages but not every one of a    *)
(* job's.  Nothing else is fair: requests, workers and even the sweeper    *)
(* between its commit and its sends may die at any time.                   *)
(***************************************************************************)
Fairness ==
  /\ WF_vars(Tick)
  /\ WF_vars(Sweep)
  /\ \A w \in Workers : WF_vars(left[w] = 0 /\ WorkerDies(w))
  /\ \A j \in Uploads : /\ SF_vars(SendRequeued(j))
                        /\ SF_vars(\E w \in Workers : Claim(w, j))

FairSpec == Spec /\ Fairness

\* Every accepted upload is settled: its job reaches ready, completed or
\* terminal_failed, whoever dies and whichever messages are lost.
JobsSettle ==
  \A j \in Uploads : state[j] \in ActiveStates ~> state[j] \in TerminalStates
=============================================================================
