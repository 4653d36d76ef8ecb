---------------------------- MODULE IngestionProofs ----------------------------
(***************************************************************************)
(* Safety of Ingestion for every number of uploads, files, people and      *)
(* workers, every attempts limit, and every time limit below the lease.    *)
(***************************************************************************)
EXTENDS Ingestion, TLAPS

(***************************************************************************)
(* The inductive invariant.  The safety properties are not inductive: the  *)
(* view of a worker is current because its lease has more ticks left than  *)
(* its time limit (OwnerInv), no two workers share a job (ExclusiveInv),   *)
(* and a file is never deleted under a candidate because the job that owns *)
(* the file carries the candidate's id (PersonInv, AbsentInv, LinkInv).    *)
(***************************************************************************)

\* What a worker knows about its job at each program counter.
OwnerInv ==
  \A w \in Workers : Running(w) =>
    /\ wjob[w] \in Uploads
    /\ state[wjob[w]] \in ProcessingStates
    /\ wpc[w] \in RunPC => state[wjob[w]] = InMemoryState(wpc[w])
    /\ lease[wjob[w]] # None /\ lease[wjob[w]] > left[w]

ExclusiveInv ==
  \A v, w \in Workers : Running(v) /\ Running(w) /\ wjob[v] = wjob[w] => v = w

\* What a worker knows about the object and the candidate of its job.
PersonInv ==
  \A w \in Workers :
    /\ wpc[w] \in {"parse", "extract", "delete"} => candidateId[wjob[w]] = None
    /\ wpc[w] \in {"extract", "delete"} => wjob[w] \in objects
    /\ wpc[w] \in {"delete", "resume", "link", "score", "complete"} =>
         wperson[w] \in People /\ candidates[wperson[w]] # None
    /\ wpc[w] \in {"resume", "score", "complete"} => candidateId[wjob[w]] = wperson[w]
    /\ wpc[w] = "link" => candidateId[wjob[w]] \in {None, wperson[w]}
    /\ wpc[w] = "complete" => wperson[w] \in scores

\* A request that has not inserted its row yet, and a row that does not exist.
AbsentInv ==
  \A u \in Uploads :
    /\ upc[u] \in {"idle", "find", "insert", "reread", "redundant", "cleanup"}
         => state[u] = "none"
    /\ state[u] = "none" => candidateId[u] = None /\ attempts[u] = 0

\* Rows and candidates point at each other.
LinkInv ==
  /\ \A p \in People : \A j \in Uploads : candidates[p] = j => candidateId[j] = p
  /\ \A j \in Uploads : candidateId[j] # None => candidates[candidateId[j]] # None

AttemptsInv ==
  \A j \in Uploads :
    /\ attempts[j] <= MaxAttempts
    /\ state[j] = "queued" => attempts[j] < MaxAttempts

IInv ==
  /\ TypeOK
  /\ OwnerInv
  /\ ExclusiveInv
  /\ PersonInv
  /\ AbsentInv
  /\ LinkInv
  /\ AttemptsInv
  /\ CandidateFileIntact
  /\ LeaseIffProcessing
  /\ ResultsBehindJobs
  /\ OneActiveJobPerFile

\* The shapes of state, lease and the worker's memory that transition() and the
\* end of a task leave behind.
LEMMA TransitionType ==
  ASSUME TypeOK, NEW j, NEW s, NEW target \in IngestionState, Transition(j, s, target)
  PROVE  /\ state' \in [Uploads -> IngestionState \cup {"none"}]
         /\ attempts' \in [Uploads -> Nat]
         /\ lease' \in [Uploads -> Int \cup {None}]
         /\ age' \in [Uploads -> Nat]
BY DEF TypeOK, Transition

\* The end of a task resets the worker's memory.
LEMMA ReleaseType ==
  ASSUME TypeOK, NEW w \in Workers, Release(w)
  PROVE  /\ wpc' \in [Workers -> {"idle"} \cup RunPC \cup FailPC]
         /\ wjob' \in [Workers -> Uploads \cup {None}]
         /\ wperson' \in [Workers -> People \cup {None}]
         /\ wrule' \in [Workers -> BOOLEAN]
         /\ left' \in [Workers -> 0..TimeLimit]
BY LeaseAssumption DEF TypeOK, Release, Continue

\* Both branches of the tail keep the types: with a rule the worker goes on, and
\* without one the task returns.
LEMMA InsertCandidateType ==
  ASSUME IInv, NEW w \in Workers, NEW p \in People, InsertCandidate(w, p)
  PROVE  TypeOK'
<1>. USE DEF IInv, TypeOK, InsertCandidate, EnterTail, IngestionState,
             ProcessingStates, TerminalStates, apiVars, storeVars
<1>1. CASE wrule[w]
  BY <1>1, TransitionType DEF Continue, RunPC
<1>2. CASE ~wrule[w]
  BY <1>2, TransitionType, ReleaseType
<1>. QED  BY <1>1, <1>2

\* The same for a candidate that exists.
LEMMA LinkType ==
  ASSUME IInv, NEW w \in Workers, Link(w)
  PROVE  TypeOK'
<1>. USE DEF IInv, TypeOK, Link, EnterTail, IngestionState, ProcessingStates,
             TerminalStates, apiVars, storeVars
<1>1. CASE wrule[w]
  BY <1>1, TransitionType DEF Continue, RunPC
<1>2. CASE ~wrule[w]
  BY <1>2, TransitionType, ReleaseType
<1>. QED  BY <1>1, <1>2

\* The last transition releases the worker.
LEMMA CompleteType ==
  ASSUME IInv, NEW w \in Workers, Complete(w)
  PROVE  TypeOK'
BY TransitionType, ReleaseType
   DEF IInv, TypeOK, Complete, IngestionState, TerminalStates, apiVars, storeVars

\* _fail_job makes no inactive row active.
LEMMA FailJobOne ==
  ASSUME IInv, NEW w \in Workers, FailJob(w)
  PROVE  OneActiveJobPerFile'
<1>1. /\ file' = file
      /\ \A k \in Uploads : state'[k] \in ActiveStates => state[k] \in ActiveStates
  BY DEF IInv, TypeOK, OwnerInv, Running, FailPC, FailJob, Transition, apiVars,
         ActiveStates, IngestionState, ProcessingStates, TerminalStates
<1>. QED  BY <1>1 DEF IInv, OneActiveJobPerFile, ActiveJobs


-----------------------------------------------------------------------------
(***************************************************************************)
(* One lemma per action: the parts of the invariant it disturbs, each with *)
(* what it rests on, and then the parts whose variables it leaves alone.   *)
(***************************************************************************)

\* A new object under a fresh key, of a request without a row.
LEMMA StoreStep ==
  ASSUME IInv, NEW u \in Uploads, NEW f \in Files,
         Store(u, f)
  PROVE  IInv'
<1>. USE DEF IInv, Store, Goto, jobVars, storeVars, apiVars, workerVars
<1>1. TypeOK'
  BY DEF TypeOK, UploadPC
<1>2. PersonInv'
  BY DEF PersonInv
<1>3. AbsentInv'
  BY DEF AbsentInv
<1>4. CandidateFileIntact'
  BY DEF CandidateFileIntact
<1>5. OneActiveJobPerFile'
  BY DEF OneActiveJobPerFile, ActiveJobs, ActiveStates, IngestionState,
         ProcessingStates, AbsentInv
<1>6. /\ OwnerInv'
      /\ ExclusiveInv'
      /\ LinkInv'
      /\ AttemptsInv'
      /\ LeaseIffProcessing'
      /\ ResultsBehindJobs'
  BY DEF OwnerInv, Running, ExclusiveInv, LinkInv, AttemptsInv,
         LeaseIffProcessing, ResultsBehindJobs
<1>. QED  BY <1>1, <1>2, <1>3, <1>4, <1>5, <1>6

\* The row is inserted only when no active row has its sha256.
LEMMA InsertJobStep ==
  ASSUME IInv, NEW u \in Uploads, InsertJob(u)
  PROVE  IInv'
<1>. USE DEF IInv, InsertJob, Goto, jobVars, storeVars, apiVars, workerVars
<1>1. TypeOK'
  BY DEF TypeOK, IngestionState, UploadPC
<1>2. OwnerInv'
  BY DEF OwnerInv, Running, ProcessingStates, AbsentInv
<1>3. AbsentInv'
  BY DEF AbsentInv, TypeOK
<1>4. AttemptsInv'
  BY AttemptsAssumption DEF AttemptsInv, AbsentInv
<1>5. LeaseIffProcessing'
  BY DEF LeaseIffProcessing, ProcessingStates, AbsentInv
<1>6. ResultsBehindJobs'
  BY DEF ResultsBehindJobs
<1>7. OneActiveJobPerFile'
  BY DEF OneActiveJobPerFile, ActiveJobs
<1>8. /\ ExclusiveInv'
      /\ PersonInv'
      /\ LinkInv'
      /\ CandidateFileIntact'
  BY DEF ExclusiveInv, Running, PersonInv, LinkInv, CandidateFileIntact
<1>. QED  BY <1>1, <1>2, <1>3, <1>4, <1>5, <1>6, <1>7, <1>8

\* Only the request's own object is dropped, and its row does not exist: no
\* worker runs it and no candidate names it.
LEMMA DropRedundantStep ==
  ASSUME IInv, NEW u \in Uploads, DropRedundant(u)
  PROVE  IInv'
<1>. USE DEF IInv, DropRedundant, Goto, jobVars, storeVars, apiVars,
             workerVars
<1>1. TypeOK'
  BY DEF TypeOK, UploadPC
<1>2. PersonInv'
  BY DEF PersonInv, OwnerInv, Running, AbsentInv, ProcessingStates
<1>3. AbsentInv'
  BY DEF AbsentInv, TypeOK
<1>4. CandidateFileIntact'
  BY NoneAssumption DEF CandidateFileIntact, LinkInv, AbsentInv
<1>5. /\ OwnerInv'
      /\ ExclusiveInv'
      /\ LinkInv'
      /\ AttemptsInv'
      /\ LeaseIffProcessing'
      /\ ResultsBehindJobs'
      /\ OneActiveJobPerFile'
  BY DEF OwnerInv, Running, ExclusiveInv, LinkInv, AttemptsInv,
         LeaseIffProcessing, ResultsBehindJobs, OneActiveJobPerFile,
         ActiveJobs
<1>. QED  BY <1>1, <1>2, <1>3, <1>4, <1>5

\* The same for the compensating delete.
LEMMA CleanUpStep ==
  ASSUME IInv, NEW u \in Uploads, CleanUp(u)
  PROVE  IInv'
<1>. USE DEF IInv, CleanUp, Goto, jobVars, storeVars, apiVars, workerVars
<1>1. TypeOK'
  BY DEF TypeOK, UploadPC
<1>2. PersonInv'
  BY DEF PersonInv, OwnerInv, Running, AbsentInv, ProcessingStates
<1>3. AbsentInv'
  BY DEF AbsentInv
<1>4. CandidateFileIntact'
  BY NoneAssumption DEF CandidateFileIntact, LinkInv, AbsentInv
<1>5. /\ OwnerInv'
      /\ ExclusiveInv'
      /\ LinkInv'
      /\ AttemptsInv'
      /\ LeaseIffProcessing'
      /\ ResultsBehindJobs'
      /\ OneActiveJobPerFile'
  BY DEF OwnerInv, Running, ExclusiveInv, LinkInv, AttemptsInv,
         LeaseIffProcessing, ResultsBehindJobs, OneActiveJobPerFile,
         ActiveJobs
<1>. QED  BY <1>1, <1>2, <1>3, <1>4, <1>5

\* The claimed row was queued, so no other worker runs it, and its fresh lease
\* exceeds the time limit.
LEMMA ClaimStep ==
  ASSUME IInv, NEW w \in Workers, NEW j \in Uploads,
         Claim(w, j)
  PROVE  IInv'
<1>. USE DEF IInv, Claim, Continue, jobVars, storeVars, apiVars, workerVars
<1>1. TypeOK'
  BY LeaseAssumption, MessagesAssumption DEF TypeOK, IngestionState,
         ProcessingStates, RunPC
<1>2. OwnerInv'
  BY LeaseAssumption, NoneAssumption DEF OwnerInv, TypeOK, Running,
         InMemoryState, RunPC, ProcessingStates
<1>3. ExclusiveInv'
  BY DEF ExclusiveInv, OwnerInv, TypeOK, Running, ProcessingStates
<1>4. PersonInv'
  BY DEF PersonInv, LinkInv, TypeOK
<1>5. AbsentInv'
  BY DEF AbsentInv
<1>6. AttemptsInv'
  BY AttemptsAssumption DEF AttemptsInv, TypeOK
<1>7. LeaseIffProcessing'
  BY LeaseAssumption, NoneAssumption DEF LeaseIffProcessing, TypeOK,
         ProcessingStates
<1>8. ResultsBehindJobs'
  BY DEF ResultsBehindJobs
<1>9. OneActiveJobPerFile'
  BY DEF OneActiveJobPerFile, ActiveJobs, ActiveStates, IngestionState,
         TerminalStates
<1>10. LinkInv' /\ CandidateFileIntact'
  BY DEF LinkInv, CandidateFileIntact
<1>. QED  BY <1>1, <1>2, <1>3, <1>4, <1>5, <1>6, <1>7, <1>8, <1>9, <1>10

\* The transition out of parsing.
LEMMA ParseStep ==
  ASSUME IInv, NEW w \in Workers, Parse(w)
  PROVE  IInv'
<1>. USE DEF IInv, Parse, Continue, Transition, jobVars, storeVars, apiVars,
             workerVars
<1>1. TypeOK'
  BY DEF TypeOK, IngestionState, ProcessingStates, RunPC
<1>2. OwnerInv'
  BY DEF OwnerInv, ExclusiveInv, TypeOK, Running, InMemoryState,
         ProcessingStates
<1>3. ExclusiveInv'
  BY DEF ExclusiveInv, Running
<1>4. PersonInv'
  BY DEF PersonInv
<1>5. AbsentInv'
  BY DEF AbsentInv, OwnerInv, Running, ProcessingStates
<1>6. AttemptsInv'
  BY DEF AttemptsInv
<1>7. LeaseIffProcessing'
  BY DEF LeaseIffProcessing, TypeOK, OwnerInv, Running
<1>8. ResultsBehindJobs'
  BY DEF ResultsBehindJobs
<1>9. OneActiveJobPerFile'
  BY DEF OneActiveJobPerFile, ActiveJobs, ActiveStates, IngestionState,
         ProcessingStates, TerminalStates, OwnerInv, Running
<1>10. LinkInv' /\ CandidateFileIntact'
  BY DEF LinkInv, CandidateFileIntact
<1>. QED  BY <1>1, <1>2, <1>3, <1>4, <1>5, <1>6, <1>7, <1>8, <1>9, <1>10

\* A new candidate and the job that brought it are linked in both directions.
LEMMA InsertCandidateStep ==
  ASSUME IInv, NEW w \in Workers,
         NEW p \in People, InsertCandidate(w, p)
  PROVE  IInv'
<1>. USE DEF IInv, InsertCandidate, EnterTail, Continue, Release, Transition,
             jobVars, storeVars, apiVars, workerVars
<1>1. TypeOK'
  BY InsertCandidateType
<1>2. OwnerInv'
  BY DEF OwnerInv, ExclusiveInv, TypeOK, Running, InMemoryState, RunPC,
         ProcessingStates
<1>3. ExclusiveInv'
  BY DEF ExclusiveInv, TypeOK, Running
<1>4. PersonInv'
  BY NoneAssumption DEF PersonInv, ExclusiveInv, TypeOK, Running
<1>5. AbsentInv'
  BY DEF AbsentInv, OwnerInv, Running, ProcessingStates
<1>6. LinkInv'
  BY NoneAssumption DEF LinkInv, TypeOK, PersonInv
<1>7. AttemptsInv'
  BY DEF AttemptsInv
<1>8. CandidateFileIntact'
  BY DEF CandidateFileIntact, PersonInv
<1>9. LeaseIffProcessing'
  BY DEF LeaseIffProcessing, TypeOK, OwnerInv, Running
<1>10. ResultsBehindJobs'
  BY NoneAssumption DEF ResultsBehindJobs, TypeOK
<1>11. OneActiveJobPerFile'
  BY DEF OneActiveJobPerFile, ActiveJobs, ActiveStates, IngestionState,
         ProcessingStates, TerminalStates, OwnerInv, Running
<1>. QED  BY <1>1, <1>2, <1>3, <1>4, <1>5, <1>6, <1>7, <1>8, <1>9, <1>10,
             <1>11

\* The worker takes the existing candidate into its memory.
LEMMA ReuseCandidateStep ==
  ASSUME IInv, NEW w \in Workers,
         NEW p \in People, ReuseCandidate(w, p)
  PROVE  IInv'
<1>. USE DEF IInv, ReuseCandidate, Continue, jobVars, storeVars, apiVars,
             workerVars
<1>1. TypeOK'
  BY DEF TypeOK, RunPC
<1>2. OwnerInv'
  BY DEF OwnerInv, Running, InMemoryState, RunPC
<1>3. ExclusiveInv'
  BY DEF ExclusiveInv, Running
<1>4. PersonInv'
  BY NoneAssumption DEF PersonInv, TypeOK
<1>5. /\ AbsentInv'
      /\ LinkInv'
      /\ AttemptsInv'
      /\ CandidateFileIntact'
      /\ LeaseIffProcessing'
      /\ ResultsBehindJobs'
      /\ OneActiveJobPerFile'
  BY DEF AbsentInv, LinkInv, AttemptsInv, CandidateFileIntact,
         LeaseIffProcessing, ResultsBehindJobs, OneActiveJobPerFile,
         ActiveJobs
<1>. QED  BY <1>1, <1>2, <1>3, <1>4, <1>5

\* The deleted object is the job's own.  A candidate that named it would have
\* the job as its row's job, and a job being extracted has no candidate yet.
LEMMA DeleteDuplicateStep ==
  ASSUME IInv, NEW w \in Workers,
         DeleteDuplicate(w)
  PROVE  IInv'
<1>. USE DEF IInv, DeleteDuplicate, Continue, jobVars, storeVars, apiVars,
             workerVars
<1>1. TypeOK'
  BY DEF TypeOK, RunPC
<1>2. OwnerInv'
  BY DEF OwnerInv, Running, InMemoryState, RunPC
<1>3. ExclusiveInv'
  BY DEF ExclusiveInv, Running
<1>4. PersonInv'
  BY DEF PersonInv, ExclusiveInv, TypeOK, Running
<1>5. CandidateFileIntact'
  BY NoneAssumption DEF CandidateFileIntact, TypeOK, LinkInv, PersonInv
<1>6. /\ AbsentInv'
      /\ LinkInv'
      /\ AttemptsInv'
      /\ LeaseIffProcessing'
      /\ ResultsBehindJobs'
      /\ OneActiveJobPerFile'
  BY DEF AbsentInv, LinkInv, AttemptsInv, LeaseIffProcessing,
         ResultsBehindJobs, OneActiveJobPerFile, ActiveJobs
<1>. QED  BY <1>1, <1>2, <1>3, <1>4, <1>5, <1>6

\* A retry that skips extraction.
LEMMA ResumeStep ==
  ASSUME IInv, NEW w \in Workers, Resume(w)
  PROVE  IInv'
<1>. USE DEF IInv, Resume, Continue, Transition, jobVars, storeVars, apiVars,
             workerVars
<1>1. TypeOK'
  BY DEF TypeOK, IngestionState, ProcessingStates, RunPC
<1>2. OwnerInv'
  BY DEF OwnerInv, ExclusiveInv, TypeOK, Running, InMemoryState,
         ProcessingStates
<1>3. ExclusiveInv'
  BY DEF ExclusiveInv, Running
<1>4. PersonInv'
  BY DEF PersonInv
<1>5. AbsentInv'
  BY DEF AbsentInv, OwnerInv, Running, ProcessingStates
<1>6. AttemptsInv'
  BY DEF AttemptsInv
<1>7. LeaseIffProcessing'
  BY DEF LeaseIffProcessing, TypeOK, OwnerInv, Running
<1>8. ResultsBehindJobs'
  BY DEF ResultsBehindJobs
<1>9. OneActiveJobPerFile'
  BY DEF OneActiveJobPerFile, ActiveJobs, ActiveStates, IngestionState,
         ProcessingStates, TerminalStates, OwnerInv, Running
<1>10. LinkInv' /\ CandidateFileIntact'
  BY DEF LinkInv, CandidateFileIntact
<1>. QED  BY <1>1, <1>2, <1>3, <1>4, <1>5, <1>6, <1>7, <1>8, <1>9, <1>10

\* The common tail of run_job: the link is made or confirmed.
LEMMA LinkStep ==
  ASSUME IInv, NEW w \in Workers, Link(w)
  PROVE  IInv'
<1>. USE DEF IInv, Link, EnterTail, Continue, Release, Transition, jobVars,
             storeVars, apiVars, workerVars
<1>1. TypeOK'
  BY LinkType
<1>2. OwnerInv'
  BY DEF OwnerInv, ExclusiveInv, TypeOK, Running, InMemoryState, RunPC,
         ProcessingStates
<1>3. ExclusiveInv'
  BY DEF ExclusiveInv, TypeOK, Running
<1>4. PersonInv'
  BY DEF PersonInv, OwnerInv, ExclusiveInv, TypeOK, Running
<1>5. AbsentInv'
  BY DEF AbsentInv, OwnerInv, Running, ProcessingStates
<1>6. LinkInv'
  BY NoneAssumption DEF LinkInv, PersonInv
<1>7. AttemptsInv'
  BY DEF AttemptsInv
<1>8. LeaseIffProcessing'
  BY DEF LeaseIffProcessing, TypeOK, OwnerInv, Running
<1>9. ResultsBehindJobs'
  BY NoneAssumption DEF ResultsBehindJobs, TypeOK, PersonInv
<1>10. OneActiveJobPerFile'
  BY DEF OneActiveJobPerFile, ActiveJobs, ActiveStates, IngestionState,
         ProcessingStates, TerminalStates, OwnerInv, Running
<1>11. CandidateFileIntact'
  BY DEF CandidateFileIntact
<1>. QED  BY <1>1, <1>2, <1>3, <1>4, <1>5, <1>6, <1>7, <1>8, <1>9, <1>10,
             <1>11

\* The score precedes the state completed.
LEMMA ScoreStep ==
  ASSUME IInv, NEW w \in Workers, Score(w)
  PROVE  IInv'
<1>. USE DEF IInv, Score, Continue, jobVars, storeVars, apiVars, workerVars
<1>1. TypeOK'
  BY DEF TypeOK, PersonInv, RunPC
<1>2. OwnerInv'
  BY DEF OwnerInv, Running, InMemoryState, RunPC
<1>3. ExclusiveInv'
  BY DEF ExclusiveInv, Running
<1>4. PersonInv'
  BY DEF PersonInv
<1>5. ResultsBehindJobs'
  BY DEF ResultsBehindJobs
<1>6. /\ AbsentInv'
      /\ LinkInv'
      /\ AttemptsInv'
      /\ CandidateFileIntact'
      /\ LeaseIffProcessing'
      /\ OneActiveJobPerFile'
  BY DEF AbsentInv, LinkInv, AttemptsInv, CandidateFileIntact,
         LeaseIffProcessing, OneActiveJobPerFile, ActiveJobs
<1>. QED  BY <1>1, <1>2, <1>3, <1>4, <1>5, <1>6

\* The last transition.
LEMMA CompleteStep ==
  ASSUME IInv, NEW w \in Workers, Complete(w)
  PROVE  IInv'
<1>. USE DEF IInv, Complete, Continue, Release, Transition, jobVars,
             storeVars, apiVars, workerVars
<1>1. TypeOK'
  BY CompleteType
<1>2. OwnerInv'
  BY DEF OwnerInv, ExclusiveInv, TypeOK, Running
<1>3. ExclusiveInv'
  BY DEF ExclusiveInv, TypeOK, Running
<1>4. PersonInv'
  BY DEF PersonInv, TypeOK
<1>5. AbsentInv'
  BY DEF AbsentInv, OwnerInv, Running, ProcessingStates
<1>6. AttemptsInv'
  BY DEF AttemptsInv
<1>7. LeaseIffProcessing'
  BY DEF LeaseIffProcessing, TypeOK, OwnerInv, Running
<1>8. ResultsBehindJobs'
  BY NoneAssumption DEF ResultsBehindJobs, PersonInv
<1>9. OneActiveJobPerFile'
  BY DEF OneActiveJobPerFile, ActiveJobs, ActiveStates, IngestionState,
         ProcessingStates
<1>10. LinkInv' /\ CandidateFileIntact'
  BY DEF LinkInv, CandidateFileIntact
<1>. QED  BY <1>1, <1>2, <1>3, <1>4, <1>5, <1>6, <1>7, <1>8, <1>9, <1>10

\* An error only moves the worker to its handler.
LEMMA RaiseRetryableStep ==
  ASSUME IInv, NEW w \in Workers,
         RaiseRetryable(w)
  PROVE  IInv'
<1>. USE DEF IInv, RaiseRetryable, Continue, jobVars, storeVars, apiVars,
             workerVars
<1>1. TypeOK'
  BY DEF TypeOK, FailPC
<1>2. OwnerInv'
  BY DEF OwnerInv, Running, RunPC
<1>3. ExclusiveInv'
  BY DEF ExclusiveInv, Running, RunPC
<1>4. PersonInv'
  BY DEF PersonInv
<1>5. /\ AbsentInv'
      /\ LinkInv'
      /\ AttemptsInv'
      /\ CandidateFileIntact'
      /\ LeaseIffProcessing'
      /\ ResultsBehindJobs'
      /\ OneActiveJobPerFile'
  BY DEF AbsentInv, LinkInv, AttemptsInv, CandidateFileIntact,
         LeaseIffProcessing, ResultsBehindJobs, OneActiveJobPerFile,
         ActiveJobs
<1>. QED  BY <1>1, <1>2, <1>3, <1>4, <1>5

\* So does an error that is not worth a retry.
LEMMA RaiseTerminalStep ==
  ASSUME IInv, NEW w \in Workers, RaiseTerminal(w)
  PROVE  IInv'
<1>. USE DEF IInv, RaiseTerminal, Continue, jobVars, storeVars, apiVars,
             workerVars
<1>1. TypeOK'
  BY DEF TypeOK, FailPC
<1>2. OwnerInv'
  BY DEF OwnerInv, Running, RunPC
<1>3. ExclusiveInv'
  BY DEF ExclusiveInv, Running
<1>4. PersonInv'
  BY DEF PersonInv
<1>5. /\ AbsentInv'
      /\ LinkInv'
      /\ AttemptsInv'
      /\ CandidateFileIntact'
      /\ LeaseIffProcessing'
      /\ ResultsBehindJobs'
      /\ OneActiveJobPerFile'
  BY DEF AbsentInv, LinkInv, AttemptsInv, CandidateFileIntact,
         LeaseIffProcessing, ResultsBehindJobs, OneActiveJobPerFile,
         ActiveJobs
<1>. QED  BY <1>1, <1>2, <1>3, <1>4, <1>5

\* The row _fail_job writes is still processing and still the worker's.
LEMMA FailJobStep ==
  ASSUME IInv, NEW w \in Workers, FailJob(w)
  PROVE  IInv'
<1>. USE DEF IInv, FailJob, Continue, Release, Transition, jobVars, storeVars,
             apiVars, workerVars
<1>1. TypeOK'
  BY LeaseAssumption DEF TypeOK, IngestionState, TerminalStates
<1>2. OwnerInv'
  BY DEF OwnerInv, ExclusiveInv, TypeOK, Running, FailPC
<1>3. ExclusiveInv'
  BY DEF ExclusiveInv, TypeOK, Running
<1>4. PersonInv'
  BY DEF PersonInv, TypeOK
<1>5. AbsentInv'
  BY DEF AbsentInv, TypeOK, OwnerInv, Running, FailPC, ProcessingStates
<1>6. AttemptsInv'
  BY DEF AttemptsInv, TypeOK
<1>7. LeaseIffProcessing'
  BY DEF LeaseIffProcessing, TypeOK, ProcessingStates
<1>8. ResultsBehindJobs'
  BY DEF ResultsBehindJobs, TypeOK
<1>9. OneActiveJobPerFile'
  BY FailJobOne
<1>10. LinkInv' /\ CandidateFileIntact'
  BY DEF LinkInv, CandidateFileIntact
<1>. QED  BY <1>1, <1>2, <1>3, <1>4, <1>5, <1>6, <1>7, <1>8, <1>9, <1>10

\* A dead worker leaves its row as it is.
LEMMA WorkerDiesStep ==
  ASSUME IInv, NEW w \in Workers, WorkerDies(w)
  PROVE  IInv'
<1>. USE DEF IInv, WorkerDies, Continue, Release, jobVars, storeVars, apiVars,
             workerVars
<1>1. TypeOK'
  BY LeaseAssumption DEF TypeOK
<1>2. OwnerInv'
  BY DEF OwnerInv, TypeOK, Running
<1>3. ExclusiveInv'
  BY DEF ExclusiveInv, TypeOK, Running
<1>4. PersonInv'
  BY DEF PersonInv, TypeOK
<1>5. /\ AbsentInv'
      /\ LinkInv'
      /\ AttemptsInv'
      /\ CandidateFileIntact'
      /\ LeaseIffProcessing'
      /\ ResultsBehindJobs'
      /\ OneActiveJobPerFile'
  BY DEF AbsentInv, LinkInv, AttemptsInv, CandidateFileIntact,
         LeaseIffProcessing, ResultsBehindJobs, OneActiveJobPerFile,
         ActiveJobs
<1>. QED  BY <1>1, <1>2, <1>3, <1>4, <1>5

\* A running worker's lease has not expired, so a sweep leaves its row alone.
LEMMA SweepStep ==
  ASSUME IInv, Sweep
  PROVE  IInv'
<1>. USE DEF IInv, Sweep, Retryable, Requeued, Stranded, Expired, jobVars,
             storeVars, apiVars, workerVars
<1>1. TypeOK'
  BY DEF TypeOK, IngestionState, TerminalStates
<1>2. OwnerInv'
  BY DEF OwnerInv, TypeOK, Running, RunPC, ProcessingStates
<1>3. AbsentInv'
  BY DEF AbsentInv, ProcessingStates
<1>4. AttemptsInv'
  BY DEF AttemptsInv
<1>5. LeaseIffProcessing'
  BY DEF LeaseIffProcessing, ProcessingStates
<1>6. ResultsBehindJobs'
  BY DEF ResultsBehindJobs
<1>7. OneActiveJobPerFile'
  BY DEF OneActiveJobPerFile, ActiveJobs, ActiveStates, IngestionState,
         ProcessingStates, TerminalStates
<1>8. /\ ExclusiveInv'
      /\ PersonInv'
      /\ LinkInv'
      /\ CandidateFileIntact'
  BY DEF ExclusiveInv, Running, PersonInv, LinkInv, CandidateFileIntact
<1>. QED  BY <1>1, <1>2, <1>3, <1>4, <1>5, <1>6, <1>7, <1>8

\* A worker's lease and its time limit shrink together.
LEMMA TickStep ==
  ASSUME IInv, Tick
  PROVE  IInv'
<1>. USE DEF IInv, Tick, jobVars, storeVars, apiVars, workerVars
<1>1. TypeOK'
  BY LeaseAssumption DEF TypeOK
<1>2. OwnerInv'
  BY LeaseAssumption, NoneAssumption DEF OwnerInv, TypeOK, Running, RunPC
<1>3. LeaseIffProcessing'
  BY NoneAssumption DEF LeaseIffProcessing, TypeOK
<1>4. /\ ExclusiveInv'
      /\ PersonInv'
      /\ AbsentInv'
      /\ LinkInv'
      /\ AttemptsInv'
      /\ CandidateFileIntact'
      /\ ResultsBehindJobs'
      /\ OneActiveJobPerFile'
  BY DEF ExclusiveInv, Running, PersonInv, AbsentInv, LinkInv, AttemptsInv,
         CandidateFileIntact, ResultsBehindJobs, OneActiveJobPerFile,
         ActiveJobs
<1>. QED  BY <1>1, <1>2, <1>3, <1>4

\* The steps that touch neither rows, objects, candidates nor workers.
LEMMA QuietStep ==
  ASSUME IInv, TypeOK', AbsentInv', UNCHANGED <<jobVars, storeVars, file, workerVars>>
  PROVE  IInv'
<1>. USE DEF IInv, jobVars, storeVars, workerVars
<1>1. OwnerInv' /\ ExclusiveInv' /\ PersonInv' /\ LinkInv' /\ AttemptsInv'
  BY DEF OwnerInv, ExclusiveInv, Running, PersonInv, LinkInv, AttemptsInv
<1>2. CandidateFileIntact' /\ LeaseIffProcessing' /\ ResultsBehindJobs'
  BY DEF CandidateFileIntact, LeaseIffProcessing, ResultsBehindJobs
<1>3. OneActiveJobPerFile'
  BY DEF OneActiveJobPerFile, ActiveJobs
<1>. QED  BY <1>1, <1>2, <1>3

\* A SELECT.
LEMMA FindActiveStep ==
  ASSUME IInv, NEW u \in Uploads, FindActive(u)
  PROVE  IInv'
<1>. USE DEF IInv, FindActive, Goto, jobVars, storeVars, apiVars, workerVars
<1>1. TypeOK'
  BY DEF TypeOK, UploadPC
<1>2. AbsentInv'
  BY DEF AbsentInv, TypeOK
<1>. QED  BY <1>1, <1>2, QuietStep

\* A conflicting INSERT changes no row.
LEMMA InsertConflictStep ==
  ASSUME IInv, NEW u \in Uploads, InsertConflict(u)
  PROVE  IInv'
<1>. USE DEF IInv, InsertConflict, Goto, jobVars, storeVars, apiVars,
             workerVars
<1>1. TypeOK'
  BY DEF TypeOK, UploadPC
<1>2. AbsentInv'
  BY DEF AbsentInv, TypeOK
<1>. QED  BY <1>1, <1>2, QuietStep

\* Another SELECT.
LEMMA RereadStep ==
  ASSUME IInv, NEW u \in Uploads, Reread(u)
  PROVE  IInv'
<1>. USE DEF IInv, Reread, Goto, jobVars, storeVars, apiVars, workerVars
<1>1. TypeOK'
  BY DEF TypeOK, UploadPC
<1>2. AbsentInv'
  BY DEF AbsentInv, TypeOK
<1>. QED  BY <1>1, <1>2, QuietStep

\* A rolled back intake.
LEMMA IntakeFailsStep ==
  ASSUME IInv, NEW u \in Uploads, IntakeFails(u)
  PROVE  IInv'
<1>. USE DEF IInv, IntakeFails, Goto, jobVars, storeVars, apiVars, workerVars
<1>1. TypeOK'
  BY DEF TypeOK, UploadPC
<1>2. AbsentInv'
  BY DEF AbsentInv, TypeOK
<1>. QED  BY <1>1, <1>2, QuietStep

\* Publishing the message of a row that exists.
LEMMA EnqueueJobStep ==
  ASSUME IInv, NEW u \in Uploads, EnqueueJob(u)
  PROVE  IInv'
<1>. USE DEF IInv, EnqueueJob, Goto, Send, jobVars, storeVars, apiVars,
             workerVars
<1>1. TypeOK'
  BY MessagesAssumption DEF TypeOK, UploadPC
<1>2. AbsentInv'
  BY DEF AbsentInv, TypeOK
<1>. QED  BY <1>1, <1>2, QuietStep

\* A request that is given up.
LEMMA ApiDiesStep ==
  ASSUME IInv, NEW u \in Uploads, ApiDies(u)
  PROVE  IInv'
<1>. USE DEF IInv, ApiDies, Goto, jobVars, storeVars, apiVars, workerVars
<1>1. TypeOK'
  BY DEF TypeOK, UploadPC
<1>2. AbsentInv'
  BY DEF AbsentInv, TypeOK
<1>. QED  BY <1>1, <1>2, QuietStep

\* A message without a queued row is dropped.
LEMMA ClaimNothingStep ==
  ASSUME IInv, NEW j \in Uploads, ClaimNothing(j)
  PROVE  IInv'
<1>. USE DEF IInv, ClaimNothing, jobVars, storeVars, apiVars, workerVars
<1>1. TypeOK'
  BY MessagesAssumption DEF TypeOK
<1>2. AbsentInv'
  BY DEF AbsentInv
<1>. QED  BY <1>1, <1>2, QuietStep

\* A message sent by the sweeper.
LEMMA SendRequeuedStep ==
  ASSUME IInv, NEW j \in Uploads, SendRequeued(j)
  PROVE  IInv'
<1>. USE DEF IInv, SendRequeued, Send, jobVars, storeVars, apiVars, workerVars
<1>1. TypeOK'
  BY MessagesAssumption DEF TypeOK
<1>2. AbsentInv'
  BY DEF AbsentInv
<1>. QED  BY <1>1, <1>2, QuietStep

\* A lost message.
LEMMA LoseMessageStep ==
  ASSUME IInv, NEW j \in Uploads, LoseMessage(j)
  PROVE  IInv'
<1>. USE DEF IInv, LoseMessage, jobVars, storeVars, apiVars, workerVars
<1>1. TypeOK'
  BY MessagesAssumption DEF TypeOK
<1>2. AbsentInv'
  BY DEF AbsentInv
<1>. QED  BY <1>1, <1>2, QuietStep

\* A sweep that loses its outbox.
LEMMA SweeperDiesStep ==
  ASSUME IInv, SweeperDies
  PROVE  IInv'
<1>. USE DEF IInv, SweeperDies, jobVars, storeVars, apiVars, workerVars
<1>1. TypeOK'
  BY DEF TypeOK
<1>2. AbsentInv'
  BY DEF AbsentInv
<1>. QED  BY <1>1, <1>2, QuietStep

-----------------------------------------------------------------------------
\* The empty tables and idle processes satisfy the invariant.
LEMMA InitInv == Init => IInv
<1>. SUFFICES ASSUME Init PROVE IInv
  OBVIOUS
<1>. USE DEF Init
<1>1. TypeOK
  BY LeaseAssumption, MessagesAssumption DEF TypeOK, UploadPC
<1>2. OwnerInv /\ ExclusiveInv /\ PersonInv
  BY DEF OwnerInv, ExclusiveInv, PersonInv, Running
<1>3. AbsentInv /\ AttemptsInv
  BY AttemptsAssumption DEF AbsentInv, AttemptsInv
<1>4. LinkInv /\ CandidateFileIntact
  BY NoneAssumption DEF LinkInv, CandidateFileIntact
<1>5. LeaseIffProcessing /\ ResultsBehindJobs
  BY DEF LeaseIffProcessing, ResultsBehindJobs, ProcessingStates
<1>6. OneActiveJobPerFile
  BY DEF OneActiveJobPerFile, ActiveJobs, ActiveStates, IngestionState,
         ProcessingStates
<1>. QED  BY <1>1, <1>2, <1>3, <1>4, <1>5, <1>6 DEF IInv

\* Every step preserves the invariant.
LEMMA NextInv == IInv /\ [Next]_vars => IInv'
<1>. SUFFICES ASSUME IInv, [Next]_vars PROVE IInv'
  OBVIOUS
<1>1. ASSUME NEW u \in Uploads, UploadStep(u) PROVE IInv'
  BY <1>1, StoreStep, FindActiveStep, InsertJobStep, InsertConflictStep,
     RereadStep, IntakeFailsStep, DropRedundantStep, CleanUpStep,
     EnqueueJobStep, ApiDiesStep DEF UploadStep
<1>2. ASSUME NEW w \in Workers, WorkerStep(w) PROVE IInv'
  BY <1>2, ClaimStep, ParseStep, InsertCandidateStep, ReuseCandidateStep,
     DeleteDuplicateStep, ResumeStep, LinkStep, ScoreStep, CompleteStep,
     RaiseRetryableStep, RaiseTerminalStep, FailJobStep, WorkerDiesStep
     DEF WorkerStep
<1>3. ASSUME NEW j \in Uploads, ClaimNothing(j) \/ SendRequeued(j) \/ LoseMessage(j)
      PROVE  IInv'
  BY <1>3, ClaimNothingStep, SendRequeuedStep, LoseMessageStep
<1>4. CASE Sweep \/ SweeperDies \/ Tick
  BY <1>4, SweepStep, SweeperDiesStep, TickStep
<1>5. CASE UNCHANGED vars
  <2>1. TypeOK' /\ AbsentInv'
    BY <1>5 DEF IInv, TypeOK, AbsentInv, vars, jobVars, storeVars, apiVars, workerVars
  <2>. QED  BY <1>5, <2>1, QuietStep DEF vars, apiVars
<1>. QED  BY <1>1, <1>2, <1>3, <1>4, <1>5 DEF Next

\* The invariant holds in every reachable state.
THEOREM Invariance == Spec => []IInv
<1>. QED  BY InitInv, NextInv, PTL DEF Spec

\* Every column and every process variable keeps its type.
THEOREM TypeCorrect == Spec => []TypeOK
<1>1. IInv => TypeOK
  BY DEF IInv
<1>. QED  BY <1>1, Invariance, PTL

\* A worker never asserts a transition on a stale state: its job is still in the
\* state it remembers, under an unexpired lease, and nobody else runs it.
THEOREM ViewIsCurrent == Spec => []InMemoryStateCurrent
<1>1. ASSUME IInv PROVE InMemoryStateCurrent
  <2>. USE <1>1 DEF IInv
  <2>1. \A w \in Workers : Running(w) => ~Expired(wjob[w])
    BY LeaseAssumption DEF OwnerInv, TypeOK, Expired
  <2>. QED  BY <2>1 DEF InMemoryStateCurrent, OwnerInv, ExclusiveInv
<1>. QED  BY <1>1, Invariance, PTL

\* No delete of intake or of the duplicate branch removes a candidate's file.
THEOREM CanonicalFilesKept == Spec => []CandidateFileIntact
<1>1. IInv => CandidateFileIntact
  BY DEF IInv
<1>. QED  BY <1>1, Invariance, PTL

\* Leases and processing states come and go together.
THEOREM LeasesMatchStates == Spec => []LeaseIffProcessing
<1>1. IInv => LeaseIffProcessing
  BY DEF IInv
<1>. QED  BY <1>1, Invariance, PTL

\* A finished job has the candidate and the score it reports.
THEOREM ResultsExist == Spec => []ResultsBehindJobs
<1>1. IInv => ResultsBehindJobs
  BY DEF IInv
<1>. QED  BY <1>1, Invariance, PTL

\* No two active jobs share a sha256, after any step.
THEOREM UniqueActiveJob == Spec => []OneActiveJobPerFile
<1>1. IInv => OneActiveJobPerFile
  BY DEF IInv
<1>. QED  BY <1>1, Invariance, PTL
-----------------------------------------------------------------------------
(***************************************************************************)
(* The refinement.                                                         *)
(***************************************************************************)

\* The lifecycle and the implementation share one transition table.
LEMMA SameTable ==
  Lifecycle!ProcessingStates = ProcessingStates /\ Lifecycle!Allowed = Allowed
BY Zenon DEF ProcessingStates, TerminalStates, IngestionState, Allowed,
   Lifecycle!ProcessingStates, Lifecycle!TerminalStates, Lifecycle!IngestionState,
   Lifecycle!Allowed

\* A transition of a job the worker still owns is a Progress of that job.
LEMMA TransitionRefines ==
  ASSUME TypeOK, NEW j \in Uploads, state[j] \in ProcessingStates,
         NEW target \in IngestionState, Transition(j, state[j], target)
  PROVE  Lifecycle!Next
<1>1. Lifecycle!Progress(j)
  BY SameTable DEF TypeOK, Transition, AssertTransition, Lifecycle!Progress
<1>2. \A i \in Uploads \ {j} : Lifecycle!Rest(i)
  BY DEF TypeOK, Transition, Lifecycle!Rest
<1>. QED  BY <1>1, <1>2 DEF Lifecycle!Next

\* Every step of a worker on its job refines the lifecycle.
LEMMA WorkerRefines ==
  ASSUME IInv, NEW w \in Workers, WorkerStep(w)
  PROVE  Lifecycle!Next \/ UNCHANGED <<state, attempts>>
<1>. USE DEF IInv
<1>1. ASSUME NEW j \in Uploads, Claim(w, j) PROVE Lifecycle!Next
  <2>1. Lifecycle!Attempt(j)
    BY <1>1 DEF Claim, TypeOK, AttemptsInv, Lifecycle!Attempt
  <2>2. \A i \in Uploads \ {j} : Lifecycle!Rest(i)
    BY <1>1 DEF Claim, TypeOK, Lifecycle!Rest
  <2>. QED  BY <2>1, <2>2 DEF Lifecycle!Next
<1>2. Running(w) => wjob[w] \in Uploads /\ state[wjob[w]] \in ProcessingStates
  BY DEF OwnerInv
<1>3. wpc[w] \in RunPC => state[wjob[w]] = InMemoryState(wpc[w])
  BY DEF OwnerInv, Running, RunPC
<1>4. CASE Parse(w) \/ Resume(w)
  BY <1>2, <1>3, <1>4, TransitionRefines
     DEF Parse, Resume, Running, RunPC, IngestionState, ProcessingStates
<1>5. CASE Complete(w)
  BY <1>2, <1>3, <1>5, TransitionRefines
     DEF Complete, Running, RunPC, IngestionState, TerminalStates
<1>6. ASSUME NEW p, wpc[w] \in {"extract", "link"}, EnterTail(w, p)
      PROVE  Lifecycle!Next
  BY <1>2, <1>3, <1>6, TransitionRefines
     DEF EnterTail, Running, RunPC, InMemoryState, IngestionState,
         ProcessingStates, TerminalStates
<1>7. CASE (\E p \in People : InsertCandidate(w, p)) \/ Link(w)
  BY <1>6, <1>7 DEF InsertCandidate, Link
<1>8. CASE FailJob(w)
  BY <1>2, <1>8, TransitionRefines
     DEF FailJob, FailPC, Running, IngestionState, TerminalStates
<1>. QED  BY <1>1, <1>4, <1>5, <1>7, <1>8
     DEF WorkerStep, ReuseCandidate, DeleteDuplicate, Score, RaiseRetryable,
         RaiseTerminal, WorkerDies, jobVars

\* Inserting the row creates the job.
LEMMA InsertRefines ==
  ASSUME IInv, NEW u \in Uploads, InsertJob(u)
  PROVE  Lifecycle!Next
<1>1. Lifecycle!Create(u)
  BY DEF IInv, TypeOK, AbsentInv, InsertJob, Lifecycle!Create
<1>2. \A i \in Uploads \ {u} : Lifecycle!Rest(i)
  BY DEF IInv, TypeOK, InsertJob, Lifecycle!Rest
<1>. QED  BY <1>1, <1>2 DEF Lifecycle!Next

\* A sweep recovers the expired and the failed jobs and leaves the others alone.
LEMMA SweepRefines ==
  ASSUME IInv, Sweep
  PROVE  Lifecycle!Next
<1>1. \A j \in Uploads : Retryable(j) => Lifecycle!Recover(j)
  BY SameTable
     DEF IInv, TypeOK, Sweep, Retryable, Requeued, Expired, Lifecycle!Recover
<1>2. \A j \in Uploads : ~Retryable(j) => Lifecycle!Rest(j)
  BY DEF Sweep, Requeued, Lifecycle!Rest
<1>. QED  BY <1>1, <1>2 DEF Lifecycle!Next

\* The committed rows of the ingestion implement the job lifecycle, whatever the
\* processes and the broker do.
THEOREM ImplementsLifecycle == Spec => JobsFollowLifecycle
<1>1. Init => Lifecycle!Init
  BY DEF Init, Lifecycle!Init
<1>2. IInv /\ [Next]_vars => [Lifecycle!Next]_<<state, attempts>>
  <2>. SUFFICES ASSUME IInv, [Next]_vars
                PROVE  Lifecycle!Next \/ UNCHANGED <<state, attempts>>
    OBVIOUS
  <2>1. ASSUME NEW u \in Uploads, UploadStep(u)
        PROVE  Lifecycle!Next \/ UNCHANGED <<state, attempts>>
    BY <2>1, InsertRefines
       DEF UploadStep, Store, FindActive, InsertConflict, Reread, IntakeFails,
           DropRedundant, CleanUp, EnqueueJob, ApiDies, jobVars
  <2>2. CASE Sweep
    BY <2>2, SweepRefines
  <2>3. CASE UNCHANGED vars
    BY <2>3 DEF vars, jobVars
  <2>. QED  BY <2>1, <2>2, <2>3, WorkerRefines
       DEF Next, ClaimNothing, SendRequeued, LoseMessage, SweeperDies, Tick, jobVars
<1>. QED  BY <1>1, <1>2, Invariance, PTL DEF Spec, JobsFollowLifecycle, Lifecycle!Spec
=============================================================================
