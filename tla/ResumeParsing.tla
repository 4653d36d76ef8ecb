---------------------------- MODULE ResumeParsing ----------------------------
(***************************************************************************)
(* The external calls of a worker: run_job downloads the resume, has       *)
(* MinerU parse it and the LLM gateway extract it, then asks the gateway to*)
(* judge it; a cross check loads the score it is about and asks for a      *)
(* second opinion.  Each kind of task has its own way to sort a failure    *)
(* into retryable and terminal; a sweep starts a retryable task again.     *)
(* Whether the verdict gets saved, and how attempts are counted, is in     *)
(* Ingestion and CrossCheck.                                               *)
(***************************************************************************)
EXTENDS LLMGateway, MinerU

CONSTANTS
  MaxRuns  \* bound on the tasks the worker runs

ASSUME MaxRunsAssumption == MaxRuns \in Nat

VARIABLES
  stage,      \* what the worker is doing
  localFile,  \* whether the worker's temporary copy of the resume exists
  outcome,    \* how the last task ended
  runs,       \* tasks started
  finalTry,   \* whether the last task is a cross check claimed for its last attempt
  sourceGone  \* whether it found its score, rule version or resume missing

checkVars == <<finalTry, sourceGone>>
jobVars == <<stage, localFile, outcome, runs, checkVars>>
vars == <<day, ledgerVars, gatewayVars, mineruVars, jobVars>>

TypeOK ==
  /\ LedgerTypeOK /\ GatewayTypeOK /\ MinerUTypeOK
  /\ stage \in {"idle", "download", "parse", "extract", "score", "load", "cross_check"}
  /\ localFile \in BOOLEAN
  /\ outcome \in {"none", "succeeded", "retryable_failed", "terminal_failed", "killed"}
  /\ runs \in 0..MaxRuns
  /\ finalTry \in BOOLEAN /\ sourceGone \in BOOLEAN

Init ==
  /\ LedgerInit /\ GatewayInit /\ MinerUInit
  /\ stage = "idle" /\ localFile = FALSE /\ outcome = "none" /\ runs = 0
  /\ finalTry = FALSE /\ sourceGone = FALSE

TerminalErrors == {"MinerUContractError", "MinerUTaskError", "LLMConfigurationError",
                   "LLMInvalidResponseError", "LLMInvalidOutputError"}

\* _fail_job: the exact class name decides, so that MinerUResultError, a subclass
\* of MinerUTaskError, is retried like any unknown exception.
FailureState(error) ==
  IF error \in TerminalErrors THEN "terminal_failed" ELSE "retryable_failed"

\* _classify: the classes that no retry can help.  Everything else is retryable.
TerminalCauses == {"LLMConfigurationError", "LLMInvalidResponseError",
                   "LLMInvalidOutputError", "SourceMissing"}

\* Mutant of CrossCheckState: the code of a failed ledger is not in RETRYABLE_CODES.
CrossCheckState_LedgerFinal(error) ==
  IF error \in TerminalCauses \cup {"UsageLedgerUnavailable"} \/ finalTry
  THEN "terminal_failed" ELSE "retryable_failed"

\* fail_cross_check: a retryable failure of the last attempt is final too.
CrossCheckState(error) ==
  IF error \in TerminalCauses \/ finalTry THEN "terminal_failed" ELSE "retryable_failed"

\* A worker takes a job or a cross check.  Its clients, and the names of its
\* temporary files, are new.
StartJob ==
  /\ stage = "idle" /\ runs < MaxRuns
  /\ stage' = "download" /\ localFile' = TRUE /\ runs' = runs + 1 /\ outcome' = "none"
  /\ finalTry' = FALSE /\ sourceGone' = FALSE
  /\ group' = <<>> /\ archive' = FALSE /\ mreply' = "none" /\ merror' = NoError
  /\ UNCHANGED <<day, ledgerVars, operation, gpc, reply, tries, gerror, answers, used,
                 mpc, left>>

\* claim_cross_check counts the attempt, which may be the last one allowed.
StartCrossCheck ==
  /\ stage = "idle" /\ runs < MaxRuns
  /\ stage' = "load" /\ localFile' = FALSE /\ runs' = runs + 1 /\ outcome' = "none"
  /\ finalTry' \in BOOLEAN /\ sourceGone' = FALSE
  /\ group' = <<>> /\ archive' = FALSE /\ mreply' = "none" /\ merror' = NoError
  /\ UNCHANGED <<day, ledgerVars, operation, gpc, reply, tries, gerror, answers, used,
                 mpc, left>>

DownloadVerified ==
  /\ stage = "download"
  /\ Parse
  /\ stage' = "parse"
  /\ UNCHANGED <<day, ledgerVars, gatewayVars, localFile, outcome, runs, checkVars>>

\* The local variables of the calls go with them; the operation, its group, mreply, merror and
\* archive stay to say how the task ended.
Forget ==
  /\ gpc' = "idle" /\ reply' = None /\ tries' = 0 /\ gerror' = None
  /\ mpc' = "idle" /\ left' = PollTime

\* The finally of run_job.
EndTask(result) ==
  /\ stage' = "idle" /\ outcome' = result /\ localFile' = FALSE
  /\ Forget

\* _load_source finds everything the comparison needs.
LoadSource ==
  /\ stage = "load"
  /\ Call("cross_check")
  /\ stage' = "cross_check"
  /\ UNCHANGED <<day, ledgerVars, mineruVars, localFile, outcome, runs, checkVars>>

\* _load_source misses something, or the database fails.
LoadFails ==
  /\ stage = "load"
  /\ \E error \in {"SourceMissing", "SQLAlchemyError"} :
       EndTask(CrossCheckState(error)) /\ sourceGone' = (error = "SourceMissing")
  /\ UNCHANGED <<day, ledgerVars, operation, group, answers, used, archive, mreply, merror,
                 runs, finalTry>>

\* StorageError, StorageIntegrityError: not in either table.
DownloadFails ==
  /\ stage = "download"
  /\ EndTask(FailureState("StorageError"))
  /\ UNCHANGED <<day, ledgerVars, operation, group, answers, used, archive, mreply, merror,
                 runs, checkVars>>

ParseStep ==
  /\ stage = "parse" /\ MinerUStep
  /\ UNCHANGED <<day, ledgerVars, gatewayVars, jobVars>>

ParseReturns ==
  /\ stage = "parse" /\ mpc = "done" /\ merror = NoError
  /\ Call("extract")
  /\ stage' = "extract" /\ mpc' = "idle" /\ left' = PollTime /\ mreply' = "none"
  /\ UNCHANGED <<day, ledgerVars, archive, merror, localFile, outcome, runs, checkVars>>

ParseRaises ==
  /\ stage = "parse" /\ mpc = "done" /\ merror # NoError
  /\ EndTask(FailureState(merror))
  /\ UNCHANGED <<day, ledgerVars, operation, group, answers, used, archive, mreply, merror,
                 runs, checkVars>>

LLMStep ==
  /\ stage \in {"extract", "score", "cross_check"} /\ GatewayStep
  /\ UNCHANGED <<day, mineruVars, jobVars>>

\* The candidate exists and the local copy goes; with an active rule version for
\* its JD the candidate is judged.
ExtractReturns ==
  /\ stage = "extract" /\ gpc = "done" /\ gerror = None
  /\ stage' = "score" /\ localFile' = FALSE
  /\ gpc' = "begin" /\ operation' = "judge"
  /\ group' = <<[id |-> 0, role |-> "primary"]>> /\ reply' = None /\ tries' = 0
  /\ UNCHANGED <<day, ledgerVars, gerror, answers, used, mineruVars, outcome, runs,
                 checkVars>>

\* The end of the task: no rule version to judge by, the last call, or an exception.
LLMEnds ==
  /\ gpc = "done" /\ stage \in {"extract", "score", "cross_check"}
  /\ EndTask(CASE gerror = None -> "succeeded"
               [] gerror # None /\ stage = "cross_check" -> CrossCheckState(gerror)
               [] OTHER -> FailureState(gerror))
  /\ UNCHANGED <<day, ledgerVars, operation, group, answers, used, archive, mreply, merror,
                 runs, checkVars>>

\* Killed at the hard time limit, or by the machine: no handler runs.
WorkerDies ==
  /\ stage # "idle"
  /\ stage' = "idle" /\ outcome' = "killed" /\ Forget
  /\ UNCHANGED <<day, ledgerVars, operation, group, answers, used, archive, mreply, merror,
                 localFile, runs, checkVars>>

SweepStaleUsage ==
  /\ \E stale \in SUBSET Pending : AbandonStale(stale)
  /\ UNCHANGED <<day, gatewayVars, mineruVars, jobVars>>

WorkerStep ==
  \/ DownloadVerified \/ DownloadFails \/ ParseStep \/ ParseReturns \/ ParseRaises
  \/ LoadSource \/ LoadFails \/ LLMStep \/ ExtractReturns \/ LLMEnds

Next ==
  StartJob \/ StartCrossCheck \/ WorkerStep \/ WorkerDies \/ SweepStaleUsage

Spec == Init /\ [][Next]_vars

\* A living worker goes on, and Beat runs the sweep.
FairSpec == Spec /\ WF_vars(WorkerStep) /\ WF_vars(SweepStaleUsage)

-----------------------------------------------------------------------------
(***************************************************************************)
(* Properties.                                                             *)
(***************************************************************************)

\* A task that met nothing but passing trouble (network, busy services, the polling
\* deadline, a ledger, a database or a provider that is down) is not given up: a terminal
\* failure has an answer behind it that a retry would meet again, or is a cross check
\* that lost what it is about or has used up its attempts (ingest.py:40, state.py:221).
TransientIsRetried ==
  outcome = "terminal_failed" =>
    \/ merror # NoError /\ ~Transient(mreply)
    \/ \E i \in DOMAIN group :
         /\ group[i].id # 0 /\ answers[group[i].id] # None
         /\ answers[group[i].id].status # "unavailable"
         /\ ~answers[group[i].id].usable
    \/ sourceGone
    \/ finalTry

\* A task that ended, in whatever way short of being killed, left no temporary file:
\* neither its copy of the resume nor MinerU's result, except after a result whose
\* content encoding is broken (ingest.py:396, mineru_client.py:150).
FilesRemoved ==
  stage = "idle" /\ outcome # "killed" =>
    ~localFile /\ (archive => merror = "DecodingError")

\* Every task ends: polling stops at its deadline, requests and finalize are tried a
\* bounded number of times (mineru_client.py:241, usage.py:177).
TaskEnds == (stage # "idle") ~> (stage = "idle")

\* No ledger row stays pending: a caller that was killed, or could not close its
\* row, is followed by the sweep (wp7.py:106).
RowsSettle == \A a \in Attempts : (status[a] = "pending") ~> (status[a] \in TerminalStatus)
=============================================================================
