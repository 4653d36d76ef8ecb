----------------------------- MODULE JobLifecycle -----------------------------
(***************************************************************************)
(* What the ingestion service promises about its jobs, whatever happens to *)
(* the processes that work on them: committed states follow the transition *)
(* table, a recovery either spends another of MaxAttempts attempts or      *)
(* gives up, and a terminal state is final.                                *)
(***************************************************************************)
EXTENDS IngestionStates, Naturals

CONSTANTS Jobs, MaxAttempts

VARIABLES
  state,    \* the committed state of each job, "none" before it exists
  attempts  \* claims so far

Init ==
  /\ state = [j \in Jobs |-> "none"]
  /\ attempts = [j \in Jobs |-> 0]

\* The upload is accepted.
Create(j) ==
  state[j] = "none" /\ state'[j] = "queued" /\ attempts'[j] = attempts[j]

\* A worker starts an attempt; there is always one left to spend.
Attempt(j) ==
  /\ state[j] = "queued" /\ attempts[j] < MaxAttempts
  /\ state'[j] = "parsing" /\ attempts'[j] = attempts[j] + 1

\* The worker makes progress or reports a failure, as the table allows.
Progress(j) ==
  /\ state[j] \in ProcessingStates
  /\ state'[j] \in Allowed[state[j]]
  /\ attempts'[j] = attempts[j]

\* A dead or failed attempt is followed by another one, or by giving up when
\* the attempts are spent.
Recover(j) ==
  /\ state[j] \in ProcessingStates \cup {"retryable_failed"}
  /\ state'[j] = IF attempts[j] < MaxAttempts THEN "queued" ELSE "terminal_failed"
  /\ attempts'[j] = attempts[j]

Rest(j) == state'[j] = state[j] /\ attempts'[j] = attempts[j]

\* A sweep recovers several jobs at once.
Next ==
  \A j \in Jobs : Create(j) \/ Attempt(j) \/ Progress(j) \/ Recover(j) \/ Rest(j)

Spec == Init /\ [][Next]_<<state, attempts>>
=============================================================================
