------------------------------ MODULE CrossCheck ------------------------------
(***************************************************************************)
(* Cross-engine checks of one score: a transaction that scores, labels or  *)
(* reviews a candidate queues a second opinion per configuration (secondary*)
(* model and prompt version); a worker claims the row under a lease token, *)
(* asks the secondary model and records the verdict; only the row with the *)
(* greatest id is projected onto the score; a sweeper requeues rows.       *)
(*                                                                         *)
(* Scores do not interact, so one is enough.  Lease expiry is not tied to  *)
(* time: a sweep may find any running row expired, so that every guarantee *)
(* below rests on the lease token alone.                                   *)
(***************************************************************************)
EXTENDS Naturals

CONSTANTS
  Configs,      \* (secondary_model, prompt_version) pairs; one row each
  Clients,      \* transactions that call ensure_cross_check
  Workers,      \* Celery workers
  MaxAttempts,  \* CROSS_ENGINE_MAX_ATTEMPTS
  MaxIds,       \* bound on the ids drawn from the table's sequence
  MaxMessages,  \* bound on the copies of one message in the broker
  CanLose,      \* whether messages and senders may be lost
  None

ASSUME AttemptsAssumption == MaxAttempts \in Nat \ {0}
ASSUME BoundsAssumption == MaxIds \in Nat /\ MaxMessages \in Nat \ {0}
ASSUME LossAssumption == CanLose \in BOOLEAN
ASSUME NoneAssumption == None \notin Configs /\ None \notin Nat

\* absolute_diff >= threshold_snapshot, or not.
Verdicts == {"agree", "suspicious"}

CheckState == {"none", "queued", "running", "completed", "retryable_failed",
               "terminal_failed"}

VARIABLES
  \* table score_cross_checks, one row per configuration
  rowId,      \* id; 0 while no row is committed
  state,      \* state; "none" while no row is committed
  attempts,   \* attempts
  token,      \* lease_token, or None; a fresh uuid is the attempt it was made for
  verdict,    \* absolute_diff against threshold_snapshot, or None
  nextId,     \* the id sequence
  projection, \* the score: the row cross_engine_diff came from, and is_suspicious
  messages,   \* copies of each row's message in the broker
  outbox,     \* rows a sweep has committed and not sent yet
  \* transactions calling ensure_cross_check
  tpc, tconfig,
  tscore,     \* the projection when its session loaded the Score
  tprevious,  \* previous_greatest; 0 stands for None
  tinserted,  \* id of the row it inserted and has not committed, or 0
  \* workers
  wpc, wconfig, wtoken

rowVars == <<rowId, state, attempts, token, verdict>>
clientVars == <<tpc, tconfig, tscore, tprevious, tinserted>>
workerVars == <<wpc, wconfig, wtoken>>
vars == <<rowVars, nextId, projection, messages, outbox, clientVars, workerVars>>

Projection == [by : Configs \cup {None}, suspicious : BOOLEAN]

NoProjection == [by |-> None, suspicious |-> FALSE]

TypeOK ==
  /\ rowId \in [Configs -> Nat]
  /\ state \in [Configs -> CheckState]
  /\ attempts \in [Configs -> Nat]
  /\ token \in [Configs -> Nat \cup {None}]
  /\ verdict \in [Configs -> Verdicts \cup {None}]
  /\ nextId \in Nat \ {0}
  /\ projection \in Projection
  /\ messages \in [Configs -> 0..MaxMessages]
  /\ outbox \in SUBSET Configs
  /\ tpc \in [Clients -> {"idle", "read", "insert", "commit", "send"}]
  /\ tconfig \in [Clients -> Configs \cup {None}]
  /\ tscore \in [Clients -> Projection]
  /\ tprevious \in [Clients -> Nat]
  /\ tinserted \in [Clients -> Nat]
  /\ wpc \in [Workers -> {"idle", "judge"}]
  /\ wconfig \in [Workers -> Configs \cup {None}]
  /\ wtoken \in [Workers -> Nat \cup {None}]

Init ==
  /\ rowId = [c \in Configs |-> 0]
  /\ state = [c \in Configs |-> "none"]
  /\ attempts = [c \in Configs |-> 0]
  /\ token = [c \in Configs |-> None]
  /\ verdict = [c \in Configs |-> None]
  /\ nextId = 1
  /\ projection = NoProjection
  /\ messages = [c \in Configs |-> 0]
  /\ outbox = {}
  /\ tpc = [t \in Clients |-> "idle"]
  /\ tconfig = [t \in Clients |-> None]
  /\ tscore = [t \in Clients |-> NoProjection]
  /\ tprevious = [t \in Clients |-> 0]
  /\ tinserted = [t \in Clients |-> 0]
  /\ wpc = [w \in Workers |-> "idle"]
  /\ wconfig = [w \in Workers |-> None]
  /\ wtoken = [w \in Workers |-> None]

-----------------------------------------------------------------------------
(***************************************************************************)
(* ensure_cross_check inside its caller's transaction.  The caller is the  *)
(* scoring pipeline, a feedback or golden-set write, or an admin backfill; *)
(* which reasons fire only decides whether the call is made.               *)
(***************************************************************************)

\* _greatest_id over the committed rows; 0 when there is none.
IsGreatestId(g) == \A c \in Configs : rowId[c] <= g

\* Every caller has loaded the Score into its session before the call.
LoadScore(t) ==
  /\ tpc[t] = "idle"
  /\ tpc' = [tpc EXCEPT ![t] = "read"]
  /\ tscore' = [tscore EXCEPT ![t] = projection]
  /\ UNCHANGED <<rowVars, nextId, projection, messages, outbox, tconfig, tprevious,
                 tinserted, workerVars>>

\* previous_greatest is read before anything is locked.
ReadGreatest(t, c) ==
  /\ tpc[t] = "read"
  /\ \E g \in {0} \cup {rowId[d] : d \in Configs} :
       /\ IsGreatestId(g)
       /\ tprevious' = [tprevious EXCEPT ![t] = g]
  /\ tpc' = [tpc EXCEPT ![t] = "insert"]
  /\ tconfig' = [tconfig EXCEPT ![t] = c]
  /\ UNCHANGED <<rowVars, nextId, projection, messages, outbox, tscore, tinserted,
                 workerVars>>

\* INSERT ... ON CONFLICT DO NOTHING.  It waits for a transaction that has
\* inserted the same configuration and not ended.
InsertRow(t) ==
  /\ tpc[t] = "insert"
  /\ \A s \in Clients : tconfig[s] = tconfig[t] => tinserted[s] = 0
  /\ \/ /\ state[tconfig[t]] = "none"
        /\ nextId <= MaxIds
        /\ tinserted' = [tinserted EXCEPT ![t] = nextId]
        /\ nextId' = nextId + 1
     \/ /\ state[tconfig[t]] # "none"
        /\ UNCHANGED <<tinserted, nextId>>
  /\ tpc' = [tpc EXCEPT ![t] = "commit"]
  /\ UNCHANGED <<rowVars, projection, messages, outbox, tconfig, tscore, tprevious,
                 workerVars>>

\* What assigning None and False to the Score leaves in the table.  db.get with
\* FOR UPDATE locks the row and keeps the attributes the session loaded, and the
\* flush writes only the columns whose loaded value differs from the new one.
Cleared(t) ==
  [by         |-> IF tscore[t].by # None THEN None ELSE projection.by,
   suspicious |-> IF tscore[t].suspicious THEN FALSE ELSE projection.suspicious]

\* Mutant of CommitRow: a row that exists is queued again.
CommitRow_Requeues(t) ==
  LET c == tconfig[t]
      id == IF tinserted[t] # 0 THEN tinserted[t] ELSE rowId[c]
  IN
  /\ tpc[t] = "commit"
  /\ rowId' = [rowId EXCEPT ![c] = id]
  /\ state' = [state EXCEPT ![c] = "queued"]
  /\ projection' = IF id > tprevious[t] THEN Cleared(t) ELSE projection
  /\ tinserted' = [tinserted EXCEPT ![t] = 0]
  /\ tpc' = [tpc EXCEPT ![t] = "send"]
  /\ UNCHANGED <<attempts, token, verdict, nextId, messages, outbox,
                 tconfig, tscore, tprevious, workerVars>>

\* The row and the score are locked, the projection is cleared if the row looks
\* newer than previous_greatest, and the caller commits.
CommitRow(t) ==
  LET c == tconfig[t]
      new == tinserted[t] # 0
      id == IF new THEN tinserted[t] ELSE rowId[c]
  IN
  /\ tpc[t] = "commit"
  /\ rowId' = [rowId EXCEPT ![c] = id]
  /\ state' = IF new THEN [state EXCEPT ![c] = "queued"] ELSE state
  /\ projection' = IF id > tprevious[t] THEN Cleared(t) ELSE projection
  /\ tinserted' = [tinserted EXCEPT ![t] = 0]
  /\ tpc' = [tpc EXCEPT ![t] = "send"]
  /\ UNCHANGED <<attempts, token, verdict, nextId, messages, outbox,
                 tconfig, tscore, tprevious, workerVars>>

\* The client is done with this call.
Finish(t) ==
  /\ tpc' = [tpc EXCEPT ![t] = "idle"]
  /\ tconfig' = [tconfig EXCEPT ![t] = None]
  /\ tscore' = [tscore EXCEPT ![t] = NoProjection]
  /\ tprevious' = [tprevious EXCEPT ![t] = 0]
  /\ tinserted' = [tinserted EXCEPT ![t] = 0]

\* The caller's transaction fails and is rolled back.
Rollback(t) ==
  /\ tpc[t] \in {"read", "insert", "commit"}
  /\ Finish(t)
  /\ UNCHANGED <<rowVars, nextId, projection, messages, outbox, workerVars>>

Send(c) ==
  /\ messages[c] < MaxMessages
  /\ messages' = [messages EXCEPT ![c] = @ + 1]

\* _send_cross_checks, after the commit.
SendCheck(t) ==
  /\ tpc[t] = "send"
  /\ Send(tconfig[t])
  /\ Finish(t)
  /\ UNCHANGED <<rowVars, nextId, projection, outbox, workerVars>>

\* send_task raises and the failure is logged, or the process dies first.
SendFails(t) ==
  /\ CanLose
  /\ tpc[t] = "send"
  /\ Finish(t)
  /\ UNCHANGED <<rowVars, nextId, projection, messages, outbox, workerVars>>

-----------------------------------------------------------------------------
(***************************************************************************)
(* The worker (run_cross_check).                                           *)
(***************************************************************************)

Claimable(c) == state[c] = "queued" /\ attempts[c] < MaxAttempts

\* claim_cross_check and its commit.
ClaimCheck(w, c) ==
  /\ wpc[w] = "idle"
  /\ messages[c] > 0
  /\ Claimable(c)
  /\ messages' = [messages EXCEPT ![c] = @ - 1]
  /\ state' = [state EXCEPT ![c] = "running"]
  /\ attempts' = [attempts EXCEPT ![c] = @ + 1]
  /\ token' = [token EXCEPT ![c] = attempts[c] + 1]
  /\ wpc' = [wpc EXCEPT ![w] = "judge"]
  /\ wconfig' = [wconfig EXCEPT ![w] = c]
  /\ wtoken' = [wtoken EXCEPT ![w] = attempts[c] + 1]
  /\ UNCHANGED <<rowId, verdict, nextId, projection, outbox, clientVars>>

\* The row is not queued, or out of attempts.
ClaimNothing(c) ==
  /\ \E w \in Workers : wpc[w] = "idle"
  /\ messages[c] > 0
  /\ ~Claimable(c)
  /\ messages' = [messages EXCEPT ![c] = @ - 1]
  /\ UNCHANGED <<rowVars, nextId, projection, outbox, clientVars, workerVars>>

\* The task returns, or its process dies.
Return(w) ==
  /\ wpc' = [wpc EXCEPT ![w] = "idle"]
  /\ wconfig' = [wconfig EXCEPT ![w] = None]
  /\ wtoken' = [wtoken EXCEPT ![w] = None]

\* Mutant of HoldsLease: the lease token is not compared.
HoldsLease_AnyToken(w) == state[wconfig[w]] = "running"

\* Mutant of HoldsLease: the row is found by its id alone.
HoldsLease_ById(w) == state[wconfig[w]] # "none"

\* The WHERE clause of complete_cross_check and fail_cross_check.
HoldsLease(w) ==
  state[wconfig[w]] = "running" /\ token[wconfig[w]] = wtoken[w]

\* Mutant of CompleteCheck: every completion is projected.
CompleteCheck_AnyRow(w) ==
  LET c == wconfig[w] IN
  /\ wpc[w] = "judge"
  /\ IF HoldsLease(w)
       THEN \E v \in Verdicts :
              /\ state' = [state EXCEPT ![c] = "completed"]
              /\ token' = [token EXCEPT ![c] = None]
              /\ verdict' = [verdict EXCEPT ![c] = v]
              /\ projection' = [by |-> c, suspicious |-> v = "suspicious"]
       ELSE UNCHANGED <<state, token, verdict, projection>>
  /\ Return(w)
  /\ UNCHANGED <<rowId, attempts, nextId, messages, outbox, clientVars>>

\* complete_cross_check: row and score are locked, the greatest id is read under
\* the score's lock.  A worker without the lease changes nothing.
CompleteCheck(w) ==
  LET c == wconfig[w] IN
  /\ wpc[w] = "judge"
  /\ IF HoldsLease(w)
       THEN \E v \in Verdicts :
              /\ state' = [state EXCEPT ![c] = "completed"]
              /\ token' = [token EXCEPT ![c] = None]
              /\ verdict' = [verdict EXCEPT ![c] = v]
              /\ projection' = IF IsGreatestId(rowId[c])
                                 THEN [by |-> c, suspicious |-> v = "suspicious"]
                                 ELSE projection
       ELSE UNCHANGED <<state, token, verdict, projection>>
  /\ Return(w)
  /\ UNCHANGED <<rowId, attempts, nextId, messages, outbox, clientVars>>

\* fail_cross_check with an error code that is retryable or not.
FailCheck(w) ==
  LET c == wconfig[w] IN
  /\ wpc[w] = "judge"
  /\ IF HoldsLease(w)
       THEN \E retryableCode \in BOOLEAN :
              /\ state' = [state EXCEPT ![c] =
                             IF retryableCode /\ attempts[c] < MaxAttempts
                               THEN "retryable_failed" ELSE "terminal_failed"]
              /\ token' = [token EXCEPT ![c] = None]
       ELSE UNCHANGED <<state, token>>
  /\ Return(w)
  /\ UNCHANGED <<rowId, attempts, verdict, nextId, projection, messages, outbox,
                 clientVars>>

\* The worker dies while it waits for the provider or before it commits.
WorkerDies(w) ==
  /\ wpc[w] = "judge"
  /\ Return(w)
  /\ UNCHANGED <<rowVars, nextId, projection, messages, outbox, clientVars>>

-----------------------------------------------------------------------------
(***************************************************************************)
(* The sweeper (sweep_cross_checks, sweep_cross_checks_task) and the       *)
(* broker.  A sweep selects retryable_failed rows and the running rows     *)
(* whose lease has expired; queued rows are not selected.                  *)
(***************************************************************************)
\* Mutant of Swept: failed attempts are not selected.
Swept_ExpiredOnly(expired) == expired

Swept(expired) == expired \cup {c \in Configs : state[c] = "retryable_failed"}

\* Mutant of SweepChecks: off by one at the attempts limit.
SweepChecks_OffByOne(expired) ==
  LET rows == Swept(expired)
      requeued == {c \in rows : attempts[c] <= MaxAttempts}
  IN
  /\ rows # {}
  /\ state' = [c \in Configs |-> IF c \in requeued THEN "queued"
                                 ELSE IF c \in rows THEN "terminal_failed"
                                 ELSE state[c]]
  /\ token' = [c \in Configs |-> IF c \in rows THEN None ELSE token[c]]
  /\ outbox' = outbox \cup requeued
  /\ UNCHANGED <<rowId, attempts, verdict, nextId, projection, messages,
                 clientVars, workerVars>>

\* A sweep and its commit.
SweepChecks(expired) ==
  LET rows == Swept(expired)
      requeued == {c \in rows : attempts[c] < MaxAttempts}
  IN
  /\ rows # {}
  /\ state' = [c \in Configs |-> IF c \in requeued THEN "queued"
                                 ELSE IF c \in rows THEN "terminal_failed"
                                 ELSE state[c]]
  /\ token' = [c \in Configs |-> IF c \in rows THEN None ELSE token[c]]
  /\ outbox' = outbox \cup requeued
  /\ UNCHANGED <<rowId, attempts, verdict, nextId, projection, messages,
                 clientVars, workerVars>>

\* send_task for one requeued row, after the commit.
SendRequeued(c) ==
  /\ c \in outbox
  /\ Send(c)
  /\ outbox' = outbox \ {c}
  /\ UNCHANGED <<rowVars, nextId, projection, clientVars, workerVars>>

\* The sweep task dies, or send_task raises, before the last message is sent.
SweeperDies ==
  /\ CanLose
  /\ outbox # {}
  /\ outbox' = {}
  /\ UNCHANGED <<rowVars, nextId, projection, messages, clientVars, workerVars>>

\* The broker loses a message.
LoseMessage(c) ==
  /\ CanLose
  /\ messages[c] > 0
  /\ messages' = [messages EXCEPT ![c] = @ - 1]
  /\ UNCHANGED <<rowVars, nextId, projection, outbox, clientVars, workerVars>>

Running == {c \in Configs : state[c] = "running"}

ClientStep(t) ==
  \/ LoadScore(t)
  \/ \E c \in Configs : ReadGreatest(t, c)
  \/ InsertRow(t)
  \/ CommitRow(t)
  \/ Rollback(t)
  \/ SendCheck(t)
  \/ SendFails(t)

WorkerStep(w) ==
  \/ \E c \in Configs : ClaimCheck(w, c)
  \/ CompleteCheck(w)
  \/ FailCheck(w)
  \/ WorkerDies(w)

Next ==
  \/ \E t \in Clients : ClientStep(t)
  \/ \E w \in Workers : WorkerStep(w)
  \/ \E c \in Configs : ClaimNothing(c) \/ SendRequeued(c) \/ LoseMessage(c)
  \/ \E expired \in SUBSET Running : SweepChecks(expired)
  \/ SweeperDies

Spec == Init /\ [][Next]_vars

-----------------------------------------------------------------------------
(***************************************************************************)
(* Safety.                                                                 *)
(***************************************************************************)

\* Once the newest check is completed, the score never shows an older check's
\* verdict again: neither a late completion of a superseded check nor a trigger
\* whose session loaded the Score long ago can bring it back.
NewestNotContradicted ==
  \A c \in Configs :
    rowId[c] # 0 /\ IsGreatestId(rowId[c]) /\ state[c] = "completed" =>
      /\ projection.by \in {c, None}
      /\ projection.suspicious => verdict[c] = "suspicious"

\* A queued row can always be claimed: claim_cross_check refuses a row without
\* attempts left, and nothing would ever move such a row again.
QueuedIsClaimable ==
  \A c \in Configs : state[c] = "queued" => attempts[c] < MaxAttempts

\* At most one worker can still record an outcome for a row, however many
\* presumed dead workers are still waiting for the provider.
OneLeaseHolder ==
  \A v, w \in Workers :
    /\ wpc[v] = "judge" /\ HoldsLease(v)
    /\ wpc[w] = "judge" /\ HoldsLease(w)
    /\ wconfig[v] = wconfig[w]
    => v = w

\* A settled check stays settled with its verdict: neither a stale worker nor a
\* sweep nor another trigger reopens it.
SettledIsFinal ==
  [][\A c \in Configs : state[c] \in {"completed", "terminal_failed"}
       => state'[c] = state[c] /\ verdict'[c] = verdict[c]]_vars

\* The phase of a check in a state: a failed attempt that may be repeated is still
\* a try.
Phase(s) ==
  CASE s = "none"                            -> "none"
    [] s = "queued"                          -> "waiting"
    [] s \in {"running", "retryable_failed"} -> "tried"
    [] s = "completed"                       -> "answered"
    [] s = "terminal_failed"                 -> "given_up"

Lifecycle == INSTANCE CheckLifecycle WITH
  Checks <- Configs, order <- rowId, phase <- [c \in Configs |-> Phase(state[c])],
  shown <- projection

\* The rows and the projection do what the checks of a score promise, whichever
\* workers are late, whoever triggers a check twice, and although ids are committed
\* in another order than they are drawn (state.py:68).
ChecksFollowLifecycle == Lifecycle!Spec

-----------------------------------------------------------------------------
(***************************************************************************)
(* Liveness.  Leases of dead workers expire and Beat keeps sweeping, tasks *)
(* end (at the latest by the time limit), and the broker delivers a        *)
(* message that keeps being there.                                         *)
(***************************************************************************)
Fairness ==
  /\ \A t \in Clients : WF_vars(SendCheck(t))
  /\ \A w \in Workers : WF_vars(CompleteCheck(w) \/ FailCheck(w) \/ WorkerDies(w))
  /\ \A c \in Configs :
       /\ WF_vars(\E expired \in SUBSET Running : c \in Swept(expired) /\ SweepChecks(expired))
       /\ WF_vars(SendRequeued(c))
       /\ SF_vars(\E w \in Workers : ClaimCheck(w, c))

FairSpec == Spec /\ Fairness

\* Every queued check is eventually settled.
ChecksSettle ==
  \A c \in Configs :
    state[c] = "queued" ~> state[c] \in {"completed", "terminal_failed"}
=============================================================================
