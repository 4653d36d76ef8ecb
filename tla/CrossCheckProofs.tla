--------------------------- MODULE CrossCheckProofs ---------------------------
(***************************************************************************)
(* Safety of CrossCheck for every number of configurations, transactions   *)
(* and workers, every attempts limit, and with or without lost messages.   *)
(***************************************************************************)
EXTENDS CrossCheck, TLAPS

\* Committed rows have distinct ids the sequence has already drawn, and a row
\* that does not exist has spent no attempt.
RowInv ==
  \A c \in Configs :
    /\ rowId[c] < nextId
    /\ state[c] = "none" => rowId[c] = 0 /\ attempts[c] = 0
    /\ \A d \in Configs : rowId[c] = rowId[d] /\ rowId[c] # 0 => c = d

\* The id of an inserted row that is not committed is nobody else's, and no other
\* transaction has inserted or committed its configuration.
ClientInv ==
  \A t \in Clients :
    /\ tinserted[t] < nextId
    /\ tpc[t] \in {"insert", "commit", "send"} => tconfig[t] \in Configs
    /\ tinserted[t] # 0 => /\ tpc[t] = "commit"
                           /\ state[tconfig[t]] = "none"
                           /\ \A c \in Configs : rowId[c] # tinserted[t]
    /\ \A s \in Clients :
         /\ tinserted[s] # 0 /\ tinserted[t] # 0
         /\ tconfig[s] = tconfig[t] \/ tinserted[s] = tinserted[t]
         => s = t

\* A worker's token is the attempt it was issued for, so no two workers of a row
\* share one.
TokenInv ==
  /\ \A w \in Workers : wpc[w] = "judge" =>
       /\ wconfig[w] \in Configs
       /\ wtoken[w] \in Nat
       /\ wtoken[w] <= attempts[wconfig[w]]
  /\ \A v, w \in Workers :
       /\ wpc[v] = "judge" /\ wpc[w] = "judge"
       /\ wconfig[v] = wconfig[w] /\ wtoken[v] = wtoken[w]
       => v = w

IInv ==
  /\ TypeOK
  /\ RowInv
  /\ ClientInv
  /\ TokenInv
  /\ QueuedIsClaimable
  /\ NewestNotContradicted
-----------------------------------------------------------------------------
\* Loading the Score changes only the session's copy.
LEMMA LoadScoreStep ==
  ASSUME IInv, NEW t \in Clients, LoadScore(t)
  PROVE  IInv'
<1>. USE DEF IInv, LoadScore, rowVars, clientVars, workerVars
<1>1. TypeOK'
  BY DEF TypeOK
<1>2. ClientInv'
  BY DEF ClientInv
<1>3. /\ RowInv'
      /\ TokenInv'
      /\ QueuedIsClaimable'
      /\ NewestNotContradicted'
  BY DEF RowInv, TokenInv, QueuedIsClaimable, NewestNotContradicted,
         IsGreatestId
<1>. QED  BY <1>1, <1>2, <1>3

\* Reading previous_greatest only chooses a configuration.
LEMMA ReadGreatestStep ==
  ASSUME IInv, NEW t \in Clients, NEW c \in Configs, ReadGreatest(t, c)
  PROVE  IInv'
<1>. USE DEF IInv, ReadGreatest, rowVars, clientVars, workerVars
<1>1. TypeOK'
  BY DEF TypeOK
<1>2. ClientInv'
  BY DEF ClientInv, TypeOK
<1>3. /\ RowInv'
      /\ TokenInv'
      /\ QueuedIsClaimable'
      /\ NewestNotContradicted'
  BY DEF RowInv, TokenInv, QueuedIsClaimable, NewestNotContradicted,
         IsGreatestId
<1>. QED  BY <1>1, <1>2, <1>3

\* The INSERT draws a fresh id, and only for a configuration that no other
\* open transaction has inserted.
LEMMA InsertRowStep ==
  ASSUME IInv, NEW t \in Clients, InsertRow(t)
  PROVE  IInv'
<1>. USE DEF IInv, InsertRow, rowVars, clientVars, workerVars
<1>1. TypeOK'
  BY DEF TypeOK
<1>2. RowInv'
  BY DEF RowInv, TypeOK
<1>3. ClientInv'
  BY DEF ClientInv, TypeOK, RowInv
<1>4. /\ TokenInv'
      /\ QueuedIsClaimable'
      /\ NewestNotContradicted'
  BY DEF TokenInv, QueuedIsClaimable, NewestNotContradicted, IsGreatestId
<1>. QED  BY <1>1, <1>2, <1>3, <1>4

\* The commit makes the inserted id the row's id.  If the row becomes the
\* greatest it is only queued; if it does not, the completed greatest row keeps
\* its projection or loses it.
LEMMA CommitRowStep ==
  ASSUME IInv, NEW t \in Clients, CommitRow(t)
  PROVE  IInv'
<1>. USE DEF IInv, CommitRow, Cleared, rowVars, clientVars, workerVars
<1>1. TypeOK'
  BY DEF TypeOK, CheckState, Projection
<1>2. RowInv'
  BY DEF RowInv, TypeOK, ClientInv
<1>3. ClientInv'
  BY DEF ClientInv, TypeOK
<1>4. QueuedIsClaimable'
  BY AttemptsAssumption DEF QueuedIsClaimable, RowInv, ClientInv
<1>5. NewestNotContradicted'
  BY DEF NewestNotContradicted, TypeOK, RowInv, ClientInv, IsGreatestId,
         Verdicts
<1>6. TokenInv'
  BY DEF TokenInv
<1>. QED  BY <1>1, <1>2, <1>3, <1>4, <1>5, <1>6

\* A rollback forgets the inserted id.
LEMMA RollbackStep ==
  ASSUME IInv, NEW t \in Clients, Rollback(t)
  PROVE  IInv'
<1>. USE DEF IInv, Rollback, Finish, rowVars, clientVars, workerVars
<1>1. TypeOK'
  BY DEF TypeOK, Projection, NoProjection
<1>2. ClientInv'
  BY DEF ClientInv, TypeOK
<1>3. /\ RowInv'
      /\ TokenInv'
      /\ QueuedIsClaimable'
      /\ NewestNotContradicted'
  BY DEF RowInv, TokenInv, QueuedIsClaimable, NewestNotContradicted,
         IsGreatestId
<1>. QED  BY <1>1, <1>2, <1>3

\* Sending the message ends the caller's part.
LEMMA SendCheckStep ==
  ASSUME IInv, NEW t \in Clients, SendCheck(t)
  PROVE  IInv'
<1>. USE DEF IInv, SendCheck, Finish, Send, rowVars, clientVars, workerVars
<1>1. TypeOK'
  BY BoundsAssumption DEF TypeOK, ClientInv, Projection, NoProjection
<1>2. ClientInv'
  BY DEF ClientInv, TypeOK
<1>3. /\ RowInv'
      /\ TokenInv'
      /\ QueuedIsClaimable'
      /\ NewestNotContradicted'
  BY DEF RowInv, TokenInv, QueuedIsClaimable, NewestNotContradicted,
         IsGreatestId
<1>. QED  BY <1>1, <1>2, <1>3

\* So does failing to send it.
LEMMA SendFailsStep ==
  ASSUME IInv, NEW t \in Clients, SendFails(t)
  PROVE  IInv'
<1>. USE DEF IInv, SendFails, Finish, rowVars, clientVars, workerVars
<1>1. TypeOK'
  BY DEF TypeOK, Projection, NoProjection
<1>2. ClientInv'
  BY DEF ClientInv, TypeOK
<1>3. /\ RowInv'
      /\ TokenInv'
      /\ QueuedIsClaimable'
      /\ NewestNotContradicted'
  BY DEF RowInv, TokenInv, QueuedIsClaimable, NewestNotContradicted,
         IsGreatestId
<1>. QED  BY <1>1, <1>2, <1>3

\* The claim issues a token above all earlier tokens of the row.
LEMMA ClaimCheckStep ==
  ASSUME IInv, NEW w \in Workers, NEW c \in Configs, ClaimCheck(w, c)
  PROVE  IInv'
<1>. USE DEF IInv, ClaimCheck, Claimable, rowVars, clientVars, workerVars
<1>1. TypeOK'
  BY BoundsAssumption DEF TypeOK, CheckState
<1>2. RowInv'
  BY DEF RowInv
<1>3. ClientInv'
  BY DEF ClientInv
<1>4. TokenInv'
  BY DEF TokenInv, TypeOK
<1>5. QueuedIsClaimable'
  BY DEF QueuedIsClaimable, TypeOK
<1>6. NewestNotContradicted'
  BY DEF NewestNotContradicted, IsGreatestId
<1>. QED  BY <1>1, <1>2, <1>3, <1>4, <1>5, <1>6

\* A completion under the lease.  If another row is the greatest and completed,
\* this one is not projected, because ids are distinct.
LEMMA CompleteCheckProjects ==
  ASSUME IInv, NEW w \in Workers, CompleteCheck(w)
  PROVE  TypeOK' /\ NewestNotContradicted'
<1>. DEFINE c == wconfig[w]
<1>1. c \in Configs
  BY DEF IInv, TokenInv, CompleteCheck
<1>2. CASE HoldsLease(w)
  <2>1. PICK v \in Verdicts :
          /\ state' = [state EXCEPT ![c] = "completed"]
          /\ token' = [token EXCEPT ![c] = None]
          /\ verdict' = [verdict EXCEPT ![c] = v]
          /\ projection' = IF IsGreatestId(rowId[c])
                             THEN [by |-> c, suspicious |-> v = "suspicious"]
                             ELSE projection
    BY <1>2 DEF CompleteCheck
  <2>2. projection' \in Projection
    BY <1>1, <2>1 DEF IInv, TypeOK, Projection
  <2>3. TypeOK'
    BY <1>1, <2>1, <2>2 DEF IInv, TypeOK, CompleteCheck, Return, CheckState, clientVars
  <2>4. ASSUME NEW d \in Configs, rowId[d] # 0, IsGreatestId(rowId[d]), state'[d] = "completed"
        PROVE  /\ projection'.by \in {d, None}
               /\ projection'.suspicious => verdict'[d] = "suspicious"
    <3>1. CASE d = c
      BY <1>1, <2>1, <2>4, <3>1 DEF IInv, TypeOK
    <3>2. CASE d # c
      <4>1. state[d] = "completed" /\ verdict'[d] = verdict[d]
        BY <1>1, <2>1, <2>4, <3>2 DEF IInv, TypeOK
      <4>2. ~IsGreatestId(rowId[c])
        BY <1>1, <2>4, <3>2 DEF IInv, TypeOK, RowInv, IsGreatestId
      <4>. QED  BY <2>1, <2>4, <4>1, <4>2 DEF IInv, NewestNotContradicted
    <3>. QED  BY <3>1, <3>2
  <2>5. NewestNotContradicted'
    BY <2>4 DEF NewestNotContradicted, IsGreatestId, CompleteCheck
  <2>. QED  BY <2>3, <2>5
<1>3. CASE ~HoldsLease(w)
  BY <1>1, <1>3 DEF IInv, TypeOK, NewestNotContradicted, IsGreatestId, CompleteCheck, Return, clientVars
<1>. QED  BY <1>2, <1>3

\* The other parts of the invariant under a completion.
LEMMA CompleteCheckStep ==
  ASSUME IInv, NEW w \in Workers, CompleteCheck(w)
  PROVE  IInv'
<1>. USE DEF IInv, CompleteCheck, HoldsLease, Return, rowVars, clientVars,
             workerVars
<1>1. RowInv'
  BY DEF RowInv, TypeOK
<1>2. ClientInv'
  BY DEF ClientInv, TypeOK
<1>3. TokenInv'
  BY DEF TokenInv, TypeOK
<1>4. QueuedIsClaimable'
  BY DEF QueuedIsClaimable, TypeOK
<1>5. TypeOK' /\ NewestNotContradicted'
  BY CompleteCheckProjects
<1>. QED  BY <1>1, <1>2, <1>3, <1>4, <1>5

\* A failure under the lease touches neither completed rows nor the projection.
LEMMA FailCheckStep ==
  ASSUME IInv, NEW w \in Workers, FailCheck(w)
  PROVE  IInv'
<1>. USE DEF IInv, FailCheck, HoldsLease, Return, rowVars, clientVars,
             workerVars
<1>1. TypeOK'
  BY DEF TypeOK, CheckState
<1>2. RowInv'
  BY DEF RowInv, TypeOK
<1>3. ClientInv'
  BY DEF ClientInv, TypeOK
<1>4. TokenInv'
  BY DEF TokenInv, TypeOK
<1>5. QueuedIsClaimable'
  BY DEF QueuedIsClaimable, TypeOK
<1>6. NewestNotContradicted'
  BY DEF NewestNotContradicted, TypeOK, IsGreatestId
<1>. QED  BY <1>1, <1>2, <1>3, <1>4, <1>5, <1>6

\* A dead worker only loses its memory.
LEMMA WorkerDiesStep ==
  ASSUME IInv, NEW w \in Workers, WorkerDies(w)
  PROVE  IInv'
<1>. USE DEF IInv, WorkerDies, Return, rowVars, clientVars, workerVars
<1>1. TypeOK'
  BY DEF TypeOK
<1>2. TokenInv'
  BY DEF TokenInv, TypeOK
<1>3. /\ RowInv'
      /\ ClientInv'
      /\ QueuedIsClaimable'
      /\ NewestNotContradicted'
  BY DEF RowInv, ClientInv, QueuedIsClaimable, NewestNotContradicted,
         IsGreatestId
<1>. QED  BY <1>1, <1>2, <1>3

\* A sweep queues only rows with an attempt left.
LEMMA SweepChecksStep ==
  ASSUME IInv, NEW expired \in SUBSET Running, SweepChecks(expired)
  PROVE  IInv'
<1>. USE DEF IInv, SweepChecks, Swept, Running, rowVars, clientVars,
             workerVars
<1>1. TypeOK'
  BY DEF TypeOK, CheckState
<1>2. RowInv'
  BY DEF RowInv
<1>3. ClientInv'
  BY DEF ClientInv
<1>4. QueuedIsClaimable'
  BY DEF QueuedIsClaimable
<1>5. NewestNotContradicted'
  BY DEF NewestNotContradicted, IsGreatestId
<1>6. TokenInv'
  BY DEF TokenInv
<1>. QED  BY <1>1, <1>2, <1>3, <1>4, <1>5, <1>6

\* A message without a claimable row is dropped.
LEMMA ClaimNothingStep ==
  ASSUME IInv, NEW c \in Configs, ClaimNothing(c)
  PROVE  IInv'
<1>. USE DEF IInv, ClaimNothing, rowVars, clientVars, workerVars
<1>1. TypeOK'
  BY BoundsAssumption DEF TypeOK
<1>2. /\ RowInv'
      /\ ClientInv'
      /\ TokenInv'
      /\ QueuedIsClaimable'
      /\ NewestNotContradicted'
  BY DEF RowInv, ClientInv, TokenInv, QueuedIsClaimable,
         NewestNotContradicted, IsGreatestId
<1>. QED  BY <1>1, <1>2

\* The sweeper's sends touch no row.
LEMMA SendRequeuedStep ==
  ASSUME IInv, NEW c \in Configs, SendRequeued(c)
  PROVE  IInv'
<1>. USE DEF IInv, SendRequeued, Send, rowVars, clientVars, workerVars
<1>1. TypeOK'
  BY BoundsAssumption DEF TypeOK
<1>2. /\ RowInv'
      /\ ClientInv'
      /\ TokenInv'
      /\ QueuedIsClaimable'
      /\ NewestNotContradicted'
  BY DEF RowInv, ClientInv, TokenInv, QueuedIsClaimable,
         NewestNotContradicted, IsGreatestId
<1>. QED  BY <1>1, <1>2

\* Nor does the loss of a message.
LEMMA LoseMessageStep ==
  ASSUME IInv, NEW c \in Configs, LoseMessage(c)
  PROVE  IInv'
<1>. USE DEF IInv, LoseMessage, rowVars, clientVars, workerVars
<1>1. TypeOK'
  BY BoundsAssumption DEF TypeOK
<1>2. /\ RowInv'
      /\ ClientInv'
      /\ TokenInv'
      /\ QueuedIsClaimable'
      /\ NewestNotContradicted'
  BY DEF RowInv, ClientInv, TokenInv, QueuedIsClaimable,
         NewestNotContradicted, IsGreatestId
<1>. QED  BY <1>1, <1>2

\* Nor does the death of the sweep task.
LEMMA SweeperDiesStep ==
  ASSUME IInv, SweeperDies
  PROVE  IInv'
<1>. USE DEF IInv, SweeperDies, rowVars, clientVars, workerVars
<1>1. TypeOK'
  BY DEF TypeOK
<1>2. /\ RowInv'
      /\ ClientInv'
      /\ TokenInv'
      /\ QueuedIsClaimable'
      /\ NewestNotContradicted'
  BY DEF RowInv, ClientInv, TokenInv, QueuedIsClaimable,
         NewestNotContradicted, IsGreatestId
<1>. QED  BY <1>1, <1>2
-----------------------------------------------------------------------------
\* The empty tables satisfy the invariant.
LEMMA InitInv == Init => IInv
<1>. SUFFICES ASSUME Init PROVE IInv
  OBVIOUS
<1>. USE DEF Init
<1>1. TypeOK
  BY BoundsAssumption DEF TypeOK, CheckState, Projection, NoProjection
<1>2. RowInv /\ ClientInv /\ TokenInv
  BY DEF RowInv, ClientInv, TokenInv
<1>3. QueuedIsClaimable /\ NewestNotContradicted
  BY DEF QueuedIsClaimable, NewestNotContradicted
<1>. QED  BY <1>1, <1>2, <1>3 DEF IInv

\* Every step preserves the invariant.
LEMMA NextInv == IInv /\ [Next]_vars => IInv'
<1>. SUFFICES ASSUME IInv, [Next]_vars PROVE IInv'
  OBVIOUS
<1>1. ASSUME NEW t \in Clients, ClientStep(t) PROVE IInv'
  BY <1>1, LoadScoreStep, ReadGreatestStep, InsertRowStep, CommitRowStep,
     RollbackStep, SendCheckStep, SendFailsStep DEF ClientStep
<1>2. ASSUME NEW w \in Workers, WorkerStep(w) PROVE IInv'
  BY <1>2, ClaimCheckStep, CompleteCheckStep, FailCheckStep, WorkerDiesStep
     DEF WorkerStep
<1>3. ASSUME NEW c \in Configs, ClaimNothing(c) \/ SendRequeued(c) \/ LoseMessage(c)
      PROVE IInv'
  BY <1>3, ClaimNothingStep, SendRequeuedStep, LoseMessageStep
<1>4. ASSUME NEW expired \in SUBSET Running, SweepChecks(expired) PROVE IInv'
  BY <1>4, SweepChecksStep
<1>5. CASE SweeperDies
  BY <1>5, SweeperDiesStep
<1>6. CASE UNCHANGED vars
  BY <1>6 DEF IInv, TypeOK, RowInv, ClientInv, TokenInv, QueuedIsClaimable,
     NewestNotContradicted, IsGreatestId, vars, rowVars, clientVars, workerVars
<1>. QED  BY <1>1, <1>2, <1>3, <1>4, <1>5, <1>6 DEF Next

\* The invariant holds in every reachable state.
THEOREM Invariance == Spec => []IInv
<1>. QED  BY InitInv, NextInv, PTL DEF Spec

\* Every column and every process variable keeps its type.
THEOREM ChecksTypeCorrect == Spec => []TypeOK
<1>1. IInv => TypeOK
  BY DEF IInv
<1>. QED  BY <1>1, Invariance, PTL

\* Once the newest check is completed the score shows its verdict or none.
THEOREM NewestSpeaks == Spec => []NewestNotContradicted
<1>1. IInv => NewestNotContradicted
  BY DEF IInv
<1>. QED  BY <1>1, Invariance, PTL

\* claim_cross_check never meets a queued row without attempts.
THEOREM QueuedChecksClaimable == Spec => []QueuedIsClaimable
<1>1. IInv => QueuedIsClaimable
  BY DEF IInv
<1>. QED  BY <1>1, Invariance, PTL

\* The lease token leaves at most one worker able to record an outcome.
THEOREM LeaseExclusive == Spec => []OneLeaseHolder
<1>1. IInv => OneLeaseHolder
  BY DEF IInv, TokenInv, OneLeaseHolder, HoldsLease
<1>. QED  BY <1>1, Invariance, PTL

\* No step of any process reopens a settled check or changes its verdict.
LEMMA SettledStep ==
  ASSUME IInv, [Next]_vars, NEW c \in Configs,
         state[c] \in {"completed", "terminal_failed"}
  PROVE  state'[c] = state[c] /\ verdict'[c] = verdict[c]
<1>. USE DEF rowVars, clientVars, workerVars
<1>1. ASSUME NEW t \in Clients, ClientStep(t)
      PROVE  state'[c] = state[c] /\ verdict'[c] = verdict[c]
  <2>1. CASE CommitRow(t)
    BY <2>1 DEF CommitRow, IInv, ClientInv, TypeOK
  <2>. QED  BY <1>1, <2>1 DEF ClientStep, LoadScore, ReadGreatest, InsertRow,
                 Rollback, SendCheck, SendFails
<1>2. ASSUME NEW w \in Workers, WorkerStep(w)
      PROVE  state'[c] = state[c] /\ verdict'[c] = verdict[c]
  <2>. USE DEF IInv, TypeOK
  <2>1. ASSUME NEW d \in Configs, ClaimCheck(w, d)
        PROVE  state'[c] = state[c] /\ verdict'[c] = verdict[c]
    BY <2>1 DEF ClaimCheck, Claimable
  <2>2. CASE CompleteCheck(w)
    BY <2>2 DEF CompleteCheck, HoldsLease
  <2>3. CASE FailCheck(w)
    BY <2>3 DEF FailCheck, HoldsLease
  <2>4. CASE WorkerDies(w)
    BY <2>4 DEF WorkerDies
  <2>. QED  BY <1>2, <2>1, <2>2, <2>3, <2>4 DEF WorkerStep
<1>3. ASSUME NEW d \in Configs, ClaimNothing(d) \/ SendRequeued(d) \/ LoseMessage(d)
      PROVE  state'[c] = state[c] /\ verdict'[c] = verdict[c]
  BY <1>3 DEF ClaimNothing, SendRequeued, LoseMessage
<1>4. ASSUME NEW expired \in SUBSET Running, SweepChecks(expired)
      PROVE  state'[c] = state[c] /\ verdict'[c] = verdict[c]
  BY <1>4 DEF SweepChecks, Swept, Running
<1>5. CASE SweeperDies
  BY <1>5 DEF SweeperDies
<1>6. CASE UNCHANGED vars
  BY <1>6 DEF vars
<1>. QED  BY <1>1, <1>2, <1>3, <1>4, <1>5, <1>6 DEF Next

\* A settled check is final.
THEOREM SettledStaysSettled == Spec => SettledIsFinal
<1>1. IInv /\ [Next]_vars
      => [\A c \in Configs : state[c] \in {"completed", "terminal_failed"}
            => state'[c] = state[c] /\ verdict'[c] = verdict[c]]_vars
  BY SettledStep
<1>. QED  BY <1>1, Invariance, PTL DEF Spec, SettledIsFinal

-----------------------------------------------------------------------------
(***************************************************************************)
(* The rows and the projection implement the lifecycle of a check.         *)
(***************************************************************************)

Phases == [c \in Configs |-> Phase(state[c])]

\* A step that assigns a state moves the check to its phase.
LEMMA PhaseMoves ==
  ASSUME TypeOK, NEW c \in Configs, NEW s \in CheckState, state' = [state EXCEPT ![c] = s]
  PROVE  Phases' = [Phases EXCEPT ![c] = Phase(s)]
BY DEF TypeOK, Phases

\* A committed trigger asks for the check, or finds it and at most hides the
\* projection.
LEMMA CommitRowRefines ==
  ASSUME IInv, NEW t \in Clients, CommitRow(t)
  PROVE  Lifecycle!Next
<1>. DEFINE c == tconfig[t]
<1>1. c \in Configs
  BY DEF IInv, ClientInv, CommitRow
<1>2. projection' \in Lifecycle!Less /\ UNCHANGED <<attempts, verdict>>
  BY DEF IInv, TypeOK, Projection, CommitRow, Cleared, Lifecycle!Less
<1>3. CASE tinserted[t] # 0
  <2>1. /\ state[c] = "none" /\ state' = [state EXCEPT ![c] = "queued"]
        /\ rowId' = [rowId EXCEPT ![c] = tinserted[t]]
        /\ tinserted[t] \in Nat \ {0} /\ \A d \in Configs : rowId[d] # tinserted[t]
    BY <1>3 DEF IInv, TypeOK, ClientInv, CommitRow
  <2>2. Phases[c] = "none" /\ Phases' = [Phases EXCEPT ![c] = "waiting"]
    BY <1>1, <2>1, PhaseMoves DEF IInv, Phases, Phase, CheckState
  <2>3. rowId'[c] = tinserted[t] /\ rowId' = [rowId EXCEPT ![c] = rowId'[c]]
    BY <1>1, <2>1 DEF IInv, TypeOK
  <2>4. Lifecycle!Ask(c)
    BY <1>2, <2>1, <2>2, <2>3 DEF Lifecycle!Ask, Phases
  <2>. QED  BY <1>1, <2>4 DEF Lifecycle!Next
<1>4. CASE tinserted[t] = 0
  <2>1. state' = state /\ rowId' = rowId
    BY <1>1, <1>4 DEF IInv, TypeOK, CommitRow
  <2>. QED  BY <1>2, <2>1 DEF Lifecycle!Next, Lifecycle!AskAgain
<1>. QED  BY <1>3, <1>4

\* A claim is a try.
LEMMA ClaimCheckRefines ==
  ASSUME IInv, NEW w \in Workers, NEW c \in Configs, ClaimCheck(w, c)
  PROVE  Lifecycle!Next
<1>1. Phases[c] = "waiting" /\ Phases' = [Phases EXCEPT ![c] = "tried"]
  BY PhaseMoves DEF IInv, ClaimCheck, Claimable, Phases, Phase, CheckState
<1>2. Lifecycle!Try(c)
  BY <1>1 DEF ClaimCheck, Claimable, Lifecycle!Try, Phases
<1>. QED  BY <1>2 DEF Lifecycle!Next

\* Completing under the lease is an answer; without it nothing happens.
LEMMA CompleteCheckRefines ==
  ASSUME IInv, NEW w \in Workers, CompleteCheck(w)
  PROVE  Lifecycle!Next \/ UNCHANGED <<rowId, Phases, attempts, verdict, projection>>
<1>. DEFINE c == wconfig[w]
<1>1. c \in Configs
  BY DEF IInv, TokenInv, CompleteCheck
<1>2. CASE HoldsLease(w)
  <2>1. PICK v \in Verdicts :
          /\ state' = [state EXCEPT ![c] = "completed"]
          /\ verdict' = [verdict EXCEPT ![c] = v]
          /\ projection' = IF IsGreatestId(rowId[c])
                             THEN [by |-> c, suspicious |-> v = "suspicious"]
                             ELSE projection
          /\ UNCHANGED <<rowId, attempts>>
    BY <1>2 DEF CompleteCheck
  <2>2. Phases[c] = "tried" /\ Phases' = [Phases EXCEPT ![c] = "answered"]
    BY <1>1, <1>2, <2>1, PhaseMoves DEF IInv, HoldsLease, Phases, Phase, CheckState
  <2>3. IsGreatestId(rowId[c]) <=> Lifecycle!Newest(c)
    BY DEF IsGreatestId, Lifecycle!Newest
  <2>4. Lifecycle!Answer(c)
    BY <2>1, <2>2, <2>3, Zenon DEF Lifecycle!Answer, Phases
  <2>. QED  BY <1>1, <2>4 DEF Lifecycle!Next
<1>3. CASE ~HoldsLease(w)
  BY <1>3 DEF CompleteCheck, Phases
<1>. QED  BY <1>2, <1>3

\* Failing under the lease gives up, or leaves a try that has ended.
LEMMA FailCheckRefines ==
  ASSUME IInv, NEW w \in Workers, FailCheck(w)
  PROVE  Lifecycle!Next \/ UNCHANGED <<rowId, Phases, attempts, verdict, projection>>
<1>. DEFINE c == wconfig[w]
<1>1. c \in Configs /\ UNCHANGED <<rowId, attempts, verdict, projection>>
  BY DEF IInv, TokenInv, FailCheck
<1>2. CASE HoldsLease(w)
  <2>1. Phases[c] = "tried"
    BY <1>1, <1>2 DEF HoldsLease, Phases, Phase
  <2>2. CASE state' = [state EXCEPT ![c] = "retryable_failed"]
    <3>1. Phases' = [Phases EXCEPT ![c] = "tried"]
      BY <1>1, <2>2, PhaseMoves DEF IInv, Phase, CheckState
    <3>2. Phases' = Phases
      BY <1>1, <2>1, <3>1 DEF Phases
    <3>. QED  BY <1>1, <3>2
  <2>3. CASE state' = [state EXCEPT ![c] = "terminal_failed"]
    <3>1. Phases' = [Phases EXCEPT ![c] = "given_up"]
      BY <1>1, <2>3, PhaseMoves DEF IInv, Phase, CheckState
    <3>2. Lifecycle!GiveUp(c)
      BY <1>1, <2>1, <3>1 DEF Lifecycle!GiveUp, Phases
    <3>. QED  BY <1>1, <3>2 DEF Lifecycle!Next
  <2>. QED  BY <1>2, <2>2, <2>3 DEF FailCheck
<1>3. CASE ~HoldsLease(w)
  BY <1>1, <1>3 DEF FailCheck, Phases
<1>. QED  BY <1>2, <1>3

\* A sweep recovers the tries that failed and those it takes for dead.
LEMMA SweepChecksRefines ==
  ASSUME IInv, NEW expired \in SUBSET Running, SweepChecks(expired)
  PROVE  Lifecycle!Next
<1>1. UNCHANGED <<rowId, attempts, verdict, projection>>
  BY DEF SweepChecks
<1>2. ASSUME NEW c \in Configs
      PROVE  \/ Phases'[c] = Phases[c]
             \/ /\ Phases[c] = "tried"
                /\ Phases'[c] = IF attempts[c] < MaxAttempts THEN "waiting" ELSE "given_up"
  <2>1. CASE c \in Swept(expired)
    <3>1. Phases[c] = "tried"
      BY <2>1 DEF Swept, Running, Phases, Phase
    <3>2. state'[c] = IF attempts[c] < MaxAttempts THEN "queued" ELSE "terminal_failed"
      BY <2>1 DEF SweepChecks
    <3>. QED  BY <3>1, <3>2 DEF Phases, Phase
  <2>2. CASE c \notin Swept(expired)
    BY <2>2 DEF SweepChecks, Phases
  <2>. QED  BY <2>1, <2>2
<1>3. Lifecycle!Recover
  BY <1>1, <1>2 DEF Lifecycle!Recover, Phases
<1>. QED  BY <1>3 DEF Lifecycle!Next

\* Every step is one of the lifecycle, or is not seen in it.
LEMMA CheckStepRefines ==
  ASSUME IInv, [Next]_vars
  PROVE  Lifecycle!Next \/ UNCHANGED <<rowId, Phases, attempts, verdict, projection>>
<1>1. ASSUME NEW t \in Clients, ClientStep(t)
      PROVE  \/ Lifecycle!Next
             \/ UNCHANGED <<rowId, Phases, attempts, verdict, projection>>
  BY <1>1, CommitRowRefines
     DEF ClientStep, LoadScore, ReadGreatest, InsertRow, Rollback, SendCheck, SendFails,
         rowVars, Phases
<1>2. ASSUME NEW w \in Workers, WorkerStep(w)
      PROVE  \/ Lifecycle!Next
             \/ UNCHANGED <<rowId, Phases, attempts, verdict, projection>>
  BY <1>2, ClaimCheckRefines, CompleteCheckRefines, FailCheckRefines
     DEF WorkerStep, WorkerDies, rowVars, Phases
<1>3. ASSUME NEW expired \in SUBSET Running, SweepChecks(expired)
      PROVE  Lifecycle!Next
  BY <1>3, SweepChecksRefines
<1>4. CASE UNCHANGED vars
  BY <1>4 DEF vars, rowVars, Phases
<1>. QED  BY <1>1, <1>2, <1>3, <1>4
     DEF Next, ClaimNothing, SendRequeued, LoseMessage, SweeperDies, rowVars, Phases

\* Whatever transactions, workers, sweeps and the broker do, each check of a score
\* goes through its lifecycle and the score shows the newest answer or less.
THEOREM ImplementsCheckLifecycle == Spec => ChecksFollowLifecycle
<1>1. Init => Lifecycle!Init
  BY DEF Init, NoProjection, Phase, Lifecycle!Init
<1>2. IInv /\ [Next]_vars => [Lifecycle!Next]_(Lifecycle!checkVars)
  BY CheckStepRefines DEF Lifecycle!checkVars, Phases
<1>. QED  BY <1>1, <1>2, Invariance, PTL DEF Spec, ChecksFollowLifecycle, Lifecycle!Spec

\* A score is not called suspicious, and shows no difference, without a completed check
\* that found it: also when stale triggers have cleared one of the two and left the other
\* (state.py:115, state.py:192).
Answered(c) == c \in Configs /\ state[c] = "completed"
ShownWasAnswered ==
  /\ projection.by # None => Answered(projection.by)
  /\ projection.suspicious => \E c \in Configs : Answered(c) /\ verdict[c] = "suspicious"

\* The lifecycle is all that is needed to see it: what the score shows comes from an
\* answer, answers are final, and otherwise it only gets less.
LEMMA ShownWasAnsweredStep ==
  ASSUME IInv, ShownWasAnswered, [Next]_vars
  PROVE  ShownWasAnswered'
<1>1. \A c \in Configs : Answered(c) => Answered(c)' /\ verdict'[c] = verdict[c]
  BY SettledStep, Zenon DEF Answered
<1>2. CASE projection' \in Lifecycle!Less
  <2>1. /\ projection'.by \in {projection.by, None}
        /\ projection'.suspicious => projection.suspicious
    BY <1>2, Zenon DEF Lifecycle!Less
  <2>. QED  BY <1>1, <2>1 DEF ShownWasAnswered, Answered
<1>3. CASE projection' = projection
  BY <1>1, <1>3 DEF ShownWasAnswered, Answered
<1>4. ASSUME NEW c \in Configs, Lifecycle!Answer(c)
      PROVE  ShownWasAnswered'
  <2>1. PICK v \in Verdicts :
          /\ verdict' = [verdict EXCEPT ![c] = v]
          /\ projection' = IF Lifecycle!Newest(c) THEN [by |-> c, suspicious |-> v = "suspicious"]
                           ELSE projection
    BY <1>4 DEF Lifecycle!Answer
  <2>2. state'[c] = "completed" /\ verdict'[c] = v
    <3>1. Phase(state'[c]) = "answered" /\ state'[c] \in CheckState
      BY <1>4, NextInv DEF Lifecycle!Answer, IInv, TypeOK
    <3>2. state'[c] = "completed"
      BY <3>1 DEF Phase, CheckState
    <3>. QED  BY <2>1, <3>2 DEF IInv, TypeOK
  <2>3. CASE projection' = [by |-> c, suspicious |-> v = "suspicious"]
    BY <2>2, <2>3, Zenon DEF ShownWasAnswered, Answered
  <2>. QED  BY <1>3, <2>1, <2>3
<1>. QED  BY <1>2, <1>3, <1>4, CheckStepRefines
          DEF Lifecycle!Next, Lifecycle!Ask, Lifecycle!AskAgain, Lifecycle!Try,
              Lifecycle!GiveUp, Lifecycle!Recover

\* What the score shows is backed by completed checks, for any number of configurations,
\* triggers and workers.
THEOREM ShownIsBacked == Spec => []ShownWasAnswered
<1>1. Init => ShownWasAnswered
  BY DEF Init, NoProjection, ShownWasAnswered
<1>. QED  BY <1>1, ShownWasAnsweredStep, Invariance, PTL DEF Spec
=============================================================================
