------------------------- MODULE ResumeParsingProofs -------------------------
(***************************************************************************)
(* Safety of ResumeParsing for any ids, costs, retries, polling times and  *)
(* numbers of tasks.                                                       *)
(***************************************************************************)
EXTENDS ResumeParsing, SequenceTheorems, TLAPS

\* Ids are drawn in order; a row closed by its caller repeats the provider's answer.
RowInv ==
  \A a \in Attempts :
    /\ status[a] = "none" <=> a > used
    /\ answers[a] # None => status[a] # "none"
    /\ answers[a] # None /\ answers[a].usable => answers[a].status = "succeeded"
    /\ status[a] \in AnswerStatus =>
         answers[a] # None /\ <<status[a], cost[a]>> = <<answers[a].status, answers[a].cost>>

\* What the call knows of its current request at each point.
CallInv ==
  /\ gpc # "idle" => group # <<>>
  /\ \A i \in DOMAIN group : group[i].id <= used
  /\ gpc = "begin" => Current.id = 0
  /\ gpc = "request" => Current.id # 0 /\ answers[Current.id] = None
  /\ gpc \in {"finalize", "validate"} =>
       Current.id # 0 /\ reply # None /\ answers[Current.id] = reply
  /\ gpc = "finalize" => tries < FinalizeRetries
  /\ gpc = "validate" => reply.status = "succeeded"

\* RepeatJustified, with the role of the first request.
RepeatInv ==
  /\ group # <<>> =>
       group[1].role = IF operation = "cross_check" THEN "secondary" ELSE "primary"
  /\ RepeatJustified

\* A request of the call was answered by something a retry would meet again.
LastingAnswer ==
  \E i \in DOMAIN group :
    /\ group[i].id # 0 /\ answers[group[i].id] # None
    /\ answers[group[i].id].status # "unavailable"
    /\ ~answers[group[i].id].usable

\* An exception that will be terminal has such an answer behind it.
GatewayErrorInv ==
  /\ gpc # "done" => gerror = None
  /\ gerror \in TerminalErrors \ {None} => LastingAnswer

GatewayInv ==
  LedgerTypeOK /\ GatewayTypeOK /\ RowInv /\ CallInv /\ RepeatInv /\ GatewayErrorInv

\* The parser's terminal exceptions are raised for lasting answers, and its file is
\* there between its creation and the handlers that remove it.
ParserInv ==
  /\ MinerUTypeOK
  /\ merror \in TerminalErrors \ {NoError} => ~Transient(mreply)
  /\ archive => \/ mpc \in {"idle", "stream", "read"}
                \/ (mpc = "done" /\ merror = "DecodingError")

\* Which client runs at which stage, and what was cleared before it.
StageInv ==
  /\ stage \in {"idle", "download", "load"} => gpc = "idle" /\ mpc = "idle"
  /\ stage = "parse" => gpc = "idle" /\ mpc # "idle"
  /\ stage \in {"extract", "score", "cross_check"} => gpc # "idle" /\ mpc = "idle"
  /\ stage # "idle" => outcome = "none"
  /\ stage \in {"download", "extract", "score", "load", "cross_check"} => ~archive

ParsingInv ==
  TypeOK /\ GatewayInv /\ ParserInv /\ StageInv /\ TransientIsRetried /\ FilesRemoved

-----------------------------------------------------------------------------
(***************************************************************************)
(* The ledger.                                                             *)
(***************************************************************************)

LEMMA IdsAreNumbers == \A a \in Attempts \cup {0} : a \in Nat
BY AttemptsAssumption

\* finalize gives a row that is still pending the provider's status and cost.
LEMMA UpdatePendingRow ==
  ASSUME LedgerTypeOK, GatewayTypeOK, RowInv, NEW a \in Attempts, reply # None,
         answers[a] = reply,
         UpdatePending(a, reply.status, reply.cost) \/ UNCHANGED ledgerVars,
         UNCHANGED <<day, answers, used>>
  PROVE  LedgerTypeOK' /\ RowInv'
<1>1. CASE UNCHANGED ledgerVars
  BY <1>1 DEF LedgerTypeOK, RowInv, ledgerVars
<1>2. CASE status[a] = "pending" /\ ~ UNCHANGED ledgerVars
  <2>1. /\ status' = [status EXCEPT ![a] = reply.status]
        /\ cost' = [cost EXCEPT ![a] = reply.cost]
        /\ finished' = [finished EXCEPT ![a] = day]
        /\ started' = started
    BY <1>2 DEF UpdatePending
  <2>2. reply \in Answers
    BY DEF GatewayTypeOK
  <2>3. reply.status \in AnswerStatus /\ reply.cost \in Costs \cup {None}
    BY <2>2 DEF Answers
  <2>4. LedgerTypeOK'
    BY <2>1, <2>3, MaxDayAssumption DEF LedgerTypeOK, TerminalStatus
  <2>5. ASSUME NEW b \in Attempts
        PROVE  /\ status'[b] = IF b = a THEN reply.status ELSE status[b]
               /\ cost'[b] = IF b = a THEN reply.cost ELSE cost[b]
    BY <2>1 DEF LedgerTypeOK
  <2>6. RowInv'
    BY <1>2, <2>3, <2>5 DEF RowInv, AnswerStatus
  <2> QED BY <2>4, <2>6
<1> QED BY <1>1, <1>2 DEF UpdatePending

\* begin inserts the row of the next id.
LEMMA InsertPendingRow ==
  ASSUME LedgerTypeOK, GatewayTypeOK, RowInv, NEW a \in Attempts, a = used + 1,
         InsertPending(a), used' = a, UNCHANGED <<day, answers>>
  PROVE  LedgerTypeOK' /\ RowInv'
<1>1. PICK d \in {day, day - 1} \ {0} : started' = [started EXCEPT ![a] = d]
  BY DEF InsertPending
<1>2. /\ status' = [status EXCEPT ![a] = "pending"]
      /\ cost' = cost /\ finished' = finished
  BY DEF InsertPending
<1>3. d \in 0..MaxDay
  BY <1>1, MaxDayAssumption DEF LedgerTypeOK
<1>4. LedgerTypeOK'
  BY <1>1, <1>2, <1>3 DEF LedgerTypeOK
<1>5. \A b \in Attempts : b \in Nat
  BY AttemptsAssumption
<1>6. used \in Nat
  BY <1>5 DEF GatewayTypeOK
<1>7. ASSUME NEW b \in Attempts PROVE status'[b] = IF b = a THEN "pending" ELSE status[b]
  BY <1>2 DEF LedgerTypeOK
<1>8. RowInv'
  BY <1>2, <1>5, <1>6, <1>7 DEF RowInv, AnswerStatus
<1> QED BY <1>4, <1>8

\* The sweep closes rows without an answer of their own.
LEMMA AbandonedRows ==
  ASSUME LedgerTypeOK, RowInv, NEW stale \in SUBSET Pending, AbandonStale(stale),
         UNCHANGED <<day, answers, used>>
  PROVE  LedgerTypeOK' /\ RowInv'
<1>1. LedgerTypeOK'
  BY MaxDayAssumption DEF LedgerTypeOK, AbandonStale, TerminalStatus
<1>2. RowInv'
  BY DEF LedgerTypeOK, RowInv, AbandonStale, Pending, AnswerStatus
<1> QED BY <1>1, <1>2

-----------------------------------------------------------------------------
(***************************************************************************)
(* The call.                                                               *)
(***************************************************************************)

Requests == [id : Attempts \cup {0}, role : Roles]

\* The current request is the last of the group.
LEMMA CurrentRequest ==
  ASSUME GatewayTypeOK, CallInv, gpc # "idle"
  PROVE  /\ Len(group) \in Nat \ {0} /\ DOMAIN group = 1..Len(group)
         /\ Current \in Requests
         /\ Current.id # 0 => Current.id \in Attempts
         /\ \A i \in DOMAIN group : group[i] \in Requests
<1>1. group \in Seq(Requests) /\ group # <<>>
  BY DEF GatewayTypeOK, CallInv, Requests
<1>2. Len(group) \in Nat \ {0} /\ DOMAIN group = 1..Len(group)
  BY <1>1
<1>3. \A i \in DOMAIN group : group[i] \in Requests
  BY <1>1, <1>2
<1>4. Current \in Requests
  BY <1>2, <1>3 DEF Current
<1> QED BY <1>2, <1>3, <1>4 DEF Requests

\* An answer a retry would meet again stays one.
LEMMA LastingKept ==
  ASSUME LastingAnswer, UNCHANGED <<group, answers>>
  PROVE  LastingAnswer'
BY DEF LastingAnswer

\* A call that ends, with an exception that has its reason.
LEMMA CallEnds ==
  ASSUME GatewayTypeOK, CallInv, RepeatInv, gpc # "idle",
         NEW e \in GatewayErrors \cup {None}, End(e), e \in TerminalErrors \ {None} => LastingAnswer,
         UNCHANGED <<reply, answers>>, tries' \in 0..FinalizeRetries,
         used' \in {used} \cup {a \in Attempts : a = used + 1}
  PROVE  GatewayTypeOK' /\ CallInv' /\ RepeatInv' /\ GatewayErrorInv'
<1>1. gpc' = "done" /\ gerror' = e /\ operation' = operation /\ group' = group
  BY DEF End
<1>2. GatewayTypeOK'
  BY <1>1 DEF GatewayTypeOK, GatewayPC
<1>3. used \in Nat /\ \A i \in DOMAIN group : group[i].id \in Nat
  <2>1. \A i \in DOMAIN group : group[i] \in Requests
    BY CurrentRequest
  <2> QED BY <2>1, IdsAreNumbers DEF GatewayTypeOK, Requests
<1>4. CallInv'
  BY <1>1, <1>3 DEF CallInv
<1>5. RepeatInv'
  BY <1>1 DEF RepeatInv, RepeatJustified
<1>6. GatewayErrorInv'
  BY <1>1, LastingKept DEF GatewayErrorInv
<1> QED BY <1>2, <1>4, <1>5, <1>6

LEMMA SecondElement ==
  ASSUME NEW S, NEW s \in Seq(S), Len(s) = 1, NEW e \in S
  PROVE  /\ Append(s, e) \in Seq(S) /\ Len(Append(s, e)) = 2
         /\ Append(s, e)[1] = s[1] /\ Append(s, e)[2] = e
<1>1. Append(s, e) \in Seq(S) /\ Append(s, e)[Len(s) + 1] = e
  BY AppendProperties
<1>2. Len(Append(s, e)) = 2
  OBVIOUS
<1>3. Append(s, e)[1] = s[1]
  OBVIOUS
<1>4. Len(s) + 1 = 2
  OBVIOUS
<1> QED BY <1>1, <1>2, <1>3, <1>4

\* A call that asks once more, for a reason.
LEMMA CallRepeats ==
  ASSUME GatewayTypeOK, RowInv, CallInv, RepeatInv, GatewayErrorInv,
         gpc \in {"finalize", "validate"}, Len(group) = 1,
         reply.status # "configuration_error", ~reply.usable,
         operation = "cross_check" => reply.status = "succeeded",
         NEW role, role = IF operation = "cross_check" THEN "secondary" ELSE "fallback",
         Ask(role), UNCHANGED <<reply, answers, used>>, tries' \in 0..FinalizeRetries
  PROVE  GatewayTypeOK' /\ CallInv' /\ RepeatInv' /\ GatewayErrorInv'
<1>1. /\ gpc' = "begin" /\ group' = Append(group, [id |-> 0, role |-> role])
      /\ operation' = operation /\ gerror' = gerror
  BY DEF Ask, NextRole
<1>2. group \in Seq(Requests) /\ [id |-> 0, role |-> role] \in Requests
  BY DEF GatewayTypeOK, Requests, Roles
<1> DEFINE next == [id |-> 0, role |-> role]
<1>3. /\ group' \in Seq(Requests) /\ Len(group') = 2 /\ DOMAIN group' = 1..2
      /\ group'[1] = group[1] /\ group'[2] = [id |-> 0, role |-> role]
  <2>1. group' = Append(group, next) /\ next \in Requests
    BY <1>1, <1>2
  <2> HIDE DEF next
  <2>2. group \in Seq(Requests)
    BY <1>2
  <2>4. /\ group' \in Seq(Requests) /\ Len(group') = 2
        /\ group'[1] = group[1] /\ group'[2] = next
    BY <2>1, <2>2, SecondElement
  <2>5. DOMAIN group' = 1..2
    BY <2>4
  <2> QED BY <2>4, <2>5 DEF next
<1>4. GatewayTypeOK'
  BY <1>1, <1>3 DEF GatewayTypeOK, GatewayPC, Requests
<1>5. Current = group[1] /\ Current' = group'[2]
  BY <1>3 DEF Current
<1>6. /\ group[1].id # 0 /\ reply # None /\ answers[group[1].id] = reply
      /\ group[1].id <= used
  BY <1>2, <1>5 DEF CallInv
<1>7. used \in Nat
  BY IdsAreNumbers DEF GatewayTypeOK
<1>8. CallInv'
  BY <1>1, <1>3, <1>5, <1>6, <1>7 DEF CallInv
<1>9. RepeatInv'
  <2>1. group # <<>>
    BY DEF CallInv
  <2> QED BY <1>1, <1>3, <1>6, <2>1 DEF RepeatInv, RepeatJustified
<1>10. GatewayErrorInv'
  <2>1. gerror' = None
    BY <1>1 DEF GatewayErrorInv
  <2> QED BY <1>1, <2>1 DEF GatewayErrorInv
<1> QED BY <1>4, <1>8, <1>9, <1>10

\* begin: the last request of the group gets the id drawn.
LEMMA BeginAttemptStep ==
  ASSUME GatewayInv, NEW a \in Attempts, BeginAttempt(a), UNCHANGED day
  PROVE  GatewayInv'
<1> USE DEF GatewayInv
<1>1. /\ gpc = "begin" /\ a = used + 1 /\ InsertPending(a) /\ used' = a
      /\ group' = [group EXCEPT ![Len(group)].id = a]
      /\ gpc' = "request"
      /\ UNCHANGED <<operation, reply, tries, gerror, answers>>
  BY DEF BeginAttempt
<1>2. LedgerTypeOK' /\ RowInv'
  BY <1>1, InsertPendingRow
<1>3. /\ Len(group) \in Nat \ {0} /\ DOMAIN group = 1..Len(group)
      /\ \A i \in DOMAIN group : group[i] \in Requests
      /\ group \in Seq(Requests)
  BY <1>1, CurrentRequest DEF GatewayTypeOK, Requests
<1> DEFINE n == Len(group)
<1>4. /\ group' \in Seq(Requests) /\ Len(group') = n /\ DOMAIN group' = 1..n
      /\ \A i \in 1..n : i # n => group'[i] = group[i]
      /\ group'[n].id = a /\ group'[n].role = group[n].role
  <2>1. group' = [group EXCEPT ![n] = [group[n] EXCEPT !.id = a]]
    BY <1>1
  <2>2. group[n] \in Requests /\ n \in 1..n
    BY <1>3
  <2>3. /\ [group[n] EXCEPT !.id = a] \in Requests
        /\ [group[n] EXCEPT !.id = a].id = a
        /\ [group[n] EXCEPT !.id = a].role = group[n].role
    BY <2>2 DEF Requests
  <2>4. group'[n] = [group[n] EXCEPT !.id = a]
    BY <1>3, <2>1, <2>2
  <2>5. \A i \in 1..n : i # n => group'[i] = group[i]
    BY <1>3, <2>1
  <2>6. group' \in Seq(Requests) /\ Len(group') = n
    BY <1>3, <2>1, <2>2, <2>3, ExceptSeq
  <2> QED BY <1>3, <2>3, <2>4, <2>5, <2>6
<1>5. GatewayTypeOK'
  BY <1>1, <1>4 DEF GatewayTypeOK, GatewayPC, Requests
<1>6. used \in Nat /\ \A i \in DOMAIN group : group[i].id \in Nat
  BY <1>3, IdsAreNumbers DEF GatewayTypeOK, Requests
<1>7. answers[a] = None
  <2>1. status[a] = "none"
    BY <1>1 DEF InsertPending
  <2> QED BY <2>1 DEF RowInv
<1>8. Current' = group'[n]
  BY <1>4 DEF Current
<1>9. CallInv'
  <2>1. group' # <<>>
    BY <1>3, <1>4
  <2>2. \A i \in DOMAIN group' : group'[i].id <= used'
    BY <1>1, <1>3, <1>4, <1>6 DEF CallInv
  <2>3. Current'.id = a /\ a # 0
    BY <1>1, <1>4, <1>6, <1>8
  <2> QED BY <1>1, <1>7, <2>1, <2>2, <2>3 DEF CallInv
<1>10. group # <<>> /\ group'[1].role = group[1].role
  BY <1>1, <1>3, <1>4 DEF CallInv
<1>11. n = 2 => group'[1] = group[1] /\ group'[2].role = group[2].role
  BY <1>3, <1>4
<1>12. RepeatInv'
  BY <1>1, <1>4, <1>10, <1>11 DEF RepeatInv, RepeatJustified
<1>13. GatewayErrorInv'
  BY <1>1 DEF GatewayErrorInv
<1> QED BY <1>2, <1>5, <1>9, <1>12, <1>13

\* The ledger fails, before or after the row was committed: the call ends.
LEMMA BeginFailsStep ==
  ASSUME GatewayInv, UNCHANGED day,
         BeginFails \/ \E a \in Attempts : BeginAmbiguous(a)
  PROVE  GatewayInv'
<1> USE DEF GatewayInv
<1>1. "UsageLedgerUnavailable" \in GatewayErrors \ TerminalErrors
  BY DEF GatewayErrors, TerminalErrors
<1>2. tries \in 0..FinalizeRetries
  BY DEF GatewayTypeOK
<1>3. CASE BeginFails
  <2>1. LedgerTypeOK' /\ RowInv'
    BY <1>3 DEF BeginFails, LedgerTypeOK, RowInv, ledgerVars
  <2>2. GatewayTypeOK' /\ CallInv' /\ RepeatInv' /\ GatewayErrorInv'
    BY <1>1, <1>2, <1>3, CallEnds DEF BeginFails
  <2> QED BY <2>1, <2>2
<1>4. ASSUME NEW a \in Attempts, BeginAmbiguous(a) PROVE GatewayInv'
  <2>1. LedgerTypeOK' /\ RowInv'
    BY <1>4, InsertPendingRow DEF BeginAmbiguous
  <2>2. GatewayTypeOK' /\ CallInv' /\ RepeatInv' /\ GatewayErrorInv'
    BY <1>1, <1>2, <1>4, CallEnds DEF BeginAmbiguous
  <2> QED BY <2>1, <2>2
<1> QED BY <1>3, <1>4

\* What a request came back with is what the gateway takes it for.
LEMMA AnswerStep ==
  ASSUME GatewayInv, UNCHANGED day, NEW raw \in Answers,
         raw.usable => raw.status = "succeeded",
         Answer(raw, raw.status, raw.cost, raw.usable)
  PROVE  GatewayInv'
<1> USE DEF GatewayInv
<1>1. /\ gpc = "request" /\ gpc' = "finalize" /\ tries' = 0
      /\ reply' = [status |-> raw.status, cost |-> raw.cost, usable |-> raw.usable]
      /\ answers' = [answers EXCEPT ![Current.id] = raw]
      /\ UNCHANGED <<ledgerVars, operation, group, gerror, used>>
  BY DEF Answer
<1>2. reply' = raw
  BY <1>1 DEF Answers
<1>3. /\ Current.id \in Attempts /\ Current.id # 0 /\ answers[Current.id] = None
      /\ Len(group) \in Nat \ {0} /\ DOMAIN group = 1..Len(group)
  BY <1>1, CurrentRequest DEF CallInv
<1>4. raw # None /\ 0 < FinalizeRetries
  BY GatewayNoneAssumption, RetriesAssumption
<1>5. ASSUME NEW b \in Attempts
      PROVE  answers'[b] = IF b = Current.id THEN raw ELSE answers[b]
  BY <1>1 DEF GatewayTypeOK
<1>6. LedgerTypeOK' /\ GatewayTypeOK'
  <2>1. answers' \in [Attempts -> Answers \cup {None}]
    BY <1>1 DEF GatewayTypeOK
  <2> QED BY <1>1, <1>2, <2>1, RetriesAssumption DEF LedgerTypeOK, GatewayTypeOK, ledgerVars, GatewayPC
<1>7. RowInv'
  <2>1. status[Current.id] # "none"
    <3>1. Current.id <= used
      BY <1>3 DEF CallInv, Current
    <3>2. Current.id \in Nat /\ used \in Nat
      BY <1>3, IdsAreNumbers DEF GatewayTypeOK
    <3> QED BY <1>3, <3>1, <3>2 DEF RowInv
  <2>2. status' = status /\ cost' = cost /\ used' = used
    BY <1>1 DEF ledgerVars
  <2> QED BY <1>3, <1>5, <2>1, <2>2 DEF RowInv
<1>8. Current' = Current
  BY <1>1 DEF Current
<1>9. CallInv'
  BY <1>1, <1>2, <1>3, <1>4, <1>5, <1>8 DEF CallInv
<1>10. RepeatInv'
  <2>1. Len(group) = 2 => group[1].id # Current.id /\ group[1].id \in Attempts
    BY <1>3, CurrentRequest, <1>1 DEF RepeatInv, RepeatJustified, Requests
  <2> QED BY <1>1, <1>5, <2>1 DEF RepeatInv, RepeatJustified
<1>11. GatewayErrorInv'
  BY <1>1 DEF GatewayErrorInv
<1> QED BY <1>6, <1>7, <1>9, <1>10, <1>11

\* The answer at hand, and who gave it.
LEMMA AnswerAtHand ==
  ASSUME GatewayTypeOK, RowInv, CallInv, RepeatInv, gpc \in {"finalize", "validate"}
  PROVE  /\ reply \in Answers /\ (reply.usable => reply.status = "succeeded")
         /\ Current.id \in Attempts /\ answers[Current.id] = reply /\ reply # None
         /\ Len(group) \in {1, 2}
         /\ Len(group) = 1 =>
              Current.role = IF operation = "cross_check" THEN "secondary" ELSE "primary"
         /\ Len(group) = 2 =>
              Current.role = IF operation = "cross_check" THEN "secondary" ELSE "fallback"
         /\ ~reply.usable /\ reply.status # "unavailable" => LastingAnswer
<1>1. /\ Len(group) \in Nat \ {0} /\ DOMAIN group = 1..Len(group)
      /\ Current.id \in Attempts /\ Current.id # 0
  BY CurrentRequest DEF CallInv
<1>2. reply \in Answers /\ reply # None /\ answers[Current.id] = reply
  BY DEF GatewayTypeOK, CallInv
<1>3. reply.usable => reply.status = "succeeded"
  BY <1>1, <1>2 DEF RowInv
<1>4. Len(group) \in {1, 2}
  BY <1>1 DEF RepeatInv, RepeatJustified
<1>5. group # <<>>
  BY DEF CallInv
<1>6. ~reply.usable /\ reply.status # "unavailable" => LastingAnswer
  <2>1. Len(group) \in DOMAIN group
    BY <1>1
  <2> QED BY <1>1, <1>2, <2>1 DEF LastingAnswer, Current
<1> QED BY <1>1, <1>2, <1>3, <1>4, <1>5, <1>6 DEF RepeatInv, RepeatJustified, Current

\* The rest of a call that has its answer: on to the validation, the fallback or the end.
LEMMA AfterAnswerStep ==
  ASSUME GatewayTypeOK, RowInv, CallInv, RepeatInv, GatewayErrorInv, gpc = "finalize",
         AfterAnswer, UNCHANGED <<reply, answers, used>>, tries' \in 0..FinalizeRetries
  PROVE  GatewayTypeOK' /\ CallInv' /\ RepeatInv' /\ GatewayErrorInv'
<1>1. CASE reply.status = "succeeded"
  <2>1. gpc' = "validate" /\ UNCHANGED <<operation, group, gerror>>
    BY <1>1 DEF AfterAnswer
  <2>2. Current' = Current
    BY <2>1 DEF Current
  <2>3. GatewayTypeOK'
    BY <2>1 DEF GatewayTypeOK, GatewayPC
  <2>4. CallInv'
    BY <1>1, <2>1, <2>2 DEF CallInv
  <2>5. RepeatInv' /\ GatewayErrorInv'
    BY <2>1 DEF RepeatInv, RepeatJustified, GatewayErrorInv
  <2> QED BY <2>3, <2>4, <2>5
<1>2. CASE reply.status \in {"unavailable", "invalid_response"} /\ Current.role = "primary"
  <2>1. Ask("fallback")
    BY <1>2 DEF AfterAnswer
  <2>2. Len(group) = 1 /\ operation # "cross_check" /\ ~reply.usable
    BY <1>2, AnswerAtHand
  <2> QED BY <1>2, <2>1, <2>2, CallRepeats
<1>3. CASE /\ reply.status # "succeeded"
           /\ ~ (reply.status \in {"unavailable", "invalid_response"} /\ Current.role = "primary")
  <2>1. End(ErrorClass)
    BY <1>3 DEF AfterAnswer
  <2>2. reply.status \in {"unavailable", "invalid_response", "configuration_error"}
    BY <1>3, AnswerAtHand DEF Answers, AnswerStatus
  <2>3. /\ ErrorClass \in GatewayErrors
        /\ ErrorClass \in TerminalErrors => reply.status # "unavailable"
    BY <2>2 DEF ErrorClass, GatewayErrors, TerminalErrors
  <2>4. ErrorClass \in TerminalErrors => LastingAnswer
    BY <1>3, <2>3, AnswerAtHand
  <2>5. used' \in {used}
    OBVIOUS
  <2> HIDE DEF ErrorClass
  <2> QED BY <2>1, <2>3, <2>4, <2>5, CallEnds
<1> QED BY <1>1, <1>2, <1>3

\* A try of finalize that goes through.
LEMMA FinalizeTryStep ==
  ASSUME GatewayInv, UNCHANGED day, FinalizeTry
  PROVE  GatewayInv'
<1> USE DEF GatewayInv
<1>1. LedgerTypeOK' /\ RowInv'
  BY AnswerAtHand, UpdatePendingRow DEF FinalizeTry
<1>2. tries' \in 0..FinalizeRetries
  BY DEF FinalizeTry, GatewayTypeOK
<1>3. GatewayTypeOK' /\ CallInv' /\ RepeatInv' /\ GatewayErrorInv'
  BY <1>2, AfterAnswerStep DEF FinalizeTry
<1> QED BY <1>1, <1>3

\* A try that fails, the last one or not.
LEMMA FinalizeTryFailsStep ==
  ASSUME GatewayInv, UNCHANGED day, FinalizeTryFails
  PROVE  GatewayInv'
<1> USE DEF GatewayInv
<1>1. LedgerTypeOK' /\ RowInv'
  BY AnswerAtHand, UpdatePendingRow DEF FinalizeTryFails
<1>2. gpc = "finalize" /\ tries' = tries + 1 /\ UNCHANGED <<reply, answers, used>>
  BY DEF FinalizeTryFails
<1>3. tries' \in 0..FinalizeRetries
  BY <1>2, RetriesAssumption DEF CallInv, GatewayTypeOK
<1>4. CASE tries' < FinalizeRetries
  <2>1. UNCHANGED <<operation, gpc, group, gerror>>
    BY <1>4 DEF FinalizeTryFails
  <2>2. Current' = Current
    BY <2>1 DEF Current
  <2>3. GatewayTypeOK'
    BY <1>2, <1>3, <2>1 DEF GatewayTypeOK
  <2>4. CallInv'
    BY <1>2, <1>4, <2>1, <2>2 DEF CallInv
  <2>5. RepeatInv' /\ GatewayErrorInv'
    BY <1>2, <2>1 DEF RepeatInv, RepeatJustified, GatewayErrorInv
  <2> QED BY <1>1, <2>3, <2>4, <2>5
<1>5. CASE ~ (tries' < FinalizeRetries)
  <2>1. AfterAnswer
    BY <1>5 DEF FinalizeTryFails
  <2>2. GatewayTypeOK' /\ CallInv' /\ RepeatInv' /\ GatewayErrorInv'
    BY <1>2, <1>3, <2>1, AfterAnswerStep
  <2> QED BY <1>1, <2>2
<1> QED BY <1>4, <1>5

\* The caller accepts the output, has it made once more or gives up.
LEMMA ValidateOutputStep ==
  ASSUME GatewayInv, UNCHANGED day, ValidateOutput
  PROVE  GatewayInv'
<1> USE DEF GatewayInv
<1>1. /\ gpc = "validate" /\ UNCHANGED <<ledgerVars, reply, tries, answers, used>>
      /\ reply.status = "succeeded" /\ gpc # "idle"
  BY DEF ValidateOutput, CallInv
<1>2. LedgerTypeOK' /\ RowInv'
  BY <1>1 DEF LedgerTypeOK, RowInv, ledgerVars
<1>3. tries' \in 0..FinalizeRetries /\ used' \in {used}
  BY <1>1 DEF GatewayTypeOK
<1>4. CASE reply.usable
  <2>1. End(None)
    BY <1>4 DEF ValidateOutput
  <2> QED BY <1>1, <1>2, <1>3, <2>1, CallEnds
<1>5. CASE ~reply.usable /\ Current.role = "primary"
  <2>1. Ask("fallback")
    BY <1>5 DEF ValidateOutput
  <2>2. Len(group) = 1 /\ operation # "cross_check"
    BY <1>1, <1>5, AnswerAtHand
  <2>3. GatewayTypeOK' /\ CallInv' /\ RepeatInv' /\ GatewayErrorInv'
    BY <1>1, <1>3, <1>5, <2>1, <2>2, CallRepeats
  <2> QED BY <1>2, <2>3
<1>6. CASE ~reply.usable /\ Current.role = "secondary" /\ Len(group) = 1
  <2>1. Ask("secondary")
    BY <1>6 DEF ValidateOutput
  <2>2. operation = "cross_check"
    BY <1>1, <1>6, AnswerAtHand
  <2>3. GatewayTypeOK' /\ CallInv' /\ RepeatInv' /\ GatewayErrorInv'
    BY <1>1, <1>3, <1>6, <2>1, <2>2, CallRepeats
  <2> QED BY <1>2, <2>3
<1>7. CASE /\ ~reply.usable /\ Current.role # "primary"
           /\ ~ (Current.role = "secondary" /\ Len(group) = 1)
  <2>1. End("LLMInvalidOutputError")
    BY <1>7 DEF ValidateOutput
  <2>2. LastingAnswer
    BY <1>1, <1>7, AnswerAtHand
  <2>3. "LLMInvalidOutputError" \in GatewayErrors
    BY DEF GatewayErrors
  <2>4. GatewayTypeOK' /\ CallInv' /\ RepeatInv' /\ GatewayErrorInv'
    BY <1>1, <1>3, <2>1, <2>2, <2>3, CallEnds
  <2> QED BY <1>2, <2>4
<1> QED BY <1>4, <1>5, <1>6, <1>7

\* Every step of the gateway keeps its invariant.
LEMMA GatewayStepStep ==
  ASSUME GatewayInv, UNCHANGED day, GatewayStep
  PROVE  GatewayInv'
<1>1. ASSUME NEW e \in Exceptions, RequestRaises(e) PROVE GatewayInv'
  <2> DEFINE raw == [status |-> ExceptionStatus(e), cost |-> None, usable |-> FALSE]
  <2>1. ExceptionStatus(e) \in AnswerStatus
    BY DEF Exceptions, ExceptionStatus, AnswerStatus
  <2>2. raw \in Answers /\ ~ raw.usable
    BY <2>1 DEF Answers
  <2>3. Answer(raw, raw.status, raw.cost, raw.usable)
    BY <1>1 DEF RequestRaises
  <2> HIDE DEF raw
  <2> QED BY <2>2, <2>3, AnswerStep
<1>2. ASSUME NEW r \in Responses, NEW c \in Costs, NEW usable \in BOOLEAN,
             RequestReturns(r, c, usable)
      PROVE  GatewayInv'
  <2> DEFINE raw == [status |-> IF ValidResponse(r) THEN "succeeded" ELSE "invalid_response",
                     cost |-> ResponseCost(r, c), usable |-> usable]
  <2>1. raw \in Answers
    BY DEF Answers, AnswerStatus, ResponseCost
  <2>2. raw.usable => raw.status = "succeeded"
    BY <1>2 DEF RequestReturns
  <2>3. Answer(raw, raw.status, raw.cost, raw.usable)
    BY <1>2 DEF RequestReturns, ResponseCost
  <2> HIDE DEF raw
  <2> QED BY <2>1, <2>2, <2>3, AnswerStep
<1> QED
  BY <1>1, <1>2, BeginAttemptStep, BeginFailsStep, FinalizeTryStep, FinalizeTryFailsStep,
     ValidateOutputStep DEF GatewayStep

-----------------------------------------------------------------------------
(***************************************************************************)
(* The parser.                                                             *)
(***************************************************************************)

\* A step that records an answer and goes on or raises keeps the parser's invariant
\* when terminal exceptions are raised for lasting answers only.
LEMMA AdvanceStep ==
  ASSUME ParserInv, NEW r, NEW e \in MinerUErrors \cup {NoError}, NEW next \in MinerUPC,
         Advance(r, e, next), e \in TerminalErrors \ {NoError} => ~Transient(r),
         left' \in 0..PollTime, archive' \in BOOLEAN,
         archive' => \/ mpc' \in {"idle", "stream", "read"}
                     \/ (mpc' = "done" /\ e = "DecodingError")
  PROVE  ParserInv'
BY DEF ParserInv, MinerUTypeOK, Advance, Transient, MinerUPC

LEMMA ApiErrorClass ==
  ASSUME NEW r \in ApiReplies
  PROVE  /\ ApiError(r) \in MinerUErrors \cup {NoError}
         /\ ApiError(r) \in TerminalErrors \ {NoError} => ~Transient(r)
<1>1. r \in Busy => ApiError(r) = "MinerUUnavailableError"
  BY NoErrorAssumption DEF ApiError, RequestApi, Busy, Refused, MinerUErrors
<1>2. r = "code_busy" => ApiError(r) = "MinerUUnavailableError"
  BY NoErrorAssumption DEF ApiError, RequestApi, SuccessPayload, Busy, Refused, MinerUErrors
<1>3. ApiError(r) \in MinerUErrors \cup {NoError}
  BY DEF ApiError, RequestApi, SuccessPayload, ApiReplies, Busy, Refused, MinerUErrors
<1>4. r # "deadline"
  BY DEF ApiReplies, Busy, Refused
<1>5. "MinerUUnavailableError" \notin TerminalErrors
  BY DEF TerminalErrors
<1> QED BY <1>1, <1>2, <1>3, <1>4, <1>5 DEF Transient

LEMMA BlobErrorClass ==
  ASSUME NEW r \in BlobReplies
  PROVE  /\ BlobError(r) \in MinerUErrors \cup {NoError}
         /\ BlobError(r) \in TerminalErrors \ {NoError} => ~Transient(r)
BY DEF BlobError, BlobReplies, Busy, MinerUErrors, TerminalErrors, Transient

\* Every step of parse keeps the parser's invariant.
LEMMA MinerUStepStep ==
  ASSUME ParserInv, MinerUStep
  PROVE  ParserInv'
<1>1. left \in 0..PollTime /\ archive \in BOOLEAN
  BY DEF ParserInv, MinerUTypeOK
<1>2. mpc \in {"request", "upload", "poll", "download", "done"} =>
        (archive => mpc = "done")
  BY DEF ParserInv
<1>3. /\ "MinerUUnavailableError" \in MinerUErrors /\ "MinerUContractError" \in MinerUErrors
      /\ "MinerUTaskError" \in MinerUErrors /\ "MinerUResultError" \in MinerUErrors
      /\ "DecodingError" \in MinerUErrors
      /\ "MinerUUnavailableError" \notin TerminalErrors
      /\ "MinerUResultError" \notin TerminalErrors /\ "DecodingError" \notin TerminalErrors
  BY DEF MinerUErrors, TerminalErrors
<1>4. {"upload", "poll", "download", "stream", "read", "done"} \subseteq MinerUPC
  BY DEF MinerUPC
<1>5. \A r \in {"unreadable", "pending", "failed", "mismatch", "done", "unsafe", "oversized",
                "bad_signature", "undecodable", "ok", "bad_archive"} : ~Transient(r)
  BY DEF Transient, Busy
<1>6. CASE RequestUploadUrl
  <2>1. PICK r \in ApiReplies : Advance(r, ApiError(r), "upload")
    BY <1>6 DEF RequestUploadUrl
  <2>2. mpc = "request" /\ UNCHANGED <<left, archive>>
    BY <1>6 DEF RequestUploadUrl
  <2> QED BY <1>1, <1>2, <1>4, <2>1, <2>2, ApiErrorClass, AdvanceStep
<1>7. CASE UploadFile
  <2>1. mpc = "upload" /\ UNCHANGED <<left, archive>>
    BY <1>7 DEF UploadFile
  <2>2. ASSUME NEW r \in BlobReplies, Advance(r, BlobError(r), "poll") PROVE ParserInv'
    BY <1>1, <1>2, <1>4, <2>1, <2>2, BlobErrorClass, AdvanceStep
  <2>3. CASE Advance("unreadable", "MinerUTaskError", "poll")
    BY <1>1, <1>2, <1>3, <1>4, <1>5, <2>1, <2>3, AdvanceStep
  <2> QED BY <1>7, <2>2, <2>3 DEF UploadFile
<1>8. CASE Poll
  <2>1. mpc = "poll" /\ left > 0 /\ archive' = archive
    BY <1>8 DEF Poll
  <2>2. ~ archive' /\ archive' \in BOOLEAN
    BY <1>1, <1>2, <2>1
  <2>3. ASSUME NEW r, Advance(r, NoError, "poll"), left' \in 0..(left - 1) PROVE ParserInv'
    <3>1. left' \in 0..PollTime
      BY <1>1, <2>1, <2>3, PollTimeAssumption
    <3> QED BY <1>4, <2>2, <2>3, <3>1, AdvanceStep
  <2>4. ASSUME NEW r \in ApiReplies, Advance(r, ApiError(r), "poll"), UNCHANGED left
        PROVE  ParserInv'
    BY <1>1, <1>4, <2>2, <2>4, ApiErrorClass, AdvanceStep
  <2>5. CASE Advance("failed", "MinerUTaskError", "poll") /\ UNCHANGED left
    BY <1>1, <1>3, <1>4, <1>5, <2>2, <2>5, AdvanceStep
  <2>6. CASE Advance("mismatch", "MinerUContractError", "poll") /\ UNCHANGED left
    BY <1>1, <1>3, <1>4, <1>5, <2>2, <2>6, AdvanceStep
  <2>7. CASE Advance("done", NoError, "download") /\ UNCHANGED left
    BY <1>1, <1>4, <2>2, <2>7, AdvanceStep
  <2> QED BY <1>8, <2>3, <2>4, <2>5, <2>6, <2>7 DEF Poll, KeepPolling
<1>9. CASE PollDeadline
  BY <1>1, <1>2, <1>3, <1>4, <1>9, AdvanceStep DEF PollDeadline
<1>10. CASE Download
  <2>1. mpc = "download" /\ left' = left
    BY <1>10 DEF Download
  <2>2. ASSUME NEW r \in BlobReplies, Advance(r, BlobError(r), "stream"), UNCHANGED archive
        PROVE  ParserInv'
    BY <1>1, <1>2, <1>4, <2>1, <2>2, BlobErrorClass, AdvanceStep
  <2>3. CASE Advance("unsafe", "MinerUContractError", "stream") /\ UNCHANGED archive
    BY <1>1, <1>2, <1>3, <1>4, <1>5, <2>1, <2>3, AdvanceStep
  <2>4. CASE Advance("oversized", "MinerUResultError", "stream") /\ UNCHANGED archive
    BY <1>1, <1>2, <1>3, <1>4, <2>1, <2>4, AdvanceStep
  <2>5. CASE Advance("ok", NoError, "stream") /\ archive' = TRUE
    <3>1. mpc' = "stream"
      BY <2>5 DEF Advance
    <3> QED BY <1>1, <1>4, <2>1, <2>5, <3>1, AdvanceStep
  <2> QED BY <1>10, <2>2, <2>3, <2>4, <2>5 DEF Download
<1>11. CASE Stream
  <2>1. mpc = "stream" /\ left' = left
    BY <1>11 DEF Stream
  <2>2. CASE StreamFails("network", "MinerUUnavailableError")
    BY <1>1, <1>3, <1>4, <2>1, <2>2, AdvanceStep DEF StreamFails
  <2>3. CASE StreamFails("oversized", "MinerUResultError")
    BY <1>1, <1>3, <1>4, <2>1, <2>3, AdvanceStep DEF StreamFails
  <2>4. CASE StreamFails("bad_signature", "MinerUResultError")
    BY <1>1, <1>3, <1>4, <2>1, <2>4, AdvanceStep DEF StreamFails
  <2>5. CASE Advance("undecodable", "DecodingError", "read") /\ UNCHANGED archive
    <3>1. mpc' = "done"
      BY <1>3, <2>5, NoErrorAssumption DEF Advance
    <3> QED BY <1>1, <1>3, <1>4, <2>1, <2>5, <3>1, AdvanceStep
  <2>6. CASE Advance("ok", NoError, "read") /\ UNCHANGED archive
    <3>1. mpc' = "read"
      BY <2>6 DEF Advance
    <3> QED BY <1>1, <1>4, <2>1, <2>6, <3>1, AdvanceStep
  <2> QED BY <1>11, <2>2, <2>3, <2>4, <2>5, <2>6 DEF Stream
<1>12. CASE ReadArchive
  <2>1. left' = left /\ ~ archive' /\ archive' \in BOOLEAN
    BY <1>12 DEF ReadArchive
  <2>2. CASE Advance("ok", NoError, "done")
    BY <1>1, <1>4, <2>1, <2>2, AdvanceStep
  <2>3. CASE Advance("bad_archive", "MinerUResultError", "done")
    BY <1>1, <1>3, <1>4, <2>1, <2>3, AdvanceStep
  <2> QED BY <1>12, <2>2, <2>3 DEF ReadArchive
<1> QED BY <1>6, <1>7, <1>8, <1>9, <1>10, <1>11, <1>12 DEF MinerUStep

-----------------------------------------------------------------------------
(***************************************************************************)
(* The worker.                                                             *)
(***************************************************************************)

JobTypeOK ==
  /\ stage \in {"idle", "download", "parse", "extract", "score", "load", "cross_check"}
  /\ localFile \in BOOLEAN
  /\ outcome \in {"none", "succeeded", "retryable_failed", "terminal_failed", "killed"}
  /\ runs \in 0..MaxRuns
  /\ finalTry \in BOOLEAN /\ sourceGone \in BOOLEAN

LEMMA TypeParts ==
  /\ GatewayInv /\ ParserInv /\ JobTypeOK => TypeOK
  /\ TypeOK => JobTypeOK
BY DEF TypeOK, GatewayInv, ParserInv, JobTypeOK

\* A new call starts with one request, and nothing of the last one.
LEMMA NewCall ==
  ASSUME GatewayInv, NEW op \in Operations,
         gpc' = "begin", operation' = op,
         group' = <<[id |-> 0, role |-> IF op = "cross_check" THEN "secondary" ELSE "primary"]>>,
         reply' = None, gerror' = None, tries' = 0,
         UNCHANGED <<day, ledgerVars, answers, used>>
  PROVE  GatewayInv'
<1> DEFINE first == [id |-> 0, role |-> IF op = "cross_check" THEN "secondary" ELSE "primary"]
<1>1. first \in Requests /\ first.id = 0
      /\ first.role = IF op = "cross_check" THEN "secondary" ELSE "primary"
  BY DEF Requests, Roles
<1>2. group' = <<first>>
  OBVIOUS
<1> HIDE DEF first
<1>3. /\ group' \in Seq(Requests) /\ Len(group') = 1 /\ group'[1] = first
      /\ DOMAIN group' = 1..1 /\ group' # <<>>
  BY <1>1, <1>2
<1>4. LedgerTypeOK' /\ RowInv'
  BY DEF GatewayInv, LedgerTypeOK, RowInv, ledgerVars
<1>5. GatewayTypeOK'
  BY <1>3, RetriesAssumption DEF GatewayInv, GatewayTypeOK, GatewayPC, Requests
<1>6. Current' = first
  BY <1>3 DEF Current
<1>7. used \in Nat
  BY IdsAreNumbers DEF GatewayInv, GatewayTypeOK
<1>8. CallInv'
  BY <1>1, <1>3, <1>6, <1>7 DEF CallInv
<1>9. RepeatInv'
  BY <1>1, <1>3 DEF RepeatInv, RepeatJustified
<1>10. GatewayErrorInv'
  BY DEF GatewayErrorInv
<1> QED BY <1>4, <1>5, <1>8, <1>9, <1>10 DEF GatewayInv

\* Between calls only the last group is kept, or dropped.
LEMMA NoCall ==
  ASSUME GatewayInv, gpc' = "idle", reply' = None, gerror' = None, tries' = 0,
         group' = group \/ group' = <<>>, UNCHANGED <<day, ledgerVars, operation, answers, used>>
  PROVE  GatewayInv'
<1>1. LedgerTypeOK' /\ RowInv'
  BY DEF GatewayInv, LedgerTypeOK, RowInv, ledgerVars
<1>2. /\ group' \in Seq(Requests)
      /\ group' = <<>> => Len(group') = 0 /\ DOMAIN group' = {}
  <2>1. group \in Seq(Requests)
    BY DEF GatewayInv, GatewayTypeOK, Requests
  <2>2. <<>> \in Seq(Requests) /\ Len(<<>>) = 0 /\ DOMAIN <<>> = {}
    BY EmptySeq
  <2> QED BY <2>1, <2>2
<1>3. GatewayTypeOK'
  BY <1>2, RetriesAssumption DEF GatewayInv, GatewayTypeOK, GatewayPC, Requests
<1>4. CallInv'
  BY <1>2 DEF GatewayInv, CallInv
<1>5. RepeatInv'
  BY <1>2 DEF GatewayInv, RepeatInv, RepeatJustified
<1>6. GatewayErrorInv'
  BY DEF GatewayErrorInv
<1> QED BY <1>1, <1>3, <1>4, <1>5, <1>6 DEF GatewayInv

\* A call that does not move does not change.
LEMMA GatewayStutters ==
  ASSUME GatewayInv, UNCHANGED <<day, ledgerVars, gatewayVars>>
  PROVE  GatewayInv' /\ (LastingAnswer' <=> LastingAnswer)
<1>1. LedgerTypeOK' /\ RowInv' /\ GatewayTypeOK'
  BY DEF GatewayInv, LedgerTypeOK, RowInv, GatewayTypeOK, ledgerVars, gatewayVars
<1>2. Current' = Current
  BY DEF Current, gatewayVars
<1>3. CallInv' /\ RepeatInv'
  BY <1>2 DEF GatewayInv, CallInv, RepeatInv, RepeatJustified, gatewayVars
<1>4. LastingAnswer' <=> LastingAnswer
  BY DEF LastingAnswer, gatewayVars
<1>5. GatewayErrorInv'
  BY <1>4 DEF GatewayInv, GatewayErrorInv, gatewayVars
<1> QED BY <1>1, <1>3, <1>4, <1>5 DEF GatewayInv

LEMMA ParserStutters ==
  ASSUME ParserInv, UNCHANGED mineruVars
  PROVE  ParserInv'
BY DEF ParserInv, MinerUTypeOK, Transient, mineruVars

\* A client that is done with: its file is gone, or the exception says why it is not.
LEMMA ParserForgotten ==
  ASSUME ParserInv, mpc' = "idle", left' = PollTime,
         archive' \in {archive, FALSE}, UNCHANGED <<mreply, merror>>
  PROVE  ParserInv'
<1>1. PollTime \in 0..PollTime
  BY PollTimeAssumption
<1>2. MinerUTypeOK'
  BY <1>1 DEF ParserInv, MinerUTypeOK, MinerUPC
<1>3. Transient(mreply)' <=> Transient(mreply)
  BY DEF Transient
<1> QED BY <1>2, <1>3 DEF ParserInv

LEMMA ParserCleared ==
  ASSUME ParserInv, merror' = NoError, archive' \in {archive, FALSE}, mpc' \in {"idle", "request"},
         mpc' = "idle" \/ ~archive', left' \in 0..PollTime
  PROVE  ParserInv'
BY DEF ParserInv, MinerUTypeOK, MinerUPC

\* Nothing is promised of a task under way but what its clients keep.
LEMMA UnderWay ==
  ASSUME GatewayInv', ParserInv', JobTypeOK', StageInv', stage' # "idle"
  PROVE  ParsingInv'
BY DEF ParsingInv, GatewayInv, ParserInv, JobTypeOK, TypeOK, StageInv, TransientIsRetried,
       FilesRemoved

\* A task that ends reports what its clients found, and leaves what they left.
LEMMA EndTaskStep ==
  ASSUME ParsingInv,
         NEW result \in {"succeeded", "retryable_failed", "terminal_failed"},
         EndTask(result),
         result = "terminal_failed" =>
           (merror # NoError /\ ~Transient(mreply)) \/ LastingAnswer \/ sourceGone' \/ finalTry,
         archive => merror = "DecodingError", sourceGone' \in BOOLEAN,
         UNCHANGED <<day, ledgerVars, operation, group, answers, used, archive, mreply, merror,
                     runs, finalTry>>
  PROVE  ParsingInv'
<1>1. /\ stage' = "idle" /\ outcome' = result /\ localFile' = FALSE
      /\ gpc' = "idle" /\ reply' = None /\ tries' = 0 /\ gerror' = None
      /\ mpc' = "idle" /\ left' = PollTime
  BY DEF EndTask, Forget
<1>2. GatewayInv'
  BY <1>1, NoCall DEF ParsingInv
<1>3. ParserInv'
  BY <1>1, ParserForgotten DEF ParsingInv
<1>4. JobTypeOK'
  BY <1>1 DEF ParsingInv, TypeOK, JobTypeOK, checkVars
<1>5. StageInv'
  BY <1>1 DEF StageInv
<1>6. TransientIsRetried'
  BY <1>1 DEF TransientIsRetried, LastingAnswer, Transient
<1>7. FilesRemoved'
  BY <1>1 DEF FilesRemoved
<1>8. TypeOK'
  BY <1>2, <1>3, <1>4 DEF TypeOK, GatewayInv, ParserInv, JobTypeOK
<1> QED BY <1>2, <1>3, <1>5, <1>6, <1>7, <1>8 DEF ParsingInv

\* A task starts with no call, and a clean parser.
LEMMA TaskStarts ==
  ASSUME ParsingInv, stage = "idle", group' = <<>>, archive' = FALSE, merror' = NoError,
         UNCHANGED <<day, ledgerVars, operation, gpc, reply, tries, gerror, answers, used,
                     mpc, left>>
  PROVE  GatewayInv' /\ ParserInv' /\ gpc' = "idle" /\ mpc' = "idle"
<1>1. gpc = "idle" /\ mpc = "idle"
  BY DEF ParsingInv, StageInv
<1>2. GatewayInv'
  <2>1. GatewayTypeOK' /\ LedgerTypeOK' /\ RowInv'
    <3>1. <<>> \in Seq(Requests)
      BY EmptySeq
    <3> QED BY <3>1
      DEF ParsingInv, GatewayInv, GatewayTypeOK, LedgerTypeOK, RowInv, ledgerVars, Requests
  <2>2. DOMAIN <<>> = {} /\ Len(<<>>) = 0
    BY EmptySeq
  <2>3. CallInv' /\ RepeatInv'
    BY <1>1, <2>2 DEF ParsingInv, GatewayInv, CallInv, RepeatInv, RepeatJustified
  <2>4. GatewayErrorInv'
    BY <1>1 DEF ParsingInv, GatewayInv, GatewayErrorInv
  <2> QED BY <2>1, <2>3, <2>4 DEF GatewayInv
<1>3. ParserInv'
  <2>1. left' \in 0..PollTime
    BY DEF ParsingInv, ParserInv, MinerUTypeOK
  <2> QED BY <1>1, <2>1, ParserCleared DEF ParsingInv
<1> QED BY <1>1, <1>2, <1>3

LEMMA StartJobStep ==
  ASSUME ParsingInv, StartJob
  PROVE  ParsingInv'
<1>1. /\ runs < MaxRuns
      /\ stage' = "download" /\ localFile' = TRUE /\ runs' = runs + 1 /\ outcome' = "none"
      /\ finalTry' = FALSE /\ sourceGone' = FALSE /\ archive' = FALSE
  BY DEF StartJob
<1>2. GatewayInv' /\ ParserInv' /\ gpc' = "idle" /\ mpc' = "idle"
  BY TaskStarts DEF StartJob
<1>3. JobTypeOK'
  <2>1. runs' \in 0..MaxRuns
    BY <1>1, MaxRunsAssumption DEF ParsingInv, TypeOK
  <2> QED BY <1>1, <2>1 DEF JobTypeOK
<1>4. StageInv'
  BY <1>1, <1>2 DEF StageInv
<1> QED BY <1>1, <1>2, <1>3, <1>4, UnderWay

LEMMA StartCrossCheckStep ==
  ASSUME ParsingInv, StartCrossCheck
  PROVE  ParsingInv'
<1>1. /\ runs < MaxRuns
      /\ stage' = "load" /\ localFile' = FALSE /\ runs' = runs + 1 /\ outcome' = "none"
      /\ finalTry' \in BOOLEAN /\ sourceGone' = FALSE /\ archive' = FALSE
  BY DEF StartCrossCheck
<1>2. GatewayInv' /\ ParserInv' /\ gpc' = "idle" /\ mpc' = "idle"
  BY TaskStarts DEF StartCrossCheck
<1>3. JobTypeOK'
  <2>1. runs' \in 0..MaxRuns
    BY <1>1, MaxRunsAssumption DEF ParsingInv, TypeOK
  <2> QED BY <1>1, <2>1 DEF JobTypeOK
<1>4. StageInv'
  BY <1>1, <1>2 DEF StageInv
<1> QED BY <1>1, <1>2, <1>3, <1>4, UnderWay

LEMMA LoadSourceStep ==
  ASSUME ParsingInv, LoadSource
  PROVE  ParsingInv'
<1>1. /\ stage = "load" /\ stage' = "cross_check" /\ Call("cross_check")
      /\ UNCHANGED <<day, ledgerVars, mineruVars, localFile, outcome, runs, checkVars>>
  BY DEF LoadSource
<1>2. mpc = "idle" /\ ~archive /\ outcome = "none"
  BY <1>1 DEF ParsingInv, StageInv
<1>3. GatewayInv'
  <2>1. "cross_check" \in Operations
    BY DEF Operations
  <2> QED BY <1>1, <2>1, NewCall DEF Call, ParsingInv
<1>4. ParserInv'
  BY <1>1, ParserStutters DEF ParsingInv
<1>5. JobTypeOK'
  BY <1>1 DEF ParsingInv, TypeOK, JobTypeOK, checkVars
<1>6. StageInv'
  BY <1>1, <1>2 DEF StageInv, Call, mineruVars
<1> QED BY <1>1, <1>3, <1>4, <1>5, <1>6, UnderWay

LEMMA LoadFailsStep ==
  ASSUME ParsingInv, LoadFails
  PROVE  ParsingInv'
<1>1. PICK error \in {"SourceMissing", "SQLAlchemyError"} :
        EndTask(CrossCheckState(error)) /\ sourceGone' = (error = "SourceMissing")
  BY DEF LoadFails
<1>2. ~archive
  BY DEF LoadFails, ParsingInv, StageInv
<1>3. CrossCheckState(error) \in {"retryable_failed", "terminal_failed"}
  BY DEF CrossCheckState
<1>4. CrossCheckState(error) = "terminal_failed" => sourceGone' \/ finalTry
  BY <1>1 DEF CrossCheckState, TerminalCauses
<1>5. sourceGone' \in BOOLEAN
  BY <1>1
<1> QED BY <1>1, <1>2, <1>3, <1>4, <1>5, EndTaskStep DEF LoadFails

LEMMA DownloadVerifiedStep ==
  ASSUME ParsingInv, DownloadVerified
  PROVE  ParsingInv'
<1>1. /\ stage = "download" /\ stage' = "parse" /\ Parse
      /\ UNCHANGED <<day, ledgerVars, gatewayVars, localFile, outcome, runs, checkVars>>
  BY DEF DownloadVerified
<1>2. gpc = "idle" /\ ~archive /\ outcome = "none"
  BY <1>1 DEF ParsingInv, StageInv
<1>3. GatewayInv'
  BY <1>1, GatewayStutters DEF ParsingInv
<1>4. ParserInv'
  <2>1. left' \in 0..PollTime
    BY <1>1, PollTimeAssumption DEF Parse
  <2> QED BY <1>1, <1>2, <2>1, ParserCleared DEF ParsingInv, Parse
<1>5. JobTypeOK'
  BY <1>1 DEF ParsingInv, TypeOK, JobTypeOK, checkVars
<1>6. StageInv'
  BY <1>1, <1>2 DEF StageInv, Parse, gatewayVars
<1> QED BY <1>1, <1>3, <1>4, <1>5, <1>6, UnderWay

LEMMA DownloadFailsStep ==
  ASSUME ParsingInv, DownloadFails
  PROVE  ParsingInv'
<1>1. FailureState("StorageError") = "retryable_failed"
  BY DEF FailureState, TerminalErrors
<1>2. ~archive
  BY DEF DownloadFails, ParsingInv, StageInv
<1>3. sourceGone' \in BOOLEAN /\ UNCHANGED finalTry
  BY DEF DownloadFails, checkVars, ParsingInv, TypeOK
<1> QED BY <1>1, <1>2, <1>3, EndTaskStep DEF DownloadFails

LEMMA ParseStepStep ==
  ASSUME ParsingInv, ParseStep
  PROVE  ParsingInv'
<1>1. /\ stage = "parse" /\ MinerUStep
      /\ UNCHANGED <<day, ledgerVars, gatewayVars, jobVars>>
  BY DEF ParseStep
<1>2. gpc = "idle" /\ outcome = "none"
  BY <1>1 DEF ParsingInv, StageInv
<1>3. GatewayInv' /\ ParserInv'
  BY <1>1, GatewayStutters, MinerUStepStep DEF ParsingInv
<1>4. JobTypeOK'
  BY <1>1 DEF ParsingInv, TypeOK, JobTypeOK, jobVars, checkVars
<1>5. mpc' # "idle"
  BY <1>1 DEF MinerUStep, RequestUploadUrl, UploadFile, Poll, KeepPolling, PollDeadline, Download,
              Stream, StreamFails, ReadArchive, Advance
<1>6. StageInv'
  BY <1>1, <1>2, <1>5 DEF StageInv, gatewayVars, jobVars, checkVars
<1> QED BY <1>1, <1>3, <1>4, <1>6, UnderWay DEF jobVars, checkVars

LEMMA ParseReturnsStep ==
  ASSUME ParsingInv, ParseReturns
  PROVE  ParsingInv'
<1>1. /\ stage = "parse" /\ mpc = "done" /\ merror = NoError /\ Call("extract")
      /\ stage' = "extract" /\ mpc' = "idle" /\ left' = PollTime /\ mreply' = "none"
      /\ UNCHANGED <<day, ledgerVars, archive, merror, localFile, outcome, runs, checkVars>>
  BY DEF ParseReturns
<1>2. ~archive /\ outcome = "none"
  BY <1>1, NoErrorAssumption DEF ParsingInv, ParserInv, StageInv, MinerUErrors
<1>3. GatewayInv'
  <2>1. "extract" \in Operations /\ "extract" # "cross_check"
    BY DEF Operations
  <2> QED BY <1>1, <2>1, NewCall DEF Call, ParsingInv
<1>4. ParserInv'
  <2>1. left' \in 0..PollTime
    BY <1>1, PollTimeAssumption
  <2> QED BY <1>1, <2>1, ParserCleared DEF ParsingInv
<1>5. JobTypeOK'
  BY <1>1 DEF ParsingInv, TypeOK, JobTypeOK, checkVars
<1>6. StageInv'
  BY <1>1, <1>2 DEF StageInv, Call
<1> QED BY <1>1, <1>3, <1>4, <1>5, <1>6, UnderWay

LEMMA ParseRaisesStep ==
  ASSUME ParsingInv, ParseRaises
  PROVE  ParsingInv'
<1>1. mpc = "done" /\ merror # NoError /\ EndTask(FailureState(merror))
  BY DEF ParseRaises
<1>2. archive => merror = "DecodingError"
  BY <1>1 DEF ParsingInv, ParserInv
<1>3. FailureState(merror) \in {"retryable_failed", "terminal_failed"}
  BY DEF FailureState
<1>4. FailureState(merror) = "terminal_failed" => ~Transient(mreply)
  BY <1>1 DEF FailureState, ParsingInv, ParserInv
<1>5. sourceGone' \in BOOLEAN /\ UNCHANGED finalTry
  BY DEF ParseRaises, checkVars, ParsingInv, TypeOK
<1> QED BY <1>1, <1>2, <1>3, <1>4, <1>5, EndTaskStep DEF ParseRaises

LEMMA LLMStepStep ==
  ASSUME ParsingInv, LLMStep
  PROVE  ParsingInv'
<1>1. /\ stage \in {"extract", "score", "cross_check"} /\ GatewayStep
      /\ UNCHANGED <<day, mineruVars, jobVars>>
  BY DEF LLMStep
<1>2. GatewayInv' /\ ParserInv'
  BY <1>1, GatewayStepStep, ParserStutters DEF ParsingInv
<1>3. JobTypeOK'
  BY <1>1 DEF ParsingInv, TypeOK, JobTypeOK, jobVars, checkVars
<1>4. gpc' # "idle"
  BY <1>1 DEF GatewayStep, BeginAttempt, BeginAmbiguous, BeginFails, FinalizeTry, FinalizeTryFails,
              ValidateOutput, RequestRaises, RequestReturns, Answer, AfterAnswer, Ask, End
<1>5. StageInv'
  BY <1>1, <1>4 DEF ParsingInv, StageInv, mineruVars, jobVars, checkVars
<1>6. stage' # "idle"
  BY <1>1 DEF jobVars, checkVars
<1> QED BY <1>2, <1>3, <1>5, <1>6, UnderWay

LEMMA ExtractReturnsStep ==
  ASSUME ParsingInv, ExtractReturns
  PROVE  ParsingInv'
<1>1. /\ stage = "extract" /\ gpc = "done" /\ gerror = None
      /\ stage' = "score" /\ localFile' = FALSE
      /\ gpc' = "begin" /\ operation' = "judge"
      /\ group' = <<[id |-> 0, role |-> "primary"]>> /\ reply' = None /\ tries' = 0
      /\ UNCHANGED <<day, ledgerVars, gerror, answers, used, mineruVars, outcome, runs,
                     checkVars>>
  BY DEF ExtractReturns
<1>2. GatewayInv'
  <2>1. "judge" \in Operations /\ "judge" # "cross_check"
    BY DEF Operations
  <2> QED BY <1>1, <2>1, NewCall DEF ParsingInv
<1>3. ParserInv'
  BY <1>1, ParserStutters DEF ParsingInv
<1>4. JobTypeOK'
  BY <1>1 DEF ParsingInv, TypeOK, JobTypeOK, checkVars
<1>5. StageInv'
  BY <1>1 DEF ParsingInv, StageInv, mineruVars
<1> QED BY <1>1, <1>2, <1>3, <1>4, <1>5, UnderWay

LEMMA LLMEndsStep ==
  ASSUME ParsingInv, LLMEnds
  PROVE  ParsingInv'
<1>1. PICK result :
        /\ EndTask(result)
        /\ result = CASE gerror = None -> "succeeded"
                      [] gerror # None /\ stage = "cross_check" -> CrossCheckState(gerror)
                      [] OTHER -> FailureState(gerror)
  BY DEF LLMEnds
<1>2. ~archive
  BY DEF LLMEnds, ParsingInv, StageInv
<1>3. result \in {"succeeded", "retryable_failed", "terminal_failed"}
  BY <1>1 DEF FailureState, CrossCheckState
<1>4. gerror \in GatewayErrors \cup {None} /\ None \notin GatewayErrors
  BY GatewayNoneAssumption DEF ParsingInv, GatewayInv, GatewayTypeOK
<1>5. gerror # None /\ gerror \in TerminalCauses => gerror \in TerminalErrors \ {None}
  BY <1>4 DEF TerminalCauses, TerminalErrors, GatewayErrors
<1>6. result = "terminal_failed" => LastingAnswer \/ finalTry
  BY <1>1, <1>5 DEF FailureState, CrossCheckState, ParsingInv, GatewayInv, GatewayErrorInv
<1>7. sourceGone' \in BOOLEAN
  BY DEF LLMEnds, checkVars, ParsingInv, TypeOK
<1>8. UNCHANGED <<day, ledgerVars, operation, group, answers, used, archive, mreply, merror, runs,
                  finalTry>>
  BY DEF LLMEnds, checkVars
<1> QED BY <1>1, <1>2, <1>3, <1>6, <1>7, <1>8, EndTaskStep

LEMMA WorkerDiesStep ==
  ASSUME ParsingInv, WorkerDies
  PROVE  ParsingInv'
<1>1. /\ stage' = "idle" /\ outcome' = "killed"
      /\ gpc' = "idle" /\ reply' = None /\ tries' = 0 /\ gerror' = None
      /\ mpc' = "idle" /\ left' = PollTime
      /\ UNCHANGED <<day, ledgerVars, operation, group, answers, used, archive, mreply, merror,
                     localFile, runs, checkVars>>
  BY DEF WorkerDies, Forget
<1>2. GatewayInv'
  BY <1>1, NoCall DEF ParsingInv
<1>3. ParserInv'
  BY <1>1, ParserForgotten DEF ParsingInv
<1>4. JobTypeOK'
  BY <1>1 DEF ParsingInv, TypeOK, JobTypeOK, checkVars
<1>5. StageInv' /\ TransientIsRetried' /\ FilesRemoved'
  BY <1>1 DEF StageInv, TransientIsRetried, FilesRemoved
<1> QED BY <1>2, <1>3, <1>4, <1>5 DEF ParsingInv, TypeOK, GatewayInv, ParserInv, JobTypeOK

LEMMA SweepStaleUsageStep ==
  ASSUME ParsingInv, SweepStaleUsage
  PROVE  ParsingInv'
<1>1. PICK stale \in SUBSET Pending : AbandonStale(stale)
  BY DEF SweepStaleUsage
<1>2. UNCHANGED <<day, gatewayVars, mineruVars, jobVars>>
  BY DEF SweepStaleUsage
<1>3. LedgerTypeOK' /\ RowInv'
  BY <1>1, <1>2, AbandonedRows DEF ParsingInv, GatewayInv, gatewayVars
<1>4. GatewayTypeOK'
  BY <1>2 DEF ParsingInv, GatewayInv, GatewayTypeOK, gatewayVars
<1>5. Current' = Current
  BY <1>2 DEF Current, gatewayVars
<1>6. CallInv' /\ RepeatInv'
  BY <1>2, <1>5 DEF ParsingInv, GatewayInv, CallInv, RepeatInv, RepeatJustified, gatewayVars
<1>7. LastingAnswer' <=> LastingAnswer
  BY <1>2 DEF LastingAnswer, gatewayVars
<1>8. GatewayErrorInv'
  BY <1>2, <1>7 DEF ParsingInv, GatewayInv, GatewayErrorInv, gatewayVars
<1>9. GatewayInv'
  BY <1>3, <1>4, <1>6, <1>8 DEF GatewayInv
<1>10. ParserInv'
  BY <1>2, ParserStutters DEF ParsingInv
<1>11. JobTypeOK' /\ StageInv' /\ FilesRemoved'
  BY <1>2 DEF ParsingInv, TypeOK, JobTypeOK, StageInv, FilesRemoved, gatewayVars,
            mineruVars, jobVars, checkVars
<1>12. TransientIsRetried'
  BY <1>2, <1>7 DEF ParsingInv, TransientIsRetried, LastingAnswer, Transient, mineruVars,
              jobVars, checkVars
<1> QED
  BY <1>9, <1>10, <1>11, <1>12 DEF ParsingInv, TypeOK, GatewayInv, ParserInv, JobTypeOK

-----------------------------------------------------------------------------

LEMMA ParsingInit == Init => ParsingInv
<1> SUFFICES ASSUME Init PROVE ParsingInv
  OBVIOUS
<1> USE DEF Init
<1>1. LedgerTypeOK
  BY MaxDayAssumption DEF LedgerInit, LedgerTypeOK
<1>2. /\ operation = None /\ gpc = "idle" /\ group = <<>> /\ reply = None
      /\ tries = 0 /\ gerror = None /\ used = 0 /\ answers = [a \in Attempts |-> None]
  BY DEF GatewayInit
<1>3. <<>> \in Seq(Requests) /\ Len(<<>>) = 0 /\ DOMAIN <<>> = {}
  BY EmptySeq
<1>4. GatewayTypeOK
  BY <1>2, <1>3, RetriesAssumption DEF GatewayTypeOK, GatewayPC, Requests
<1>5. RowInv
  <2>1. \A a \in Attempts : a > 0
    BY AttemptsAssumption
  <2> QED BY <1>2, <2>1 DEF RowInv, LedgerInit, AnswerStatus
<1>6. CallInv /\ RepeatInv
  BY <1>2, <1>3 DEF CallInv, RepeatInv, RepeatJustified
<1>7. GatewayErrorInv
  BY <1>2 DEF GatewayErrorInv
<1>8. ParserInv
  <2>1. PollTime \in 0..PollTime
    BY PollTimeAssumption
  <2> QED BY <2>1 DEF MinerUInit, ParserInv, MinerUTypeOK, MinerUPC
<1>9. JobTypeOK
  <2>1. 0 \in 0..MaxRuns
    BY MaxRunsAssumption
  <2> QED BY <2>1 DEF JobTypeOK
<1>10. StageInv /\ TransientIsRetried /\ FilesRemoved
  BY <1>2 DEF StageInv, TransientIsRetried, FilesRemoved, MinerUInit
<1> QED
  BY <1>1, <1>4, <1>5, <1>6, <1>7, <1>8, <1>9, <1>10
  DEF ParsingInv, TypeOK, GatewayInv, ParserInv, JobTypeOK

LEMMA ParsingNext == ParsingInv /\ [Next]_vars => ParsingInv'
<1> SUFFICES ASSUME ParsingInv, [Next]_vars PROVE ParsingInv'
  OBVIOUS
<1>1. CASE WorkerStep
  BY <1>1, DownloadVerifiedStep, DownloadFailsStep, ParseStepStep, ParseReturnsStep,
     ParseRaisesStep, LLMStepStep, ExtractReturnsStep, LLMEndsStep,
     LoadSourceStep, LoadFailsStep DEF WorkerStep
<1>2. CASE StartJob \/ StartCrossCheck \/ WorkerDies \/ SweepStaleUsage
  BY <1>2, StartJobStep, StartCrossCheckStep, WorkerDiesStep, SweepStaleUsageStep
<1>3. CASE UNCHANGED vars
  <2>1. UNCHANGED <<day, ledgerVars, gatewayVars>> /\ UNCHANGED mineruVars /\ UNCHANGED jobVars
    BY <1>3 DEF vars
  <2>2. GatewayInv' /\ ParserInv' /\ (LastingAnswer' <=> LastingAnswer)
    BY <2>1, GatewayStutters, ParserStutters DEF ParsingInv
  <2>3. JobTypeOK' /\ StageInv' /\ FilesRemoved'
    BY <2>1 DEF ParsingInv, TypeOK, JobTypeOK, StageInv, FilesRemoved, gatewayVars, mineruVars,
                jobVars, checkVars
  <2>4. TransientIsRetried'
    BY <2>1, <2>2 DEF ParsingInv, TransientIsRetried, LastingAnswer, Transient, mineruVars,
              jobVars, checkVars
  <2> QED BY <2>2, <2>3, <2>4 DEF ParsingInv, TypeOK, GatewayInv, ParserInv, JobTypeOK
<1> QED BY <1>1, <1>2, <1>3 DEF Next

\* The strengthening is an invariant of the worker, its clients and the sweep.
THEOREM ParsingInvariance == Spec => []ParsingInv
BY ParsingInit, ParsingNext, PTL DEF Spec

\* Every variable of the ledger, the gateway, the parser and the worker keeps its
\* type; the call's tries stay within LLM_USAGE_FINALIZE_MAX_RETRIES (usage.py:177).
THEOREM ParsingTypeCorrect == Spec => []TypeOK
<1>1. ParsingInv => TypeOK
  BY DEF ParsingInv
<1> QED BY <1>1, ParsingInvariance, PTL

\* The ledger has a row for every request and says of it what the provider said, for
\* any number of tries of finalize and wherever the sweep comes in (usage.py:99,155).
THEOREM LedgerTruthful == Spec => []LedgerIsTrue
<1>1. ParsingInv => LedgerIsTrue
  <2> SUFFICES ASSUME ParsingInv PROVE LedgerIsTrue
    OBVIOUS
  <2>1. gpc = "request" => status[Current.id] # "none"
    <3> SUFFICES ASSUME gpc = "request" PROVE status[Current.id] # "none"
      OBVIOUS
    <3>1. /\ Current.id \in Attempts /\ Len(group) \in DOMAIN group
          /\ group[Len(group)].id <= used
      BY CurrentRequest DEF ParsingInv, GatewayInv, CallInv
    <3>2. Current.id \in Nat /\ used \in Nat
      BY <3>1, IdsAreNumbers DEF ParsingInv, GatewayInv, GatewayTypeOK
    <3> QED BY <3>1, <3>2 DEF ParsingInv, GatewayInv, RowInv, Current
  <2> QED BY <2>1 DEF ParsingInv, GatewayInv, RowInv, LedgerIsTrue
<1> QED BY <1>1, ParsingInvariance, PTL

\* A request is repeated at most once, by the model meant for it, and never after a
\* ledger failure, a rejected configuration or an accepted answer (gateway.py:409).
THEOREM RepeatsJustified == Spec => []RepeatJustified
<1>1. ParsingInv => RepeatJustified
  BY DEF ParsingInv, GatewayInv, RepeatInv
<1> QED BY <1>1, ParsingInvariance, PTL

\* A task is given up only for an answer a retry would meet again, or, a cross check,
\* when it lost its source or its last attempt (ingest.py:40, state.py:221).
THEOREM PassingTroubleRetried == Spec => []TransientIsRetried
<1>1. ParsingInv => TransientIsRetried
  BY DEF ParsingInv
<1> QED BY <1>1, ParsingInvariance, PTL

\* A task that was not killed leaves no temporary file, save the result whose
\* content encoding is broken (ingest.py:396, mineru_client.py:150).
THEOREM NoFileLeft == Spec => []FilesRemoved
<1>1. ParsingInv => FilesRemoved
  BY DEF ParsingInv
<1> QED BY <1>1, ParsingInvariance, PTL

-----------------------------------------------------------------------------
(***************************************************************************)
(* The rows are the records of RequestRecord: the sequence of ids, the call*)
(* and its tries stutter, the statements of usage.py are its actions.      *)
(***************************************************************************)

\* The record of RequestRecord behind the rows and the provider's answers.
Phases == [a \in Attempts |-> Phase(status[a])]
Said == [a \in Attempts |-> IF answers[a] = None THEN None ELSE Figures(answers[a])]
Reported == [a \in Attempts |-> IF status[a] \in AnswerStatus
                                THEN [status |-> status[a], cost |-> cost[a]] ELSE None]

\* What the record of a row is, case by case.
LEMMA PhaseOfRow ==
  ASSUME NEW a \in Attempts
  PROVE  /\ status[a] = "none" => Phases[a] = "none"
         /\ status[a] = "pending" => Phases[a] = "open"
         /\ status[a] \in AnswerStatus => Phases[a] = "closed"
         /\ status[a] = "abandoned" => Phases[a] = "abandoned"
BY DEF Phases, Phase, AnswerStatus

\* A statement that changes one row changes one record.
LEMMA PhaseMoves ==
  ASSUME LedgerTypeOK, NEW a \in Attempts, NEW s, status' = [status EXCEPT ![a] = s]
  PROVE  /\ s = "pending" => Phases' = [Phases EXCEPT ![a] = "open"]
         /\ s \in AnswerStatus => Phases' = [Phases EXCEPT ![a] = "closed"]
<1>1. \A b \in Attempts : status'[b] = IF b = a THEN s ELSE status[b]
  BY DEF LedgerTypeOK
<1>2. Phases' = [Phases EXCEPT ![a] = Phase(s)]
  <2>1. ASSUME NEW b \in Attempts
        PROVE  Phase(status'[b]) = IF b = a THEN Phase(s) ELSE Phase(status[b])
    BY <1>1
  <2>. QED  BY <2>1 DEF Phases
<1>3. s = "pending" => Phase(s) = "open"
  BY DEF Phase, AnswerStatus
<1>4. s \in AnswerStatus => Phase(s) = "closed"
  BY DEF Phase, AnswerStatus
<1>. QED  BY <1>2, <1>3, <1>4

\* begin opens the record.
LEMMA InsertPendingRefines ==
  ASSUME LedgerTypeOK, NEW a \in Attempts, InsertPending(a), answers' = answers
  PROVE  Record!Open(a)
<1>1. status[a] = "none" /\ status' = [status EXCEPT ![a] = "pending"] /\ cost' = cost
  BY DEF InsertPending
<1>2. Phases[a] = "none" /\ Phases' = [Phases EXCEPT ![a] = "open"]
  BY <1>1, PhaseOfRow, PhaseMoves
<1>3. \A b \in Attempts : status'[b] = IF b = a THEN "pending" ELSE status[b]
  BY <1>1 DEF LedgerTypeOK
<1>4. Reported' = Reported
  BY <1>1, <1>3 DEF Reported, AnswerStatus
<1>5. Said' = Said
  BY DEF Said
<1>. QED  BY <1>2, <1>4, <1>5 DEF Record!Open, Phases, Said, Reported

\* A request that comes back is what the provider said, whether or not its row has
\* been abandoned.
LEMMA AnswerRefines ==
  ASSUME LedgerTypeOK, GatewayTypeOK, RowInv, CallInv,
         NEW raw \in Answers, NEW s, NEW c, NEW u, Answer(raw, s, c, u)
  PROVE  \E a \in Attempts : Record!Say(a)
<1>. DEFINE a == Current.id
<1>1. a \in Attempts /\ answers[a] = None
  BY CurrentRequest DEF Answer, CallInv
<1>2. Phases[a] \in {"open", "abandoned"}
  <2>1. Len(group) \in DOMAIN group /\ a <= used
    BY CurrentRequest DEF Answer, CallInv, Current
  <2>2. status[a] \in {"pending", "abandoned"}
    BY <1>1, <2>1, IdsAreNumbers
       DEF RowInv, LedgerTypeOK, TerminalStatus, GatewayTypeOK
  <2>. QED  BY <1>1, <2>2, PhaseOfRow
<1>3. Figures(raw) # None
  BY GatewayNoneAssumption DEF Answers, Figures
<1>4. \A b \in Attempts : answers'[b] = IF b = a THEN raw ELSE answers[b]
  BY DEF Answer, GatewayTypeOK
<1>5. Said[a] = None /\ Said'[a] = Figures(raw)
  BY <1>1, <1>4, GatewayNoneAssumption DEF Said
<1>6. Said' = [Said EXCEPT ![a] = Said'[a]]
  BY <1>4 DEF Said
<1>7. Phases' = Phases /\ Reported' = Reported
  BY DEF Answer, ledgerVars, Phases, Reported
<1>. QED  BY <1>1, <1>2, <1>3, <1>5, <1>6, <1>7
          DEF Record!Say, Phases, Said, Reported

\* finalize closes an open record with what the provider said, and leaves any other
\* record alone.
LEMMA UpdatePendingRefines ==
  ASSUME LedgerTypeOK, GatewayTypeOK, NEW a \in Attempts, reply # None, answers[a] = reply,
         UpdatePending(a, reply.status, reply.cost), answers' = answers
  PROVE  Record!Close(a) \/ UNCHANGED <<Phases, Said, Reported>>
<1>1. Said' = Said
  BY DEF Said
<1>2. CASE status[a] = "pending"
  <2>1. /\ status' = [status EXCEPT ![a] = reply.status]
        /\ cost' = [cost EXCEPT ![a] = reply.cost]
    BY <1>2 DEF UpdatePending
  <2>2. reply \in Answers /\ reply.status \in AnswerStatus
    BY DEF GatewayTypeOK, Answers
  <2>3. Phases[a] = "open" /\ Phases' = [Phases EXCEPT ![a] = "closed"]
    BY <1>2, <2>1, <2>2, PhaseOfRow, PhaseMoves
  <2>4. Said[a] = [status |-> reply.status, cost |-> reply.cost]
    BY DEF Said, Figures
  <2>5. Said[a] # None
    BY <2>2, <2>4, GatewayNoneAssumption DEF Answers
  <2>6. ASSUME NEW b \in Attempts
        PROVE  /\ status'[b] = IF b = a THEN reply.status ELSE status[b]
               /\ cost'[b] = IF b = a THEN reply.cost ELSE cost[b]
    BY <2>1 DEF LedgerTypeOK
  <2>7. Reported' = [Reported EXCEPT ![a] = Said[a]]
    BY <2>2, <2>4, <2>6 DEF Reported
  <2>8. Record!Close(a)
    BY <1>1, <2>3, <2>5, <2>7 DEF Record!Close, Phases, Said, Reported
  <2>. QED  BY <2>8
<1>3. CASE status[a] # "pending"
  <2>1. status' = status /\ cost' = cost
    BY <1>3 DEF UpdatePending, ledgerVars
  <2>. QED  BY <1>1, <2>1 DEF Phases, Reported
<1>. QED  BY <1>2, <1>3

\* The sweep abandons open records.
LEMMA AbandonStaleRefines ==
  ASSUME LedgerTypeOK, NEW stale \in SUBSET Pending, AbandonStale(stale), answers' = answers
  PROVE  Record!Abandon(stale) /\ stale \subseteq Attempts
<1>1. stale \subseteq Attempts /\ \A a \in stale : Phases[a] = "open"
  BY PhaseOfRow DEF Pending
<1>2. /\ \A a \in Attempts : status'[a] = IF a \in stale THEN "abandoned" ELSE status[a]
      /\ cost' = cost
  BY DEF AbandonStale
<1>3. Phases' = [a \in Attempts |-> IF a \in stale THEN "abandoned" ELSE Phases[a]]
  <2>1. Phase("abandoned") = "abandoned"
    BY DEF Phase, AnswerStatus
  <2>. QED  BY <1>2, <2>1 DEF Phases
<1>4. Reported' = Reported
  BY <1>2 DEF Reported, AnswerStatus, Pending
<1>5. Said' = Said
  BY DEF Said
<1>. QED  BY <1>1, <1>3, <1>4, <1>5 DEF Record!Abandon, Phases, Said, Reported

\* A step of a call opens, answers or closes the record of its current request, or
\* none.
LEMMA GatewayStepRefines ==
  ASSUME GatewayInv, GatewayStep
  PROVE  Record!Next \/ UNCHANGED <<Phases, Said, Reported>>
<1>. USE DEF GatewayInv
<1>1. ASSUME NEW a \in Attempts, InsertPending(a), answers' = answers
      PROVE  Record!Next
  BY <1>1, InsertPendingRefines DEF Record!Next
<1>2. ASSUME NEW e \in Exceptions, RequestRaises(e)
      PROVE  Record!Next
  <2>. DEFINE raw == [status |-> ExceptionStatus(e), cost |-> None, usable |-> FALSE]
  <2>1. raw \in Answers
    BY DEF Exceptions, ExceptionStatus, Answers, AnswerStatus
  <2>. QED  BY <1>2, <2>1, AnswerRefines DEF RequestRaises, Record!Next
<1>3. ASSUME NEW r \in Responses, NEW c \in Costs, NEW u \in BOOLEAN, RequestReturns(r, c, u)
      PROVE  Record!Next
  <2>. DEFINE s == IF ValidResponse(r) THEN "succeeded" ELSE "invalid_response"
              raw == [status |-> s, cost |-> IF r.usage = "valid" THEN c ELSE None,
                      usable |-> u]
  <2>1. raw \in Answers
    BY DEF Answers, AnswerStatus
  <2>. QED  BY <1>3, <2>1, AnswerRefines DEF RequestReturns, Record!Next
<1>4. ASSUME gpc = "finalize", answers' = answers,
             UpdatePending(Current.id, reply.status, reply.cost)
      PROVE  Record!Next \/ UNCHANGED <<Phases, Said, Reported>>
  <2>1. Current.id \in Attempts /\ reply # None /\ answers[Current.id] = reply
    BY <1>4, CurrentRequest DEF CallInv
  <2>. QED  BY <1>4, <2>1, UpdatePendingRefines DEF Record!Next
<1>5. ASSUME UNCHANGED <<ledgerVars, answers>>
      PROVE  UNCHANGED <<Phases, Said, Reported>>
  BY <1>5 DEF ledgerVars, Phases, Said, Reported
<1>. QED  BY <1>1, <1>2, <1>3, <1>4, <1>5
          DEF GatewayStep, BeginAttempt, BeginAmbiguous, BeginFails, FinalizeTry,
              FinalizeTryFails, ValidateOutput

\* Every row of the ledger is the record of its request: opened before it leaves,
\* closed once with what the provider said or abandoned, and final from then on, for
\* any number of tries of finalize and wherever the sweep comes in (usage.py:99,155).
THEOREM RowsImplementRecord == Spec => RowsRecordRequests
<1>1. Init => Record!Init
  <2>. SUFFICES ASSUME Init PROVE Record!Init
    OBVIOUS
  <2>1. /\ status = [a \in Attempts |-> "none"] /\ answers = [a \in Attempts |-> None]
    BY DEF Init, LedgerInit, GatewayInit
  <2>. QED  BY <2>1 DEF Record!Init, Phase, AnswerStatus
<1>2. ParsingInv /\ [Next]_vars => [Record!Next]_(Record!recordVars)
  <2>. SUFFICES ASSUME ParsingInv, [Next]_vars
                PROVE  Record!Next \/ UNCHANGED <<Phases, Said, Reported>>
    BY DEF Record!recordVars, Phases, Said, Reported
  <2>1. ASSUME UNCHANGED <<ledgerVars, answers>>
        PROVE  UNCHANGED <<Phases, Said, Reported>>
    BY <2>1 DEF ledgerVars, Phases, Said, Reported
  <2>2. ASSUME LLMStep
        PROVE  Record!Next \/ UNCHANGED <<Phases, Said, Reported>>
    BY <2>2, GatewayStepRefines DEF LLMStep, ParsingInv
  <2>3. ASSUME SweepStaleUsage
        PROVE  Record!Next
    <3>1. PICK stale \in SUBSET Pending : AbandonStale(stale)
      BY <2>3 DEF SweepStaleUsage
    <3>2. answers' = answers
      BY <2>3 DEF SweepStaleUsage, gatewayVars
    <3>. QED  BY <3>1, <3>2, AbandonStaleRefines DEF ParsingInv, GatewayInv, Record!Next
  <2>4. \/ LLMStep \/ SweepStaleUsage
        \/ UNCHANGED <<ledgerVars, answers>>
    BY DEF Next, vars, gatewayVars, WorkerStep, StartJob, StartCrossCheck, Call,
           DownloadVerified, DownloadFails, ParseStep, ParseReturns, ParseRaises,
           LoadSource, LoadFails, ExtractReturns, LLMEnds, WorkerDies
  <2>. QED  BY <2>1, <2>2, <2>3, <2>4
<1>. QED  BY <1>1, <1>2, ParsingInvariance, PTL DEF Spec, RowsRecordRequests, Record!Spec
=============================================================================
