------------------------------ MODULE LLMGateway ------------------------------
(***************************************************************************)
(* One LLM operation at a time, as a Celery worker runs them: extract and  *)
(* judge ask a primary model and at most one fallback, a cross check asks  *)
(* the secondary model only.  Every request is opened in the usage ledger  *)
(* before it leaves and closed after it; the output is validated by the    *)
(* caller (ResumeExtractor, LLMJudge), which may ask once more.            *)
(*                                                                         *)
(* A fallback model is configured, and every configured model has a price.*)
(* The provider's exceptions and responses are reduced to what the gateway *)
(* tells apart.  Retries inside the provider's SDK happen within one       *)
(* request and are not visible to the program.                             *)
(***************************************************************************)
EXTENDS UsageLedger, Sequences

CONSTANTS
  FinalizeRetries  \* LLM_USAGE_FINALIZE_MAX_RETRIES

ASSUME AttemptsAssumption ==
  Attempts \subseteq Nat \ {0} /\ \A n \in Attempts : 1..n \subseteq Attempts
ASSUME RetriesAssumption == FinalizeRetries \in Nat \ {0}

Operations == {"extract", "judge", "cross_check"}

\* What a request can come back with.
Exceptions == {"connection", "validation", "refused", "unexpected"}
Responses == [usage : {"absent", "valid", "invalid"}, model : BOOLEAN, content : BOOLEAN]

\* What the gateway keeps of an answer, and the classes a call can end with.
Answers == [status : AnswerStatus, cost : Costs \cup {None}, usable : BOOLEAN]
GatewayErrors == {"UsageLedgerUnavailable", "LLMUnavailableError", "LLMInvalidResponseError",
                  "LLMConfigurationError", "LLMInvalidOutputError"}

ASSUME GatewayNoneAssumption ==
  /\ None \notin Operations \cup GatewayErrors
  /\ None \notin Answers
  /\ None \notin [status : AnswerStatus, cost : Costs \cup {None}]

VARIABLES
  operation,  \* context.operation of the current call group, or None
  gpc,        \* where the call is
  group,      \* its requests so far: ledger id and role
  reply,      \* status, cost and usability of the last answer, or None
  tries,      \* failed tries of finalize
  gerror,     \* class of the exception the call ended with, or None
  answers,    \* of each ledger id, what the provider answered, or None
  used        \* the last id drawn from the table's sequence

gatewayVars == <<operation, gpc, group, reply, tries, gerror, answers, used>>

GatewayPC == {"idle", "begin", "request", "finalize", "validate", "done"}
Roles == {"primary", "fallback", "secondary"}

GatewayTypeOK ==
  /\ operation \in Operations \cup {None}
  /\ gpc \in GatewayPC
  /\ group \in Seq([id : Attempts \cup {0}, role : Roles])
  /\ reply \in Answers \cup {None}
  /\ tries \in 0..FinalizeRetries
  /\ gerror \in GatewayErrors \cup {None}
  /\ answers \in [Attempts -> Answers \cup {None}]
  /\ used \in Attempts \cup {0}

GatewayInit ==
  /\ operation = None /\ gpc = "idle" /\ group = <<>> /\ reply = None
  /\ tries = 0 /\ gerror = None
  /\ answers = [a \in Attempts |-> None]
  /\ used = 0

Current == group[Len(group)]

-----------------------------------------------------------------------------

NextRole(role) == Append(group, [id |-> 0, role |-> role])

\* The entry checks of extract and judge leave these three combinations.
Call(op) ==
  /\ gpc = "idle"
  /\ operation' = op
  /\ gpc' = "begin"
  /\ group' = <<[id |-> 0, role |-> IF op = "cross_check" THEN "secondary" ELSE "primary"]>>
  /\ reply' = None /\ gerror' = None /\ tries' = 0
  /\ UNCHANGED <<answers, used>>

End(error) ==
  /\ gpc' = "done" /\ gerror' = error
  /\ UNCHANGED <<operation, group>>

Ask(role) ==
  /\ gpc' = "begin" /\ group' = NextRole(role)
  /\ UNCHANGED <<operation, gerror>>

\* begin: the row is committed before the request may leave.
BeginAttempt(a) ==
  /\ gpc = "begin" /\ a = used + 1
  /\ InsertPending(a)
  /\ used' = a
  /\ group' = [group EXCEPT ![Len(group)].id = a]
  /\ gpc' = "request"
  /\ UNCHANGED <<operation, reply, tries, gerror, answers>>

\* Mutant of BeginFails: the ledger being down is taken for the provider being down.
BeginFails_FallsBack ==
  /\ gpc = "begin"
  /\ IF Current.role = "primary" THEN Ask("fallback") ELSE End("UsageLedgerUnavailable")
  /\ UNCHANGED <<ledgerVars, reply, tries, answers, used>>

\* The ledger is down: no request is made, and no fallback.
BeginFails ==
  /\ gpc = "begin"
  /\ End("UsageLedgerUnavailable")
  /\ UNCHANGED <<ledgerVars, reply, tries, answers, used>>

\* The commit of the pending row took effect and the client saw it fail: the row
\* stays behind for the sweep.
BeginAmbiguous(a) ==
  /\ gpc = "begin" /\ a = used + 1
  /\ InsertPending(a)
  /\ used' = a
  /\ End("UsageLedgerUnavailable")
  /\ UNCHANGED <<reply, tries, answers>>

ExceptionStatus(e) ==
  CASE e \in {"connection", "unexpected"} -> "unavailable"
    [] e = "validation" -> "invalid_response"
    [] e = "refused" -> "configuration_error"

\* Mutant of ResponseCost: missing usage figures are priced.
ResponseCost_Absent(r, c) == IF r.usage = "invalid" THEN None ELSE c

\* estimate_cost of the usage figures; they are priced when the rest of the
\* response is unusable too.
ResponseCost(r, c) == IF r.usage = "valid" THEN c ELSE None

\* _normalize_provider_response.  A response without usage figures is valid.
ValidResponse(r) == r.usage # "invalid" /\ r.model /\ r.content

Answer(raw, status_, cost_, usable) ==
  /\ gpc = "request"
  /\ gpc' = "finalize"
  /\ reply' = [status |-> status_, cost |-> cost_, usable |-> usable]
  /\ answers' = [answers EXCEPT ![Current.id] = raw]
  /\ tries' = 0
  /\ UNCHANGED <<ledgerVars, operation, group, gerror, used>>

RequestRaises(e) ==
  Answer([status |-> ExceptionStatus(e), cost |-> None, usable |-> FALSE],
         ExceptionStatus(e), None, FALSE)

\* usable: whether the caller's _validate will accept the content.
RequestReturns(r, c, usable) ==
  LET status_ == IF ValidResponse(r) THEN "succeeded" ELSE "invalid_response" IN
  /\ usable => ValidResponse(r)
  /\ Answer([status |-> status_, cost |-> IF r.usage = "valid" THEN c ELSE None,
             usable |-> usable],
            status_, ResponseCost(r, c), usable)

ErrorClass ==
  CASE reply.status = "unavailable" -> "LLMUnavailableError"
    [] reply.status = "invalid_response" -> "LLMInvalidResponseError"
    [] reply.status = "configuration_error" -> "LLMConfigurationError"

\* The rest of _call_once and of _call_with_fallback.  A secondary model has no
\* fallback.
AfterAnswer ==
  CASE reply.status = "succeeded" -> gpc' = "validate" /\ UNCHANGED <<operation, group, gerror>>
    [] reply.status \in {"unavailable", "invalid_response"} /\ Current.role = "primary"
         -> Ask("fallback")
    [] OTHER -> End(ErrorClass)

\* One try of finalize that goes through, whether or not it finds a pending row.
FinalizeTry ==
  /\ gpc = "finalize"
  /\ UpdatePending(Current.id, reply.status, reply.cost)
  /\ AfterAnswer
  /\ UNCHANGED <<reply, tries, answers, used>>

\* A try that fails before or after the database made the update.  The last one is
\* logged and swallowed: the caller goes on with the answer it paid for.
FinalizeTryFails ==
  /\ gpc = "finalize"
  /\ UpdatePending(Current.id, reply.status, reply.cost) \/ UNCHANGED ledgerVars
  /\ tries' = tries + 1
  /\ IF tries' < FinalizeRetries THEN UNCHANGED <<operation, gpc, group, gerror>>
     ELSE AfterAnswer
  /\ UNCHANGED <<reply, answers, used>>

\* Output the caller rejects: the fallback unless it gave it; the same secondary
\* model once more.
ValidateOutput ==
  /\ gpc = "validate"
  /\ CASE reply.usable -> End(None)
       [] ~reply.usable /\ Current.role = "primary" -> Ask("fallback")
       [] ~reply.usable /\ Current.role = "secondary" /\ Len(group) = 1 -> Ask("secondary")
       [] OTHER -> End("LLMInvalidOutputError")
  /\ UNCHANGED <<ledgerVars, reply, tries, answers, used>>

GatewayStep ==
  \/ \E a \in Attempts : BeginAttempt(a) \/ BeginAmbiguous(a)
  \/ BeginFails \/ FinalizeTry \/ FinalizeTryFails \/ ValidateOutput
  \/ \E e \in Exceptions : RequestRaises(e)
  \/ \E r \in Responses, c \in Costs, usable \in BOOLEAN : RequestReturns(r, c, usable)

-----------------------------------------------------------------------------
(***************************************************************************)
(* Properties.                                                             *)
(***************************************************************************)

\* The ledger knows of every request, and says of it what the provider said: a
\* request in flight or answered has a row, a row closed by its caller has the
\* provider's status, and the cost of the figures it reported, also when finalize
\* was tried several times and the sweep came in between (usage.py:99, usage.py:155).
LedgerIsTrue ==
  /\ gpc = "request" => status[Current.id] # "none"
  /\ \A a \in Attempts :
       /\ answers[a] # None => status[a] # "none"
       /\ status[a] \in AnswerStatus =>
            answers[a] # None /\ <<status[a], cost[a]>> = <<answers[a].status, answers[a].cost>>

\* A request is repeated once, and only for a reason: never after the ledger
\* failed, after a rejected configuration, or after an answer that was accepted; and
\* never by another model when the second opinion of a cross check is asked for
\* (gateway.py:409, llm_judge.py:108).
RepeatJustified ==
  /\ Len(group) <= 2
  /\ Len(group) = 2 =>
       /\ group[1].id # 0 /\ answers[group[1].id] # None
       /\ answers[group[1].id].status # "configuration_error"
       /\ ~answers[group[1].id].usable
       /\ group[2].role = IF operation = "cross_check" THEN "secondary" ELSE "fallback"
       /\ operation = "cross_check" => answers[group[1].id].status = "succeeded"

\* The statuses of a row.
Phase(s) ==
  CASE s = "none"          -> "none"
    [] s = "pending"       -> "open"
    [] s \in AnswerStatus -> "closed"
    [] s = "abandoned"     -> "abandoned"

\* The figures of an answer that go into the ledger.
Figures(answer) == [status |-> answer.status, cost |-> answer.cost]

Record == INSTANCE RequestRecord WITH
  Requests <- Attempts,
  phase <- [a \in Attempts |-> Phase(status[a])],
  said <- [a \in Attempts |-> IF answers[a] = None THEN None ELSE Figures(answers[a])],
  figures <- [a \in Attempts |-> IF status[a] \in AnswerStatus
                                 THEN [status |-> status[a], cost |-> cost[a]] ELSE None]

\* Every row of the ledger keeps the record of its request, although finalize is
\* tried several times, a commit may be reported as failed, and an answer may come
\* after the sweep has abandoned the row (usage.py:99, usage.py:155).
RowsRecordRequests == Record!Spec
=============================================================================
