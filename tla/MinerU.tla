-------------------------------- MODULE MinerU --------------------------------
(***************************************************************************)
(* MinerUClient.parse: ask for an upload URL, upload the resume, poll for  *)
(* the result until a deadline, download the result archive to a temporary *)
(* file and read it.  Every answer of the service is reduced to the class  *)
(* the client sorts it into; the client raises by class.                   *)
(***************************************************************************)
EXTENDS Naturals

CONSTANTS
  PollTime,  \* MINERU_TASK_TIMEOUT_SECONDS, in polling intervals
  NoError    \* no exception

ASSUME PollTimeAssumption == PollTime \in Nat \ {0}

VARIABLES
  mpc,      \* where the call is
  left,     \* time to the deadline of the polling loop
  archive,  \* whether the temporary result file exists
  mreply,   \* the last answer, or "none"
  merror    \* class of the exception parse raised, or NoError

mineruVars == <<mpc, left, archive, mreply, merror>>

MinerUPC == {"idle", "request", "upload", "poll", "download", "stream", "read", "done"}

\* Answers of the API and of the blob stores.
Busy == {"network", "http_busy"}          \* TransportError; 408, 425, 429, 5xx
Refused == {"http_redirect", "http_auth"} \* 3xx; 401, 403
ApiReplies == Busy \cup Refused \cup {"http_other"}
              \cup {"ok", "code_auth", "code_busy", "code_task", "malformed"}
BlobReplies == Busy \cup {"ok", "http_redirect", "http_other"}
MinerUErrors == {"MinerUUnavailableError", "MinerUContractError", "MinerUTaskError",
                 "MinerUResultError", "DecodingError"}

ASSUME NoErrorAssumption == NoError \notin MinerUErrors

MinerUTypeOK ==
  /\ mpc \in MinerUPC
  /\ left \in 0..PollTime
  /\ archive \in BOOLEAN
  /\ merror \in MinerUErrors \cup {NoError}

MinerUInit ==
  /\ mpc = "idle" /\ left = PollTime /\ archive = FALSE
  /\ mreply = "none" /\ merror = NoError

\* _request_api, before the body is read.
RequestApi(r) ==
  CASE r \in Busy -> "MinerUUnavailableError"
    [] r \in Refused -> "MinerUContractError"
    [] r = "http_other" -> "MinerUTaskError"
    [] OTHER -> NoError

\* _success_payload, and the validation of the body.
SuccessPayload(r) ==
  CASE r \in {"code_auth", "malformed"} -> "MinerUContractError"
    [] r = "code_busy" -> "MinerUUnavailableError"
    [] r = "code_task" -> "MinerUTaskError"
    [] OTHER -> NoError

ApiError(r) == IF RequestApi(r) # NoError THEN RequestApi(r) ELSE SuccessPayload(r)

\* _check_blob_response; parse turns a transport error into the first class.
BlobError(r) ==
  CASE r \in Busy -> "MinerUUnavailableError"
    [] r = "http_redirect" -> "MinerUContractError"
    [] r = "http_other" -> "MinerUTaskError"
    [] OTHER -> NoError

\* The step ends the call with an exception, or goes on.
Advance(r, error, next) ==
  /\ mreply' = r /\ merror' = error
  /\ mpc' = IF error = NoError THEN next ELSE "done"

Parse ==
  /\ mpc = "idle"
  /\ mpc' = "request" /\ left' = PollTime /\ mreply' = "none" /\ merror' = NoError
  /\ UNCHANGED archive

\* An upload URL on another host counts as a broken contract.
RequestUploadUrl ==
  /\ mpc = "request"
  /\ \E r \in ApiReplies : Advance(r, ApiError(r), "upload")
  /\ UNCHANGED <<left, archive>>

UploadFile ==
  /\ mpc = "upload"
  /\ \/ \E r \in BlobReplies : Advance(r, BlobError(r), "poll")
     \/ Advance("unreadable", "MinerUTaskError", "poll")
  /\ UNCHANGED <<left, archive>>

\* Mutant of KeepPolling: the deadline is set anew by every round.
KeepPolling_NewDeadline(r) == left' = PollTime /\ Advance(r, NoError, "poll")

\* A request and the sleep after it take time.
KeepPolling(r) == left' \in 0..(left - 1) /\ Advance(r, NoError, "poll")

\* One round of _wait_for_completion.  Only an answer that never reached the
\* payload is waited out; a busy code in the payload raises.
Poll ==
  /\ mpc = "poll" /\ left > 0
  /\ \/ \E r \in Busy : KeepPolling(r)
     \/ \E r \in ApiReplies \ (Busy \cup {"ok"}) : Advance(r, ApiError(r), "poll") /\ UNCHANGED left
     \/ KeepPolling("pending")
     \/ Advance("failed", "MinerUTaskError", "poll") /\ UNCHANGED left
     \/ Advance("mismatch", "MinerUContractError", "poll") /\ UNCHANGED left
     \/ Advance("done", NoError, "download") /\ UNCHANGED left
  /\ UNCHANGED archive

PollDeadline ==
  /\ mpc = "poll" /\ left = 0
  /\ Advance("deadline", "MinerUUnavailableError", "poll")
  /\ UNCHANGED <<left, archive>>

\* _download_result up to the temporary file: an unsafe URL or length (unsafe), a
\* wrong content type or a declared size over the limit (oversized) raise before
\* there is one.
Download ==
  /\ mpc = "download"
  /\ \/ /\ \E r \in BlobReplies \ {"ok"} : Advance(r, BlobError(r), "stream")
        /\ UNCHANGED archive
     \/ Advance("unsafe", "MinerUContractError", "stream") /\ UNCHANGED archive
     \/ Advance("oversized", "MinerUResultError", "stream") /\ UNCHANGED archive
     \/ Advance("ok", NoError, "stream") /\ archive' = TRUE
  /\ UNCHANGED left

\* Mutant of StreamFails: the file is left to the caller.
StreamFails_KeepsFile(r, error) == Advance(r, error, "read") /\ UNCHANGED archive

\* The handlers of _download_result remove the file.
StreamFails(r, error) == Advance(r, error, "read") /\ archive' = FALSE

\* The body: httpx.DecodingError is neither a TransportError nor an OSError, so no
\* handler runs and the caller never learns the file's name.
Stream ==
  /\ mpc = "stream"
  /\ \/ StreamFails("network", "MinerUUnavailableError")
     \/ StreamFails("oversized", "MinerUResultError")
     \/ StreamFails("bad_signature", "MinerUResultError")
     \/ Advance("undecodable", "DecodingError", "read") /\ UNCHANGED archive
     \/ Advance("ok", NoError, "read") /\ UNCHANGED archive
  /\ UNCHANGED left

\* read_mineru_result_archive, and the finally of parse.
ReadArchive ==
  /\ mpc = "read"
  /\ \/ Advance("ok", NoError, "done")
     \/ Advance("bad_archive", "MinerUResultError", "done")
  /\ archive' = FALSE
  /\ UNCHANGED left

MinerUStep ==
  RequestUploadUrl \/ UploadFile \/ Poll \/ PollDeadline \/ Download \/ Stream \/ ReadArchive

\* Answers a later attempt may not meet again.
Transient(r) == r \in Busy \cup {"code_busy", "deadline"}
=============================================================================
