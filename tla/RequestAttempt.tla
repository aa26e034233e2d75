--------------------------- MODULE RequestAttempt ---------------------------
(***************************************************************************)
(* What happens to one aws_s3_request between update(), which creates it,  *)
(* and vtable->finished_request(), which consumes it: prepare task,        *)
(* signing, wait for a connection, HTTP stream, mapping of the response to *)
(* an error code, retry or end (s3_meta_request.c, s3_client.c).           *)
(*                                                                         *)
(* Meta request types extend this module.  They create requests with Hand, *)
(* prepare them (stage "preparing" to ToSigning or Prepared) and consume   *)
(* them (stage "finishing").  One action is what runs between two points   *)
(* where another thread may take the meta request's lock.                  *)
(***************************************************************************)
EXTENDS Integers, FiniteSets, Functions, TLC

CONSTANTS
    MaxRetries,      \* attempts the retry strategy grants after the first one
    DisableRetries,  \* client->disable_retries
    MaxFaults        \* bound: failures of the environment in one behaviour

ASSUME RetryAssumption == MaxRetries \in Nat /\ MaxFaults \in Nat /\ DisableRetries \in BOOLEAN

VARIABLES
    finish_result,   \* synced_data.finish_result: "none", "ok" or an error
    meta_finished,   \* synced_data.state = AWS_S3_META_REQUEST_STATE_FINISHED
    req,             \* requests between creation and finished_request
    signing,         \* credentials of the signing config
    stop_called,     \* aws_s3_meta_request_cancel or pause was called
    faults           \* failures so far

attemptVars == <<finish_result, meta_finished, req, signing, stop_called, faults>>

Stages == {"task", "preparing", "credentials", "session", "signing", "queued",
           "connecting", "sending", "active", "backoff", "finishing"}
RequestTypes == {"get", "put", "list", "head", "copy", "create", "part", "complete", "abort"}
FatalErrors == {"invalid_status", "size_mismatch", "async_error", "checksum_mismatch"}
Errors == FatalErrors \cup {"canceled", "paused", "internal_error", "slow_down",
                            "connection", "prepare", "callback", "header"}

AttemptInit ==
    /\ finish_result = "none"
    /\ meta_finished = FALSE
    /\ req = << >>
    /\ signing \in {"v4", "express", "express_provider"}
    /\ stop_called = FALSE
    /\ faults = 0

HasResult == finish_result # "none"

\* aws_s3_meta_request_set_fail_synced, aws_s3_meta_request_set_success_synced
SetResult(code) == finish_result' = IF HasResult THEN finish_result ELSE code

Fault == faults < MaxFaults /\ faults' = faults + 1
NoFault == UNCHANGED faults

\* aws_s3_request_new; the retry token lives as long as the connection.
NewRequest(type, alwaysSend) ==
    [type |-> type, always_send |-> alwaysSend, stage |-> "task", prepared |-> 0,
     retries |-> 0, connection |-> FALSE, told |-> FALSE, code |-> "ok"]
Hand(r, type, alwaysSend) ==
    req' = [s \in DOMAIN req \cup {r} |-> IF s = r THEN NewRequest(type, alwaysSend) ELSE req[s]]
Consume(r) == req' = [s \in DOMAIN req \ {r} |-> req[s]]
At(r, stage) == r \in DOMAIN req /\ req[r].stage = stage
Move(r, stage) == req' = [req EXCEPT ![r].stage = stage]
Dropped(r) == HasResult /\ ~req[r].always_send

-----------------------------------------------------------------------------
\* s_s3_prepare_request_payload_callback_and_destroy and its two callbacks:
\* a first attempt is queued for a connection, a retry already has one.
Prepared(r, code) ==
    /\ IF code = "ok" THEN UNCHANGED finish_result ELSE SetResult(code)
    /\ req' = [req EXCEPT ![r].prepared = @ + 1, ![r].code = code,
                          ![r].stage = IF code # "ok" THEN "finishing"
                                       ELSE IF req[r].connection THEN "connecting" ELSE "queued"]

PrepareTask(r) ==
    /\ At(r, "task")
    /\ IF Dropped(r)
       THEN Prepared(r, "canceled")
       ELSE Move(r, "preparing") /\ UNCHANGED finish_result
    /\ NoFault
    /\ UNCHANGED <<meta_finished, signing, stop_called>>

\* aws_s3_meta_request_sign_request_default_impl: S3 Express signing needs a
\* session, and first the credentials the session is created from.
ToSigning(r, disableExpress) ==
    Move(r, IF signing = "v4" \/ disableExpress THEN "signing"
            ELSE IF signing = "express" THEN "session" ELSE "credentials")

\* s_get_original_credentials_callback
GetOriginalCredentials(r) ==
    /\ At(r, "credentials")
    /\ \/ Move(r, "session") /\ UNCHANGED finish_result /\ NoFault
       \/ Prepared(r, "prepare") /\ Fault
    /\ UNCHANGED <<meta_finished, signing, stop_called>>

\* s_get_s3express_credentials_callback
GetExpressSession(r) ==
    /\ At(r, "session")
    /\ \/ Move(r, "signing") /\ UNCHANGED finish_result /\ NoFault
       \/ Prepared(r, "prepare") /\ Fault
    /\ UNCHANGED <<meta_finished, signing, stop_called>>

\* s_s3_meta_request_request_on_signed
OnSigned(r) ==
    /\ At(r, "signing")
    /\ \/ Prepared(r, "ok") /\ NoFault
       \/ Prepared(r, "prepare") /\ Fault
    /\ UNCHANGED <<meta_finished, signing, stop_called>>

-----------------------------------------------------------------------------
\* aws_s3_client_update_connections_threaded, for a request it dequeues
UpdateConnections(r) ==
    /\ At(r, "queued")
    /\ req' = IF Dropped(r)
              THEN [req EXCEPT ![r].stage = "finishing", ![r].code = "canceled"]
              ELSE [req EXCEPT ![r].stage = "connecting", ![r].connection = TRUE]
    /\ NoFault
    /\ UNCHANGED <<finish_result, meta_finished, signing, stop_called>>

\* aws_s3_client_notify_connection_finished: a retry needs a token and a meta
\* request that is not finished, and the retry strategy may refuse it.
NotifyConnectionFinished(r, code, finishCode) ==
    LET retry == /\ finishCode = "retry"
                 /\ ~DisableRetries
                 /\ ~meta_finished
                 /\ req[r].retries < MaxRetries
    IN  req' = [req EXCEPT ![r].code = code, ![r].told = FALSE,
                           ![r].retries = IF retry THEN @ + 1 ELSE @,
                           ![r].stage = IF retry THEN "backoff" ELSE "finishing"]

\* s_s3_client_on_acquire_http_connection
AcquireConnection(r) ==
    /\ At(r, "connecting")
    /\ \/ Move(r, "sending") /\ NoFault
       \/ \E finishCode \in {"retry", "failed"} :
              NotifyConnectionFinished(r, "connection", finishCode) /\ Fault
    /\ UNCHANGED <<finish_result, meta_finished, signing, stop_called>>

\* s_s3_client_retry_ready; the strategy may have been shut down meanwhile
RetryReady(r) ==
    /\ At(r, "backoff")
    /\ \/ Move(r, "task") /\ NoFault
       \/ req' = [req EXCEPT ![r].stage = "finishing", ![r].code = "connection"] /\ Fault
    /\ UNCHANGED <<finish_result, meta_finished, signing, stop_called>>

-----------------------------------------------------------------------------
\* A response: its status, the code found under <Error><Code> of its body and
\* whether the body arrived as it was sent.
Responses == [status : {200, 404, 500, 503}, xml : {"none", "recoverable", "unknown"},
              intact : BOOLEAN]
GoodResponse == [status |-> 200, xml |-> "none", intact |-> TRUE]

\* s_s3_meta_request_error_code_from_response_status
ErrorFromStatus(status) ==
    CASE status = 200 -> "ok"
      [] status = 500 -> "internal_error"
      [] status = 503 -> "slow_down"
      [] OTHER -> "invalid_status"

\* Mutant: a 200 is a success whatever the body says.
ErrorFromStatusOnly(type, response) == ErrorFromStatus(response.status)

\* s_s3_meta_request_error_code_from_response with
\* s_should_check_for_error_despite_200_OK
ErrorFromResponse(type, response) ==
    LET status == ErrorFromStatus(response.status)
        xml    == IF status # "ok" \/ type # "get" THEN response.xml ELSE "none"
    IN  CASE xml = "recoverable" -> "slow_down"
          [] xml = "unknown" /\ status = "ok" -> "async_error"
          [] OTHER -> status

\* aws_s3_meta_request_send_request_finish_default
FinishCode(code) ==
    IF code = "ok" THEN "success"
    ELSE IF code \in FatalErrors \/ HasResult THEN "failed" ELSE "retry"
SendRequestFinish(r, code) == NotifyConnectionFinished(r, code, FinishCode(code))

\* Mutant: the result is not looked at again under the lock before activation.
SendRequestUnchecked(r) ==
    /\ At(r, "sending")
    /\ \/ Move(r, "active") /\ NoFault
       \/ SendRequestFinish(r, "connection") /\ Fault
    /\ UNCHANGED <<finish_result, meta_finished, signing, stop_called>>

\* aws_s3_meta_request_send_request: result check, activation and entry into
\* the list of cancellable streams are one critical section.
SendRequest(r) ==
    /\ At(r, "sending")
    /\ \/ Dropped(r) /\ SendRequestFinish(r, "canceled") /\ NoFault
       \/ ~Dropped(r) /\ Move(r, "active") /\ NoFault
       \/ ~Dropped(r) /\ SendRequestFinish(r, "connection") /\ Fault
    /\ UNCHANGED <<finish_result, meta_finished, signing, stop_called>>

\* s_s3_meta_request_stream_complete: `http` is the stream's own error code.
\* A request with a checksum of its response compares it here.
StreamComplete(r, http, response, validate) ==
    /\ At(r, "active")
    /\ SendRequestFinish(r, IF http # "ok" THEN http
                            ELSE IF validate /\ ~response.intact THEN "checksum_mismatch"
                            ELSE ErrorFromResponse(req[r].type, response))
    /\ UNCHANGED <<finish_result, meta_finished, signing, stop_called>>

-----------------------------------------------------------------------------
\* aws_s3_meta_request_cancel, and the pause of the types that have one:
\* aws_s3_meta_request_cancel_cancellable_requests_synced tells every open
\* stream to end.  Called at most once here, and by a user that still holds
\* the meta request.
Stop(code) ==
    /\ ~meta_finished /\ ~stop_called
    /\ SetResult(code)
    /\ stop_called' = TRUE
    /\ req' = [r \in DOMAIN req |->
                 IF req[r].stage = "active" /\ ~req[r].always_send
                 THEN [req[r] EXCEPT !.told = TRUE] ELSE req[r]]
    /\ UNCHANGED <<meta_finished, signing, faults>>

PipelineStep(r) ==
    \/ PrepareTask(r) \/ GetOriginalCredentials(r) \/ GetExpressSession(r) \/ OnSigned(r)
    \/ UpdateConnections(r) \/ AcquireConnection(r) \/ RetryReady(r) \/ SendRequest(r)

AttemptTypeOK ==
    /\ finish_result \in {"none", "ok"} \cup Errors
    /\ meta_finished \in BOOLEAN /\ stop_called \in BOOLEAN /\ faults \in 0..MaxFaults
    /\ \A r \in DOMAIN req :
         req[r] \in [type : RequestTypes, always_send : BOOLEAN, stage : Stages,
                     prepared : 0..(MaxRetries + 1), retries : 0..MaxRetries,
                     connection : BOOLEAN, told : BOOLEAN, code : Errors \cup {"ok"}]

\* aws_s3_meta_request_cancel against aws_s3_meta_request_send_request: once
\* cancel() returned, every open stream that may be cancelled has been told to
\* end, in whatever order the two took the lock, and no further one opens.
StoppedStreamsTold ==
    stop_called => \A r \in DOMAIN req :
                      req[r].stage = "active" /\ ~req[r].always_send => req[r].told
=============================================================================
