------------------------- MODULE DefaultMetaRequest -------------------------
(***************************************************************************)
(* The default meta request (s3_default_meta_request.c): one HTTP request  *)
(* whose body is read once, whatever the number of attempts, and whose     *)
(* response body is delivered after the request has succeeded.  The        *)
(* request goes through the stages of RequestAttempt.  The service answers *)
(* with Answer, which the extending module defines the meaning of.         *)
(***************************************************************************)
EXTENDS RequestAttempt, Sequences

VARIABLES
    opts,       \* request type, body, checksum validation, headers callback
    default,    \* struct aws_s3_meta_request_default and delivery counters
    answer,     \* what the service answers a good request with
    response,   \* body of the last response: [data, intact]
    delivered,  \* bodies passed to body_callback
    events,     \* progress events not delivered yet
    received,   \* request bodies the service has seen
    reported    \* what finish_callback was called with

defaultVars == <<opts, default, answer, response, delivered, events, received, reported>>

Only == <<"default", 1>>
NoResponse == [data |-> 0, intact |-> TRUE]
NotReported == [code |-> "none", status |-> 0]

\* struct aws_s3_meta_request_default as aws_s3_meta_request_default_new
\* leaves it, with the counters of the base type.
NewDefault ==
    [request_sent |-> FALSE, request_completed |-> FALSE, request_body |-> "empty",
     delivery_sent |-> 0, delivery_completed |-> 0]

\* The bodies a caller can give: none, memory it donates (request_body), a
\* stream, and a stream that ends before its Content-Length.
Options == [type : {"get", "put"}, body : {"none", "memory", "stream", "short"},
            validate : BOOLEAN, headers : BOOLEAN]

DefaultInit ==
    /\ AttemptInit
    /\ default = NewDefault
    /\ response = NoResponse
    /\ delivered = << >> /\ events = 0 /\ received = {} /\ reported = NotReported

-----------------------------------------------------------------------------
\* s_s3_meta_request_default_update, when it hands out the request
UpdateSend ==
    /\ ~meta_finished /\ ~HasResult /\ ~default.request_sent
    /\ Hand(Only, opts.type, FALSE)
    /\ default' = [default EXCEPT !.request_sent = TRUE]
    /\ UNCHANGED <<finish_result, meta_finished, signing, stop_called, faults,
                   opts, answer, response, delivered, events, received, reported>>

\* Mutant: with a result the request is not waited for.
NothingLeftAfterResult ==
    HasResult \/ (default.request_completed /\ default.delivery_completed >= 1)

NothingLeft ==
    IF HasResult
    THEN default.request_sent =>
           /\ default.request_completed
           /\ default.delivery_completed >= default.delivery_sent
    ELSE default.request_completed /\ default.delivery_completed >= 1

\* The response status a result carries: that of the failed request only for
\* the codes aws_s3_meta_request_set_fail_synced names.
StatusOf(code) ==
    CASE code \in {"ok", "async_error"} -> 200 [] code = "invalid_status" -> 404 [] OTHER -> 0

\* The no_work_remaining branch, with aws_s3_meta_request_finish
UpdateFinish ==
    /\ ~meta_finished /\ NothingLeft /\ events = 0
    /\ SetResult("ok")
    /\ meta_finished' = TRUE
    /\ reported' = [code |-> finish_result', status |-> StatusOf(finish_result')]
    /\ UNCHANGED <<req, signing, stop_called, faults,
                   opts, default, answer, response, delivered, events, received>>

-----------------------------------------------------------------------------
\* Mutant: the body is read again for every attempt, from where it ended.
ReadBodyAgain(r) ==
    IF opts.body \in {"memory", "stream"} /\ req[r].prepared = 0 THEN "whole" ELSE "empty"

\* The body is read when the request is prepared for the first time.
ReadBody(r) ==
    IF opts.body \in {"memory", "stream"} /\ req[r].prepared = 0
    THEN "whole" ELSE default.request_body

\* s_s3_default_prepare_request with s_s3_default_prepare_request_on_read_done
\* and s_s3_default_prepare_request_finish
PrepareRequest(r) ==
    /\ At(r, "preparing")
    /\ \/ /\ opts.body # "short" \/ req[r].prepared > 0
          /\ ToSigning(r, FALSE)
          /\ default' = [default EXCEPT !.request_body = ReadBody(r)]
          /\ UNCHANGED finish_result /\ NoFault
       \/ /\ opts.body = "short" /\ req[r].prepared = 0
          /\ Prepared(r, "prepare") /\ NoFault
          /\ UNCHANGED default
       \/ /\ opts.body = "stream" /\ req[r].prepared = 0
          /\ Prepared(r, "prepare") /\ Fault
          /\ UNCHANGED default
    /\ UNCHANGED <<meta_finished, signing, stop_called,
                   opts, answer, response, delivered, events, received, reported>>

\* The end of the HTTP stream.  The service (external) answers, or the
\* connection breaks.  Only a GetObject body may arrive changed.
Reply(r) ==
    /\ At(r, "active")
    /\ \E intact \in BOOLEAN, status \in {200, 404, 500}, xml \in {"none", "recoverable", "unknown"},
          http \in {"ok", "connection", "canceled"} :
          LET answered == [status |-> status, xml |-> xml, intact |-> intact]
          IN  /\ intact \/ opts.type = "get"
              /\ xml # "none" => http = "ok" /\ opts.type # "get"
              /\ http # "ok" => answered = GoodResponse
              /\ http = "canceled" => req[r].told
              /\ StreamComplete(r, http, answered, opts.validate)
              /\ IF http = "canceled" \/ (http = "ok" /\ answered = GoodResponse)
                 THEN NoFault ELSE Fault
              /\ response' = [data |-> IF http = "ok" /\ status = 200 /\ xml = "none"
                                       THEN answer ELSE 0,
                              intact |-> intact]
    /\ received' = received \cup {default.request_body}
    /\ UNCHANGED <<opts, default, answer, delivered, events, reported>>

\* s_s3_meta_request_default_request_finished.  The headers callback, called
\* before the lock is taken, may turn success into an error.
RequestFinished(r) ==
    /\ At(r, "finishing")
    /\ \E code \in {req[r].code, "callback"} :
         /\ IF code = req[r].code THEN NoFault
            ELSE req[r].code = "ok" /\ opts.headers /\ Fault
         /\ IF code = "ok" THEN UNCHANGED finish_result ELSE SetResult(code)
         /\ default' = [default EXCEPT !.request_completed = TRUE,
                            !.delivery_sent = IF code = "ok" THEN @ + 1 ELSE @]
         /\ events' = IF code = "ok" THEN events + 1 ELSE events
    /\ Consume(r)
    /\ UNCHANGED <<meta_finished, signing, stop_called,
                   opts, answer, response, delivered, received, reported>>

\* Mutant: a body that is not delivered any more is not counted.
DeliverBodyUnlessFailed(mayFail) ==
    /\ default.delivery_completed < default.delivery_sent /\ ~HasResult
    /\ default' = [default EXCEPT !.delivery_completed = @ + 1]
    /\ delivered' = Append(delivered, response)
    /\ UNCHANGED finish_result /\ NoFault
    /\ UNCHANGED <<meta_finished, req, signing, stop_called,
                   opts, answer, response, events, received, reported>>

\* s_s3_meta_request_event_delivery_task, for the one body: with a result it
\* is counted and not delivered.
DeliverBody(mayFail) ==
    /\ default.delivery_completed < default.delivery_sent
    /\ default' = [default EXCEPT !.delivery_completed = @ + 1]
    /\ \/ /\ ~HasResult
          /\ delivered' = Append(delivered, response)
          /\ UNCHANGED finish_result /\ NoFault
       \/ /\ ~HasResult /\ mayFail
          /\ delivered' = Append(delivered, response)
          /\ SetResult("callback") /\ Fault
       \/ /\ HasResult
          /\ UNCHANGED <<finish_result, delivered>> /\ NoFault
    /\ UNCHANGED <<meta_finished, req, signing, stop_called,
                   opts, answer, response, events, received, reported>>

\* The same task, for a progress event
DeliverProgress ==
    /\ events > 0
    /\ events' = events - 1
    /\ UNCHANGED <<attemptVars, opts, default, answer, response, delivered, received, reported>>

DefaultStep(mayFail) ==
    \/ UpdateSend \/ DeliverBody(mayFail) \/ DeliverProgress
    \/ \E r \in DOMAIN req : PrepareRequest(r) \/ Reply(r) \/ RequestFinished(r)
    \/ \E r \in DOMAIN req : PipelineStep(r) /\ UNCHANGED defaultVars

-----------------------------------------------------------------------------
\* The counters of the default request, and the type of its attempts.
DefaultTypeOK ==
    /\ AttemptTypeOK
    /\ DOMAIN req \subseteq {Only}
    /\ default.delivery_completed \in 0..default.delivery_sent
    /\ default.delivery_sent \in 0..1

\* s_s3_meta_request_stream_complete: with response validation on, a body that
\* changed on its way never reaches body_callback.
DeliveredIsIntact ==
    opts.validate => \A i \in DOMAIN delivered : delivered[i].intact

\* s_s3_meta_request_default_update: success is reported only after the answer
\* to the last attempt went to body_callback, once, and with no other body.
SuccessWasDelivered ==
    reported.code = "ok" => delivered = <<response>> /\ response.data = answer

\* `num_times_prepared == 0` in s_s3_default_prepare_request: a retry sends the
\* body the first attempt read, not what is left of the stream.
EveryAttemptSendsTheBody ==
    opts.body \in {"memory", "stream"} => received \subseteq {"whole"}

\* After the finish callback nothing of the meta request is in flight.
FinishIsQuiet ==
    meta_finished => /\ req = << >> /\ events = 0
                     /\ default.delivery_completed = default.delivery_sent

\* The bodies go through intact, in both directions, whatever the number of
\* attempts: the service gets the whole body, the caller the whole answer.
BodiesIntact == DeliveredIsIntact /\ SuccessWasDelivered /\ EveryAttemptSendsTheBody
=============================================================================
