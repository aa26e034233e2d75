----------------------------- MODULE CopyObject -----------------------------
(***************************************************************************)
(* The CopyObject meta request (s3_copy_object.c): HEAD of the source,     *)
(* then one bypassed CopyObject for a small object, or CreateMultipart-    *)
(* Upload, one UploadPartCopy per part and CompleteMultipartUpload for a   *)
(* large one, AbortMultipartUpload after a failure.  Every request goes    *)
(* through the stages of RequestAttempt and carries a message of           *)
(* RequestMessages.  The service keeps the object and the upload and does  *)
(* what the message asks; it may apply a request whose answer is lost.     *)
(***************************************************************************)
EXTENDS RequestAttempt, RequestMessages, PartRanges, Sequences

CONSTANTS
    ContentLengths,       \* lengths of the source object
    InitialHeaders,       \* headers of the user's CopyObject request
    MinMultipartLength,   \* s_multipart_copy_minimum_object_size
    MinPartSize,          \* s_min_copy_part_size
    MaxParts              \* g_s3_max_num_upload_parts

ASSUME CopyAssumption ==
    /\ ContentLengths \subseteq Nat /\ InitialHeaders \subseteq SUBSET HeaderClasses
    /\ MinMultipartLength \in Nat /\ MinPartSize \in Nat \ {0} /\ MaxParts \in Nat \ {0}

VARIABLES
    copy,       \* struct aws_s3_copy_object
    events,     \* progress events not delivered yet, as the bytes they report
    progress,   \* bytes reported to progress_callback
    headers,    \* headers_callback is set
    source,     \* length of the source object
    initial,    \* initial_request_message, and whether copy_source_uri was given
    message,    \* send_data.message of the requests prepared
    service,    \* the destination object and its multipart upload
    reported    \* what finish_callback was called with

copyVars == <<copy, events, progress, headers, source, initial, message, service, reported>>
vars == <<attemptVars, copyVars>>

Tags == {"head", "bypass", "create", "complete", "abort"}
Req(tag) == <<tag, 0>>
PartReq(n) == <<"part", n>>
Bytes == 0..(source - 1)

Init ==
    /\ AttemptInit
    /\ copy = [head |-> "none", bypass |-> "none", create |-> "none", complete |-> "none",
               abort |-> "none", complete_error |-> "ok", upload_id |-> FALSE,
               content_length |-> 0, part_size |-> 0, total_num_parts |-> 0,
               num_parts_sent |-> 0, num_parts_completed |-> 0, etags |-> {}]
    /\ events = << >> /\ progress = 0 /\ headers \in BOOLEAN
    /\ source \in ContentLengths
    /\ initial \in {i \in [headers : InitialHeaders, source_uri : BOOLEAN] :
                       i.source_uri => "source" \in i.headers}
    /\ message = << >>
    /\ service = [object |-> {}, upload |-> "none", orphans |-> 0, stored |-> << >>]
    /\ reported = "none"

-----------------------------------------------------------------------------
\* s_s3_copy_object_update, for the requests it hands out
Small == copy.content_length < MinMultipartLength
PartsLeft == copy.num_parts_sent < copy.total_num_parts
PartsDone == copy.num_parts_completed = copy.total_num_parts

Send(tag, type, alwaysSend) ==
    /\ copy[tag] = "none"
    /\ Hand(Req(tag), type, alwaysSend)
    /\ copy' = [copy EXCEPT ![tag] = "sent"]

UpdateHead == ~HasResult /\ Send("head", "head", FALSE)

UpdateBypass ==
    /\ ~HasResult /\ copy.head = "done" /\ Small
    /\ Send("bypass", "copy", FALSE)

UpdateCreate ==
    /\ ~HasResult /\ copy.head = "done" /\ ~Small
    /\ Send("create", "create", FALSE)

UpdatePart ==
    /\ ~HasResult /\ copy.create = "done" /\ PartsLeft
    /\ Hand(PartReq(copy.num_parts_sent + 1), "part", FALSE)
    /\ copy' = [copy EXCEPT !.num_parts_sent = @ + 1]

UpdateComplete ==
    /\ ~HasResult /\ copy.create = "done" /\ ~PartsLeft /\ PartsDone
    /\ Send("complete", "complete", FALSE)

\* Mutant: requests still in flight are not waited for.
WoundDownAtOnce == copy.create = "done" /\ copy.complete # "sent"

\* With a result: the create, the parts and the complete are waited for.
WoundDown ==
    /\ copy.create = "done"
    /\ copy.num_parts_completed >= copy.num_parts_sent
    /\ copy.complete # "sent"
CompleteSucceeded == copy.complete = "done" /\ copy.complete_error = "ok"

UpdateAbort ==
    /\ HasResult /\ WoundDown /\ ~CompleteSucceeded /\ copy.upload_id
    /\ Send("abort", "abort", TRUE)

Update ==
    /\ ~meta_finished
    /\ UpdateHead \/ UpdateBypass \/ UpdateCreate \/ UpdatePart \/ UpdateComplete \/ UpdateAbort
    /\ UNCHANGED <<finish_result, meta_finished, signing, stop_called, faults,
                   events, progress, headers, source, initial, message, service, reported>>

\* Mutant: a failed copy is finished without waiting for the abort.
NoWorkWithoutAbort ==
    IF ~HasResult
    THEN copy.bypass = "done" \/ copy.complete = "done"
    ELSE copy.create = "none" \/ WoundDown

\* Before CreateMultipartUpload is sent nothing is waited for: neither the
\* HEAD nor the bypassed CopyObject.
NoWorkRemaining ==
    IF ~HasResult
    THEN copy.bypass = "done" \/ copy.complete = "done"
    ELSE \/ copy.create = "none"
         \/ WoundDown /\ (CompleteSucceeded \/ ~copy.upload_id \/ copy.abort = "done")

\* The no_work_remaining branch of update, with aws_s3_meta_request_finish.
UpdateFinish ==
    /\ ~meta_finished /\ NoWorkRemaining /\ events = << >>
    /\ SetResult("ok")
    /\ meta_finished' = TRUE
    /\ reported' = finish_result'
    /\ UNCHANGED <<req, signing, stop_called, faults,
                   copy, events, progress, headers, source, initial, message, service>>

-----------------------------------------------------------------------------
\* s_s3_copy_object_prepare_request
PartSize == MpuPartSize(copy.content_length, MinPartSize, MaxParts)
NumCopyParts == MpuNumParts(copy.content_length, MinPartSize, MaxParts)

PartRange(n) ==
    LET first == (n - 1) * copy.part_size
    IN  first..AtMost(first + copy.part_size - 1, copy.content_length - 1)

Build(r) ==
    CASE r[1] = "head"     -> HeadMessage(initial)
      [] r[1] = "bypass"   -> BypassMessage(initial)
      [] r[1] = "create"   -> CreateMessage(initial)
      [] r[1] = "part"     -> PartCopyMessage(initial, PartRange(r[2]))
      [] r[1] = "complete" ->
            CompleteMessage(initial, [n \in 1..copy.total_num_parts |-> n \in copy.etags],
                            copy.content_length)
      [] r[1] = "abort"    -> AbortMessage(initial)

\* The function f with v at x.
With(f, x, v) == [y \in DOMAIN f \cup {x} |-> IF y = x THEN v ELSE f[y]]

\* aws_s3_request_setup_send_data, aws_s3_request_clean_up_send_data
SetupSendData(r) == message' = With(message, r, Build(r))
CleanUpSendData(r) == message' = [s \in DOMAIN message \ {r} |-> message[s]]

\* The HEAD of a copy whose source is not given cannot be built; an allocation
\* may fail for any request.
PrepareRequest(r) ==
    /\ At(r, "preparing")
    /\ \/ /\ r = Req("head") => HasSource(initial)
          /\ ToSigning(r, r[1] \in {"bypass", "part"})
          /\ SetupSendData(r)
          /\ UNCHANGED finish_result /\ NoFault
       \/ /\ r = Req("head") /\ ~HasSource(initial)
          /\ Prepared(r, "prepare") /\ NoFault
          /\ UNCHANGED message
       \/ /\ Prepared(r, "prepare") /\ Fault
          /\ UNCHANGED message
    /\ copy' = IF r = Req("create")
               THEN [copy EXCEPT !.part_size = PartSize, !.total_num_parts = NumCopyParts]
               ELSE copy
    /\ UNCHANGED <<meta_finished, signing, stop_called,
                   events, progress, headers, source, initial, service, reported>>

-----------------------------------------------------------------------------
\* The service (external): what a request it executes does to its state.
Executed(r) ==
    CASE r[1] = "bypass" -> [service EXCEPT !.object = Bytes]
      [] r[1] = "create" -> [service EXCEPT !.upload = "open", !.stored = << >>,
                                 !.orphans = @ + (IF service.upload = "open" THEN 1 ELSE 0)]
      [] r[1] = "part" -> [service EXCEPT !.stored = With(@, r[2], message[r].range)]
      [] r[1] = "complete" ->
             [service EXCEPT !.upload = "done",
                             !.object = UNION {service.stored[n] : n \in DOMAIN message[r].parts}]
      [] r[1] = "abort" -> [service EXCEPT !.upload = "aborted"]
      [] OTHER -> service

\* The part list must name stored parts with their ETags, and their sizes add
\* up to x-amz-mp-object-size.
Completes(m) ==
    /\ \A n \in DOMAIN m.parts : m.parts[n] /\ n \in DOMAIN service.stored
    /\ m.object_size \in {0, SumFunction([n \in DOMAIN m.parts |->
                                             Cardinality(service.stored[n])])}

CanExecute(r) ==
    /\ message[r].upload => service.upload = "open"
    /\ r[1] \in {"part", "bypass"} => "source" \in message[r].headers
    /\ r[1] = "complete" => Completes(message[r])

\* What the service may have done to a request whose answer does not arrive
Outcomes(r) == IF CanExecute(r) THEN {service, Executed(r)} ELSE {service}

\* The end of an HTTP stream: an answer of the service, or an answer that
\* never comes because the connection broke or the stream was told to end,
\* whether or not the service had executed the request.
Reply(r) ==
    /\ At(r, "active")
    /\ \/ /\ CanExecute(r)
          /\ StreamComplete(r, "ok", GoodResponse, FALSE)
          /\ service' = Executed(r)
          /\ NoFault
       \/ /\ ~CanExecute(r)
          /\ StreamComplete(r, "ok", [GoodResponse EXCEPT !.status = 404], FALSE)
          /\ NoFault
          /\ UNCHANGED service
       \/ /\ \E status \in {200, 404, 500, 503}, xml \in {"none", "recoverable", "unknown"} :
                 /\ status = 200 => xml # "none"
                 /\ StreamComplete(r, "ok", [status |-> status, xml |-> xml, intact |-> TRUE], FALSE)
          /\ Fault
          /\ UNCHANGED service
       \/ /\ StreamComplete(r, "connection", GoodResponse, FALSE)
          /\ Fault
          /\ service' \in Outcomes(r)
       \/ /\ req[r].told
          /\ StreamComplete(r, "canceled", GoodResponse, FALSE)
          /\ NoFault
          /\ service' \in Outcomes(r)
    /\ UNCHANGED <<copy, events, progress, headers, source, initial, message, reported>>

-----------------------------------------------------------------------------
\* s_s3_copy_object_request_finished.  headers_callback runs without the lock,
\* between two critical sections, and may turn success into an error.
HeadersCallback(r) ==
    /\ At(r, "finishing") /\ headers
    /\ \/ r = Req("bypass")
       \/ r = Req("complete") /\ req[r].code = "ok"
    /\ headers' = FALSE
    /\ \/ UNCHANGED req /\ NoFault
       \/ req' = [req EXCEPT ![r].code = "callback"] /\ Fault
    /\ UNCHANGED <<finish_result, meta_finished, signing, stop_called,
                   copy, events, progress, source, initial, message, service, reported>>

Finishing(r) ==
    /\ At(r, "finishing")
    /\ Consume(r)
    /\ CleanUpSendData(r)
    /\ UNCHANGED <<meta_finished, signing, stop_called, progress, headers, source,
                   initial, service, reported>>
SetFailUnlessOk(code) == IF code = "ok" THEN UNCHANGED finish_result ELSE SetResult(code)

\* The answer may lack a usable Content-Length.
HeadFinished ==
    LET r == Req("head")
    IN  /\ Finishing(r)
        /\ \/ /\ req[r].code = "ok"
              /\ copy' = [copy EXCEPT !.head = "done", !.content_length = source]
              /\ UNCHANGED finish_result /\ NoFault
           \/ /\ req[r].code = "ok"
              /\ SetResult("header") /\ Fault
              /\ UNCHANGED copy
           \/ /\ req[r].code # "ok"
              /\ SetResult(req[r].code) /\ NoFault
              /\ UNCHANGED copy
        /\ UNCHANGED events

BypassFinished ==
    LET r == Req("bypass")
    IN  /\ Finishing(r) /\ ~headers
        /\ SetFailUnlessOk(req[r].code)
        /\ IF req[r].code = "ok"
           THEN /\ copy' = [copy EXCEPT !.bypass = "done"]
                /\ events' = Append(events, copy.content_length)
           ELSE UNCHANGED <<copy, events>>
        /\ NoFault

\* The answer may lack the upload id.
CreateFinished ==
    LET r == Req("create")
    IN  /\ Finishing(r)
        /\ \E code \in {req[r].code, "header"} :
              /\ IF code = "header" /\ req[r].code # "header"
                 THEN req[r].code = "ok" /\ Fault ELSE NoFault
              /\ SetFailUnlessOk(code)
              /\ copy' = [copy EXCEPT !.create = "done", !.upload_id = (code = "ok")]
        /\ UNCHANGED events

\* Mutant: a part that failed is not counted as completed.
PartFinishedIfOk(n) ==
    LET r == PartReq(n)
    IN  /\ Finishing(r)
        /\ SetFailUnlessOk(req[r].code)
        /\ IF req[r].code = "ok"
           THEN /\ copy' = [copy EXCEPT !.num_parts_completed = @ + 1, !.etags = @ \cup {n}]
                /\ events' = Append(events, copy.part_size)
           ELSE UNCHANGED <<copy, events>>
        /\ NoFault

PartFinished(n) ==
    LET r == PartReq(n)
    IN  /\ Finishing(r)
        /\ SetFailUnlessOk(req[r].code)
        /\ IF req[r].code = "ok"
           THEN /\ copy' = [copy EXCEPT !.num_parts_completed = @ + 1, !.etags = @ \cup {n}]
                /\ events' = Append(events, copy.part_size)
           ELSE /\ copy' = [copy EXCEPT !.num_parts_completed = @ + 1]
                /\ UNCHANGED events
        /\ NoFault

CompleteFinished ==
    LET r == Req("complete")
    IN  /\ Finishing(r) /\ (headers => req[r].code # "ok")
        /\ SetFailUnlessOk(req[r].code)
        /\ copy' = [copy EXCEPT !.complete = "done", !.complete_error = req[r].code]
        /\ UNCHANGED events /\ NoFault

AbortFinished ==
    /\ Finishing(Req("abort"))
    /\ copy' = [copy EXCEPT !.abort = "done"]
    /\ UNCHANGED <<finish_result, events>> /\ NoFault

FinishedRequest ==
    \/ HeadFinished \/ BypassFinished \/ CreateFinished \/ CompleteFinished \/ AbortFinished
    \/ \E n \in 1..copy.num_parts_sent : PartFinished(n)

\* s_s3_meta_request_event_delivery_task, for progress events
DeliverProgress ==
    /\ events # << >> /\ ~meta_finished
    /\ progress' = progress + SumFunction(events)
    /\ events' = << >>
    /\ UNCHANGED <<attemptVars, copy, headers, source, initial, message, service, reported>>

Cancel == Stop("canceled") /\ UNCHANGED copyVars

Step ==
    \/ Update \/ UpdateFinish \/ FinishedRequest \/ DeliverProgress
    \/ \E r \in DOMAIN req : PrepareRequest(r) \/ Reply(r) \/ HeadersCallback(r)
    \/ \E r \in DOMAIN req : PipelineStep(r) /\ UNCHANGED copyVars

Next == Step \/ Cancel

\* Every step but the user's cancel is taken by an event loop, the retry
\* strategy or a service whose connections end at the latest by time-out.
Spec == Init /\ [][Next]_vars /\ WF_vars(Step)
-----------------------------------------------------------------------------
\* Types of the copy's own state.
TypeOK ==
    /\ AttemptTypeOK
    /\ \A tag \in Tags : copy[tag] \in {"none", "sent", "done"}
    /\ copy.etags \subseteq 1..copy.total_num_parts
    /\ DOMAIN message \subseteq DOMAIN req
    /\ \A r \in DOMAIN message : message[r].headers \subseteq HeaderClasses
    /\ service.object \subseteq Bytes
    /\ reported \in {"none", "ok"} \cup Errors

\* s_s3_copy_object_prepare_request and the part list of the complete: an
\* object that appears at the destination has every byte of the source, after
\* whatever retries, lost answers and reordered parts.
CopyIsWhole == service.object \in {{}, Bytes}

\* s_s3_copy_object_update: success is reported only when the destination
\* holds the object and the upload is closed.
SuccessMeansCopied ==
    reported = "ok" => service.object = Bytes /\ service.upload # "open"

\* A copy that fails after it learnt its upload id leaves the upload behind
\* only if AbortMultipartUpload itself failed.
FailureAborts ==
    meta_finished /\ reported # "ok" /\ service.upload = "open" /\ copy.upload_id
        => copy.abort = "done"

\* The abort (ALWAYS_SEND, not cancellable) never overlaps a part or the
\* complete: the service would reject or, worse, resurrect the upload.
AbortIsAlone == Req("abort") \in DOMAIN req => DOMAIN req = {Req("abort")}

\* aws_s3_meta_request_finish_default gives up the endpoint, the message and
\* the event loop, which the requests of a multipart copy need: none is in
\* flight then.  (A HEAD or a bypassed CopyObject may be, after a cancel.)
FinishIsQuiet == meta_finished => DOMAIN req \subseteq {Req("head"), Req("bypass")}

\* When success is reported progress_callback has had every byte: once per
\* part, the last one rounded up to the part size.
ProgressIsComplete ==
    reported = "ok" => progress = IF Small THEN source
                                  ELSE copy.total_num_parts * copy.part_size

\* The header tables of s3_request_messages.c and the HEAD's forwarded headers:
\* every request says who pays; what reads the source asserts the owner of the
\* source, and the HEAD not that of the destination; the condition on the
\* destination is checked by the request that makes the object and by no other;
\* the object's attributes and metadata go to the request that creates it.
HeadersReachTheirRequest ==
    \A r \in DOMAIN message :
        LET has(h)     == h \in message[r].headers
            carries(h) == has(h) <=> h \in initial.headers
        IN  /\ carries("payer")
            /\ r[1] = "head" => (has("owner") <=> "source_owner" \in initial.headers)
            /\ r[1] \in {"part", "bypass"} => /\ carries("source_owner")
                                             /\ carries("conditions") /\ carries("customer_key")
            /\ IF r[1] \in {"complete", "bypass"} THEN carries("if_none") ELSE ~has("if_none")
            /\ \A h \in {"attributes", "meta"} :
                  IF r[1] \in {"create", "bypass"} THEN carries(h) ELSE ~has(h)

\* The messages of one copy fit together: the service completes an upload only
\* if the parts listed were stored, with their ETags, and have the size the
\* HEAD found.  A copy that meets no failure, is not cancelled and names its
\* source succeeds.
NoFailureOfItsOwn ==
    reported \notin {"none", "ok"} => faults > 0 \/ stop_called \/ ~HasSource(initial)

\* Every copy is reported finished: no request is lost between the stages, no
\* retry goes on for ever, and a failure or a cancel winds the copy down.
Terminates == <>(reported # "none")

\* A copy is real: an object that appears is the whole source, success is only
\* reported with it, and by then every byte was reported as progress.
CopyIsReal == TypeOK /\ CopyIsWhole /\ SuccessMeansCopied /\ ProgressIsComplete

\* s_s3_copy_object_update winds a copy down in order, deciding by its flags
\* and counters alone: the abort goes out when nothing else is left, and the
\* meta request finishes when no request of its upload is.
WindsDown == AbortIsAlone /\ FinishIsQuiet

\* The messages derived from the user's request fit the service and each
\* other: headers where they belong, and nothing the service would refuse.
MessagesFit == HeadersReachTheirRequest /\ NoFailureOfItsOwn
=============================================================================
