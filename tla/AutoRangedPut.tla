---------------------------- MODULE AutoRangedPut ----------------------------
(***************************************************************************)
(* A multipart upload: s3_auto_ranged_put.c, with what its requests go     *)
(* through in s3_meta_request.c and s3_client.c, and the S3 service as far *)
(* as one multipart upload goes. The process-work task asks for requests   *)
(* (ListParts when resuming, CreateMultipartUpload, the parts,             *)
(* CompleteMultipartUpload, or AbortMultipartUpload); requests are         *)
(* prepared, sent and finished in any order by other threads; the user may *)
(* cancel, pause and, once the meta request is over, resume with the token *)
(* it was given.                                                           *)
(*                                                                         *)
(* A retry is invisible except for what a lost attempt did to the service  *)
(* (ResponseLost). An attempt takes effect, if at all, before its request  *)
(* ends. An upload whose id never reached the client is not followed.      *)
(***************************************************************************)
EXTENDS Integers, FiniteSets

CONSTANTS
    Options,            \* known: has_content_length; body: parts the data fills;
                        \* resume: will the user resume once?
    MaxPart,            \* bound: parts a meta request may start
    MaxPendingRead,     \* s_get_max_parts_pending_read
    Callbacks           \* are progress and telemetry callbacks registered?

ASSUME PutAssumption ==
    /\ Options \subseteq [known : BOOLEAN, body : 0 .. MaxPart, resume : BOOLEAN]
    /\ MaxPart \in Nat
    /\ MaxPendingRead \in Nat \ {0}
    /\ Callbacks \in BOOLEAN
    \* Reads ahead of the end of a body of unknown length stay in bounds.
    /\ \A o \in Options : IF o.known THEN o.body > 0 ELSE o.body + MaxPendingRead <= MaxPart

VARIABLES
    opts,
    synced,             \* auto_ranged_put->synced_data: where each phase is
    part_list,          \* synced_data.part_list
    finish_result,
    stage,              \* where each request is
    noop,               \* parts whose request is_noop
    work_scheduled,
    process_work,       \* where the process-work task is
    events_out,         \* events wait for delivery or are being delivered
    pause,              \* async pause: "none", "requested" or "answered"
    token,              \* the resume token the user has
    resumed,            \* num_parts_completed of the token resumed with, -1 for none
    reported,           \* what the finish callback reported
    mismatched,         \* history: the body differed from what was uploaded
    upload,             \* the service: the multipart upload...
    stored,             \* ... the parts it holds...
    object              \* ... and the parts the object was made of

metaVars == <<synced, part_list, finish_result, stage, noop, mismatched>>
taskVars == <<work_scheduled, process_work, events_out>>
userVars == <<pause, token, resumed, reported>>
serviceVars == <<upload, stored, object>>
vars == <<opts, metaVars, taskVars, userVars, serviceVars>>

Part == 1 .. MaxPart

List == <<"list", 0>>
Create == <<"create", 0>>
Complete == <<"complete", 0>>
Abort == <<"abort", 0>>
Upload(n) == <<"part", n>>
Request == {List, Create, Complete, Abort} \cup {Upload(n) : n \in Part}

InProgress == {"preparing", "signing", "queued", "sent"}

\* Fields of a new meta request; one that resumes lists the parts and has no
\* upload to create.
NewSynced(resuming) ==
    [list         |-> IF resuming THEN "to_send" ELSE "completed",
     create       |-> IF resuming THEN "completed" ELSE "to_send",
     upload_id    |-> resuming,
     started      |-> 0,
     completed    |-> 0,
     pending_read |-> 0,
     at_end       |-> FALSE,
     complete     |-> "to_send",
     abort        |-> "to_send"]

NoToken == [built |-> FALSE, upload_id |-> FALSE, completed |-> 0]

Init ==
    /\ opts \in Options
    /\ synced = NewSynced(FALSE)
    /\ part_list = [n \in Part |-> "null"]
    /\ finish_result = "none"
    /\ stage = [r \in Request |-> "unused"]
    /\ noop = {}
    /\ work_scheduled = TRUE
    /\ process_work = "idle"
    /\ events_out = FALSE
    /\ pause = "none"
    /\ token = NoToken
    /\ resumed = -1
    /\ reported = "none"
    /\ mismatched = FALSE
    /\ upload = "none"
    /\ stored = {}
    /\ object = {}
-----------------------------------------------------------------------------
\* The first result counts.
SetResult(code) == finish_result' = IF finish_result = "none" THEN code ELSE finish_result

\* s_should_skip_scheduling_more_parts_based_on_flags
SkipMoreParts ==
    synced.pending_read >= IF process_work = "conservative" THEN 1 ELSE MaxPendingRead

MorePartsToStart == IF opts.known THEN synced.started < opts.body ELSE ~synced.at_end

\* Mutant: parts that were started are not waited for.
PartsStarted == ~MorePartsToStart

PartsDone ==
    /\ ~MorePartsToStart
    /\ synced.completed = IF opts.known THEN opts.body ELSE synced.started

\* s_s3_auto_ranged_put_update without a result: what to send next.
Ready == finish_result = "none" /\ synced.list = "completed" /\ synced.create = "completed"

CanList == finish_result = "none" /\ synced.list \in {"to_send", "continues"}
CanCreate == finish_result = "none" /\ synced.list = "completed" /\ synced.create = "to_send"
CanStartPart == Ready /\ MorePartsToStart /\ ~SkipMoreParts
CanComplete == Ready /\ PartsDone /\ synced.complete = "to_send"

\* Mutant: parts in flight are left to themselves.
WoundDownEarly ==
    /\ synced.create = "completed"
    /\ synced.complete # "sent"

\* With a result: create and parts in flight, or a complete that may yet
\* succeed, are waited for.
WoundDown ==
    /\ synced.create = "completed"
    /\ synced.completed >= synced.started
    /\ synced.complete # "sent"

\* Mutant: a cancelled upload is left alone like a paused one.
NothingToAbortOnCancel ==
    \/ finish_result \in {"PAUSED", "RESUME_FAILED", "CANCELED"}
    \/ synced.complete = "succeeded"
    \/ synced.abort = "to_send" /\ (~synced.upload_id \/ finish_result = "SUCCESS")

\* Nothing to abort: the upload is kept for a resume, completed, or was never
\* created (or a resume found it gone).
NothingToAbort ==
    \/ finish_result \in {"PAUSED", "RESUME_FAILED"}
    \/ synced.complete = "succeeded"
    \/ synced.abort = "to_send" /\ (~synced.upload_id \/ finish_result = "SUCCESS")

CanAbort == finish_result # "none" /\ WoundDown /\ ~NothingToAbort /\ synced.abort = "to_send"

\* Mutant: the answer to the complete is not waited for.
NoWorkRemainingOnceSent ==
    IF finish_result = "none"
    THEN Ready /\ PartsDone /\ synced.complete # "to_send"
    ELSE \/ synced.create = "to_send"
         \/ WoundDown /\ (NothingToAbort \/ synced.abort = "completed")

NoWorkRemaining ==
    IF finish_result = "none"
    THEN Ready /\ PartsDone /\ synced.complete \in {"succeeded", "failed"}
    ELSE \/ synced.create = "to_send"
         \/ WoundDown /\ (NothingToAbort \/ synced.abort = "completed")

CanFinish == NoWorkRemaining /\ ~events_out
-----------------------------------------------------------------------------
\* The process-work task goes over the meta request in two passes.
StartWork ==
    /\ process_work = "idle"
    /\ work_scheduled
    /\ work_scheduled' = FALSE
    /\ process_work' = "conservative"
    /\ UNCHANGED <<opts, metaVars, events_out, userVars, serviceVars>>

InPass == process_work \in {"conservative", "full"}

HandOut(r) ==
    /\ InPass
    /\ stage' = [stage EXCEPT ![r] = "preparing"]
    /\ UNCHANGED <<opts, part_list, finish_result, noop, mismatched, taskVars, userVars,
                   serviceVars>>

UpdateList ==
    /\ CanList
    /\ HandOut(List)
    /\ synced' = [synced EXCEPT !.list = "sent"]

UpdateCreate ==
    /\ CanCreate
    /\ HandOut(Create)
    /\ synced' = [synced EXCEPT !.create = "sent"]

UpdateStartPart ==
    /\ CanStartPart
    /\ HandOut(Upload(synced.started + 1))
    /\ synced' = [synced EXCEPT !.started = @ + 1, !.pending_read = @ + 1]

UpdateComplete ==
    /\ CanComplete
    /\ HandOut(Complete)
    /\ synced' = [synced EXCEPT !.complete = "sent"]

UpdateAbort ==
    /\ CanAbort
    /\ HandOut(Abort)
    /\ synced' = [synced EXCEPT !.abort = "sent"]

UpdateWait ==
    /\ InPass
    /\ ~(CanList \/ CanCreate \/ CanStartPart \/ CanComplete \/ CanAbort \/ CanFinish)
    /\ process_work' = IF process_work = "conservative" THEN "full" ELSE "idle"
    /\ UNCHANGED <<opts, metaVars, work_scheduled, events_out, userVars, serviceVars>>

UpdateFinish ==
    /\ InPass
    /\ CanFinish
    /\ SetResult("SUCCESS")
    /\ process_work' = "finishing"
    /\ UNCHANGED <<opts, synced, part_list, stage, noop, mismatched, work_scheduled, events_out,
                   userVars, serviceVars>>

\* s_s3_auto_ranged_put_build_resume_token_synced
BuildResumeToken ==
    IF opts.known /\ synced.create = "completed"
    THEN [built |-> TRUE, upload_id |-> synced.upload_id, completed |-> synced.completed]
    ELSE NoToken

\* aws_s3_meta_request_finish_default; the user registered on_error_resume_token.
FinishDefault ==
    /\ process_work = "finishing"
    /\ process_work' = "removed"
    /\ reported' = finish_result
    /\ token' = IF pause = "requested" \/ finish_result \notin {"SUCCESS", "PAUSED"}
                THEN BuildResumeToken ELSE token
    /\ pause' = IF pause = "requested" THEN "answered" ELSE pause
    /\ UNCHANGED <<opts, metaVars, work_scheduled, events_out, resumed, serviceVars>>
-----------------------------------------------------------------------------
\* A request ends: the meta request is told, the process-work task is woken
\* and, with callbacks registered, there is something to deliver.
Ends(r) ==
    /\ stage' = [stage EXCEPT ![r] = "done"]
    /\ work_scheduled' = TRUE
    /\ events_out' = (events_out \/ Callbacks)
    /\ UNCHANGED <<opts, process_work, userVars>>

\* Mutant: a failed part is not counted as completed.
AfterFailureUncounted(r) ==
    CASE r = List     -> [synced EXCEPT !.list = "completed"]
      [] r = Create   -> [synced EXCEPT !.create = "completed"]
      [] r = Complete -> [synced EXCEPT !.complete = "failed"]
      [] r = Abort    -> [synced EXCEPT !.abort = "completed"]
      [] OTHER        -> synced

\* s_s3_auto_ranged_put_request_finished, for a request that failed. A part
\* that is a no-op counts as completed all the same.
AfterFailure(r) ==
    CASE r = List     -> [synced EXCEPT !.list = "completed"]
      [] r = Create   -> [synced EXCEPT !.create = "completed"]
      [] r = Complete -> [synced EXCEPT !.complete = "failed"]
      [] r = Abort    -> [synced EXCEPT !.abort = "completed"]
      [] OTHER        -> [synced EXCEPT !.completed = @ + 1]

\* Parts read from one stream, in order: the client prepares them one by one.
Read(n) ==
    /\ stage[Upload(n)] = "preparing"
    /\ \A k \in 1 .. n - 1 : stage[Upload(k)] # "preparing"

\* What a read may find out about the end of the body (of no interest when the
\* length is known): a part filled to the last byte may or may not have met it.
EndSeen(n) ==
    IF opts.known \/ n < opts.body THEN {FALSE}
    ELSE IF n = opts.body THEN {TRUE, FALSE} ELSE {TRUE}

Empty(n) == n > opts.body /\ n > 1

\* s_s3_new_upload_part_info_after_body, in its critical section.
AfterBody(n, end) ==
    /\ synced' = [synced EXCEPT !.at_end = end, !.pending_read = @ - 1]
    /\ noop' = IF Empty(n) \/ part_list[n] = "previous" THEN noop \cup {n} ELSE noop
    /\ part_list' = IF n \in noop' THEN part_list ELSE [part_list EXCEPT ![n] = "read"]

\* The body of a part was read (s_s3_prepare_upload_part_on_read_done).
ReadDone(n, end) ==
    /\ Read(n)
    /\ end \in EndSeen(n)
    /\ AfterBody(n, end)
    /\ stage' = [stage EXCEPT ![Upload(n)] = "signing"]
    /\ work_scheduled' = TRUE
    /\ UNCHANGED <<opts, finish_result, mismatched, process_work, events_out, userVars,
                   serviceVars>>

\* A part uploaded before differs from what was read: its size
\* (RESUME_FAILED) or its checksum. The request is a no-op by now; that the
\* meta request fails is the work of the failed preparation.
ReadMismatch(n, code) ==
    LET read == [synced EXCEPT !.pending_read = @ - 1]
    IN  /\ Read(n)
        /\ part_list[n] = "previous"
        /\ SetResult(code)
        /\ synced' = [read EXCEPT !.completed = @ + 1]
        /\ noop' = noop \cup {n}
        /\ mismatched' = TRUE
        /\ Ends(Upload(n))
        /\ UNCHANGED <<part_list, serviceVars>>

\* The request is prepared and goes into the client's queue.
Prepared(r) ==
    /\ stage[r] = IF r \in {List, Create, Complete, Abort} THEN "preparing" ELSE "signing"
    /\ stage' = [stage EXCEPT ![r] = "queued"]
    /\ work_scheduled' = TRUE
    /\ UNCHANGED <<opts, synced, part_list, finish_result, noop, mismatched, process_work,
                   events_out, userVars, serviceVars>>

\* Preparing fails: the meta request has a result, a callback refused, the
\* body could not be read, a buffer was not granted, signing failed.
PrepareFails(r) ==
    /\ stage[r] \in {"preparing", "signing"}
    /\ SetResult("FAILED")
    /\ synced' = AfterFailure(r)
    /\ Ends(r)
    /\ UNCHANGED <<part_list, noop, mismatched, serviceVars>>

IsNoop(r) == \E n \in noop : r = Upload(n)

\* aws_s3_client_update_connections_threaded sends the request...
SendRequest(r) ==
    /\ stage[r] = "queued"
    /\ ~IsNoop(r)
    /\ r = Abort \/ finish_result = "none"
    /\ stage' = [stage EXCEPT ![r] = "sent"]
    /\ UNCHANGED <<opts, synced, part_list, finish_result, noop, mismatched, taskVars, userVars,
                   serviceVars>>

\* ... or finishes it on the spot, a no-op as a success, any other as canceled.
DropRequest(r) ==
    /\ stage[r] = "queued"
    /\ IsNoop(r) \/ (r # Abort /\ finish_result # "none")
    /\ synced' = AfterFailure(r)
    /\ Ends(r)
    /\ UNCHANGED <<part_list, finish_result, noop, mismatched, serviceVars>>
-----------------------------------------------------------------------------
\* The service. The parts listed in a CompleteMultipartUpload are those of
\* part_list.
Listed == {n \in Part : part_list[n] # "null"}

Effect(r) ==
    /\ upload' = CASE r = Create   -> "open"
                   [] r = Complete -> "completed"
                   [] r = Abort    -> "aborted"
                   [] OTHER        -> upload
    /\ stored' = IF r \in {Create, List, Complete, Abort} THEN stored ELSE stored \cup {r[2]}
    /\ object' = IF r = Complete THEN Listed ELSE object

\* The service carried the request out but the answer was lost: the request
\* is retried, or fails.
ResponseLost(r) ==
    /\ stage[r] = "sent"
    /\ r \notin {Create, List}
    /\ upload = "open"
    /\ Effect(r)
    /\ UNCHANGED <<opts, metaVars, taskVars, userVars>>

\* s_s3_auto_ranged_put_request_finished, one action per outcome. The request
\* failed for good; `gone` when the service knows no such upload.
RequestFailed(r, gone) ==
    /\ stage[r] = "sent"
    /\ gone => r = List /\ upload # "open"
    /\ synced' = AfterFailure(r)
    /\ CASE r = Abort -> UNCHANGED finish_result
         [] gone /\ resumed = opts.body -> SetResult("SUCCESS")
         [] OTHER -> SetResult("FAILED")
    /\ Ends(r)
    /\ UNCHANGED <<part_list, noop, mismatched, serviceVars>>

\* A page of the listing, as far as part `last`.
ListSucceeded(last) ==
    LET unlisted == {n \in stored : part_list[n] = "null"}
        page     == {n \in unlisted : n <= last}
    IN  /\ stage[List] = "sent"
        /\ upload = "open"
        /\ page # {} \/ unlisted = {}
        /\ part_list' = [n \in Part |-> IF n \in page THEN "previous" ELSE part_list[n]]
        /\ synced' = [synced EXCEPT !.list = IF page = unlisted THEN "completed" ELSE "continues"]
        /\ Ends(List)
        /\ UNCHANGED <<finish_result, noop, mismatched, serviceVars>>

CreateSucceeded ==
    /\ stage[Create] = "sent"
    /\ Effect(Create)
    /\ synced' = [synced EXCEPT !.create = "completed", !.upload_id = TRUE]
    /\ Ends(Create)
    /\ UNCHANGED <<part_list, finish_result, noop, mismatched>>

PartSucceeded(n) ==
    /\ stage[Upload(n)] = "sent"
    /\ upload = "open"
    /\ Effect(Upload(n))
    /\ synced' = [synced EXCEPT !.completed = @ + 1]
    /\ part_list' = [part_list EXCEPT ![n] = "etag"]
    /\ Ends(Upload(n))
    /\ UNCHANGED <<finish_result, noop, mismatched>>

\* An upload completed by a lost attempt may be confirmed by the next.
CompleteSucceeded ==
    /\ stage[Complete] = "sent"
    /\ upload \in {"open", "completed"}
    /\ Effect(Complete)
    /\ synced' = [synced EXCEPT !.complete = "succeeded"]
    /\ Ends(Complete)
    /\ UNCHANGED <<part_list, finish_result, noop, mismatched>>

AbortSucceeded ==
    /\ stage[Abort] = "sent"
    /\ upload = "open"
    /\ Effect(Abort)
    /\ synced' = [synced EXCEPT !.abort = "completed"]
    /\ Ends(Abort)
    /\ UNCHANGED <<part_list, finish_result, noop, mismatched>>

\* The event delivery task hands its events over and wakes the process-work task.
DeliverEvents ==
    /\ events_out
    /\ events_out' = FALSE
    /\ work_scheduled' = TRUE
    /\ UNCHANGED <<opts, metaVars, process_work, userVars, serviceVars>>
-----------------------------------------------------------------------------
\* aws_s3_meta_request_cancel. Streams and buffer reservations it cancels end
\* as RequestFailed and PrepareFails.
Cancel ==
    /\ finish_result = "none"
    /\ SetResult("CANCELED")
    /\ work_scheduled' = TRUE
    /\ UNCHANGED <<opts, synced, part_list, stage, noop, mismatched, process_work, events_out,
                   userVars, serviceVars>>

\* s_s3_auto_ranged_put_pause: the token describes the state at once. Unlike
\* the others it does not wake the process-work task.
Pause ==
    /\ opts.known
    /\ token' = BuildResumeToken
    /\ SetResult("PAUSED")
    /\ UNCHANGED <<opts, synced, part_list, stage, noop, mismatched, taskVars, pause, resumed,
                   reported, serviceVars>>

\* aws_s3_meta_request_pause_async
PauseAsync ==
    /\ pause = "none"
    /\ pause' = "requested"
    /\ SetResult("PAUSED")
    /\ work_scheduled' = TRUE
    /\ UNCHANGED <<opts, synced, part_list, stage, noop, mismatched, process_work, events_out,
                   token, resumed, reported, serviceVars>>

\* The user makes a new meta request with the token, once nothing is left of
\* the first (s_try_init_resume_state_from_persisted_data); one without an
\* upload id is refused.
Resume ==
    /\ opts.resume
    /\ resumed = -1
    /\ process_work = "removed"
    /\ \A r \in Request : stage[r] \notin InProgress
    /\ token.built /\ token.upload_id
    /\ resumed' = token.completed
    /\ synced' = NewSynced(TRUE)
    /\ part_list' = [n \in Part |-> "null"]
    /\ finish_result' = "none"
    /\ stage' = [r \in Request |-> "unused"]
    /\ noop' = {}
    /\ work_scheduled' = TRUE
    /\ process_work' = "idle"
    /\ events_out' = FALSE
    /\ pause' = "none"
    /\ token' = NoToken
    /\ reported' = "none"
    /\ UNCHANGED <<opts, mismatched, serviceVars>>

ProcessWork ==
    \/ StartWork
    \/ UpdateList
    \/ UpdateCreate
    \/ UpdateStartPart
    \/ UpdateComplete
    \/ UpdateAbort
    \/ UpdateWait
    \/ UpdateFinish
    \/ FinishDefault

RequestStep(r) ==
    \/ Prepared(r)
    \/ PrepareFails(r)
    \/ SendRequest(r)
    \/ DropRequest(r)
    \/ \E gone \in BOOLEAN : RequestFailed(r, gone)

PartStep(n) ==
    \/ \E end \in BOOLEAN : ReadDone(n, end)
    \/ \E code \in {"RESUME_FAILED", "CHECKSUM_MISMATCH"} : ReadMismatch(n, code)
    \/ PartSucceeded(n)

Answers ==
    \/ \E last \in Part : ListSucceeded(last)
    \/ CreateSucceeded
    \/ CompleteSucceeded
    \/ AbortSucceeded

Next ==
    \/ ProcessWork
    \/ \E r \in Request : RequestStep(r) \/ ResponseLost(r)
    \/ \E n \in Part : PartStep(n)
    \/ Answers
    \/ DeliverEvents
    \/ Cancel
    \/ Pause
    \/ PauseAsync
    \/ Resume

Spec == Init /\ [][Next]_vars

\* Tasks that are scheduled run, preparations end, queued requests are sent
\* and requests that were sent end (by an answer or, at the latest, by the
\* connection's timeout).
Fairness ==
    /\ WF_vars(ProcessWork)
    /\ \A r \in Request : WF_vars(RequestStep(r))
    /\ \A n \in Part : WF_vars(PartStep(n))
    /\ WF_vars(Answers)
    /\ WF_vars(DeliverEvents)

FairSpec == Spec /\ Fairness
-----------------------------------------------------------------------------
Codes == {"FAILED", "CANCELED", "PAUSED", "RESUME_FAILED", "CHECKSUM_MISMATCH", "SUCCESS"}

SyncedData ==
    [list : {"to_send", "sent", "continues", "completed"},
     create : {"to_send", "sent", "completed"}, upload_id : BOOLEAN,
     started : 0 .. MaxPart, completed : 0 .. MaxPart, pending_read : 0 .. MaxPart,
     at_end : BOOLEAN, complete : {"to_send", "sent", "succeeded", "failed"},
     abort : {"to_send", "sent", "completed"}]

TypeOK ==
    /\ opts \in Options
    /\ synced \in SyncedData
    /\ part_list \in [Part -> {"null", "previous", "read", "etag"}]
    /\ finish_result \in Codes \cup {"none"}
    /\ stage \in [Request -> InProgress \cup {"unused", "done"}]
    /\ noop \subseteq Part
    /\ {work_scheduled, events_out, mismatched} \subseteq BOOLEAN
    /\ process_work \in {"idle", "conservative", "full", "finishing", "removed"}
    /\ pause \in {"none", "requested", "answered"}
    /\ token \in [built : BOOLEAN, upload_id : BOOLEAN, completed : 0 .. MaxPart]
    /\ resumed \in -1 .. MaxPart
    /\ reported \in Codes \cup {"none"}
    /\ upload \in {"none", "open", "completed", "aborted"}
    /\ stored \subseteq Part
    /\ object \subseteq Part

\* The parts the whole body makes; an empty body makes one empty part.
Whole == 1 .. (IF opts.body = 0 THEN 1 ELSE opts.body)

\* CompleteMultipartUpload names every part of the body and no other, and the
\* service holds each of them, however parts, no-ops, resumed parts and reads
\* past the end interleave: the counters s_s3_auto_ranged_put_update compares
\* leave nothing out. So the object is the whole body.
ObjectIsWhole ==
    /\ stage[Complete] \in InProgress => Listed = Whole /\ Listed \subseteq stored
    /\ upload = "completed" => object = Whole

\* An upload that reports success has made the object, also when answers were
\* lost, a pause or a cancel came late, or the complete was retried.
SuccessMeansObject == reported = "SUCCESS" /\ resumed = -1 => upload = "completed"

\* The same of an upload that was resumed.
ResumedSuccessMeansObject == reported = "SUCCESS" => upload = "completed"

\* An upload that reports success does not leave the multipart upload open.
SuccessClosesUpload == reported = "SUCCESS" => upload # "open"

\* An upload that fails or is cancelled leaves no parts behind: by the time it
\* reports, whatever was in flight when it failed, its multipart upload is
\* gone or an abort was tried.
FailureAborts ==
    reported \in {"FAILED", "CANCELED", "CHECKSUM_MISMATCH"} /\ upload = "open" =>
        stage[Abort] = "done"

\* An upload that was paused, or whose resume failed, keeps its parts at the
\* service: it is never aborted (unless before it was resumed).
PauseKeepsParts ==
    finish_result \in {"PAUSED", "RESUME_FAILED"} =>
        stage[Abort] = "unused" /\ (upload = "aborted" => resumed # -1)

\* A resumed body that differs from what was uploaded before never becomes an
\* object, although the part that shows it is a no-op whose own end sets no
\* result.
MismatchNeverCompletes == mismatched => stage[Complete] = "unused"

\* num_parts_pending_read counts the parts whose body is still to be read, as
\* long as the meta request goes on: the throttle of
\* s_should_skip_scheduling_more_parts_based_on_flags can neither wedge the
\* upload nor let too many parts through.
ReadsCounted ==
    finish_result = "none" =>
        synced.pending_read = Cardinality({n \in Part : stage[Upload(n)] = "preparing"})

\* When a meta request is finished none of its requests is left: finish_default
\* gives up the endpoint and the event loop their ends would use. The exception
\* is the listing of a resumed upload: with a result set, update() does not look
\* at list_parts_state.
FinishIsQuiet ==
    process_work = "removed" => \A r \in Request \ {List} : stage[r] \notin InProgress

\* Every upload ends, and ends again when it was resumed; cancelled, paused,
\* failed or not, also after s_s3_auto_ranged_put_pause, which wakes nobody.
Terminates == []<>(process_work = "removed")

\* The object is the body the caller gave, all of it, and the same body when
\* the upload was resumed.
ObjectIsTheBody == ObjectIsWhole /\ MismatchNeverCompletes

\* A success report is real: the object is there and no upload is left open.
SuccessIsReal == SuccessMeansObject /\ SuccessClosesUpload

\* At the end the service is left as the caller asked: parts gone after a
\* failure or a cancel, kept after a pause.
UploadLeftAsAsked == FailureAborts /\ PauseKeepsParts

\* The requests s_s3_auto_ranged_put_update decides by counters about are
\* accounted for: reads while it goes on, every request when it finishes.
WorkIsAccounted == TypeOK /\ ReadsCounted /\ FinishIsQuiet
=============================================================================
