---------------------------- MODULE AutoRangedGet ----------------------------
(***************************************************************************)
(* A download: s3_auto_ranged_get.c on top of the delivery machinery of    *)
(* BodyDelivery. The client's process-work task asks the meta request for  *)
(* requests in two passes (conservative, then full); the first request     *)
(* discovers the object (HeadObject, a partNumber=1 GET or a ranged GET);  *)
(* connection threads finish requests in any order; the user may open the  *)
(* read window, cancel or pause. When nothing is left to do the            *)
(* process-work task sets the result in one critical section and finishes  *)
(* the meta request in another.                                            *)
(*                                                                         *)
(* A retry of a request is invisible here: a request stays in flight until *)
(* it succeeds or fails for good, and it may always fail. The service      *)
(* answers a range request with exactly the bytes of that range.           *)
(***************************************************************************)
EXTENDS BodyDelivery

CONSTANTS
    ObjectSizes,            \* sizes the object may turn out to have
    StoredPartSizes,        \* first-part sizes it may have been uploaded with
    ConservativeMax,        \* s_conservative_max_requests_in_flight
    MaxRequestsInFlight,    \* client limit on requests in flight
    MaxConnections,         \* aws_s3_client_get_max_active_connections
    MaxWindow               \* bound: the user opens the window no further

ASSUME GetAssumption ==
    /\ ObjectSizes \subseteq 0 .. ByteCount
    /\ StoredPartSizes \subseteq Nat \ {0}
    /\ ConservativeMax \in Nat
    /\ MaxRequestsInFlight \in Nat \ {0}
    /\ MaxConnections \in Nat
    /\ MaxWindow \in Nat

VARIABLES
    synced,         \* auto_ranged_get->synced_data and part_size
    spread,         \* its spread fields
    inflight,       \* requests handed out and not finished
    process_work,   \* where the process-work task is, and the number of
                    \* requests in flight it last read
    pause,          \* async pause: "none", "requested" or "answered"
    finished,       \* state = AWS_S3_META_REQUEST_STATE_FINISHED
    reported,       \* what the finish callback reported
    token           \* the resume token built on pause or error

getVars == <<synced, spread, inflight, process_work, pause, finished, reported, token>>

vars == <<deliveryVars, getVars>>

NoToken == [continuous |-> 0, total |-> 0, built |-> FALSE]

Idle == [pass |-> "idle", seen |-> 0]

Init ==
    /\ DeliveryInit
    /\ synced = [range_known |-> FALSE, range_empty |-> FALSE, first |-> 0, last |-> 0,
                 part_size |-> opts.part_size, first_part_size |-> opts.part_size, total |-> 0,
                 requested |-> 0, completed |-> 0, successful |-> 0,
                 head_sent |-> FALSE, head_completed |-> FALSE]
    /\ spread = NoSpread
    /\ inflight = {}
    /\ process_work = Idle
    /\ pause = "none"
    /\ finished = FALSE
    /\ reported = "none"
    /\ token = NoToken
-----------------------------------------------------------------------------
\* The object_size_hint used: a receive buffer smaller than a part stands in
\* for a missing hint.
SizeHint ==
    IF opts.hint = 0 /\ opts.sink = "recv_buffer" /\ opts.capacity < opts.part_size
    THEN opts.capacity
    ELSE opts.hint

\* s_s3_get_request_type_for_discovering_object_size
DiscoveryType ==
    IF synced.range_empty THEN "part1"
    ELSE IF opts.range = "suffix" THEN "head"
    ELSE IF opts.range = "from" THEN "range"
    ELSE IF SizeHint > 0 /\ SizeHint <= synced.part_size THEN "part1"
    ELSE IF opts.validate = "discovered" THEN "head"
    ELSE "range"

\* Size of the first part a ranged discovery request asks for.
FirstPartSize ==
    LET inRange == IF opts.range_last = 0
                   THEN synced.part_size
                   ELSE AtMost(synced.part_size, opts.range_last - opts.range_first + 1)
    IN  IF opts.range # "from" THEN synced.part_size
        ELSE IF opts.sink = "recv_buffer" THEN AtMost(inRange, opts.capacity)
        ELSE inRange

ReservedForPart1 ==
    IF SizeHint > 0 THEN AtMost(SizeHint, synced.part_size) ELSE synced.part_size

DiscoveryRequest(type) ==
    LET start == IF type = "range" /\ opts.range = "from" THEN opts.range_first ELSE 0
        size  == IF type = "part1" THEN ReservedForPart1 ELSE FirstPartSize
    IN  [tag |-> type, part |-> IF type = "head" THEN 0 ELSE 1, first |-> start,
         last |-> IF type = "head" THEN start ELSE start + size - 1,
         len |-> 0, discovers |-> TRUE]

PartRequest(n) ==
    LET first == PartFirst(synced.part_size, synced.first_part_size, synced.first, n)
        last  == PartLast(synced.part_size, synced.first_part_size, synced.first, synced.last, n)
    IN  [tag |-> "range", part |-> n, first |-> first, last |-> last,
         len |-> last - first + 1, discovers |-> FALSE]
-----------------------------------------------------------------------------
\* The process-work task looks at the meta request (it stays in the client's
\* list until it is finished).
StartWork ==
    /\ process_work.pass = "idle"
    /\ work_scheduled
    /\ work_scheduled' = FALSE
    /\ process_work' = [pass |-> "conservative", seen |-> Cardinality(inflight)]
    /\ UNCHANGED <<opts, finish_result, out_of_order_delivery, read_window_running_total, mask,
                   queueVars, deliveryProgress, synced, spread, inflight, pause, finished,
                   reported, token>>

InPass == process_work.pass \in {"conservative", "full"}

\* s_s3_client_should_update_meta_request, with the count of requests in
\* flight that the task read last.
ShouldUpdate == InPass /\ process_work.seen < MaxRequestsInFlight

EndOfPass ==
    process_work' = [process_work EXCEPT !.pass = IF @ = "conservative" THEN "full" ELSE "idle"]

SkipUpdate ==
    /\ InPass
    /\ ~ShouldUpdate
    /\ EndOfPass
    /\ UNCHANGED <<deliveryVars, synced, spread, inflight, pause, finished, reported, token>>

\* The conservative pass leaves a meta request alone whose bodies pile up.
HeldBack ==
    /\ process_work.pass = "conservative"
    /\ synced.requested - synced.completed + Cardinality(pending_body_streaming) > ConservativeMax

CanDiscover ==
    /\ finish_result = "none"
    /\ ~HeldBack
    /\ ~synced.range_known
    /\ ~synced.head_sent
    /\ synced.requested = 0

\* Bytes asked for so far, as update() reckons them against the window.
ReadDataRequested ==
    IF synced.requested > 0
    THEN (synced.requested - 1) * synced.part_size + synced.first_part_size
    ELSE 0

CanRequestPart ==
    /\ finish_result = "none"
    /\ ~HeldBack
    /\ synced.range_known
    /\ synced.requested < synced.total
    /\ opts.backpressure => ReadDataRequested < read_window_running_total

\* Mutant: write tasks still out are not waited for.
CanFinishEarly ==
    /\ ~EventsOutForDelivery
    /\ IF finish_result = "none"
       THEN /\ ~HeldBack
            /\ synced.range_known
            /\ synced.requested >= synced.total
            /\ num_parts_delivery_completed >= synced.total
       ELSE /\ synced.head_sent => synced.head_completed
            /\ synced.completed >= synced.requested

\* Nothing left to do: all delivered or, with a result, all wound down.
CanFinish ==
    /\ ~EventsOutForDelivery
    /\ num_parts_delivery_completed >= num_parts_delivery_sent
    /\ IF finish_result = "none"
       THEN /\ ~HeldBack
            /\ synced.range_known
            /\ synced.requested >= synced.total
            /\ num_parts_delivery_completed >= synced.total
       ELSE /\ synced.head_sent => synced.head_completed
            /\ synced.completed >= synced.requested

\* A request was handed out; it is prepared and sent elsewhere.
HandOut(r) ==
    /\ inflight' = inflight \cup {r}
    /\ process_work' = [process_work EXCEPT !.seen = Cardinality(inflight) + 1]
    /\ UNCHANGED <<deliveryVars, pause, finished, reported, token>>

\* s_s3_auto_ranged_get_update hands out the request that discovers the object.
UpdateDiscover ==
    LET type == DiscoveryType
    IN  /\ ShouldUpdate
        /\ CanDiscover
        /\ HandOut(DiscoveryRequest(type))
        /\ synced' = [synced EXCEPT
                        !.range_empty     = FALSE,
                        !.head_sent       = @ \/ type = "head",
                        !.requested       = IF type = "head" THEN @ ELSE @ + 1,
                        !.first_part_size = IF type = "range" /\ opts.range = "from"
                                            THEN FirstPartSize ELSE @]
        /\ UNCHANGED spread

\* s_s3_auto_ranged_get_update hands out a part.
UpdateRequestPart ==
    /\ ShouldUpdate
    /\ CanRequestPart
    /\ HandOut(PartRequest(NextPartNumber(spread, synced.requested)))
    /\ synced' = [synced EXCEPT !.requested = @ + 1]
    /\ spread' = AfterHandout(spread)

\* s_s3_auto_ranged_get_update has nothing to hand out now.
UpdateWait ==
    /\ ShouldUpdate
    /\ ~CanDiscover /\ ~CanRequestPart /\ ~CanFinish
    /\ EndOfPass
    /\ UNCHANGED <<deliveryVars, synced, spread, inflight, pause, finished, reported, token>>

\* aws_s3_meta_request_validate_parts_delivered_synced
AllPartsMarked == mask.delivered = 1 .. mask.parts

\* s_s3_auto_ranged_get_update sets the result; finishing comes after it has
\* released the lock.
UpdateFinish ==
    /\ ShouldUpdate
    /\ CanFinish
    /\ finish_result' = SetResult(finish_result, IF AllPartsMarked THEN "SUCCESS" ELSE "INVALID_STATE")
    /\ mask' = IF finish_result = "none" THEN [parts |-> 0, delivered |-> {}] ELSE mask
    /\ process_work' = [process_work EXCEPT !.pass = "finishing"]
    /\ UNCHANGED <<opts, work_scheduled, out_of_order_delivery, read_window_running_total,
                   queueVars, deliveryProgress, synced, spread, inflight, pause, finished,
                   reported, token>>

\* aws_s3_meta_request_finish_default; the whole-object checksum is compared
\* here and may turn success into failure. The user registered
\* on_error_resume_token and keeps a partial file.
FinishDefault(mismatch) ==
    LET result == IF mismatch THEN "CHECKSUM_MISMATCH" ELSE finish_result
        paused == pause = "requested"
    IN  /\ process_work.pass = "finishing"
        /\ mismatch => finish_result = "SUCCESS" /\ opts.validate # "none"
        /\ finished' = TRUE
        /\ reported' = result
        /\ token' = IF paused \/ (result \notin {"SUCCESS", "PAUSED"} /\ ~mismatch)
                    THEN [continuous |-> prefix.bytes, total |-> prefix.total, built |-> TRUE]
                    ELSE token
        /\ pause' = IF paused THEN "answered" ELSE pause
        /\ pending_body_streaming' = {}
        /\ process_work' = [process_work EXCEPT !.pass = "removed"]
        /\ UNCHANGED <<opts, finish_result, work_scheduled, out_of_order_delivery,
                       read_window_running_total, mask, deliveryProgress, next_streaming_part,
                       num_parts_delivery_sent, event_delivery_array,
                       event_delivery_task_scheduled, writes, synced, spread, inflight>>
-----------------------------------------------------------------------------
\* s_s3_auto_ranged_get_request_finished, one action per outcome. Each is the
\* handler's critical section and the work the connection's end schedules.

ProgressNotes == IF opts.notes THEN <<Note>> ELSE <<>>
\* aws_s3_request_finish_up_metrics_synced, for a request without a body.
MetricsNotes == IF opts.notes THEN <<Note>> ELSE <<>>

RequestEnds(r) ==
    /\ r \in inflight
    /\ inflight' = inflight \ {r}
    /\ work_scheduled' = TRUE
    /\ UNCHANGED <<opts, read_window_running_total, deliveryProgress, process_work, pause,
                   finished, reported, token>>

\* A request without a body to deliver leaves the streaming state alone.
NoBody ==
    /\ AddEvents(MetricsNotes)
    /\ UNCHANGED <<pending_body_streaming, next_streaming_part, num_parts_delivery_sent, writes>>

Failure(code) == finish_result' = SetResult(finish_result, code)

PartSucceeded(r) ==
    /\ ~r.discovers
    /\ RequestEnds(r)
    /\ synced' = [synced EXCEPT !.completed = @ + 1, !.successful = @ + 1]
    /\ StreamResponseBody(ProgressNotes, r, out_of_order_delivery)
    /\ UNCHANGED <<finish_result, out_of_order_delivery, mask, spread>>

\* Any request, discovery or not, failed for good.
RequestFailed(r) ==
    /\ RequestEnds(r)
    /\ synced' = IF r.tag = "head" THEN [synced EXCEPT !.head_completed = TRUE]
                                   ELSE [synced EXCEPT !.completed = @ + 1]
    /\ NoBody
    /\ Failure("REQUEST_FAILED")
    /\ UNCHANGED <<out_of_order_delivery, mask, spread>>

\* The service answered with `size` as the object's size and the part 1 it
\* stores being `stored` bytes long.
RangeSatisfiable(size) ==
    CASE opts.range = "none"   -> TRUE
      [] opts.range = "from"   -> size > opts.range_first
      [] opts.range = "suffix" -> size > 0

ObjectFirst(size) ==
    CASE size = 0 \/ opts.range = "none" -> 0
      [] opts.range = "from"             -> opts.range_first
      [] opts.range = "suffix"           -> size - AtMost(size, opts.range_last)

ObjectLast(size) ==
    CASE size = 0 -> 0
      [] size > 0 /\ opts.range = "from" /\ opts.range_last # 0 -> AtMost(size - 1, opts.range_last)
      [] OTHER    -> size - 1

\* What a discovery GET receives of an object of that size.
DiscoveryBody(r, size, stored) ==
    [r EXCEPT !.len = IF r.tag = "part1"
                      THEN AtMost(stored, size)
                      ELSE AtMost(r.last, size - 1) - r.first + 1]

\* A ranged discovery of an empty object is refused by the service; a partNumber
\* response larger than its reservation is cancelled at its headers.
Mismatched(r, size, stored) ==
    r.tag = "part1" /\ AtMost(stored, size) > r.last - r.first + 1

Answerable(r, size) == RangeSatisfiable(size) /\ (r.tag = "range" => size > 0)

\* The response succeeded but its headers cannot be used (no Content-Range,
\* no ETag): the body is queued all the same and the meta request fails.
DiscoveryUnusable(r, size, stored) ==
    /\ r.discovers
    /\ Answerable(r, size)
    /\ ~Mismatched(r, size, stored)
    /\ RequestEnds(r)
    /\ IF r.tag = "head"
       THEN /\ synced' = [synced EXCEPT !.head_completed = TRUE]
            /\ NoBody
       ELSE /\ synced' = [synced EXCEPT !.completed = @ + 1, !.successful = @ + 1]
            /\ StreamResponseBody(ProgressNotes, DiscoveryBody(r, size, stored),
                                  out_of_order_delivery)
    /\ Failure("BAD_RESPONSE")
    /\ UNCHANGED <<out_of_order_delivery, mask, spread>>

\* The fields of synced_data that record a discovered object.
WithObject(r, size, stored) ==
    LET partSize == IF opts.optimal # 0 THEN opts.optimal ELSE synced.part_size
        firstPartSize ==
            CASE r.tag = "head" /\ opts.optimal # 0 -> opts.optimal
              [] r.tag = "part1" /\ ~Mismatched(r, size, stored) /\ size > 0 -> AtMost(stored, size)
              [] OTHER -> synced.first_part_size
    IN  [synced EXCEPT
           !.range_known     = TRUE,
           !.range_empty     = size = 0,
           !.first           = ObjectFirst(size),
           !.last            = ObjectLast(size),
           !.part_size       = partSize,
           !.first_part_size = firstPartSize,
           !.total = IF size = 0 THEN @ ELSE NumParts(partSize, firstPartSize, ObjectFirst(size),
                                                      ObjectLast(size))]

RangeLength(size) == IF size = 0 THEN 0 ELSE ObjectLast(size) - ObjectFirst(size) + 1

\* The object was discovered. `ordered` says that a whole-object checksum was
\* found that can only be computed in order; `late` that the headers callback
\* or the checksum set-up failed.
Discovered(r, size, stored, ordered, late) ==
    LET found      == WithObject(r, size, stored)
        outOfOrder == opts.ooo /\ ~ordered
        tooSmall   == opts.sink = "recv_buffer" /\ RangeLength(size) > opts.capacity
    IN  /\ r.discovers
        /\ Answerable(r, size)
        /\ ordered => opts.validate # "none"
        /\ RequestEnds(r)
        /\ mask' = IF size > 0 THEN [parts |-> found.total, delivered |-> {}] ELSE mask
        /\ out_of_order_delivery' = outOfOrder
        /\ CASE r.tag = "head" ->
                  /\ synced' = [found EXCEPT !.head_completed = TRUE]
                  /\ NoBody
             [] Mismatched(r, size, stored) ->
                  /\ synced' = [found EXCEPT !.requested = 0]
                  /\ NoBody
             [] OTHER ->
                  /\ synced' = [found EXCEPT !.completed = @ + 1, !.successful = @ + 1]
                  /\ StreamResponseBody(ProgressNotes, DiscoveryBody(r, size, stored), outOfOrder)
        /\ IF late THEN Failure("CALLBACK_FAILED")
           ELSE IF tooSmall THEN Failure("SHORT_BUFFER")
           ELSE UNCHANGED finish_result
        /\ spread' = InitSpread(outOfOrder, synced'.requested, synced'.total, MaxConnections)

\* The ranged discovery found an empty object: forget it and discover again
\* with partNumber=1, so that the user gets the headers of a success.
DiscoveredEmpty(r) ==
    /\ r.discovers
    /\ r.tag = "range"
    /\ opts.range = "none"
    /\ 0 \in ObjectSizes
    /\ RequestEnds(r)
    /\ synced' = [WithObject(r, 0, 1) EXCEPT !.requested = 0, !.range_known = FALSE]
    /\ out_of_order_delivery' = opts.ooo
    /\ NoBody
    /\ UNCHANGED <<finish_result, mask, spread>>

SomeRequestEnds ==
    \E r \in inflight :
        \/ PartSucceeded(r)
        \/ RequestFailed(r)
        \/ DiscoveredEmpty(r)
        \/ \E size \in ObjectSizes, stored \in StoredPartSizes :
              \/ DiscoveryUnusable(r, size, stored)
              \/ \E ordered, late \in BOOLEAN : Discovered(r, size, stored, ordered, late)
-----------------------------------------------------------------------------
\* aws_s3_meta_request_cancel; once a result is set it has no effect.
Cancel ==
    /\ finish_result = "none"
    /\ StopWith("CANCELED")
    /\ UNCHANGED getVars

\* aws_s3_meta_request_pause_async; a second call is answered at once with an
\* error and changes nothing. It does not look at the state of the request.
PauseAsync ==
    /\ pause = "none"
    /\ pause' = "requested"
    /\ StopWith("PAUSED")
    /\ UNCHANGED <<synced, spread, inflight, process_work, finished, reported, token>>

OpenReadWindow ==
    \E bytes \in 1 .. MaxWindow - read_window_running_total :
        IncrementReadWindow(bytes) /\ UNCHANGED getVars

ProcessWork ==
    \/ StartWork
    \/ SkipUpdate
    \/ UpdateDiscover
    \/ UpdateRequestPart
    \/ UpdateWait
    \/ UpdateFinish
    \/ \E mismatch \in BOOLEAN : FinishDefault(mismatch)

Next ==
    \/ ProcessWork
    \/ SomeRequestEnds
    \/ DeliveryTask /\ UNCHANGED getVars
    \/ WriteTasks /\ UNCHANGED getVars
    \/ Cancel
    \/ PauseAsync
    \/ OpenReadWindow

Spec == Init /\ [][Next]_vars

\* Every task that is scheduled runs, every request in flight ends, every
\* body write is carried out: event loops run what is scheduled on them and
\* HTTP streams complete or time out.
Fairness ==
    /\ WF_vars(ProcessWork)
    /\ WF_vars(SomeRequestEnds)
    /\ WF_vars(DeliveryTask /\ UNCHANGED getVars)
    /\ WF_vars(WriteTasks /\ UNCHANGED getVars)

FairSpec == Spec /\ Fairness

\* The caller keeps opening the read window as far as MaxWindow.
DiligentReader == WF_vars(OpenReadWindow)
-----------------------------------------------------------------------------
Requests == [tag : {"head", "part1", "range"}, part : Nat, first : Nat, last : Nat, len : Nat,
             discovers : BOOLEAN]

Events == [kind : {"note"}] \cup [kind : {"body"}, req : Requests, done : Nat]

TypeOK ==
    /\ opts \in Options
    /\ finish_result \in Errors \cup {"none", "SUCCESS"}
    /\ work_scheduled \in BOOLEAN
    /\ out_of_order_delivery \in BOOLEAN
    /\ read_window_running_total \in Nat
    /\ pending_body_streaming \subseteq Requests
    /\ {next_streaming_part, num_parts_delivery_sent, num_parts_delivery_completed,
        num_bytes_delivery_completed, next_deliver_range_start} \subseteq Nat
    /\ event_delivery_array \in Seq(Events)
    /\ event_delivery_task_scheduled \in BOOLEAN
    /\ tick.queue \in Seq(Events) /\ tick.incomplete \in Seq(Events)
    /\ tick.error \in Errors \cup {"none"} /\ tick.active \in BOOLEAN
    /\ tick.allowed \in Int /\ {tick.parts, tick.bytes} \subseteq Nat
    /\ writes \subseteq [req : Requests, status : {"queued", "written", "failed"}]
    /\ mask.parts \in Nat /\ mask.delivered \subseteq 1 .. mask.parts
    /\ prefix.ok \in BOOLEAN /\ {prefix.bytes, prefix.total, prefix.part, prefix.start} \subseteq Nat
    /\ sink \in [Bytes -> Nat]
    /\ synced \in [range_known : BOOLEAN, range_empty : BOOLEAN, first : Nat, last : Nat,
                   part_size : Nat \ {0}, first_part_size : Nat \ {0}, total : Nat,
                   requested : Nat, completed : Nat, successful : Nat,
                   head_sent : BOOLEAN, head_completed : BOOLEAN]
    /\ inflight \subseteq Requests
    /\ process_work.pass \in {"idle", "conservative", "full", "finishing", "removed"}
    /\ pause \in {"none", "requested", "answered"}
    /\ finished \in BOOLEAN
    /\ reported \in Errors \cup {"none", "SUCCESS", "CHECKSUM_MISMATCH"}

\* The bytes of the object the download is after; empty until discovered.
Wanted == IF synced.range_known /\ ~synced.range_empty THEN synced.first .. synced.last ELSE {}

Delivered == {b \in Bytes : sink[b] > 0}

\* No byte reaches the sink twice and none outside the discovered range does,
\* whatever the discovery path, the order parts finish in, the splitting of
\* parts by the read window, cancellation or pause
\* (s_s3_meta_request_event_delivery_task, s_s3_body_write_task).
DeliveredOnce ==
    /\ synced.range_known => Delivered \subseteq Wanted
    /\ \A b \in Bytes : sink[b] <= 1

\* In-order delivery: what the sink has is a prefix of the range, also in the
\* middle of a part and after a failure.
OrderedIsPrefix ==
    ~out_of_order_delivery =>
        \A b \in Delivered : synced.first .. b \subseteq Delivered

\* The continuous_downloaded_bytes a resume token reports are in the sink, in
\* both delivery orders, and total_downloaded_bytes never exceeds what is.
TokenNeverOverstates ==
    /\ synced.first .. synced.first + prefix.bytes - 1 \subseteq Delivered
    /\ prefix.bytes <= prefix.total
    /\ prefix.total <= Cardinality(Delivered)

\* Read backpressure: a body callback never receives more bytes than the
\* window it opened, however increments interleave with the delivery task; the
\* unsigned difference the task computes does not wrap.
WindowRespected ==
    ApplyBackpressure =>
        /\ num_bytes_delivery_completed <= read_window_running_total
        /\ Cardinality(Delivered) <= read_window_running_total

\* AWS_FATAL_ASSERT(bytes_allowed_to_deliver == 0) when the delivery task
\* puts events back: a body is only put back when the window is used up.
PutBackOnlyWithoutWindow == tick.incomplete # <<>> => tick.allowed = 0

Bodies(events) == Cardinality({i \in DOMAIN events : events[i].kind = "body"})

\* Every body counted as sent for delivery and not yet as completed is in
\* exactly one place: queued, in the hands of the delivery task, or in a
\* write task. update() decides on these two counters when to finish.
BodiesAccounted ==
    num_parts_delivery_sent - num_parts_delivery_completed =
        Bodies(event_delivery_array) + Bodies(tick.queue) + Len(tick.incomplete) + tick.parts
          + Cardinality(writes)

\* Once finished, nothing of the meta request runs or can be scheduled again:
\* finish_default gives up the endpoint, the io event loop and the sink.
FinishIsQuiet ==
    finished =>
        /\ inflight = {} /\ writes = {} /\ ~tick.active
        /\ event_delivery_array = <<>> /\ ~event_delivery_task_scheduled

\* The download implements its abstract specification: learn the object once,
\* hand over each of its bytes at most once and in order where promised, and
\* end once, successfully only when all were handed over.
Promise == INSTANCE Download WITH
    Byte    <- Bytes,
    known   <- synced.range_known,
    want    <- Wanted,
    inOrder <- ~out_of_order_delivery,
    got     <- Delivered,
    outcome <- CASE reported = "none" -> "none"
                 [] reported = "SUCCESS" -> "SUCCESS"
                 [] OTHER -> "FAILED"

ImplementsDownload == Promise!Spec

\* With a caller that keeps opening the window a download always gets a
\* result: neither the process-work task nor the delivery task misses the
\* wake-up for a body, a finished request or a wider window.
GetsResult == DiligentReader => <>(finish_result # "none")

\* Where the read window does not hold bodies back the download ends,
\* cancelled, paused, failed or not; so a pause requested before is answered.
Terminates == ~ApplyBackpressure => <>finished

\* The internal consistency checks of the delivery path (order check, delivery
\* mask, contiguous prefix) fail no download, except one out of order whose
\* size hint was larger than the first part the object was uploaded with.
NoInternalError ==
    finish_result = "INVALID_STATE" =>
        out_of_order_delivery /\ opts.hint > 0 /\ synced.first_part_size < AtMost(opts.hint, opts.part_size)

\* What the caller sees of the delivery task and the write tasks: every byte
\* once, in order where promised, never more than the window allows, and
\* nothing kept back while the window has room.
DeliveryIsExact ==
    DeliveredOnce /\ OrderedIsPrefix /\ WindowRespected /\ PutBackOnlyWithoutWindow

\* The work s_s3_auto_ranged_get_update waits for is accounted for: each body
\* is in one place as long as the counters say so, and nothing is left at the
\* finish.
WorkIsAccounted == TypeOK /\ BodiesAccounted /\ FinishIsQuiet

\* A download ends unless its caller holds it back, and with a reader it gets
\* its result: no wake-up of the process-work or the delivery task is lost.
DownloadEnds == GetsResult /\ Terminates
=============================================================================
