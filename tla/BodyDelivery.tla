---------------------------- MODULE BodyDelivery ----------------------------
(***************************************************************************)
(* How a meta request hands response bodies to their sink: the delivery    *)
(* half of s3_meta_request.c. Three kinds of threads meet here, and every  *)
(* step below is one of their critical sections or one event handled       *)
(* between two of them:                                                    *)
(*   - connection threads finish part requests and queue their bodies      *)
(*     (aws_s3_meta_request_stream_response_body_synced);                  *)
(*   - the io event loop runs s_s3_meta_request_event_delivery_task, which *)
(*     takes the queued events, delivers them without holding the lock and *)
(*     accounts for them under the lock again;                             *)
(*   - file workers run s_s3_body_write_task, one part each.               *)
(* The user may open the read window, cancel or pause at any time.         *)
(*                                                                         *)
(* A request is a record [tag, part, first, last, len, discovers]: its     *)
(* part number, part_range_start, part_range_end and the length of the     *)
(* body it received. Byte positions are offsets in the object.             *)
(***************************************************************************)
EXTENDS PartRanges, Sequences, FiniteSets, SequencesExt

CONSTANTS
    Options,    \* the set of meta request options explored
    ByteCount   \* one more than the largest byte offset that can occur

ASSUME ByteCountAssumption == ByteCount \in Nat \ {0}

Bytes == 0 .. ByteCount - 1

VARIABLES
    opts,                           \* options of this meta request, never changed
    finish_result,                  \* synced_data.finish_result, "none" until set
    work_scheduled,                 \* client process_work_task_scheduled
    out_of_order_delivery,          \* the atomic resolved by discovery
    read_window_running_total,
    pending_body_streaming,         \* priority queue of bodies out of order
    next_streaming_part,
    num_parts_delivery_sent,
    num_parts_delivery_completed,
    event_delivery_array,
    event_delivery_task_scheduled,
    tick,                           \* locals of the running delivery task
    num_bytes_delivery_completed,   \* io_threaded_data
    next_deliver_range_start,       \* io_threaded_data
    writes,                         \* body write tasks not yet accounted for
    mask,                           \* parts_delivered_mask with its part count
    prefix,                         \* contiguous-prefix accounting
    sink                            \* how often each byte reached the sink

deliveryVars ==
    <<opts, finish_result, work_scheduled, out_of_order_delivery, read_window_running_total,
      pending_body_streaming, next_streaming_part, num_parts_delivery_sent,
      num_parts_delivery_completed, event_delivery_array, event_delivery_task_scheduled, tick,
      num_bytes_delivery_completed, next_deliver_range_start, writes, mask, prefix, sink>>

\* The variables that only the delivery task and the write workers change.
deliveryProgress ==
    <<num_parts_delivery_completed, tick, num_bytes_delivery_completed,
      next_deliver_range_start, prefix, sink>>

\* The variables that queueing a body changes.
queueVars ==
    <<pending_body_streaming, next_streaming_part, num_parts_delivery_sent,
      event_delivery_array, event_delivery_task_scheduled, writes>>

Errors == {"CANCELED", "PAUSED", "REQUEST_FAILED", "BAD_RESPONSE", "CALLBACK_FAILED",
           "SINK_FAILED", "SHORT_BUFFER", "INVALID_STATE"}

NoTick == [active |-> FALSE, queue |-> <<>>, error |-> "none", allowed |-> 0, parts |-> 0,
           bytes |-> 0, completed |-> <<>>, incomplete |-> <<>>]

NoPrefix == [bytes |-> 0, total |-> 0, part |-> 1, start |-> 0, parked |-> {}, ok |-> TRUE]

Note == [kind |-> "note"]

BodyEvent(r) == [kind |-> "body", req |-> r, done |-> 0]

DeliveryInit ==
    /\ opts \in Options
    /\ finish_result = "none"
    /\ work_scheduled = TRUE
    /\ out_of_order_delivery = FALSE
    /\ read_window_running_total = opts.window
    /\ pending_body_streaming = {}
    /\ next_streaming_part = 1
    /\ num_parts_delivery_sent = 0
    /\ num_parts_delivery_completed = 0
    /\ event_delivery_array = <<>>
    /\ event_delivery_task_scheduled = FALSE
    /\ tick = NoTick
    /\ num_bytes_delivery_completed = 0
    /\ next_deliver_range_start = 0
    /\ writes = {}
    /\ mask = [parts |-> 0, delivered |-> {}]
    /\ prefix = NoPrefix
    /\ sink = [b \in Bytes |-> 0]
-----------------------------------------------------------------------------
\* Mutant: the last result wins.
LastResult(current, result) == result

\* aws_s3_meta_request_set_fail_synced and set_success_synced: the first
\* result wins.
SetResult(current, result) == IF current = "none" THEN result ELSE current

\* s_should_apply_backpressure: only a plain body callback is held back.
ApplyBackpressure == opts.backpressure /\ opts.sink = "callback"

\* aws_s3_meta_request_add_event_for_delivery_synced, for each of evs.
AddEvents(evs) ==
    /\ event_delivery_array' = event_delivery_array \o evs
    /\ event_delivery_task_scheduled' =
           (event_delivery_task_scheduled \/ event_delivery_array \o evs # <<>>)

\* What popping a part-number priority queue yields while its top is the
\* expected part n, then n + 1, and so on.
RunFrom(queue, n) ==
    LET has(k)  == \E r \in queue : r.part = k
        length  == IF \E r \in queue : r.part < n
                   THEN 0
                   ELSE CHOOSE k \in 0 .. Cardinality(queue) :
                            ~has(n + k) /\ \A i \in 0 .. k - 1 : has(n + i)
    IN  [i \in 1 .. length |-> CHOOSE r \in queue : r.part = n + i - 1]

\* aws_s3_meta_request_stream_response_body_synced for request r, with the
\* events `notes` queued just before; outOfOrder is the delivery order as
\* resolved by this same critical section.
StreamResponseBody(notes, r, outOfOrder) ==
    LET queue == pending_body_streaming \cup {r}
        run   == RunFrom(queue, next_streaming_part)
        toFile == outOfOrder /\ opts.sink = "file"
    IN  /\ pending_body_streaming' =
               IF outOfOrder THEN pending_body_streaming ELSE queue \ ToSet(run)
        /\ next_streaming_part' = next_streaming_part + (IF outOfOrder THEN 0 ELSE Len(run))
        /\ num_parts_delivery_sent' =
               num_parts_delivery_sent + (IF outOfOrder THEN 1 ELSE Len(run))
        /\ writes' = IF toFile THEN writes \cup {[req |-> r, status |-> "queued"]} ELSE writes
        /\ AddEvents(notes \o (IF toFile THEN <<>>
                               ELSE IF outOfOrder THEN <<BodyEvent(r)>>
                               ELSE [i \in 1 .. Len(run) |-> BodyEvent(run[i])]))

\* Mutant: the delivery task is not woken.
OpenWindowSilently(bytes) ==
    /\ read_window_running_total' = read_window_running_total + bytes
    /\ work_scheduled' = TRUE
    /\ UNCHANGED event_delivery_task_scheduled

\* aws_s3_meta_request_increment_read_window with backpressure enabled.
OpenWindow(bytes) ==
    /\ read_window_running_total' = read_window_running_total + bytes
    /\ event_delivery_task_scheduled' =
           (event_delivery_task_scheduled \/ event_delivery_array # <<>>)
    /\ work_scheduled' = TRUE
-----------------------------------------------------------------------------
\* s_mark_part_delivered for each of a batch of delivery records; there is no
\* mask (mask.parts = 0) until a non-empty object was discovered. A part out
\* of range or marked before raises AWS_ERROR_INVALID_STATE.
MarkPartsDelivered(m, records) ==
    [m EXCEPT !.delivered = @ \cup ({records[i].part : i \in DOMAIN records} \cap (1 .. m.parts))]

BadMark(m, records) ==
    /\ m.parts # 0
    /\ \E i \in DOMAIN records :
          \/ records[i].part \notin (1 .. m.parts) \ m.delivered
          \/ \E j \in 1 .. i - 1 : records[j].part = records[i].part

\* Mutant: every delivered part counts as contiguous.
RecordAnyPart(p, rec) == [p EXCEPT !.total = @ + rec.len, !.bytes = @ + rec.len]

\* Mutant: all parts are taken to have the part size.
NextStartOfEqualParts(rec) == rec.first + opts.part_size

\* Where the part after a delivered one starts
NextStart(rec) == rec.last + 1

\* s_s3_meta_request_record_delivered_part_synced: park the part, or extend
\* the prefix (s_s3_meta_request_extend_delivered_prefix_synced) with it and
\* with the parked parts that now follow, as long as each starts where the one
\* before it ended; part 1 may start anywhere. p.ok tells whether all did. A
\* batch of records stops at the first failure.
RecordDeliveredPart(p, rec) ==
    LET run      == <<rec>> \o RunFrom(p.parked, p.part + 1)
        joins(i) == \/ p.part + i = 2
                    \/ run[i].first = IF i = 1 THEN p.start ELSE NextStart(run[i - 1])
        fit      == CHOOSE k \in 0 .. Len(run) : /\ \A i \in 1 .. k : joins(i)
                                                /\ k < Len(run) => ~joins(k + 1)
        popped   == ToSet(SubSeq(run, 1, AtMost(fit + 1, Len(run))))
    IN  IF ~p.ok
        THEN p
        ELSE IF rec.part # p.part
        THEN [p EXCEPT !.total = @ + rec.len, !.parked = @ \cup {rec}]
        ELSE [p EXCEPT !.total  = @ + rec.len,
                       !.bytes  = @ + MapThenSumSet(LAMBDA i : run[i].len, 1 .. fit),
                       !.start  = IF fit = 0 THEN @ ELSE NextStart(run[fit]),
                       !.part   = @ + fit,
                       !.parked = @ \ popped,
                       !.ok     = fit = Len(run)]

\* (CHOOSE from a singleton: TLC evaluates the prefix so far once.)
RecordDeliveredParts(records) ==
    FoldLeft(LAMBDA sofar, rec : CHOOSE q \in {RecordDeliveredPart(p, rec) : p \in {sofar}} : TRUE,
             [prefix EXCEPT !.ok = TRUE], records)

DeliveryRecord(r, len) == [part |-> r.part, first |-> r.first, last |-> r.last, len |-> len]

Sunk(first, len) ==
    [b \in Bytes |-> IF b \in first .. first + len - 1 THEN sink[b] + 1 ELSE sink[b]]
-----------------------------------------------------------------------------
\* s_s3_meta_request_event_delivery_task, first critical section.
EventTaskStart ==
    /\ event_delivery_task_scheduled
    /\ ~tick.active
    /\ tick' = [NoTick EXCEPT
                  !.active  = TRUE,
                  !.queue   = event_delivery_array,
                  !.error   = IF finish_result = "none" THEN "none" ELSE "CANCELED",
                  !.allowed = read_window_running_total - num_bytes_delivery_completed]
    /\ event_delivery_array' = <<>>
    /\ event_delivery_task_scheduled' = FALSE
    /\ UNCHANGED <<opts, finish_result, work_scheduled, out_of_order_delivery,
                   read_window_running_total, pending_body_streaming, next_streaming_part,
                   num_parts_delivery_sent, num_parts_delivery_completed,
                   num_bytes_delivery_completed, next_deliver_range_start, writes, mask,
                   prefix, sink>>

CurrentEvent == Head(tick.queue)

CurrentBody ==
    /\ tick.active
    /\ tick.queue # <<>>
    /\ CurrentEvent.kind = "body"

\* Mutant: what an earlier tick delivered is forgotten.
WholeBody(e) == e.req.len

\* The bytes of the event not yet delivered, how many of them this tick may
\* deliver, and whether that leaves some.
Undelivered(e) == IF ApplyBackpressure THEN e.req.len - e.done ELSE e.req.len
ChunkLength(e) == IF ApplyBackpressure THEN AtMost(Undelivered(e), tick.allowed) ELSE Undelivered(e)
Partial(e) == ChunkLength(e) < Undelivered(e)

\* A progress or telemetry event: the user is called back, nothing changes.
EventTaskNote ==
    /\ tick.active
    /\ tick.queue # <<>>
    /\ CurrentEvent.kind = "note"
    /\ tick' = [tick EXCEPT !.queue = Tail(@)]
    /\ UNCHANGED <<opts, finish_result, work_scheduled, out_of_order_delivery,
                   read_window_running_total, num_parts_delivery_completed,
                   num_bytes_delivery_completed, next_deliver_range_start, mask, prefix, sink>>
    /\ UNCHANGED queueVars

\* An empty body counts as delivered without reaching the sink.
EventTaskEmptyBody ==
    /\ CurrentBody
    /\ CurrentEvent.req.len = 0
    /\ tick' = [tick EXCEPT
                  !.queue     = Tail(@),
                  !.parts     = @ + 1,
                  !.completed = IF tick.error = "none"
                                THEN Append(@, DeliveryRecord(CurrentEvent.req, 0)) ELSE @]
    /\ UNCHANGED <<opts, finish_result, work_scheduled, out_of_order_delivery,
                   read_window_running_total, num_parts_delivery_completed,
                   num_bytes_delivery_completed, next_deliver_range_start, mask, prefix, sink>>
    /\ UNCHANGED queueVars

\* No window left for this body: it is put back, error or not.
EventTaskPutBack ==
    /\ CurrentBody
    /\ CurrentEvent.req.len # 0
    /\ ChunkLength(CurrentEvent) = 0
    /\ tick' = [tick EXCEPT !.queue = Tail(@), !.incomplete = <<CurrentEvent>> \o @]
    /\ UNCHANGED <<opts, finish_result, work_scheduled, out_of_order_delivery,
                   read_window_running_total, num_parts_delivery_completed,
                   num_bytes_delivery_completed, next_deliver_range_start, mask, prefix, sink>>
    /\ UNCHANGED queueVars

\* Steps 2 to 6 of the loop body for a chunk of at least one byte. `accepted`
\* is what the sink answers: a file write or a body callback may fail.
EventTaskDeliver(accepted) ==
    LET e       == CurrentEvent
        len     == ChunkLength(e)
        first   == e.req.first + e.done
        expected == IF e.req.part = 1 THEN first ELSE next_deliver_range_start
        error1  == IF ~out_of_order_delivery /\ first # expected THEN "INVALID_STATE" ELSE tick.error
        error2  == IF error1 = "none" /\ ~accepted THEN "SINK_FAILED" ELSE error1
        done    == [e EXCEPT !.done = @ + len]
        closed  == ~Partial(e) \/ error2 # "none"
    IN  /\ CurrentBody
        /\ e.req.len # 0
        /\ len > 0
        /\ error1 # "none" => accepted    \* the sink is not called
        /\ opts.sink = "recv_buffer" => accepted
        /\ tick' = [tick EXCEPT
                      !.queue      = Tail(@),
                      !.error      = error2,
                      !.allowed    = IF ApplyBackpressure THEN @ - len ELSE @,
                      !.bytes      = IF error2 = "none" THEN @ + len ELSE @,
                      !.parts      = IF closed THEN @ + 1 ELSE @,
                      !.completed  = IF closed /\ error2 = "none"
                                     THEN Append(@, DeliveryRecord(e.req, done.done)) ELSE @,
                      !.incomplete = IF closed THEN @ ELSE <<done>> \o @]
        /\ next_deliver_range_start' =
               IF out_of_order_delivery THEN next_deliver_range_start ELSE expected + len
        /\ num_bytes_delivery_completed' = num_bytes_delivery_completed + len
        /\ sink' = IF error2 = "none" THEN Sunk(first, len) ELSE sink
        /\ IF error2 = "none" /\ opts.backpressure /\ opts.sink \in {"file", "recv_buffer"}
           THEN OpenWindow(len)
           ELSE UNCHANGED <<read_window_running_total, event_delivery_task_scheduled, work_scheduled>>
        /\ UNCHANGED <<opts, finish_result, out_of_order_delivery, pending_body_streaming,
                       next_streaming_part, num_parts_delivery_sent,
                       num_parts_delivery_completed, event_delivery_array, writes, mask, prefix>>

\* Last critical section of the task: incomplete events go back to the front
\* of the array, delivered parts are marked and recorded, work is scheduled.
EventTaskEnd ==
    LET array  == Reverse(tick.incomplete) \o event_delivery_array
        again  == /\ tick.incomplete # <<>>
                  /\ read_window_running_total - num_bytes_delivery_completed > 0
                  /\ tick.error = "none"
        result == IF tick.error = "none" THEN finish_result ELSE SetResult(finish_result, tick.error)
    IN  /\ tick.active
        /\ tick.queue = <<>>
        /\ event_delivery_array' = array
        /\ event_delivery_task_scheduled' = (event_delivery_task_scheduled \/ again)
        /\ num_parts_delivery_completed' = num_parts_delivery_completed + tick.parts
        /\ mask' = MarkPartsDelivered(mask, tick.completed)
        /\ prefix' = IF out_of_order_delivery
                     THEN RecordDeliveredParts(tick.completed)
                     ELSE [prefix EXCEPT !.bytes = @ + tick.bytes, !.total = @ + tick.bytes]
        /\ finish_result' = IF BadMark(mask, tick.completed) \/ ~prefix'.ok
                            THEN SetResult(result, "INVALID_STATE") ELSE result
        /\ tick' = NoTick
        /\ work_scheduled' = TRUE
        /\ UNCHANGED <<opts, out_of_order_delivery, read_window_running_total,
                       pending_body_streaming, next_streaming_part, num_parts_delivery_sent,
                       num_bytes_delivery_completed, next_deliver_range_start, writes, sink>>
-----------------------------------------------------------------------------
\* s_s3_body_write_task up to its critical section: write the part at its
\* offset and open the window for it, or fail (a cancelled task fails too).
BodyWrite(w, accepted) ==
    /\ w \in writes
    /\ w.status = "queued"
    /\ writes' = (writes \ {w}) \cup {[w EXCEPT !.status = IF accepted THEN "written" ELSE "failed"]}
    /\ sink' = IF accepted THEN Sunk(w.req.first, w.req.len) ELSE sink
    /\ IF accepted /\ opts.backpressure /\ w.req.len > 0
       THEN OpenWindow(w.req.len)
       ELSE UNCHANGED <<read_window_running_total, event_delivery_task_scheduled, work_scheduled>>
    /\ UNCHANGED <<opts, finish_result, out_of_order_delivery, pending_body_streaming,
                   next_streaming_part, num_parts_delivery_sent, num_parts_delivery_completed,
                   event_delivery_array, tick, num_bytes_delivery_completed,
                   next_deliver_range_start, mask, prefix>>

\* s_s3_body_write_task, its critical section and the work it schedules.
BodyWriteDone(w) ==
    LET record == <<DeliveryRecord(w.req, w.req.len)>>
    IN  /\ w \in writes
        /\ w.status # "queued"
        /\ writes' = writes \ {w}
        /\ num_parts_delivery_completed' = num_parts_delivery_completed + 1
        /\ IF w.status = "written"
           THEN /\ mask' = MarkPartsDelivered(mask, record)
                /\ prefix' = RecordDeliveredParts(record)
                /\ finish_result' = IF BadMark(mask, record) \/ ~prefix'.ok
                                    THEN SetResult(finish_result, "INVALID_STATE")
                                    ELSE finish_result
           ELSE /\ finish_result' = SetResult(finish_result, "SINK_FAILED")
                /\ UNCHANGED <<mask, prefix>>
        /\ AddEvents(IF opts.notes THEN <<Note>> ELSE <<>>)
        /\ work_scheduled' = TRUE
        /\ UNCHANGED <<opts, out_of_order_delivery, read_window_running_total,
                       pending_body_streaming, next_streaming_part, num_parts_delivery_sent, tick,
                       num_bytes_delivery_completed, next_deliver_range_start, sink>>

\* aws_s3_meta_request_increment_read_window, called by the user; without
\* backpressure the call is ignored.
IncrementReadWindow(bytes) ==
    /\ opts.backpressure
    /\ OpenWindow(bytes)
    /\ UNCHANGED <<opts, finish_result, out_of_order_delivery, pending_body_streaming,
                   next_streaming_part, num_parts_delivery_sent, num_parts_delivery_completed,
                   event_delivery_array, tick, num_bytes_delivery_completed,
                   next_deliver_range_start, writes, mask, prefix, sink>>

\* The part of aws_s3_meta_request_cancel and aws_s3_meta_request_pause_async
\* that touches this state. Cancelling HTTP streams and buffer reservations
\* only makes requests fail that may fail anyway.
StopWith(code) ==
    /\ finish_result' = SetResult(finish_result, code)
    /\ work_scheduled' = TRUE
    /\ UNCHANGED <<opts, out_of_order_delivery, read_window_running_total, mask>>
    /\ UNCHANGED <<queueVars, deliveryProgress>>

\* aws_s3_meta_request_are_events_out_for_delivery_synced
EventsOutForDelivery == event_delivery_array # <<>> \/ tick.active

DeliveryTask ==
    \/ EventTaskStart
    \/ EventTaskNote
    \/ EventTaskEmptyBody
    \/ EventTaskPutBack
    \/ \E accepted \in BOOLEAN : EventTaskDeliver(accepted)
    \/ EventTaskEnd

WriteTasks == \E w \in writes : \/ \E accepted \in BOOLEAN : BodyWrite(w, accepted)
                                \/ BodyWriteDone(w)
=============================================================================
