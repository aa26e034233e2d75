----------------------------- MODULE PutPrepare -----------------------------
(***************************************************************************)
(* From a part that update() hands out to the buffer it is prepared in:    *)
(* s_acquire_mem_and_prepare_request and s_on_pool_buffer_reserved of      *)
(* source/s3_client.c over the buffer pool, for any number of meta         *)
(* requests that share the client.  The process-work thread reserves a     *)
(* buffer, lists its future with the meta request and registers a callback *)
(* that runs on the meta request's io_event_loop.  The parts of a          *)
(* sequential upload are then prepared in part order: a buffer that is     *)
(* granted early waits in pending_put_prepare_queue.  A cancel fails the   *)
(* listed futures; the first failure a callback sees drains that queue.    *)
(*                                                                         *)
(* A request is [meta, part, kind, size]: kind "put" is a part of a        *)
(* sequential upload, "get" a part that is prepared in any order, "write"  *)
(* the buffer aws_s3_meta_request_poll_write fills.                        *)
(***************************************************************************)
EXTENDS BufferPool

CONSTANTS
    Loads,          \* sets of requests: what the users ask for
    Cancels,        \* whether meta requests may be cancelled
    OptimizesPool   \* whether downloads may set buffer_pool_optimized

ASSUME PrepareAssumption ==
    /\ \A r \in Request : r.part \in Nat \ {0}
    /\ \A r, q \in Request : r.meta = q.meta /\ r.part = q.part => r = q

VARIABLES
    stage,          \* where each request is
    stopped,        \* meta requests with a finish result
    loop,           \* callbacks scheduled on the event loop of each meta request
    next_put_part_to_prepare,
    optimized       \* per meta request: "no", "yes" (buffer_pool_optimized), "released"

prepareVars == <<stage, stopped, loop, next_put_part_to_prepare, optimized>>
vars == <<poolVars, prepareVars>>

Meta == {r.meta : r \in Request}
Of(m) == {r \in Request : r.meta = m}
In(stages) == {r \in Request : stage[r] \in stages}

Init ==
    /\ PoolInit
    /\ \E load \in Loads : stage = [r \in Request |-> IF r \in load THEN "new" ELSE "absent"]
    /\ stopped = {}
    /\ loop = [m \in Meta |-> <<>>]
    /\ next_put_part_to_prepare = [m \in Meta |-> 1]
    /\ optimized = [m \in Meta |-> "no"]

MoveTo(r, to) == stage' = [stage EXCEPT ![r] = to]

InPartOrder(rs) ==
    CHOOSE s \in [1..Cardinality(rs) -> rs] : \A i, j \in DOMAIN s : i < j => s[i].part < s[j].part

\* register_event_loop_callback, or the completion that comes after it
Schedule(rs) == loop' = [m \in Meta |-> loop[m] \o InPartOrder(rs \cap Of(m))]
-----------------------------------------------------------------------------
(* The process-work thread: one request at a time.                         *)

\* update() hands out the next part of a meta request that is not finishing
HandOut(r) ==
    /\ stage[r] = "new" /\ r.kind # "write"
    /\ r.meta \notin stopped
    /\ \A q \in Of(r.meta) : q.part < r.part => stage[q] # "new"
    /\ In({"handed", "reserved"}) = {}
    /\ MoveTo(r, "handed")
    /\ UNCHANGED <<poolVars, stopped, loop, next_put_part_to_prepare, optimized>>

\* s_acquire_mem_and_prepare_request up to the reservation
AcquireMem(r) ==
    /\ stage[r] = "handed"
    /\ Reserve(r, FALSE)
    /\ MoveTo(r, "reserved")
    /\ UNCHANGED <<stopped, loop, next_put_part_to_prepare, optimized>>

\* and from there: the future is listed, and the callback registered
RegisterCallback(r) ==
    /\ stage[r] = "reserved"
    /\ MoveTo(r, "waiting")
    /\ Schedule(IF future[r] = "open" THEN {} ELSE {r})
    /\ UNCHANGED <<poolVars, stopped, next_put_part_to_prepare, optimized>>

\* The thread that released a ticket completes the futures it captured.
CompleteFuture(done) ==
    /\ Complete(done)
    /\ Schedule({r \in {Head(done)} : future[r] = "open" /\ stage[r] = "waiting"})
    /\ UNCHANGED <<stage, stopped, next_put_part_to_prepare, optimized>>

\* aws_s3_meta_request_cancel: the result is set and every listed future
\* fails (aws_s3_meta_request_cancel_pending_buffer_futures_synced)
Cancel(m) ==
    /\ Cancels
    /\ m \notin stopped
    /\ \E r \in Of(m) : stage[r] \notin {"absent", "done"}
    /\ LET listed == Of(m) \cap In({"waiting"})
       IN  /\ FailFutures(listed)
           /\ Schedule({r \in listed : future[r] = "open"})
    /\ stopped' = stopped \cup {m}
    /\ UNCHANGED <<pool, pending_reserves, ticket, captured, stage, next_put_part_to_prepare, optimized>>
-----------------------------------------------------------------------------
(* The io_event_loop of a meta request.                                    *)

\* Mutant: what is queued is prepared, in order or not.
DrainedUnordered(m, queue) == queue

\* s_drain_pending_put_prepare_queue: the parts that are next in order
Drained(m, queue) ==
    {r \in queue : \A k \in next_put_part_to_prepare[m]..r.part : \E q \in queue : q.part = k}

\* s_force_drain_pending_put_prepare_queue
ForceDrained(r) == Of(r.meta) \cap In({"queued"})

\* s_on_pool_buffer_reserved. After an error the queue is force-drained: its
\* entries leave it here and are failed one by one, by FailDrained.
OnPoolBufferReserved(m) ==
    /\ loop[m] # <<>>
    /\ Of(m) \cap In({"dropping"}) = {}
    /\ loop' = [loop EXCEPT ![m] = Tail(@)]
    /\ LET r == Head(loop[m])
           queue == (Of(m) \cap In({"queued"})) \cup {r}
           ready == IF r.kind = "put" THEN Drained(m, queue) ELSE {r}
       IN  \/ /\ future[r] = "failed"
              /\ stopped' = stopped \cup {m}
              /\ stage' = [q \in Request |-> IF q = r THEN "done"
                                             ELSE IF q \in ForceDrained(r) THEN "dropping" ELSE stage[q]]
              /\ UNCHANGED next_put_part_to_prepare
           \/ /\ future[r] = "granted"
              /\ stage' = [q \in Request |-> IF q \in ready THEN "prepared"
                                             ELSE IF q = r THEN "queued" ELSE stage[q]]
              /\ next_put_part_to_prepare' =
                    [next_put_part_to_prepare EXCEPT ![m] = IF r.kind = "put" THEN @ + Cardinality(ready) ELSE @]
              /\ UNCHANGED stopped
    /\ UNCHANGED <<poolVars, optimized>>

\* An entry of a force-drained queue: its ticket is released, its request fails.
FailDrained(r) ==
    /\ stage[r] = "dropping"
    /\ Destroy(r)
    /\ MoveTo(r, "done")
    /\ UNCHANGED <<stopped, loop, next_put_part_to_prepare, optimized>>

\* A prepared request claims its buffer: an upload when it reads its body, a
\* download when a response arrives.
ClaimBuffer(r) ==
    /\ stage[r] = "prepared"
    /\ Claim(r)
    /\ MoveTo(r, "claimed")
    /\ UNCHANGED <<stopped, loop, next_put_part_to_prepare, optimized>>

\* s_s3_request_destroy or the delivery of its body releases the ticket. A
\* request that fails before it has a body releases it unclaimed.
ReleaseBuffer(r) ==
    /\ stage[r] = "claimed" \/ (stage[r] = "prepared" /\ ~ticket[r].forced)
    /\ Destroy(r)
    /\ MoveTo(r, "done")
    /\ UNCHANGED <<stopped, loop, next_put_part_to_prepare, optimized>>

\* aws_s3_meta_request_poll_write takes a forced buffer, which it claims next.
PollWrite(r) ==
    /\ stage[r] = "new" /\ r.kind = "write"
    /\ r.meta \notin stopped
    /\ Reserve(r, TRUE)
    /\ MoveTo(r, IF r.size > MemLimit THEN "done" ELSE "prepared")
    /\ stopped' = IF r.size > MemLimit THEN stopped \cup {r.meta} ELSE stopped
    /\ UNCHANGED <<loop, next_put_part_to_prepare, optimized>>
-----------------------------------------------------------------------------
\* A download that has discovered the object makes its part size special.
OptimizePool(m) ==
    /\ OptimizesPool
    /\ optimized[m] = "no"
    /\ \E r \in Of(m) : r.kind = "get" /\ stage[r] = "claimed" /\ AddSpecialSize(r.size)
    /\ optimized' = [optimized EXCEPT ![m] = "yes"]
    /\ UNCHANGED <<stage, stopped, loop, next_put_part_to_prepare>>

\* s_s3_meta_request_destroy gives the special size back.
DestroyMetaRequest(m) ==
    /\ optimized[m] = "yes"
    /\ \A r \in Of(m) : stage[r] \in {"absent", "done"} \/ (stage[r] = "new" /\ m \in stopped)
    /\ ReleaseSpecialSize
    /\ optimized' = [optimized EXCEPT ![m] = "released"]
    /\ UNCHANGED <<stage, stopped, loop, next_put_part_to_prepare>>

\* s_s3_client_trim_buffer_pool_task: only when no request is in flight
TrimTask ==
    /\ \A r \in Request : stage[r] \in {"absent", "new", "done"} \/ r.kind = "write"
    /\ Trim
    /\ UNCHANGED prepareVars

\* What the client's threads do once it is due
Work ==
    \/ \E r \in Request :
          \/ AcquireMem(r)
          \/ RegisterCallback(r)
          \/ FailDrained(r)
          \/ ClaimBuffer(r)
          \/ ReleaseBuffer(r)
    \/ \E done \in captured : CompleteFuture(done)
    \/ \E m \in Meta : OnPoolBufferReserved(m)

Next ==
    \/ Work
    \/ \E r \in Request : HandOut(r) \/ PollWrite(r)
    \/ \E m \in Meta : Cancel(m) \/ OptimizePool(m) \/ DestroyMetaRequest(m)
    \/ TrimTask

Spec == Init /\ [][Next]_vars

\* Some thread that has something to run runs it: that is enough, because a
\* request takes each step once. Nobody has to ask for more work.
Fairness == WF_vars(Work)

FairSpec == Spec /\ Fairness
-----------------------------------------------------------------------------
\* Types; no counter of the pool wraps below zero.
TypeOK ==
    /\ stage \in [Request -> {"absent", "new", "handed", "reserved", "waiting", "queued", "dropping",
                              "prepared", "claimed", "done"}]
    /\ future \in [Request -> {"none", "open", "granted", "failed"}]
    /\ pool.used \in [Area -> Nat] /\ pool.reserved \in [Area -> Nat]
    /\ {pool.primary_allocated, pool.special_allocated, pool.forced_used} \subseteq Nat
    /\ pending_reserves \in Seq(Request) /\ IsInjective(pending_reserves)
    /\ captured \subseteq Seq(Request)
    /\ stopped \subseteq Meta
    /\ loop \in [Meta -> Seq(Request)]
    /\ next_put_part_to_prepare \in [Meta -> Nat]
    /\ optimized \in [Meta -> {"no", "yes", "released"}]

\* The parts of a sequential upload are prepared, and so read from its stream,
\* in part order, in whatever order their buffers are granted and their
\* callbacks run; after a part that failed no later part is prepared.
PreparedInOrder ==
    \A r, q \in Request :
        /\ r.kind = "put" /\ r.meta = q.meta /\ q.part < r.part
        /\ stage[r] \in {"prepared", "claimed"}
        => stage[q] \in {"prepared", "claimed", "done"} /\ next_put_part_to_prepare[r.meta] > r.part

\* A ticket is held only by a request on its way, or by a thread that is about
\* to complete a future: a grant that meets a cancelled future is destroyed,
\* and no failed request keeps memory.
TicketsOwned ==
    \A r \in Request :
        /\ ticket[r] # NoTicket =>
              \/ stage[r] \in {"reserved", "waiting", "queued", "dropping", "prepared", "claimed"}
                 /\ future[r] = "granted"
              \/ \E done \in captured : r \in Range(done)
        /\ stage[r] \in {"queued", "dropping", "prepared", "claimed"} => ticket[r] # NoTicket

\* The only live tickets wait for an earlier part of their upload, and leave
\* no room for the reservation at the head of the pending ones.
Wedged ==
    /\ captured = {} /\ pending_reserves # <<>>
    /\ \A r \in Request : ticket[r] # NoTicket => stage[r] = "queued"
    /\ Total(In({"queued"})) + Head(pending_reserves).size > MemLimit

Served(r) ==
    \/ stage[r] \in {"absent", "new", "done"}
    \/ r.kind = "put" /\ r.meta \in stopped

\* Again and again every part that was handed out has ended, save those of an
\* upload that is stopped: no wake-up is lost between a release, the pending
\* reservations, the callbacks and the ordered queue. The exception is the
\* wedged pool: reserve grants a small reservation while larger ones are
\* pending, and the ordered queue may keep that buffer for the very part that
\* is pending.
EveryPartServed == []<>((\A r \in Request : Served(r)) \/ Wedged)

\* A ticket holds its memory, alone, from the grant to its end, and every ticket
\* has a holder: nothing leaks or is trimmed away when requests are cancelled.
TicketsHoldTheirMemory == TypeOK /\ TicketsOwned /\ BuffersDisjoint /\ SpecialListStays
=============================================================================
