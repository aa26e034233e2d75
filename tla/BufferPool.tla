----------------------------- MODULE BufferPool -----------------------------
(***************************************************************************)
(* The default buffer pool (source/s3_default_buffer_pool.c): reservations *)
(* of memory under a limit, served from chunked primary blocks, from lists *)
(* of special-sized blocks, or from the system allocator (secondary).      *)
(*                                                                         *)
(* The fields the pool's mutex protects are the record `pool' and the      *)
(* queue pending_reserves; an operation on them is one critical section.   *)
(* Futures are completed after the mutex is released: until then the       *)
(* granted reservations of a release are a sequence in `captured'.  A      *)
(* future may be failed by its meta request at any time, also when a       *)
(* ticket for it is already captured; the late ticket is then destroyed.   *)
(* Sizes are in units of the model, the numbers of chunks are constants.   *)
(***************************************************************************)
EXTENDS Integers, Sequences, FiniteSets, FiniteSetsExt

CONSTANTS
    Request,        \* records with a field size: who reserves a buffer
    MemLimit,       \* mem_limit
    ChunkSize,      \* chunk_size, 0 when buffers are not reused
    ChunksPerBlock, \* s_chunks_per_block
    CutoffChunks,   \* the 4 of primary_size_cutoff = chunk_size * 4
    MinCutoff       \* primary_size_min_cutoff

ASSUME PoolAssumption ==
    /\ MemLimit \in Nat \ {0}
    /\ ChunkSize \in Nat /\ ChunkSize * ChunksPerBlock <= MemLimit
    /\ ChunksPerBlock \in Nat /\ CutoffChunks \in 1..ChunksPerBlock
    /\ MinCutoff \in 0..ChunkSize * CutoffChunks
    /\ IsFiniteSet(Request) /\ \A r \in Request : r.size \in Nat \ {0}

VARIABLES
    pool,             \* the counters and the blocks
    pending_reserves, \* reservations that did not fit, in the order of arrival
    ticket,           \* the ticket of each reservation
    future,           \* the future of each reservation
    captured          \* granted reservations whose futures are yet to be completed

poolVars == <<pool, pending_reserves, ticket, future, captured>>

Area == {"primary", "secondary", "special"}
BlockSize == ChunkSize * ChunksPerBlock
Cutoff == ChunkSize * CutoffChunks
NoTicket == [state |-> "none"]

\* Memory that forced buffers may hold back from normal reservations:
\* s_max_impact_of_forced_buffers_on_memory_limit_as_percentage.
ForcedImpact == (MemLimit * 80) \div 100

PoolInit ==
    /\ pool = [blocks |-> <<>>, special |-> [n \in {} |-> {}],
               reserved |-> [a \in Area |-> 0], used |-> [a \in Area |-> 0],
               primary_allocated |-> 0, special_allocated |-> 0, forced_used |-> 0]
    /\ pending_reserves = <<>>
    /\ ticket = [r \in Request |-> NoTicket]
    /\ future = [r \in Request |-> "none"]
    /\ captured = {}
-----------------------------------------------------------------------------
Saturating(n) == IF n < 0 THEN 0 ELSE n

Sum(f) == f["primary"] + f["secondary"] + f["special"]

Taken(p) == Sum(p.used) + Sum(p.reserved)

\* What a reservation is weighed against: forced buffers count up to a share.
CountedTaken(p) ==
    IF p.forced_used > ForcedImpact THEN Taken(p) - p.forced_used + ForcedImpact ELSE Taken(p)

FreeId(ids) == CHOOSE i \in 1..Cardinality(ids) + 1 : i \notin ids

\* The memory of lists of special-sized blocks, by size
SpecialBytes(lists) == SumFunction([n \in DOMAIN lists |-> n * Cardinality(lists[n])])

\* The entries of a list that lie in S
KeepIn(list, S) ==
    LET kept[i \in 0..Len(list)] ==
            IF i = 0 THEN <<>>
            ELSE IF list[i] \in S THEN Append(kept[i - 1], list[i]) ELSE kept[i - 1]
    IN  kept[Len(list)]

\* Mutant: an empty list goes although a reservation counts on it.
TrimSpecialWhileReserved(p) ==
    LET kept == [n \in DOMAIN p.special |-> {b \in p.special[n] : b.used}]
        dropped == [n \in DOMAIN p.special |-> p.special[n] \ kept[n]]
    IN  [p EXCEPT !.special = [n \in {k \in DOMAIN kept : kept[k] # {}} |-> kept[n]],
                  !.special_allocated = @ - SpecialBytes(dropped)]

\* s_buffer_pool_trim_special_blocks_synced (force_keeping_special_blocks is
\* set by tests only)
TrimSpecial(p) ==
    LET kept == [n \in DOMAIN p.special |-> {b \in p.special[n] : b.used}]
        dropped == [n \in DOMAIN p.special |-> p.special[n] \ kept[n]]
        lists == {n \in DOMAIN kept : kept[n] # {} \/ p.reserved["special"] # 0}
    IN  [p EXCEPT !.special = [n \in lists |-> kept[n]],
                  !.special_allocated = @ - SpecialBytes(dropped)]

\* s_buffer_pool_trim_synced
TrimAll(p) ==
    LET blocks == KeepIn(p.blocks, {b \in Range(p.blocks) : b.used # {}})
    IN  TrimSpecial([p EXCEPT !.blocks = blocks,
                              !.primary_allocated = @ - BlockSize * (Len(p.blocks) - Len(blocks))])

\* s_should_trim_for_reserve_synced
ShouldTrim(p, size) ==
    /\ size \notin DOMAIN p.special
    /\ size > Cutoff
    /\ Taken(p) + size >= MemLimit
    /\ Saturating(Saturating(p.primary_allocated - p.used["primary"]) - p.reserved["primary"])
         + Saturating(Saturating(p.special_allocated - p.used["special"]) - p.reserved["special"]) >= size

\* Where s_try_reserve_synced reserves: a small buffer from primary, unless
\* that might take a new block that exceeds the limit.
AreaFor(p, size) ==
    IF size \in DOMAIN p.special THEN "special"
    ELSE IF \/ size > Cutoff
            \/ size <= MinCutoff
            \/ /\ p.used["primary"] + p.reserved["primary"] + size > p.primary_allocated
               /\ CountedTaken(p) + BlockSize > MemLimit
         THEN "secondary"
         ELSE "primary"

\* Mutant: memory that is reserved and not yet used is not counted.
FitsUncounted(p, size) == size + Sum(p.used) <= MemLimit

\* The comparison with mem_limit in s_try_reserve_synced
Fits(p, size) == size + CountedTaken(p) <= MemLimit

\* s_try_reserve_synced: trims first, also when the reservation then fails
TryReserve(p, size) ==
    LET q == IF ShouldTrim(p, size) THEN TrimAll(p) ELSE p
        area == AreaFor(q, size)
    IN  IF Fits(q, size)
        THEN [ok |-> TRUE, pool |-> [q EXCEPT !.reserved[area] = @ + size],
              ticket |-> [state |-> "reserved", from |-> area, forced |-> FALSE]]
        ELSE [ok |-> FALSE, pool |-> q, ticket |-> NoTicket]

\* aws_s3_default_buffer_pool_reserve. A forced ticket is not reserved: its
\* holder claims it at once.
Reserve(r, can_block) ==
    /\ future[r] = "none"
    /\ LET attempt == TryReserve(pool, r.size)
           forced == [state |-> "reserved", forced |-> TRUE,
                      from |-> IF r.size \in MinCutoff..Cutoff THEN "primary" ELSE "secondary"]
       IN  \/ /\ r.size > MemLimit
              /\ future' = [future EXCEPT ![r] = "failed"]
              /\ UNCHANGED <<pool, pending_reserves, ticket>>
           \/ /\ r.size <= MemLimit /\ can_block
              /\ ticket' = [ticket EXCEPT ![r] = forced]
              /\ future' = [future EXCEPT ![r] = "granted"]
              /\ UNCHANGED <<pool, pending_reserves>>
           \/ /\ r.size <= MemLimit /\ ~can_block
              /\ pool' = attempt.pool
              /\ ticket' = [ticket EXCEPT ![r] = attempt.ticket]
              /\ future' = [future EXCEPT ![r] = IF attempt.ok THEN "granted" ELSE "open"]
              /\ pending_reserves' = IF attempt.ok THEN pending_reserves ELSE Append(pending_reserves, r)
    /\ UNCHANGED captured
-----------------------------------------------------------------------------
Chunks(size) == (size + ChunkSize - 1) \div ChunkSize

\* s_primary_acquire_synced: the first run of free chunks in the first block
\* that has one, or a new block
PrimaryAcquire(p, size) ==
    LET n == Chunks(size)
        Free(b) == {c \in 0..ChunksPerBlock - n : b.used \cap (c..c + n - 1) = {}}
        with == {i \in DOMAIN p.blocks : Free(p.blocks[i]) # {}}
        i == Min(with)
        c == Min(Free(p.blocks[i]))
        id == FreeId({b.id : b \in Range(p.blocks)})
    IN  IF with # {}
        THEN [pool |-> [p EXCEPT !.blocks[i].used = @ \cup (c..c + n - 1)],
              place |-> [block |-> p.blocks[i].id, chunk |-> c]]
        ELSE [pool |-> [p EXCEPT !.blocks = Append(@, [id |-> id, used |-> 0..n - 1]),
                                 !.primary_allocated = @ + BlockSize],
              place |-> [block |-> id, chunk |-> 0]]

\* The special-sized branch of s_acquire_buffer_synced; the list must exist.
SpecialAcquire(p, size) ==
    LET list == p.special[size]
        free == {b \in list : ~b.used}
        b == IF free # {} THEN CHOOSE x \in free : TRUE
             ELSE [id |-> FreeId({x.id : x \in list}), used |-> FALSE]
    IN  [pool |-> [p EXCEPT !.special[size] = (@ \ {b}) \cup {[b EXCEPT !.used = TRUE]},
                            !.special_allocated = @ + (IF free # {} THEN 0 ELSE size)],
         place |-> [block |-> b.id, chunk |-> 0]]

\* aws_s3_default_buffer_pool_acquire_buffer, for a ticket not claimed before.
\* A forced buffer is counted now, without having been reserved.
Claim(r) ==
    /\ ticket[r].state = "reserved"
    /\ LET t == ticket[r]
           got == CASE t.from = "primary" -> PrimaryAcquire(pool, r.size)
                    [] t.from = "special" -> SpecialAcquire(pool, r.size)
                    [] OTHER -> [pool |-> pool, place |-> [block |-> 0, chunk |-> 0]]
       IN  /\ pool' = [got.pool EXCEPT !.used[t.from] = @ + r.size,
                                       !.reserved[t.from] = IF t.forced THEN @ ELSE @ - r.size,
                                       !.forced_used = IF t.forced THEN @ + r.size ELSE @]
           /\ ticket' = [ticket EXCEPT ![r] = [state |-> "claimed", from |-> t.from,
                                               forced |-> t.forced, place |-> got.place]]
    /\ UNCHANGED <<pending_reserves, future, captured>>

\* The first half of s_aws_ticket_wrapper_destroy: the memory goes back.
GiveBack(p, r) ==
    LET t == ticket[r]
        cleared == t.place.chunk..t.place.chunk + Chunks(r.size) - 1
        freed == [p EXCEPT !.used[t.from] = @ - r.size,
                           !.forced_used = IF t.forced THEN @ - r.size ELSE @]
    IN  CASE t.state = "reserved" -> [p EXCEPT !.reserved[t.from] = @ - r.size]
          [] t.state = "claimed" /\ t.from = "secondary" -> freed
          [] t.state = "claimed" /\ t.from = "special" ->
               [freed EXCEPT !.special[r.size] =
                   {IF b.id = t.place.block THEN [b EXCEPT !.used = FALSE] ELSE b : b \in @}]
          [] t.state = "claimed" /\ t.from = "primary" ->
               [freed EXCEPT !.blocks = [i \in DOMAIN p.blocks |->
                   IF p.blocks[i].id = t.place.block
                   THEN [p.blocks[i] EXCEPT !.used = @ \ cleared] ELSE p.blocks[i]]]

\* One turn of the loop that serves pending reservations
ServeNext(acc, r) ==
    LET attempt == TryReserve(acc.pool, r.size)
    IN  IF acc.stuck THEN acc
        ELSE IF ~attempt.ok THEN [acc EXCEPT !.pool = attempt.pool, !.stuck = TRUE]
        ELSE [acc EXCEPT !.pool = attempt.pool, !.ticket[r] = attempt.ticket, !.served = @ + 1]

\* Mutant: a release wakes nobody.
ServeNothing(p, t, queue) == [pool |-> p, ticket |-> t, served |-> 0, stuck |-> TRUE]

\* Its second half: the head is served until one does not fit. (The singletons
\* make TLC evaluate each turn once.)
ServePending(p, t, queue) ==
    LET turn[i \in 0..Len(queue)] ==
            IF i = 0 THEN [pool |-> p, ticket |-> t, served |-> 0, stuck |-> FALSE]
            ELSE CHOOSE next \in {ServeNext(acc, queue[i]) : acc \in {turn[i - 1]}} : TRUE
    IN  turn[Len(queue)]

\* s_aws_ticket_wrapper_destroy: reservations whose futures have failed leave
\* the queue, the rest is served. `others' are the sequences of futures that
\* other destroying threads, or this one when nested, have yet to complete.
DestroyAndResume(r, others) ==
    LET live == KeepIn(pending_reserves, {x \in Request : future[x] # "failed"})
    IN  \E result \in {ServePending(p, [ticket EXCEPT ![r] = NoTicket], live) : p \in {GiveBack(pool, r)}} :
            /\ pool' = result.pool
            /\ ticket' = result.ticket
            /\ pending_reserves' = SubSeq(live, result.served + 1, Len(live))
            /\ captured' = others \cup (IF result.served = 0 THEN {} ELSE {SubSeq(live, 1, result.served)})

Destroy(r) ==
    /\ DestroyAndResume(r, captured)
    /\ UNCHANGED future

\* The rest of it, outside the mutex: the next captured future is completed.
\* A future that failed meanwhile releases the ticket at once.
Complete(done) ==
    LET r == Head(done)
        others == (captured \ {done}) \cup (IF Len(done) = 1 THEN {} ELSE {Tail(done)})
    IN  \/ /\ future[r] = "open"
           /\ future' = [future EXCEPT ![r] = "granted"]
           /\ captured' = others
           /\ UNCHANGED <<pool, pending_reserves, ticket>>
        \/ /\ future[r] = "failed"
           /\ DestroyAndResume(r, others)
           /\ UNCHANGED future

\* aws_future_set_error on futures of a meta request: the first completion wins
FailFutures(rs) ==
    future' = [r \in Request |-> IF r \in rs /\ future[r] = "open" THEN "failed" ELSE future[r]]

\* aws_s3_default_buffer_pool_trim
Trim ==
    /\ pool' = TrimAll(pool)
    /\ UNCHANGED <<pending_reserves, ticket, future, captured>>

\* s_default_pool_add_special_size
AddSpecialSize(size) ==
    /\ pool' = IF size <= Cutoff \/ size \in DOMAIN pool.special THEN pool
               ELSE [pool EXCEPT !.special = [n \in DOMAIN @ \cup {size} |->
                                                 IF n = size THEN {} ELSE @[n]]]
    /\ UNCHANGED <<pending_reserves, ticket, future, captured>>

\* s_default_pool_release_special_size
ReleaseSpecialSize ==
    /\ pool' = TrimSpecial(pool)
    /\ UNCHANGED <<pending_reserves, ticket, future, captured>>
-----------------------------------------------------------------------------
Holders(state) == {r \in Request : ticket[r].state = state}
From(rs, area) == {r \in rs : ticket[r].from = area}
Total(rs) == SumFunction([r \in rs |-> r.size])
Forced == {r \in Holders("reserved") \cup Holders("claimed") : ticket[r].forced}

\* Reservations stay within mem_limit however reserve, claim, destroy and trim
\* interleave: only forced buffers, which may not wait, take more. Each grant
\* weighs counters that other threads move between reserved and used.
LimitRespected == Total((Holders("reserved") \cup Holders("claimed")) \ Forced) <= MemLimit

\* The counters that s_try_reserve_synced decides by are the sums over the
\* live tickets and blocks: claiming, destroying unclaimed, trimming and
\* serving the pending reservations lose nothing and count nothing twice.
CountersExact ==
    /\ \A area \in Area :
          /\ pool.used[area] = Total(From(Holders("claimed"), area))
          /\ pool.reserved[area] = Total(From(Holders("reserved"), area) \ Forced)
    /\ pool.forced_used = Total(Forced \cap Holders("claimed"))
    /\ pool.primary_allocated = BlockSize * Len(pool.blocks)
    /\ pool.special_allocated = SpecialBytes(pool.special)

\* No two claimed buffers share memory: neither a byte of a primary block,
\* with the sizes rounded up to chunks, nor a special block; and the block of
\* a claimed buffer has not been trimmed (AWS_FATAL_ASSERT(found)).
BuffersDisjoint ==
    /\ \A r, q \in From(Holders("claimed"), "primary") :
          LET a == ticket[r].place
              b == ticket[q].place
          IN  /\ \E i \in DOMAIN pool.blocks : pool.blocks[i].id = a.block
              /\ r # q /\ a.block = b.block =>
                    \/ a.chunk * ChunkSize + r.size <= b.chunk * ChunkSize
                    \/ b.chunk * ChunkSize + q.size <= a.chunk * ChunkSize
    /\ \A r, q \in From(Holders("claimed"), "special") :
          r # q /\ r.size = q.size => ticket[r].place # ticket[q].place

\* A reserved special ticket finds its list when it is claimed, although
\* another meta request released that size, or a reservation trimmed the pool,
\* in between (AWS_FATAL_ASSERT(elem != NULL) in s_acquire_buffer_synced).
SpecialListStays ==
    \A r \in From(Holders("reserved") \cup Holders("claimed"), "special") : r.size \in DOMAIN pool.special

\* The books of the pool balance: the counters are exact, and what they admit
\* stays within the limit.
BooksBalance == LimitRespected /\ CountersExact
=============================================================================
