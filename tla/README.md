# TLA+ specifications of aws-c-s3

This directory holds a formal model of aws-c-s3, the asynchronous S3 client: TLA+ modules translated
from the C sources, TLC configurations that check them on small instances, and proofs that TLAPS
checks for every instance. `PROJECT.json` says, definition by definition, which lines of the source
a definition stands for.

## The system

A *client* runs *meta requests* (one download, one upload, one copy, or one plain request). A meta
request is cut into *requests*, one HTTP exchange each. Its life is spread over many threads:

* the **process-work task** of the client (one event loop) walks over all meta requests in two passes,
  asks each for its next request (`update`), hands requests to preparation, and sends prepared requests
  when a connection is free;
* **preparation** (buffer, body, signing) and **connections** run on other event loops and report the
  end of a request to its meta request (`request_finished`), in any order;
* the **event delivery task** of a meta request hands bodies, progress and telemetry to the user;
  **file workers** write parts of a download straight to a file;
* the **user** makes, cancels, pauses and releases meta requests, opens the read window, writes, and
  releases the client, from any thread.

Everything shared is protected by one lock per meta request and one per client. A handler is a chain of
critical sections; between two of them anything can happen. That is what the modules model: **an action
is one critical section, or the work done between two of them.**

### Inventory

| Part | State | Operations | What is hard about it | What must hold |
|---|---|---|---|---|
| Part ranges (`s3_util.c`, `s3_auto_ranged_get.c`) | range, part sizes, spread fields | number of parts, range of a part, next part | boundaries, unequal regions | parts tile the range |
| Body delivery (`s3_meta_request.c`) | event array, ordered queue, delivery counters, read window, delivery mask, contiguous prefix | queue a body, delivery task, write task, open window | delivery without the lock, partial bodies, file workers, failures in the middle | each byte once, in order where promised, within the window; a token never overstates |
| Auto-ranged GET | discovery state, part counters | discover, request parts, finish, cancel, pause | three ways of discovering, restarts of discovery, counters that must meet | success means complete; nothing runs after the finish; it ends |
| Auto-ranged PUT | phases, part list, counters; the upload kept by the service | create, parts, complete, abort, list, pause, resume | lost answers, pause or cancel in any phase, unknown length, resumed parts | the object is the whole body; failures abort, pauses keep |
| Client and endpoints (`s3_client.c`, `s3_endpoint.c`) | reference counts, endpoint table, task flags, resources shutting down | make, release, update, connect, retry, clean-up, shutdown | last references dropped anywhere, two tasks, asynchronous shutdown | endpoints outlive holders, the client is freed once nothing is left, and it is freed |
| Request pipeline (`s3_client.c`) | prepared and queued requests, limits | prepare, queue, send, retry | stale counts, limits, the pending PUT prepare queue | no lost wake-up |
| Buffer pool (`s3_default_buffer_pool.c`) | primary blocks, secondary memory, forced memory, pending reservations | reserve, claim, release, trim | pending reservations against releases | the limit holds; a waiting reservation is served |
| One attempt (`s3_meta_request.c`, `s3_client.c`) | stage, attempts, connection, open streams | prepare, sign, connect, send, verdict, retry | cancel against a stream that opens, errors inside a 200 | a cancel reaches every stream |
| Asynchronous writes (`s3_meta_request.c`) | buffer, reservation, waker, end of file | poll_write, write, reservation callback | a reservation that arrives late | no byte lost or doubled, every write returns |
| Part bodies (`s3_part_streaming_input_stream.c`, `s3_chunk_stream.c`, `s3_checksum_*.c`) | two half buffers, load, framing, checksum | read, load, retry, destroy | loads of other threads, alignment, retries | what is sent is the part, with its checksum |
| Copy (`s3_copy_object.c`) | flags and counters of the phases; object and upload of the service | size look-up, bypass, create, copy parts, complete, abort | as the upload; five derived messages | the copy is whole; the abort is alone |
| Default meta request | one request, its bodies | send, deliver, finish | body read once, attempts many | every attempt sends the body |
| S3 Express provider | session cache, creators, refresh task | get credentials, refresh, destroy | concurrent creation, eviction, shutdown | every caller answered once, for its session |
| Paginator | state, continuation token, current request | next page | two threads, errors between pages | every page once and in order |
| Checksum algorithms, parsing, endpoint rules, platform tables | | | data rather than control | |

## The modules

```
PartRanges ──┬── PartHandout ────────────────────┐
             │                                   ├── AutoRangedProofs
             │   AutoRangedPut ──────────────────┤
             │                                   └── MCAutoRangedPut
             └── BodyDelivery ── AutoRangedGet ── MCAutoRangedGet     Download  (abstract; AutoRangedGet implements it)
BufferPool ──┬── PutPrepare ──┬── MCPutPrepare
             │                └───┬── PutPrepareProofs
             └── BufferPoolProofs ┘
ClientLifetime ── ClientLifetimeProofs

RequestAttempt ──┬── CopyObject ── CopyStepProofs ── CopyObjectProofs   (CopyObject also extends RequestMessages, PartRanges)
                 └── DefaultMetaRequest ── Paginator ── PaginatorProofs
AsyncWrite ──┐
PartStream ──┴── UploadBody ── MCUploadBody
S3ExpressProvider ── S3ExpressProviderProofs
```

**PartRanges** has the arithmetic of downloads and uploads as operators. **PartHandout** hands the parts
of one download out, for every combination of small sizes.

**BodyDelivery** has the delivery half of `s3_meta_request.c`: the variables are the fields of
`synced_data` and `io_threaded_data` under their own names, `tick` holds the locals of a running
delivery task, `writes` the write tasks. A byte of the object is a number; `sink` counts how often
each byte arrived. The delivery task is `EventTaskStart` (first critical section), one step per event,
`EventTaskEnd` (last critical section); a write task is `BodyWrite` and `BodyWriteDone`.

**AutoRangedGet** extends it with the meta request: `synced` is the `synced_data` of the GET, `inflight`
the requests handed out, `process_work` the position of the process-work task with the count of requests
in flight it last read. `s_s3_auto_ranged_get_update` is split by what it decides (`UpdateDiscover`,
`UpdateRequestPart`, `UpdateWait`, `UpdateFinish`), `s_s3_auto_ranged_get_request_finished` by outcome.
Finishing is two steps, as in the code: the result is set under the lock, `FinishDefault` comes later.
**Download** is what a download promises its user, in five variables.

**AutoRangedPut** is the multipart upload. `synced` and `part_list` are the fields of the PUT, `stage`
says where each request is (preparing, signing, queued, sent), `upload`, `stored` and `object` are the
service. A lost answer (`ResponseLost`) changes the service and nothing else. `Resume` starts a second
meta request with the token of the first.

**BufferPool** is the default pool. The record `pool` has its counters and blocks; every operation on it is
one critical section of its mutex. `ticket` and `future` belong to a reservation: `Reserve` grants, queues
or fails it, `Claim` turns reserved memory into a buffer, `Destroy` gives the memory back, drops pending
reservations whose futures have failed and serves the rest from the head. Futures are completed after the
mutex is released (`Complete`), so a cancel can come first (`FailFutures`). Sizes are small numbers; the
chunk and block counts are constants. **PutPrepare** is the client's side of it
(`s_acquire_mem_and_prepare_request`, `s_on_pool_buffer_reserved`): a request is handed out, reserves,
registers its callback, and is prepared on the event loop of its meta request, in part order if it belongs
to a sequential upload (`Drained`). An entry of a queue that is drained by force is failed by a step of its
own (`FailDrained`).

**ClientLifetime** is about who holds what: the user, meta requests, requests, connections and endpoints,
the process-work task (`worker`), the clean-up task, `s_s3_client_start_destroy` on the thread of whoever
drops the last reference (`destroyer`), and the shutdown callbacks. What a meta request does is reduced to
handing out requests, getting a result, perhaps aborting, and finishing.

**RequestAttempt** is what happens to one request between `update` and `finished_request`: the prepare
task, signing (plain, or with S3 Express credentials from the user's own provider or the client's), the wait
for a connection, the HTTP stream, the verdict on the response, retry or end. `req` maps a request to its
stage and fields. `SendRequest` checks the result and lists the stream in one critical section, as the code
does, and `Cancel` tells every stream that is listed. Copy and default meta request extend it: they say what
preparing and consuming a request does.

**CopyObject** is the copy. `copy` has the flags and counters of `struct aws_s3_copy_object`; `service` is
the destination: an object and an upload with the bytes its parts cover. The service does what the request's
*message* asks, not what the copy meant: a wrong range, a missing upload id or a part list with a gap has its
consequences. **RequestMessages** derives the five messages of a copy from the user's request. A header is a
class of header names that every builder treats alike.

**DefaultMetaRequest** is the one-request meta request, with the four kinds of body a caller can give it,
checksum validation and the delivery of the response. **Paginator** makes one for each page of a listing:
`aws_s3_paginator_continue` is split where another thread can come in between (`pc` has the calls in
progress), because `on_page_finished` may ask for the next page before the store of the previous request. Its two
error paths differ: without a message (`NextMessageFails`) the state stays "initiated", without a meta request
(`MakeRequestFails`, then `StoreNoRequest`) it becomes "error".
With `mode = "plain"` the same module checks the default meta request by itself.

**S3ExpressProvider** is the credentials provider. The cache is a sequence of sessions in LRU order, `table` the
creators in flight; a creator that has left the table and still has callbacks to make is in `finishing`.
Time is a small clock. A refresh takes the client's credentials from memory or asks another provider for
them, and then runs under one lock, with all its early exits.

**AsyncWrite** is the API that pushes a body: a `write` is a job that calls `poll_write` until its data is
taken. A pool may grant the buffer at once or later (`aw.future`), and in between the upload can fail, finish
or be destroyed. **PartStream** is the double-buffered reading of a part from a file. A load is pending until
a file thread ends it; the stream that is destroyed meanwhile becomes one of `orphans`. **UploadBody** joins
the two: a part is wrapped for its checksum, pulled by the HTTP library in pieces of any size, and sent again
after a failure with the same ticket and the same checksum context. A checksum is the sequence of bytes it was
computed over, so a stale or partial one is seen.

Abstractions common to all: payloads and headers are left out unless a property is about them; every request
may fail; outside of `RequestAttempt` and `UploadBody` a request that is retried stays the same request; the
retry strategy, the connection manager, the event loops and `aws_ref_count` are libraries, modelled by how the
code uses them.

## What the runs check

Run a configuration with `tlc -config X.cfg M`; module and configuration of each run are in
`PROJECT.json`.

| Run | Shows |
|---|---|
| `part_handout` | parts tile the range; the spread rotates over its regions; an upload split respects the part limit |
| `get_delivery` | every way of discovering an object, with ranges, hints, receive buffers, checksums and empty objects, then delivery to a callback under a read window, in order and out of order, and to a file: every byte once, in order where promised, within the window; a body is put back only when the window is used up; a token never claims too much; the counters `update` waits on account for every body; nothing runs after the finish; no internal check fails (with the exception named below); `AutoRangedGet` implements `Download` |
| `get_liveness` | with a reader that keeps opening the window every download gets a result, and one not held back by a window finishes, also where the estimate of the bytes asked for is at first too high |
| `put_upload` | uploads of known and unknown length and resumed ones: the object is the whole body, success means object, failures abort, pauses keep the parts, a body that differs from what was uploaded never becomes an object, reads are counted, nothing runs after the finish, and every upload finishes |
| `put_prepare` | the pool's limit, counters and blocks under concurrent reserve, claim, destroy, trim and cancel; uploads are prepared in part order; no ticket is lost; every part is served unless the pool is wedged |
| `client_lifetime` | endpoints outlive their holders, counts are exact, the client is freed only when quiet, and an abandoned client is freed |
| `copy` | small and large copies with failures, retries, lost answers, errors inside a 200 response and cancel: the copy is whole, success means the object exists, a failure aborts, the abort goes out alone, progress is complete, each header is on the messages it belongs to and no other, no message makes the service refuse a request; a cancel reaches every open stream; every copy ends |
| `listing` | pages come one at a time, in order; a completed listing is whole (or a page did not parse, see below); the paginator outlives its requests and gives every one back, none twice; a default request sends its body in every attempt, delivers only what is intact, reports success only after delivery, and ends |
| `express` | creators and sessions agree; a caller is queued once and answered once, with credentials of its own session; a session in use is refreshed; the provider is freed once, when nothing uses it; everyone is answered, also by a provider being destroyed |
| `upload_body` | a buffer ticket has one owner at every moment; bytes go into the parts in the order they were written; what the service accepts is the part with the checksum of these bytes, in header, trailer or review; a successful upload stores what was written; every write returns |

A checked property is often the conjunction of a few named ones about the same thing; the text below speaks of
the conjuncts where it matters:

| Run | Property | Conjuncts |
|---|---|---|
| `part_handout` | `HandoutIsSound` | `PartsTileTheRange`, `SpreadRotates` |
| `get_delivery` | `DeliveryIsExact` | `DeliveredOnce`, `OrderedIsPrefix`, `WindowRespected`, `PutBackOnlyWithoutWindow` |
| | `WorkIsAccounted` | `TypeOK`, `BodiesAccounted`, `FinishIsQuiet` |
| `get_liveness` | `DownloadEnds` | `GetsResult`, `Terminates` |
| `put_upload` | `ObjectIsTheBody` | `ObjectIsWhole`, `MismatchNeverCompletes` |
| | `SuccessIsReal` | `SuccessMeansObject`, `SuccessClosesUpload` |
| | `UploadLeftAsAsked` | `FailureAborts`, `PauseKeepsParts` |
| | `WorkIsAccounted` | `TypeOK`, `ReadsCounted`, `FinishIsQuiet` |
| `put_prepare` | `BooksBalance` | `LimitRespected`, `CountersExact` |
| | `TicketsHoldTheirMemory` | `TypeOK`, `TicketsOwned`, `BuffersDisjoint`, `SpecialListStays` |
| `express` | `CacheIsConsistent` | `TypeOK`, `CreatorTracksSession` |
| | `EachCallerItsAnswer` | `AnswerIsForTheCaller`, `QueuedOnce` |
| `copy` | `CopyIsReal` | `TypeOK`, `CopyIsWhole`, `SuccessMeansCopied`, `ProgressIsComplete` |
| | `WindsDown` | `AbortIsAlone`, `FinishIsQuiet` |
| | `MessagesFit` | `HeadersReachTheirRequest`, `NoFailureOfItsOwn` |
| `listing` | `BodiesIntact` | `DeliveredIsIntact`, `SuccessWasDelivered`, `EveryAttemptSendsTheBody` |
| | `ListingIsExact` | `OnePageAtATime`, `ListingIsPrefix`, `CompletedIsWhole` |
| | `ReferencesKept` | `PaginatorOutlivesItsRequest`, `RequestsReleased` |
| | `RequestIsQuiet` | `TypeOK`, `StoppedStreamsTold`, `FinishIsQuiet` |
| `upload_body` | `BufferHandedOver` | `TypeOK`, `TicketHasOneOwner`, `WrittenInOrder` |
| | `BodyIsThePart` | `SentBodyIsThePart`, `SuccessStoresWhatWasWritten` |

The type invariant of `ClientLifetime` is proved (below).

Deadlock is not checked: a finished meta request, a freed client or provider and an idle pool are where these
systems stop.

### Where code and documentation disagree

Two runs check what a comment or the documentation says and find that the code does otherwise; the
quotations are under `findings` in `PROJECT.json`.

| Run | What happens |
|---|---|
| `put_false_success` | resuming an upload that failed with all parts "completed", and was therefore aborted, reports success without an object |
| `part_stream_retry` | a retried part that is streamed from a file gets a new stream over the same buffer while a load of the old stream is pending; the load overwrites a half that is being sent, and the checksum of the wrong bytes goes with them |

More observations are part of the models, as exceptions that the properties name or as behaviours they allow.

Downloads and uploads:

* A cancelled or paused download with a body waiting for the read window finishes only when the caller opens
  the window (`s3_meta_request.c:3655`, `3819`); `GetsResult` has the reader as its hypothesis.
* A size hint above the size of the object's first stored part fails an out-of-order download with
  `AWS_ERROR_INVALID_STATE`; `NoInternalError` excepts it.
* A pause accepted after the finish of a download is never answered (`s3_meta_request.c:920`).
* With an initial window of 0 the discovery request of a download is sent all the same.
* A resumed upload paused while ListParts is in flight finishes with that request in flight
  (`s3_auto_ranged_put.c:808`); `FinishIsQuiet` excepts it.
* A part of a stopped upload that gets its buffer after the ordered queue was drained by force stays in the
  queue with its memory (`s3_client.c:2599`); `EveryPartServed` excepts stopped uploads.
* The pool grants a small reservation while larger ones are pending. If an upload's small last part is
  served before an earlier part, the ordered queue keeps its buffer until the earlier part is served, which
  a pool with part sizes near the limit may never have room for: `Wedged`, the exception in
  `EveryPartServed`. It is reached in `put_prepare` without any cancel.
* The end of the last request releases the request, and with it perhaps the client, before it locks the client
  (`s3_client.c:3291`, `3305`).
* The load after a last load that was rounded up to whole pages wraps a `size_t` and reads once more, without
  harm (`PartStream`).

Copy:

* A cancel while the HEAD or the bypassed copy is in flight finishes the meta request before them
  (`s3_copy_object.c:285`); the exception in `FinishIsQuiet`.
* Progress reports a whole part for the shorter last part; `ProgressIsComplete` says so.
* The abort is not retried, since a result is set by then: `FailureAborts` speaks of an abort that was sent.

Listing:

* A page whose XML does not parse is dropped without an error and ends the listing as completed
  (`CompletedIsWhole` excepts it).
* The store of a request that ended before its store overwrites a newer one, whose reference is lost
  (`RequestsReleased` excepts it).
* When no request can be made for a page, the paginator's reference to itself stays.
* When not even the message of a page can be made, the paginator stays "initiated", with no request to come: no
  later call of `aws_s3_paginator_continue` is let through (`s3_paginator.c:399`, `411`-`436`).

S3 Express provider:

* A session of other credentials ends the round of the refresh for all sessions behind it;
  `UsedSessionIsRefreshed` is stated for caches without one, so it says nothing of that early exit
  (`s3express_credentials_provider.c:826`-`838`).
* The query for the original credentials holds no reference on the provider; `FreedWhenUnused` is stricter where
  the credentials are given directly.

### Bounds

* Downloads: delivery on an object of 5 bytes in parts of 2, liveness on objects of 4 and 5 bytes, so that there are
  two or three parts, a short last part whose size the estimate of the bytes asked for does not know, and parts cut
  by the window (for liveness closed at first, and opened up to `MaxWindow`); the other ways of discovering on objects of at
  most 3 bytes, in parts of 1 or 2, uploaded in parts of 1, 2 or 3 (`ObjectBound` keeps the two apart). Two
  requests in flight let requests overtake each other; `ConservativeMax` = 1 lets the conservative pass hold
  back. `MaxWindow` (the user opens the window no further) is the object's size. The regions of the spread are
  checked by `part_handout`.
* Uploads: two or three parts (none or one with unknown length), two pending reads, so that a read can run
  ahead of another and past the end; one resume.
* Pool: a limit of eight units, blocks of three chunks of two units, so that a block is shared and left over,
  and buffers of one unit (secondary), two to four (primary) and five to nine (secondary, special, or too
  large). Four loads of four or five requests: an upload with a small last part beside a download; an upload
  whose first part nearly fills the pool beside a download; two downloads of one special size beside a forced
  buffer; a small download beside forced buffers, of which two exceed their share and one the limit.
* Lifetime: two meta requests on one host with two endpoints, so that an endpoint can be cleaned up and made
  anew while the other meta request is at work; one request at a time and one connection. No symmetry is used,
  since the run also checks liveness.
* Copy: sources of 2 bytes (bypassed) and 5 bytes (two parts, the last shorter), one retry, two failures of any
  kind in a behaviour; `InitialHeaders` has a request with every header but the owner, one with the owner of the
  destination, and one without a source.
* Listing: three pages, so that there is one that is neither first nor last; one retry, two failures.
* Provider: one host beside the empty one, two credentials, two callers at a time, a cache of one or two sessions
  (with one, every session of the other credentials evicts), lifetimes and clock such that a session is seen
  fresh, about to expire and expired.
* Part bodies: parts of 2 bytes, three bytes in three writes, the last empty or not; six streamed parts of a
  file of 7 bytes that begin on a page or not, end before, at or past the end of the file, and take one load,
  several, or one that is rounded up; reads of 1 or 3 bytes; one retry.
* `PartHandout`: all ranges of up to 9 bytes that start at byte 0 or 3, part sizes up to 4, up to 4 regions, 3 upload
  parts. The proofs lift the bounds.

### Fairness

Weak fairness of the tasks and of the ends of requests: event loops run what is scheduled on them, an HTTP
stream completes or times out, a preparation ends. Uploads and shutdown assume it of each request; downloads
(`SomeRequestEnds`) and `PutPrepare` (`Work`) only that some due step is taken, which is enough because a
request takes each step once. Shutdown also assumes that a request is not retried for ever
(`SF` on `CountFinished`): the retry strategy limits attempts. `DiligentReader`, an assumption on the
caller, is the hypothesis of `GetsResult`; without it a closed window holds a download back by design. Copy,
listing and part bodies assume only that some due step of the system is taken (one `WF` on `Step` or
`SystemStep`): retries and failures are bounded by their constants, as the retry strategy bounds them, so no
request can keep another from its turn for ever. The provider assumes that a CreateSession call ends, that its
callbacks run and that the clean-up task runs; nothing is assumed of the clock or the refresh. Nothing is assumed of
cancel, pause, resume or release, nor that a user writes or asks for another page.

## What is proved

### Client and endpoints

`ClientLifetimeProofs` proves, for any finite sets of meta requests, requests and endpoints, any hosts and
any limits (`LifetimeAssumption`: the sets are finite and their elements can be told apart):

* `TypeCorrect`: `Spec => []TypeOK`
* `EndpointsOutliveHolders`: `Spec => []HeldEndpointIsOpen`
* `ReferencesCounted`: `Spec => []RefCountExact`
* `FreedIsQuiet`: `Spec => []FreedWhenQuiet`

None of the last three is inductive. `HeldEndpointIsOpen` needs the count: the clean-up task takes
endpoints whose `ref_count` is 0, so a held endpoint survives because the count is exact. The exact count
needs to know which requests have a connection and that their meta request still has its endpoint
(`StageInv`, `MetaInv`): a connection copies the pointer of its meta request. `FreedWhenQuiet` needs to know
what `finish_destroy` does not look at: that a client whose last reference is gone has no meta request, that
every endpoint in the table is open and counted by `num_endpoints_allocated` (`TableNamesOpen`,
`AllocatedExact`), and that the clean-up task, once the client is inactive, runs before the last
process-work task (`DestroyInv`). `Inv` is the conjunction; `Invariance` proves it action by action.
Cardinalities are handled by lemmas about how a count changes when one entry of a function changes
(`PointersTo`, `Moves`, `Change`).

### Uploads

`AutoRangedProofs` (its first part) proves, for any set of options, any number of parts and any limit on parts waiting to be read
(`PutAssumption`: reads past the end of the body stay within the parts of the model), with pause, cancel, lost answers and one resume anywhere:

* `UploadedObjectIsTheBody`: `Spec => []ObjectIsTheBody`
* `UploadSuccessIsReal`: `Spec => []SuccessIsReal`
* `UploadIsLeftAsAsked`: `Spec => []UploadLeftAsAsked`
* `UploadWorkIsAccounted`: `Spec => []WorkIsAccounted`

`s_s3_auto_ranged_put_update` decides by phases and counters and never looks at the requests or the service, so the
inductive invariant `IInv` says what these mean. `PhaseInv`: the state of a phase tells where its request is.
`CountInv`: started parts are numbered without a gap, and the completed ones are counted, failed and skipped ones
included. `ReadInv`: while the upload goes on, the parts still to be read are the last ones started, so a body of
unknown length is seen to end only after all of it was read. `PartInv(n)` ties the entry of a part in `part_list` to
what the service stored and to the request of the part. `CompleteInv` then follows when the complete request is made,
and has to be kept until it is executed: every part of the body is listed and stored, and nothing can be added.
`ServiceInv` is what the client knows of the upload, and `EndInv` what a finished meta request has left behind.

### Buffer pool and preparation

`PutPrepareProofs` (with the lemmas of `BufferPoolProofs`) proves, for any memory limit, chunk and block size, any
finite set of requests of any sizes, any number of uploads, downloads and writes, and with cancels, trims and optimized
pools anywhere (`PoolAssumption`, `PrepareAssumption`: a block fits in the limit, a buffer is not empty, and the parts
of a meta request have numbers of their own):

* `PoolBooksBalance`: `Spec => []BooksBalance`, that is `LimitRespected` and `CountersExact`
* `TicketsKeepTheirMemory`: `Spec => []TicketsHoldTheirMemory`, that is `TypeOK`, `TicketsOwned`, `BuffersDisjoint`
  and `SpecialListStays`
* `PartsPreparedInOrder`: `Spec => []PreparedInOrder`
* `PrepareInvariant`: `Spec => []Inv`, the invariant behind them

`s_try_reserve_synced` decides by counters, and a release finds its memory by a block or a list that a trim may have
freed. `Books(p, t)` is what a pool and the tickets of its users have to do with each other. `Counted`: each counter is
the sum of the sizes over one set of tickets. `Shelves` and `Numbered`: the lists and blocks have distinct numbers and
make up the bytes allocated. `InBlocks` and `InLists`: a claimed ticket finds its block or list, its chunks marked
used, and shares them with no other. `BufferPoolProofs` shows that each operation keeps it. A sum is a fold whose order
its definition leaves open, so the sums come with laws of their own (`SumIsFold`, `SumOneMore`), proved by induction on the
size of sets. A release that serves the queue behind it is a walk over a list of any length: `ServedIsAWalk` gives the
recursive function step by step, `ServeOne` what one turn keeps, and `Resumes` what the whole release does to pool,
tickets, queue and captured futures.

`Holders0` says who has a ticket and who waits for one: a pending reservation and a captured one are in one place only,
a captured one has its ticket already, and a ticket belongs to a request that is not done or is captured and will be
destroyed. This is where a cancel that fails a future between the capture and `Complete` is accounted for. `LoopInv`: the
event loop of a meta request has each callback once and only for requests that wait with a completed future.
`OrderInv`: `next_put_part_to_prepare` divides the parts of a sequential upload into those that were prepared and those
that were not, also across a batch that is drained at once (`DrainedParts`). Each layer is kept by every action given
the ones before it.

### Copy

`CopyObjectProofs` (with the lemmas of `CopyStepProofs`) proves, for a source of any length, any part size and number
of parts, any headers, and any number of retries and failures (`CopyAssumption`, `RetryAssumption`: the constants are
numbers of the right sign and the headers are known classes):

* `CancelReachesEveryStream`: `Spec => []StoppedStreamsTold`
* `CopyWindsDown`: `Spec => []WindsDown`, that is `AbortIsAlone` and `FinishIsQuiet`
* `CopiesAreReal`: `Spec => []CopyIsReal`: a stored object is the whole source, and success means it is there
* `FailedCopiesAbort`: `Spec => []FailureAborts`
* `CopyMessagesFit`: `Spec => []MessagesFit`

The first rests on the result: a cancel sets one and tells the listed streams in one critical section, and
`SendRequest` finds the result under the same lock, so no stream opens afterwards. `StopInv` adds that to the
property. Since `RequestAttempt` is shared, the argument has one lemma per stage of a request.

`AbortIsAlone` and `FinishIsQuiet` are about what `s_s3_copy_object_update` does *not* look at: it decides by
flags and by the two counters of parts sent and completed, never by the requests themselves. `QuietInv` relates
the two. `FlagsInv`: the phase of a request in flight is "sent", so a phase that is not has no
request. `PartsInv`: the part copies in flight are as many as the difference of the counters. `OrderInv`: parts are
only sent after the create is done, the complete request only when all parts are, and the abort only with a result
and when all that has ended. `CopyType` is the part of the types it needs.
The proof that a step preserves `QuietInv` has one lemma per decision of `update` and one for each kind of
request that ends; all stages between leave the set of requests alone and share one lemma.

The other three need the messages and the service (`CopyInv`). `MessageInv`: a message is what its builder would make
of the copy now, since nothing it is built from changes while it may be sent. `PlanInv` relates upload id, ETags and
result; `ServiceInv` says that a stored part is the range the copy cut for its number, so that the parts of an upload
with every ETag cover the source (`CutFits`, `PartsCover`: the arithmetic of the split). `ProgressInv`: what was reported and
what waits to be reported add up to the part size for every ETag; the sum over the waiting events is a fold, whose
laws (`SumExists`, `SumUnique`, `SumOneMore`, `SumAppend`) are proved by induction on sets of numbers
(`SetInduction`). `CleanInv`: without a failure nothing the copy itself does makes the service refuse a request.
The invariants were also checked by TLC on the instance of the run `copy`.

### Default request and listing

`PaginatorProofs` proves, for any number of pages, retries and failures, and for a
default meta request used by itself (`PagesAssumption`, `RetryAssumption`):

* `DefaultBodiesIntact`: `Spec => []BodiesIntact`
* `DefaultRequestIsQuiet`: `Spec => []RequestIsQuiet`
* `PaginatorReferencesKept`: `Spec => []ReferencesKept`
* `ListingExact`: `Spec => []ListingIsExact`

`RequestInv` is about one meta request: how often its request was prepared and what that attempt sends (`AttemptInv`),
the two flags and the two delivery counters (`DefaultInv`), and what was delivered and reported when it ends
(`DeliveryInv`). A page is a new meta request, so `RequestInv` holds anew with each one. The paginator adds `CallInv`
(where the two threads in `aws_s3_paginator_continue` are, and that `operation_state` is "initiated" while a page is
on its way), `ListInv` (what the user has seen, at each of these places) and `RefInv` (who holds the paginator, and
where the reference to every request went; `HeldOnce`: to one place, so that none is given up twice). `CompletedIsWhole` follows from `ListInv` because the continuation token
only moves together with the entries seen.

### S3 Express provider

`S3ExpressProviderProofs` proves, for any finite sets of hosts and credentials, any callers, cache capacity, thresholds,
refresh interval and session lifetimes (`ProviderAssumption`):

* `CacheConsistent`: `Spec => []CacheIsConsistent`
* `AnswersAreExact`: `Spec => []EachCallerItsAnswer`
* `FreedOnlyWhenUnused`: `Spec => []FreedWhenUnused`
* `UsedSessionsAreRefreshed`: `Spec => UsedSessionIsRefreshed`, an action property
* `ProviderInvariant`: `Spec => []IInv`, the invariant behind them

`DataInv` is what the lock protects: the LRU list has each session once and within the capacity, and a session and
its creator point at each other. `QueueInv` says where a caller waits: on the creator of its key in the table, or on
one that has left it with credentials of that key or an error, and on one only. `RefInv` says what `internal_ref` counts: the background task
until it is cleaned up, the creators in the table and those with callbacks to invoke; the provider is freed exactly
when it is 0. `TaskInv` is the refresh task; with credentials given directly it is gone once it is cleaned up. The
first three properties follow from the conjunction, which is inductive.

Three operations walk the list: eviction and expiry remove from it, `CacheClear` empties it and a refresh round visits
all of it while it removes and adds creators. Their effect on a list of any length is proved by induction on the
position (`UpTo`, from the well-foundedness of the natural numbers): `RefreshedIsAWalk` and `ClearIsAWalk` give the recursive
function of the walk step by step, `RefreshEffect` says what one turn keeps, and `RefreshedEffect` what a round keeps,
from which `UsedSessionsAreRefreshed` follows.

### Part ranges

`AutoRangedProofs` (its second part) proves, for ranges at any offset and of any length, any part size and first part size, any
number of connections and any part limit (`HandoutBounds`: the sizes are positive):

* `HandoutTilesAndRotates`: `HandoutSpec => []HandoutIsSound`, that is `PartsTileTheRange` and `SpreadRotates`
* `UploadSplitFits`: `HandoutSpec => []MpuSplitFits`
* `HandoutInvariance`: `HandoutSpec => []HandoutInv`, the invariant behind the first

What was handed out determines neither the next part nor that none is missing at the end. `HandoutInv` therefore
gives the i-th part in closed form (`PartAt`), and three groups of lemmas say what that form means. `CeilDivFits`,
`PartsAreContiguous`, `PartsAreDisjoint` and `PartsCover`: part n ends where part n + 1 starts, and the quotient that
`NumParts` rounds up is the part the last byte lies in. `RegionStartClosed`, `RowAndRegion`, `RegionIsUnique`: the
spread arranges the parts left in a grid of regions and rows, whose last row only reaches the larger regions.
`CellInRegion`, `CellOrder`, `CellOnto`: hand-out k lies in region k modulo the number of regions, a region is read
front to back, and every cell of the grid is reached. The numbers are mathematical integers: the code has offsets of 64
and part numbers of 32 bits, and the theorems speak of ranges for which neither wraps. TLC checked `HandoutInv` on the instance of the run `part_handout`.

### Model-checked only

All liveness (`DownloadEnds`, `Terminates`, `ShutdownCompletes`, `EveryPartServed`, `EveryRequestEnds`,
`EveryoneIsAnswered`, `EveryWriteReturns`): fairness and `ENABLED` are beyond the prover. The refinement of
`Download` and the invariants of downloads and of part bodies: these models fold over queues
and sequences of bytes, and their proofs are still to be written.

## What is not modelled

* The checksum algorithms, the parsing of headers and XML, metrics and logging, the base64 and hex encodings:
  data, of which only the verdict (a request fails, a checksum differs, a page does not parse) appears.
* The messages of downloads, plain uploads and listings: unlike those of a copy they are the user's message with
  a range or a part number set, and the modules have these fields in their requests.
* The endpoint rule set and partitions (generated literals), the resolver (a wrapper around a library), the
  platform tables and the initialisation of the library (no state that changes).
* The order of the client's request queue, the connection weights and the upload part timeout: they choose among
  behaviours that the models allow anyway.
* Pools and file systems supplied by the user: a pool appears in `AsyncWrite` by when it grants a buffer, a file
  reader by when a load ends.
* The list of parts handed to the upload review callback.
* A download into a buffer that the caller allocated takes its memory there, not from the pool
  (`s3_default_buffer_pool.c:829`-`832`); the pool's books do not change.
* Errors that join a path the models have: a part that starts before the requested range
  (`s3_client.c:2685`-`2702`, like a reservation that fails), a stream over a part that cannot be made
  (`s3_part_streaming_input_stream.c:307`-`333`, like a preparation that fails). A part size above `SIZE_MAX` in a copy
  (`s3_copy_object.c:399`-`408`) is impossible with 64 bits.

Steps that are coarser than the code, where the finer ones commute with those of every other thread:

* `AutoRangedPut` reads the body in part order; that the preparation sees to this order is `PreparedInOrder`.
* `ClientLifetime` lets a connection go, or keeps it for a retry, in one step with the reference on the client that
  the acquisition kept (`s3_client.c:3130`-`3137`), which the request's own references outlast.
* `UploadBody` has one part at a time on a connection: parts share no state but the pool.
* `Paginator` takes the previous request, releases it and makes the next one in one step: only one call at a time
  gets there, and a late store of another call in between ends as one right after them. The store is a step of its
  own.

## Open work

* Proofs of downloads: `DeliveryIsExact`, `TokenNeverOverstates` and the refinement of `Download` for every object and
  part size (the folds over queued bodies need a step-wise formulation first), and of `BodyIsThePart`.
* An abstract `Upload` that `AutoRangedPut` and `CopyObject` implement.
