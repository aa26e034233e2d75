--------------------------- MODULE ClientLifetime ---------------------------
(***************************************************************************)
(* How long a client and its endpoints live (s3_client.c, s3_endpoint.c).  *)
(* A client is reference counted by its user, by every meta request and,   *)
(* for a while, by a request that acquires an HTTP connection. Dropping    *)
(* the last reference starts its destruction; the process-work task frees  *)
(* it once everything that shuts down asynchronously has done so.          *)
(* An endpoint is counted by its meta requests and connections; the client *)
(* caches it in a table from which the clean-up task, or the last release  *)
(* when the client is going away, takes it out.                            *)
(*                                                                         *)
(* Threads: the user; the event loop of the process-work task, called      *)
(* "worker" here, which also runs the endpoint clean-up task; the threads  *)
(* that prepare requests and drive connections, one per request here; the  *)
(* shutdown callbacks. The behaviour ends where the client's memory is     *)
(* freed. aws_ref_count, which counts the references to clients and meta   *)
(* requests, is not part of this repository: its count is the number of    *)
(* holders, and it calls back on the thread that drops the last one.       *)
(***************************************************************************)
EXTENDS Integers, FiniteSets

CONSTANTS
    MetaRequest,    \* meta requests the user may make
    Request,        \* requests that can exist at a time
    Host,           \* hosts the meta requests are sent to
    Endpoint,       \* endpoints that can be created
    None,           \* no endpoint, no host, no meta request
    MaxConnections, \* aws_s3_client_get_max_active_connections
    MaxInFlight     \* aws_s3_client_get_max_requests_in_flight

ASSUME LifetimeAssumption ==
    /\ IsFiniteSet(MetaRequest)
    /\ IsFiniteSet(Request)
    /\ IsFiniteSet(Endpoint)
    /\ MetaRequest \cap Request = {}
    /\ None \notin Endpoint \cup Host \cup MetaRequest
    /\ {"user", "worker", "nobody"} \cap Request = {}

Resource == {"body_streaming_elg", "file_io_elg", "s3express_provider"}

VARIABLES
    active,                             \* synced_data.active
    user_holds,                         \* the user's reference to the client
    start_destroy,                      \* how far s_s3_client_start_destroy is
    destroyer,                          \* whose thread runs it
    allocated,                          \* the ..._allocated and ..._active flags that are set
    endpoints_cleanup_task_scheduled,
    process_work_task_scheduled,
    worker,                             \* where the process-work task is
    visited,                            \* meta requests it is done with in this run
    seen,                               \* the number of requests in flight it last read
    freed,                              \* finish_destroy
    endpoints,                          \* the table: host to endpoint
    phase,                              \* of each endpoint
    host,                               \* its host_name
    ref_count,                          \* its client_synced_data.ref_count
    num_endpoints_allocated,
    listed,                             \* where the client keeps each meta request
    result,                             \* has it a finish result, and then what?
    user_holds_meta,                    \* the user's reference to it
    meta_endpoint,                      \* meta_request->endpoint
    stage,                              \* how far each request is
    owner,                              \* its meta_request
    connection_endpoint,                \* connection->endpoint
    keeps_client                        \* it holds a reference to the client

clientVars == <<active, user_holds, start_destroy, destroyer, allocated>>
workVars == <<endpoints_cleanup_task_scheduled, process_work_task_scheduled, worker, visited, seen, freed>>
endpointVars == <<endpoints, phase, host, ref_count, num_endpoints_allocated>>
metaVars == <<listed, result, user_holds_meta, meta_endpoint>>
requestVars == <<stage, owner, connection_endpoint, keeps_client>>
vars == <<clientVars, workVars, endpointVars, metaVars, requestVars>>

Init ==
    /\ active = TRUE
    /\ user_holds = TRUE
    /\ start_destroy = "no"
    /\ destroyer = "nobody"
    /\ allocated = {"body_streaming_elg", "file_io_elg"}
    /\ endpoints_cleanup_task_scheduled = FALSE
    /\ process_work_task_scheduled = FALSE
    /\ worker = "idle"
    /\ visited = {}
    /\ seen = 0
    /\ freed = FALSE
    /\ endpoints = [h \in Host |-> None]
    /\ phase = [e \in Endpoint |-> "unused"]
    /\ host = [e \in Endpoint |-> None]
    /\ ref_count = [e \in Endpoint |-> 0]
    /\ num_endpoints_allocated = 0
    /\ listed = [m \in MetaRequest |-> "unused"]
    /\ result = [m \in MetaRequest |-> "none"]
    /\ user_holds_meta = [m \in MetaRequest |-> FALSE]
    /\ meta_endpoint = [m \in MetaRequest |-> None]
    /\ stage = [r \in Request |-> "unused"]
    /\ owner = [r \in Request |-> None]
    /\ connection_endpoint = [r \in Request |-> None]
    /\ keeps_client = [r \in Request |-> FALSE]
-----------------------------------------------------------------------------
\* Stages in which a request still has to be reported to its meta request,
\* and those in which it holds a reference to it.
Unfinished == {"preparing", "prepared", "queued", "connecting", "acquiring", "open", "counted"}
Holding == Unfinished \cup {"reported"}

MetaHeld(m) ==
    \/ user_holds_meta[m]
    \/ listed[m] \in {"pending", "threaded", "finished"}
    \/ \E r \in Request : owner[r] = m /\ stage[r] \in Holding

\* stats.num_requests_in_flight and stats.num_requests_network_io
InFlight == {r \in Request : stage[r] \in Unfinished \ {"counted"}}
OnNetwork == {r \in Request : stage[r] \in {"connecting", "acquiring", "open"}}

ClientHeld ==
    \/ user_holds
    \/ \E m \in MetaRequest : MetaHeld(m)
    \/ \E r \in Request : keeps_client[r]

\* A thread that dropped the last reference runs s_s3_client_start_destroy
\* before anything else. Nothing happens to a client that is freed.
MayRun(thread) ==
    /\ ~freed
    /\ destroyer = thread => start_destroy = "done"

\* The thread drops a reference to the client or to a meta request (which
\* drops its own to the client when destroyed).
DropsReference(thread) ==    \* stated last, for it reads the new state
    destroyer' = IF ~ClientHeld' THEN thread ELSE destroyer

\* aws_s3_meta_request_set_fail_synced, _set_success_synced: the first result
\* counts. A multipart upload that fails is then aborted.
SetResult(m) ==
    \E next \in {"to_abort", "final"} :
        result' = [result EXCEPT ![m] = IF @ = "none" THEN next ELSE @]

\* s_s3_client_schedule_process_work_synced
ScheduleProcessWork == process_work_task_scheduled' = TRUE

\* aws_s3_endpoint_release: the critical section and, if the client is going
\* away, aws_s3_endpoint_destroy of an endpoint nobody can reach any more.
ReleaseEndpoint(e) ==
    LET should_destroy == ref_count[e] = 1 /\ ~active
    IN  /\ endpoints' = IF should_destroy THEN [endpoints EXCEPT ![host[e]] = None] ELSE endpoints
        /\ ref_count' = [ref_count EXCEPT ![e] = @ - 1]
        /\ phase' = IF should_destroy THEN [phase EXCEPT ![e] = "closing"] ELSE phase
        /\ UNCHANGED <<host, num_endpoints_allocated>>

\* Mutant: the task does not look at the reference counts.
CleanupReferenced ==
    /\ endpoints_cleanup_task_scheduled' = FALSE
    /\ endpoints' = [h \in Host |-> None]
    /\ phase' = [e \in Endpoint |-> IF \E h \in Host : endpoints[h] = e THEN "closing" ELSE phase[e]]
    /\ ScheduleProcessWork
    /\ UNCHANGED <<host, ref_count, num_endpoints_allocated>>

\* s_s3_endpoints_cleanup_task, on the worker's thread.
RunCleanup ==
    LET unreferenced == {e \in Endpoint : ref_count[e] = 0 /\ \E h \in Host : endpoints[h] = e}
    IN  /\ endpoints_cleanup_task_scheduled' = FALSE
        /\ endpoints' = [h \in Host |-> IF endpoints[h] \in unreferenced THEN None ELSE endpoints[h]]
        /\ phase' = [e \in Endpoint |-> IF e \in unreferenced THEN "closing" ELSE phase[e]]
        /\ ScheduleProcessWork
        /\ UNCHANGED <<host, ref_count, num_endpoints_allocated>>
-----------------------------------------------------------------------------
\* aws_s3_client_make_meta_request for host h, with S3 Express signing or not;
\* e is the host's endpoint or a new one.
MakeMetaRequest(m, h, e, express) ==
    /\ MayRun("user")
    /\ user_holds
    /\ listed[m] = "unused"
    /\ allocated' = IF express THEN allocated \cup {"s3express_provider"} ELSE allocated
    /\ IF endpoints[h] = None
       THEN /\ phase[e] = "unused"
            /\ endpoints' = [endpoints EXCEPT ![h] = e]
            /\ phase' = [phase EXCEPT ![e] = "open"]
            /\ host' = [host EXCEPT ![e] = h]
            /\ ref_count' = [ref_count EXCEPT ![e] = 1]
            /\ num_endpoints_allocated' = num_endpoints_allocated + 1
       ELSE /\ e = endpoints[h]
            /\ ref_count' = [ref_count EXCEPT ![e] = @ + 1]
            /\ UNCHANGED <<endpoints, phase, host, num_endpoints_allocated>>
    /\ meta_endpoint' = [meta_endpoint EXCEPT ![m] = e]
    /\ user_holds_meta' = [user_holds_meta EXCEPT ![m] = TRUE]
    /\ listed' = [listed EXCEPT ![m] = "pending"]
    /\ ScheduleProcessWork
    /\ UNCHANGED <<active, user_holds, start_destroy, destroyer, endpoints_cleanup_task_scheduled,
                   worker, visited, seen, freed, result, requestVars>>

\* aws_s3_client_make_meta_request fails after it has created the provider;
\* nothing else of it remains.
MakeMetaRequestFails ==
    /\ MayRun("user")
    /\ user_holds
    /\ allocated' = allocated \cup {"s3express_provider"}
    /\ UNCHANGED <<active, user_holds, start_destroy, destroyer, workVars, endpointVars, metaVars,
                   requestVars>>

\* The user releases a meta request, or the client.
ReleaseMetaRequest(m) ==
    /\ MayRun("user")
    /\ user_holds_meta[m]
    /\ user_holds_meta' = [user_holds_meta EXCEPT ![m] = FALSE]
    /\ UNCHANGED <<active, user_holds, start_destroy, allocated, workVars, endpointVars, listed,
                   result, meta_endpoint, requestVars>>
    /\ DropsReference("user")

\* aws_s3_meta_request_cancel
Cancel(m) ==
    /\ MayRun("user")
    /\ user_holds_meta[m]
    /\ SetResult(m)
    /\ ScheduleProcessWork
    /\ UNCHANGED <<clientVars, endpoints_cleanup_task_scheduled, worker, visited, seen, freed,
                   endpointVars, listed, user_holds_meta, meta_endpoint, requestVars>>

ReleaseClient ==
    /\ MayRun("user")
    /\ user_holds
    /\ user_holds' = FALSE
    /\ UNCHANGED <<active, start_destroy, allocated, workVars, endpointVars, metaVars, requestVars>>
    /\ DropsReference("user")
-----------------------------------------------------------------------------
\* s_s3_client_start_destroy: a critical section, the releases, another
\* critical section. start_destroy_executing is set between the two.
StartDestroyBegin ==
    /\ destroyer # "nobody"
    /\ start_destroy = "no"
    /\ start_destroy' = "executing"
    /\ active' = FALSE
    /\ endpoints_cleanup_task_scheduled' = TRUE
    /\ UNCHANGED <<user_holds, destroyer, allocated, process_work_task_scheduled, worker, visited, seen, freed,
                   endpointVars, metaVars, requestVars>>

StartDestroyRelease ==
    /\ start_destroy = "executing"
    /\ start_destroy' = "released"
    /\ UNCHANGED <<active, user_holds, destroyer, allocated, workVars, endpointVars, metaVars,
                   requestVars>>

StartDestroyEnd ==
    /\ start_destroy = "released"
    /\ start_destroy' = "done"
    /\ ScheduleProcessWork
    /\ UNCHANGED <<active, user_holds, destroyer, allocated, endpoints_cleanup_task_scheduled,
                   worker, visited, seen, freed, endpointVars, metaVars, requestVars>>

StartDestroyExecuting == start_destroy \in {"executing", "released"}

\* s_s3_client_body_streaming_elg_shutdown, s_s3_client_file_io_elg_shutdown
\* and s_s3express_provider_finish_destroy.
ResourceShutdown(x) ==
    /\ x \in allocated
    /\ start_destroy \in {"released", "done"}
    /\ allocated' = allocated \ {x}
    /\ ScheduleProcessWork
    /\ UNCHANGED <<active, user_holds, start_destroy, destroyer, endpoints_cleanup_task_scheduled,
                   worker, visited, seen, freed, endpointVars, metaVars, requestVars>>

\* Mutant: the process-work task is not scheduled.
EndpointShutdownSilently(e) ==
    /\ phase[e] = "closing"
    /\ phase' = [phase EXCEPT ![e] = "gone"]
    /\ num_endpoints_allocated' = num_endpoints_allocated - 1
    /\ UNCHANGED <<clientVars, workVars, endpoints, host, ref_count, metaVars, requestVars>>

\* The connection manager of a destroyed endpoint has shut down:
\* s_s3_endpoint_http_connection_manager_shutdown_callback and
\* s_s3_client_endpoint_shutdown_callback.
EndpointShutdown(e) ==
    /\ phase[e] = "closing"
    /\ phase' = [phase EXCEPT ![e] = "gone"]
    /\ num_endpoints_allocated' = num_endpoints_allocated - 1
    /\ ScheduleProcessWork
    /\ UNCHANGED <<clientVars, endpoints_cleanup_task_scheduled, worker, visited, seen, freed, endpoints, host,
                   ref_count, metaVars, requestVars>>

\* The clean-up task runs when its time has come, between two runs of the
\* process-work task.
CleanupTask ==
    /\ MayRun("worker")
    /\ worker = "idle"
    /\ endpoints_cleanup_task_scheduled
    /\ RunCleanup
    /\ UNCHANGED <<clientVars, worker, visited, seen, freed, metaVars, requestVars>>
-----------------------------------------------------------------------------
\* The rest of the critical section, and what the first steps after it read.
TakeWork ==
    /\ worker' = "working"
    /\ visited' = {}
    /\ seen' = Cardinality(InFlight)
    /\ listed' = [m \in MetaRequest |-> IF listed[m] = "pending" THEN "threaded" ELSE listed[m]]
    /\ stage' = [r \in Request |-> IF stage[r] = "prepared" THEN "queued" ELSE stage[r]]

\* s_s3_client_process_work_default, step 1. For a client going away with the
\* clean-up task pending, the lock is given up and the task run at once.
ProcessWorkBegin ==
    /\ MayRun("worker")
    /\ worker = "idle"
    /\ process_work_task_scheduled
    /\ process_work_task_scheduled' = FALSE
    /\ IF ~active /\ endpoints_cleanup_task_scheduled
       THEN /\ worker' = "cleaning"
            /\ endpoints_cleanup_task_scheduled' = FALSE
            /\ UNCHANGED <<visited, seen, listed, stage>>
       ELSE /\ endpoints_cleanup_task_scheduled' = active
            /\ TakeWork
    /\ UNCHANGED <<clientVars, freed, endpointVars, result, user_holds_meta, meta_endpoint, owner,
                   connection_endpoint, keeps_client>>

ProcessWorkCleanup ==
    /\ worker = "cleaning"
    /\ worker' = "cleaned"
    /\ RunCleanup
    /\ UNCHANGED <<clientVars, visited, seen, freed, metaVars, requestVars>>

ProcessWorkTake ==
    /\ worker = "cleaned"
    /\ TakeWork
    /\ UNCHANGED <<clientVars, endpoints_cleanup_task_scheduled, process_work_task_scheduled, freed,
                   endpointVars, result, user_holds_meta, meta_endpoint, owner,
                   connection_endpoint, keeps_client>>

\* aws_s3_client_update_meta_requests_threaded, step 3.
Updating(m) ==
    /\ MayRun("worker")
    /\ worker = "working"
    /\ listed[m] = "threaded"
    /\ m \notin visited

\* The requests a meta request has handed out are all done.
Waited(m) == \A r \in Request : owner[r] = m => stage[r] \notin Unfinished

\* A multipart upload that failed is aborted once its requests are done.
MustAbort(m) ==
    /\ result[m] = "to_abort"
    /\ Waited(m)

\* A meta request finishes once its requests are done. (A resumed upload paused
\* while it lists its parts does not wait for the listing; that case is left to
\* AutoRangedPut.)
CanFinish(m) ==
    /\ result[m] \in {"aborting", "final"}
    /\ Waited(m)

\* A meta request hands out a request, which is then prepared: any, or the one
\* that aborts its multipart upload.
NewRequest(m, r) ==
    /\ Updating(m)
    /\ seen < MaxInFlight
    /\ stage[r] = "unused"
    /\ \/ /\ result[m] = "none"
          /\ UNCHANGED result
       \/ /\ MustAbort(m)
          /\ result' = [result EXCEPT ![m] = "aborting"]
    /\ stage' = [stage EXCEPT ![r] = "preparing"]
    /\ owner' = [owner EXCEPT ![r] = m]
    /\ seen' = Cardinality(InFlight) + 1
    /\ UNCHANGED <<clientVars, endpoints_cleanup_task_scheduled, process_work_task_scheduled, worker,
                   visited, freed, endpointVars, listed, user_holds_meta, meta_endpoint,
                   connection_endpoint, keeps_client>>

\* The bound on requests: one is free, or about to be without another wake-up.
Room == \E r \in Request : stage[r] \in {"unused", "leaving"}

\* A meta request has to wait, or is passed over at the limit.
PassOver(m) ==
    /\ Updating(m)
    /\ \/ ~CanFinish(m) /\ ~(MustAbort(m) /\ Room)
       \/ seen >= MaxInFlight
    /\ visited' = visited \cup {m}
    /\ UNCHANGED <<clientVars, endpoints_cleanup_task_scheduled, process_work_task_scheduled, worker,
                   seen, freed, endpointVars, metaVars, requestVars>>

\* A meta request is done: aws_s3_meta_request_finish_default gives up its
\* endpoint...
FinishMetaRequest(m) ==
    /\ Updating(m)
    /\ seen < MaxInFlight
    /\ CanFinish(m)
    /\ listed' = [listed EXCEPT ![m] = "finished"]
    /\ meta_endpoint' = [meta_endpoint EXCEPT ![m] = None]
    /\ ReleaseEndpoint(meta_endpoint[m])
    /\ worker' = "removing"
    /\ UNCHANGED <<clientVars, endpoints_cleanup_task_scheduled, process_work_task_scheduled, visited,
                   seen, freed, result, user_holds_meta, requestVars>>

\* ... and s_s3_client_remove_meta_request_threaded drops the list's reference.
RemoveMetaRequest(m) ==
    /\ worker = "removing"
    /\ listed[m] = "finished"
    /\ listed' = [listed EXCEPT ![m] = "removed"]
    /\ worker' = "working"
    /\ UNCHANGED <<active, user_holds, start_destroy, allocated, endpoints_cleanup_task_scheduled,
                   process_work_task_scheduled, visited, seen, freed, endpointVars, result,
                   user_holds_meta, meta_endpoint, requestVars>>
    /\ DropsReference("worker")

\* aws_s3_client_update_connections_threaded, once all meta requests were
\* looked at.
Connecting(r) ==
    /\ MayRun("worker")
    /\ worker = "working"
    /\ \A m \in MetaRequest : listed[m] = "threaded" => m \in visited
    /\ Cardinality(OnNetwork) < MaxConnections
    /\ stage[r] = "queued"

\* A request that needs no sending, or whose meta request has a result, is
\* finished here. The abort of an upload is always sent.
DropRequest(r) ==
    /\ Connecting(r)
    /\ result[owner[r]] # "aborting"
    /\ stage' = [stage EXCEPT ![r] = "unused"]
    /\ owner' = [owner EXCEPT ![r] = None]
    /\ ScheduleProcessWork
    /\ UNCHANGED <<clientVars, endpoints_cleanup_task_scheduled, worker, visited, seen, freed,
                   endpointVars, metaVars, connection_endpoint, keeps_client>>

\* Mutant: the connection borrows the endpoint without counting itself.
CreateConnectionUncounted(r) ==
    /\ Connecting(r)
    /\ result[owner[r]] \in {"none", "aborting"}
    /\ stage' = [stage EXCEPT ![r] = "connecting"]
    /\ connection_endpoint' = [connection_endpoint EXCEPT ![r] = meta_endpoint[owner[r]]]
    /\ UNCHANGED <<clientVars, workVars, endpointVars, metaVars, owner, keeps_client>>

\* s_s3_client_create_connection_for_request_default
CreateConnection(r) ==
    LET e == meta_endpoint[owner[r]]
    IN  /\ Connecting(r)
        /\ result[owner[r]] \in {"none", "aborting"}
        /\ stage' = [stage EXCEPT ![r] = "connecting"]
        /\ connection_endpoint' = [connection_endpoint EXCEPT ![r] = e]
        /\ ref_count' = [ref_count EXCEPT ![e] = @ + 1]
        /\ UNCHANGED <<clientVars, workVars, endpoints, phase, host, num_endpoints_allocated, metaVars,
                       owner, keeps_client>>

\* Mutant: a task scheduled again in the meantime is overlooked.
FinishDestroyWhileScheduled ==
    /\ ~active
    /\ ~StartDestroyExecuting
    /\ allocated = {}
    /\ num_endpoints_allocated = 0

\* Step 5: may the client be freed?
FinishDestroy ==
    /\ ~active
    /\ ~StartDestroyExecuting
    /\ allocated = {}
    /\ ~process_work_task_scheduled
    /\ num_endpoints_allocated = 0

ProcessWorkEnd ==
    /\ MayRun("worker")
    /\ worker = "working"
    /\ \A m \in MetaRequest : listed[m] = "threaded" => m \in visited
    /\ \A r \in Request : stage[r] = "queued" => Cardinality(OnNetwork) >= MaxConnections
    /\ worker' = "idle"
    /\ visited' = {}
    /\ seen' = 0
    /\ freed' = FinishDestroy
    /\ UNCHANGED <<clientVars, endpoints_cleanup_task_scheduled, process_work_task_scheduled,
                   endpointVars, metaVars, requestVars>>
-----------------------------------------------------------------------------
Advance(r, from, to) ==
    /\ MayRun(r)
    /\ stage[r] = from
    /\ stage' = [stage EXCEPT ![r] = to]

\* s_s3_client_prepare_callback_queue_request; a failed request goes straight
\* to being reported, without a connection.
PrepareSucceeds(r) ==
    /\ Advance(r, "preparing", "prepared")
    /\ ScheduleProcessWork
    /\ UNCHANGED <<clientVars, endpoints_cleanup_task_scheduled, worker, visited, seen, freed, endpointVars, metaVars,
                   owner, connection_endpoint, keeps_client>>

\* s_s3_client_acquired_retry_token: the client is kept until the HTTP
\* connection is there.
RetryTokenAcquired(r) ==
    /\ Advance(r, "connecting", "acquiring")
    /\ keeps_client' = [keeps_client EXCEPT ![r] = TRUE]
    /\ UNCHANGED <<clientVars, workVars, endpointVars, metaVars, owner, connection_endpoint>>

\* s_s3_client_on_acquire_http_connection: sent, or to be tried again.
ConnectionAcquired(r, to) ==
    /\ Advance(r, "acquiring", to)
    /\ keeps_client' = [keeps_client EXCEPT ![r] = FALSE]
    /\ UNCHANGED <<clientVars, workVars, endpointVars, metaVars, owner, connection_endpoint>>

\* The response asks for a retry.
Retry(r) ==
    /\ Advance(r, "open", "connecting")
    /\ UNCHANGED <<clientVars, workVars, endpointVars, metaVars, owner, connection_endpoint,
                   keeps_client>>

\* aws_s3_client_notify_connection_finished, or a failed preparation, in five
\* steps. First s_s3_client_meta_request_finished_request: the request is no
\* longer counted in flight...
CountFinished(r) ==
    /\ \E from \in {"preparing", "connecting", "acquiring", "open"} : Advance(r, from, "counted")
    /\ ScheduleProcessWork
    /\ UNCHANGED <<clientVars, endpoints_cleanup_task_scheduled, worker, visited, seen, freed, endpointVars, metaVars,
                   owner, connection_endpoint, keeps_client>>

\* ... and reported to the meta request, which may have its result now.
Report(r) ==
    /\ Advance(r, "counted", "reported")
    /\ SetResult(owner[r]) \/ UNCHANGED result
    /\ UNCHANGED <<clientVars, workVars, endpointVars, listed, user_holds_meta, meta_endpoint, owner,
                   connection_endpoint, keeps_client>>

\* aws_s3_request_release: the request's reference to the meta request goes.
ReleaseRequest(r) ==
    /\ Advance(r, "reported", "released")
    /\ owner' = [owner EXCEPT ![r] = None]
    /\ UNCHANGED <<active, user_holds, start_destroy, allocated, workVars, endpointVars, metaVars,
                   connection_endpoint, keeps_client>>
    /\ DropsReference(r)

\* aws_s3_endpoint_release of a connection's endpoint.
ReleaseConnectionEndpoint(r) ==
    /\ MayRun(r)
    /\ stage[r] = "released"
    /\ connection_endpoint[r] # None
    /\ ReleaseEndpoint(connection_endpoint[r])
    /\ connection_endpoint' = [connection_endpoint EXCEPT ![r] = None]
    /\ UNCHANGED <<clientVars, workVars, metaVars, stage, owner, keeps_client>>

\* Last, the client's lock is taken to schedule the process-work task; a kept
\* reference to the client is dropped after that.
ScheduleLast(r) ==
    /\ connection_endpoint[r] = None
    /\ Advance(r, "released", IF keeps_client[r] THEN "leaving" ELSE "unused")
    /\ ScheduleProcessWork
    /\ UNCHANGED <<clientVars, endpoints_cleanup_task_scheduled, worker, visited, seen, freed, endpointVars, metaVars,
                   owner, connection_endpoint, keeps_client>>

ReleaseKeptClient(r) ==
    /\ Advance(r, "leaving", "unused")
    /\ keeps_client' = [keeps_client EXCEPT ![r] = FALSE]
    /\ UNCHANGED <<active, user_holds, start_destroy, allocated, workVars, endpointVars, metaVars,
                   owner, connection_endpoint>>
    /\ DropsReference(r)
-----------------------------------------------------------------------------
User ==
    \/ \E m \in MetaRequest, h \in Host, e \in Endpoint, express \in BOOLEAN :
          MakeMetaRequest(m, h, e, express)
    \/ MakeMetaRequestFails
    \/ \E m \in MetaRequest : Cancel(m) \/ ReleaseMetaRequest(m)
    \/ ReleaseClient

StartDestroy == StartDestroyBegin \/ StartDestroyRelease \/ StartDestroyEnd

Shutdowns ==
    \/ \E x \in Resource : ResourceShutdown(x)
    \/ \E e \in Endpoint : EndpointShutdown(e)

Worker ==
    \/ ProcessWorkBegin
    \/ ProcessWorkCleanup
    \/ ProcessWorkTake
    \/ \E m \in MetaRequest : PassOver(m) \/ FinishMetaRequest(m) \/ RemoveMetaRequest(m)
    \/ \E m \in MetaRequest, r \in Request : NewRequest(m, r)
    \/ \E r \in Request : DropRequest(r) \/ CreateConnection(r)
    \/ ProcessWorkEnd
    \/ CleanupTask

RequestStep(r) ==
    \/ PrepareSucceeds(r)
    \/ RetryTokenAcquired(r)
    \/ \E to \in {"open", "connecting"} : ConnectionAcquired(r, to)
    \/ Retry(r)
    \/ CountFinished(r)
    \/ Report(r)
    \/ ReleaseRequest(r)
    \/ ReleaseConnectionEndpoint(r)
    \/ ScheduleLast(r)
    \/ ReleaseKeptClient(r)

Next ==
    \/ User
    \/ StartDestroy
    \/ Shutdowns
    \/ Worker
    \/ \E r \in Request : RequestStep(r)

Spec == Init /\ [][Next]_vars

\* Every thread that can take a step does, callbacks of what was released
\* fire, and a request is not retried for ever (the retry strategy gives up).
Fairness ==
    /\ WF_vars(StartDestroy)
    /\ WF_vars(Shutdowns)
    /\ WF_vars(Worker)
    /\ \A r \in Request : WF_vars(RequestStep(r)) /\ SF_vars(CountFinished(r))

FairSpec == Spec /\ Fairness
-----------------------------------------------------------------------------
TypeOK ==
    /\ active \in BOOLEAN
    /\ user_holds \in BOOLEAN
    /\ endpoints_cleanup_task_scheduled \in BOOLEAN
    /\ process_work_task_scheduled \in BOOLEAN
    /\ freed \in BOOLEAN
    /\ start_destroy \in {"no", "executing", "released", "done"}
    /\ destroyer \in Request \cup {"nobody", "user", "worker"}
    /\ allocated \subseteq Resource
    /\ worker \in {"idle", "cleaning", "cleaned", "working", "removing"}
    /\ visited \subseteq MetaRequest
    /\ seen \in Nat
    /\ endpoints \in [Host -> Endpoint \cup {None}]
    /\ phase \in [Endpoint -> {"unused", "open", "closing", "gone"}]
    /\ host \in [Endpoint -> Host \cup {None}]
    /\ ref_count \in [Endpoint -> Nat]
    /\ num_endpoints_allocated \in Nat
    /\ listed \in [MetaRequest -> {"unused", "pending", "threaded", "finished", "removed"}]
    /\ result \in [MetaRequest -> {"none", "to_abort", "aborting", "final"}]
    /\ user_holds_meta \in [MetaRequest -> BOOLEAN]
    /\ meta_endpoint \in [MetaRequest -> Endpoint \cup {None}]
    /\ stage \in [Request -> Unfinished \cup {"unused", "reported", "released", "leaving"}]
    /\ owner \in [Request -> MetaRequest \cup {None}]
    /\ connection_endpoint \in [Request -> Endpoint \cup {None}]
    /\ keeps_client \in [Request -> BOOLEAN]

\* An endpoint that a meta request or a connection points to is alive and is
\* the one its host's table entry names, so that its last release removes the
\* right entry: neither the clean-up task nor another holder's release takes
\* it away (s_s3_endpoint_release, s_s3_endpoints_cleanup_task).
HeldEndpointIsOpen ==
    \A e \in Endpoint :
        (\E m \in MetaRequest : meta_endpoint[m] = e) \/ (\E r \in Request : connection_endpoint[r] = e)
            => phase[e] = "open" /\ endpoints[host[e]] = e

PointersTo(e, pointer) == Cardinality({x \in DOMAIN pointer : pointer[x] = e})

\* ref_count counts the meta requests and connections that hold the endpoint
\* (aws_s3_endpoint_acquire, aws_s3_endpoint_release): no path through a failed,
\* retried or dropped request counts one twice or forgets one.
RefCountExact ==
    \A e \in Endpoint :
        ref_count[e] = PointersTo(e, meta_endpoint) + PointersTo(e, connection_endpoint)

\* The client is freed only when nothing of it is left: no meta request, no
\* request short of its last step, no endpoint, no event loop group, no
\* provider, no task on the event loop. finish_destroy does not look at the
\* clean-up task nor at the meta requests: that they are gone follows.
FreedWhenQuiet ==
    freed =>
        /\ ~ClientHeld
        /\ start_destroy = "done"
        /\ allocated = {}
        /\ ~process_work_task_scheduled /\ ~endpoints_cleanup_task_scheduled /\ worker = "idle"
        /\ \A e \in Endpoint : phase[e] \in {"unused", "gone"}
        /\ \A r \in Request : stage[r] \in {"unused", "released"} /\ connection_endpoint[r] = None

\* The user has let go of everything and every meta request has its result.
Abandoned ==
    /\ ~user_holds
    /\ \A m \in MetaRequest : /\ ~user_holds_meta[m]
                              /\ listed[m] # "unused" => result[m] # "none"

\* A client its user is done with shuts down: no wake-up of the process-work
\* task is missed, whatever it is passed over for.
ShutdownCompletes == Abandoned ~> freed
=============================================================================
