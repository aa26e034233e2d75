----------------------------- MODULE Paginator ------------------------------
(***************************************************************************)
(* aws_s3_paginator (s3_paginator.c) with the two operations it is used    *)
(* for, ListObjectsV2 (s3_list_objects.c) and ListParts (s3_list_parts.c). *)
(* Every page is a default meta request.  aws_s3_paginator_continue is     *)
(* called by the user's thread and, from on_page_finished, by the thread   *)
(* that finishes meta requests: its atomic store of the new request races  *)
(* with the end of that same request.                                      *)
(*                                                                         *)
(* In mode "plain" the same meta request is used by itself, with every     *)
(* body and option, and may be cancelled or paused.                        *)
(***************************************************************************)
EXTENDS DefaultMetaRequest

CONSTANT Pages         \* pages the listing has

ASSUME PagesAssumption == Pages \in Nat \ {0}

VARIABLES
    mode,              \* "plain", or the operation: "objects", "parts"
    operation_state,   \* shared_mt_state
    has_more_results,
    continuation_token,
    refs,              \* paginator ref_count
    user_holds,        \* the user has not released the paginator
    current_request,   \* the request stored there; 0: NULL
    pc,                \* the calls in progress, by thread, with their arguments
    parsed,            \* result of aws_s3_paginated_operation_on_response
    listed,            \* what on_object / on_part was called with
    ended,             \* error codes on_page_finished was called with
    made,              \* meta requests made so far
    released,          \* meta requests whose reference was given up
    lost               \* pages whose XML did not parse, references overwritten

pageVars == <<mode, operation_state, has_more_results, continuation_token, refs, user_holds,
              current_request, pc, parsed, listed, ended, made, released, lost>>
vars == <<attemptVars, defaultVars, pageVars>>

Threads == {"user", "loop"}
Busy == \E t \in Threads : pc[t].at # "idle"
Idle == [at |-> "idle", request |-> 0, code |-> "none"]

\* Two entries a page, numbered in listing order.
Entries(page) ==
    IF mode = "objects"
    THEN <<[name |-> "Contents", key |-> 2 * page - 1], [name |-> "CommonPrefixes", key |-> 2 * page]>>
    ELSE <<[name |-> "Part", part_number |-> 2 * page - 1], [name |-> "Part", part_number |-> 2 * page]>>
WholeListing == [i \in 1..(2 * Pages) |-> i]

Init ==
    /\ DefaultInit
    /\ mode \in {"plain", "objects", "parts"}
    /\ IF mode = "plain"
       THEN opts \in Options /\ answer = 1
       ELSE /\ opts = [type |-> "list", body |-> "none", validate |-> FALSE, headers |-> FALSE]
            /\ answer = 0
    /\ operation_state = "not_started" /\ has_more_results = FALSE /\ continuation_token = 0
    /\ refs = 1 /\ user_holds = TRUE /\ current_request = 0
    /\ pc = [t \in Threads |-> Idle]
    /\ parsed = [token |-> 0, more |-> FALSE]
    /\ listed = << >> /\ ended = << >>
    /\ made = 0 /\ released = {} /\ lost = {}

-----------------------------------------------------------------------------
\* A thread can call continue() when it runs user code: between calls, or in
\* on_page_finished.
MayCall(t) ==
    /\ mode # "plain"
    /\ IF t = "user" THEN pc[t].at = "idle" /\ user_holds ELSE pc[t].at = "callback"
Return(t) == [pc EXCEPT ![t] = IF t = "user" THEN Idle ELSE [@ EXCEPT !.at = "called"]]

\* Mutant: the state is set and not compared.
ContinueUnchecked(t) ==
    /\ MayCall(t) /\ operation_state \in {"not_started", "initiated"} /\ made < Pages
    /\ operation_state' = "initiated"
    /\ pc' = [pc EXCEPT ![t].at = "initiated"]
    /\ UNCHANGED <<attemptVars, defaultVars, mode, has_more_results, continuation_token, refs,
                   user_holds, current_request, parsed, listed, ended, made, released, lost>>

\* aws_s3_paginator_continue up to s_set_paginator_state_if_legal; a call in
\* another state only returns AWS_ERROR_INVALID_STATE.
Continue(t) ==
    /\ MayCall(t) /\ operation_state = "not_started"
    /\ operation_state' = "initiated"
    /\ pc' = [pc EXCEPT ![t].at = "initiated"]
    /\ UNCHANGED <<attemptVars, defaultVars, mode, has_more_results, continuation_token, refs,
                   user_holds, current_request, parsed, listed, ended, made, released, lost>>

\* next_http_message of the two operations: the token becomes the query
\* continuation-token or part-number-marker; without one the first page is
\* asked for.
NextObjectsMessage(token) == IF token = 0 THEN 1 ELSE token
NextPartsMessage(token) == IF token = 0 THEN 1 ELSE token
NextHttpMessage(token) ==
    IF mode = "objects" THEN NextObjectsMessage(token) ELSE NextPartsMessage(token)

\* Mutant: the request does not keep the paginator alive.
RefsUnchanged == refs

\* aws_s3_paginator_acquire before the request is made
RefsOfRequest == refs + 1

\* The request of the previous page, if it was stored
PreviousRequest == {current_request} \ {0}

\* aws_byte_buf_reset of result_body
ResultBody == << >>

\* The host header or the message of the next page could not be made:
\* aws_s3_paginator_continue returns an error and leaves the state behind.
NextMessageFails(t) ==
    /\ pc[t].at = "initiated" /\ Fault
    /\ pc' = Return(t)
    /\ UNCHANGED <<finish_result, meta_finished, req, signing, stop_called, defaultVars, mode,
                   operation_state, has_more_results, continuation_token, refs, user_holds,
                   current_request, parsed, listed, ended, made, released, lost>>

\* The rest of aws_s3_paginator_continue, until make_meta_request returns.
\* (The exchange of current_request comes before; a store by the other thread
\* between the two has the effect it has after them.)
MakeRequest(t) ==
    /\ pc[t].at = "initiated"
    /\ answer' = NextHttpMessage(continuation_token)
    /\ refs' = RefsOfRequest
    /\ released' = released \cup PreviousRequest
    /\ current_request' = 0
    /\ made' = made + 1
    /\ pc' = [pc EXCEPT ![t].at = "made", ![t].request = made + 1]
    /\ delivered' = ResultBody
    /\ finish_result' = "none" /\ meta_finished' = FALSE /\ req' = << >> /\ stop_called' = FALSE
    /\ default' = NewDefault /\ response' = NoResponse /\ events' = 0
    /\ received' = {} /\ reported' = NotReported
    /\ UNCHANGED <<signing, faults, opts, mode, operation_state, has_more_results,
                   continuation_token, user_holds, parsed, listed, ended, lost>>

\* aws_s3_client_make_meta_request returned NULL: the reference acquired for
\* the request stays.
MakeRequestFails(t) ==
    /\ pc[t].at = "initiated" /\ Fault
    /\ refs' = RefsOfRequest
    /\ released' = released \cup PreviousRequest
    /\ current_request' = 0
    /\ pc' = [pc EXCEPT ![t].at = "failed"]
    /\ UNCHANGED <<finish_result, meta_finished, req, signing, stop_called, defaultVars, mode,
                   operation_state, has_more_results, continuation_token, user_holds, parsed,
                   listed, ended, made, lost>>

\* aws_atomic_store_ptr, perhaps long after the request began, or ended: what
\* the other thread stored meanwhile is overwritten.
Store(t, request) ==
    /\ lost' = IF current_request = 0 THEN lost ELSE lost \cup {<<"overwritten", current_request>>}
    /\ current_request' = request
    /\ pc' = Return(t)
    /\ UNCHANGED <<attemptVars, defaultVars, mode, has_more_results, continuation_token, refs,
                   user_holds, parsed, listed, ended, made, released>>

\* The new request is stored.
StoreRequest(t) ==
    /\ pc[t].at = "made"
    /\ Store(t, pc[t].request)
    /\ UNCHANGED operation_state

\* NULL is stored, and the state becomes an error.
StoreNoRequest(t) ==
    /\ pc[t].at = "failed"
    /\ Store(t, 0)
    /\ operation_state' = "error"

-----------------------------------------------------------------------------
\* on_result_node_encountered of the two operations: what one node of the
\* result document adds to the listing; other nodes add nothing.
OnListBucketResultNode(node) ==
    IF node.name \in {"Contents", "CommonPrefixes"} THEN <<node.key>> ELSE << >>
OnListPartsResultChild(node) == IF node.name = "Part" THEN <<node.part_number>> ELSE << >>
OnResultNode(node) ==
    IF mode = "objects" THEN OnListBucketResultNode(node) ELSE OnListPartsResultChild(node)

\* NextContinuationToken / NextPartNumberMarker of a page
NextToken(page) == IF page < Pages THEN page + 1 ELSE 0

\* The finish callback runs on the thread that updates meta requests.
FinishCallback ==
    /\ pc["loop"].at = "idle"
    /\ UpdateFinish
    /\ pc' = IF mode = "plain" THEN pc
             ELSE [pc EXCEPT !["loop"] = [at |-> "finished", request |-> made, code |-> reported'.code]]
    /\ UNCHANGED <<mode, operation_state, has_more_results, continuation_token, refs, user_holds,
                   current_request, parsed, listed, ended, made, released, lost>>

\* s_on_request_finished, first critical section
ClearToken ==
    /\ pc["loop"].at = "finished"
    /\ IF reported.status = 200
       THEN /\ pc' = [pc EXCEPT !["loop"].at = "cleared"]
            /\ continuation_token' = 0
            /\ has_more_results' = (has_more_results /\ continuation_token = 0)
            /\ UNCHANGED operation_state
       ELSE /\ pc' = [pc EXCEPT !["loop"].at = "set"]
            /\ operation_state' = "error"
            /\ UNCHANGED <<continuation_token, has_more_results>>
    /\ UNCHANGED <<attemptVars, defaultVars, mode, refs, user_holds, current_request, parsed,
                   listed, ended, made, released, lost>>

\* The pieces appended one after the other.  (FlattenSeq without the rest of
\* SequencesExt, which every proof about the paginator would have to carry.)
Appended(pieces) ==
    IF pieces = << >> THEN << >>
    ELSE LET upTo[n \in 1..Len(pieces)] ==
               IF n = 1 THEN pieces[n] ELSE upTo[n - 1] \o pieces[n]
         IN  upTo[Len(pieces)]

\* aws_s3_paginated_operation_on_response: the entries up to the first that
\* does not parse, or that the user's callback rejects; then neither the token
\* nor IsTruncated counts, and the error goes no further.
ParsePage ==
    /\ pc["loop"].at = "cleared"
    /\ LET doc   == Appended([i \in DOMAIN delivered |-> Entries(delivered[i].data)])
           page  == IF delivered = << >> THEN 0 ELSE delivered[Len(delivered)].data
       IN  \E good \in 0..Len(doc) :
             /\ IF good = Len(doc) THEN NoFault ELSE Fault
             /\ listed' = listed \o Appended([i \in 1..good |-> OnResultNode(doc[i])])
             /\ IF good = Len(doc) /\ page # 0
                THEN /\ parsed' = [token |-> NextToken(page), more |-> NextToken(page) # 0]
                     /\ UNCHANGED lost
                ELSE /\ parsed' = [token |-> 0, more |-> FALSE]
                     /\ lost' = IF page # 0 THEN lost \cup {<<"page", page>>} ELSE lost
    /\ pc' = [pc EXCEPT !["loop"].at = "parsed"]
    /\ UNCHANGED <<finish_result, meta_finished, req, signing, stop_called, defaultVars, mode,
                   operation_state, has_more_results, continuation_token, refs, user_holds,
                   current_request, ended, made, released>>

\* second critical section: token and has_more_results
StoreToken ==
    /\ pc["loop"].at = "parsed"
    /\ continuation_token' = parsed.token
    /\ has_more_results' = parsed.more
    /\ pc' = [pc EXCEPT !["loop"].at = "stored"]
    /\ UNCHANGED <<attemptVars, defaultVars, mode, operation_state, refs, user_holds,
                   current_request, parsed, listed, ended, made, released, lost>>

\* third critical section: s_set_paginator_state_if_legal
SetState ==
    /\ pc["loop"].at = "stored"
    /\ operation_state' = IF parsed.more THEN "not_started" ELSE "completed"
    /\ pc' = [pc EXCEPT !["loop"].at = "set"]
    /\ UNCHANGED <<attemptVars, defaultVars, mode, has_more_results, continuation_token, refs,
                   user_holds, current_request, parsed, listed, ended, made, released, lost>>

\* on_page_finished, in which the user may call continue() once
PageFinished ==
    /\ pc["loop"].at = "set"
    /\ ended' = Append(ended, pc["loop"].code)
    /\ pc' = [pc EXCEPT !["loop"].at = "callback"]
    /\ UNCHANGED <<attemptVars, defaultVars, mode, operation_state, has_more_results,
                   continuation_token, refs, user_holds, current_request, parsed, listed, made,
                   released, lost>>

\* s_paginator_ref_count_zero_callback gives up the last request.
Release(newPc, holds) ==
    /\ refs' = refs - 1
    /\ pc' = newPc
    /\ user_holds' = holds
    /\ IF refs = 1
       THEN /\ released' = released \cup ({current_request} \ {0})
            /\ current_request' = 0
       ELSE UNCHANGED <<released, current_request>>
    /\ UNCHANGED <<attemptVars, defaultVars, mode, operation_state, has_more_results,
                   continuation_token, parsed, listed, ended, made, lost>>

\* The end of s_on_request_finished
ReleaseAfterPage == pc["loop"].at \in {"callback", "called"} /\ Release([pc EXCEPT !["loop"] = Idle], user_holds)

\* aws_s3_paginator_release by the user, in no call of its own
UserRelease ==
    /\ mode # "plain" /\ user_holds /\ pc["user"].at = "idle"
    /\ Release(pc, FALSE)

\* aws_s3_meta_request_cancel and aws_s3_meta_request_pause, of a plain request
UserStops ==
    /\ mode = "plain"
    /\ Stop("canceled") \/ Stop("paused")
    /\ UNCHANGED <<defaultVars, pageVars>>

Step ==
    \/ (mode = "plain" \/ made > 0) /\ DefaultStep(mode = "plain") /\ UNCHANGED pageVars
    \/ (mode = "plain" \/ made > 0) /\ FinishCallback
    \/ ClearToken \/ ParsePage \/ StoreToken \/ SetState \/ PageFinished \/ ReleaseAfterPage
    \/ \E t \in Threads : MakeRequest(t) \/ StoreRequest(t) \/ StoreNoRequest(t)

Next ==
    \/ Step
    \/ \E t \in Threads : Continue(t) \/ NextMessageFails(t) \/ MakeRequestFails(t)
    \/ UserRelease \/ UserStops

\* The event loops run, the service answers or its connection times out, and a
\* call to continue() returns; whether the user calls, stops or releases
\* anything is open.
Spec == Init /\ [][Next]_vars /\ WF_vars(Step)

-----------------------------------------------------------------------------
TypeOK ==
    /\ DefaultTypeOK
    /\ operation_state \in {"not_started", "initiated", "completed", "error"}
    /\ continuation_token \in 0..Pages /\ refs \in 0..3
    /\ current_request \in 0..made /\ released \subseteq 1..made

\* s_set_paginator_state_if_legal: a second page is never asked for while the
\* meta request of the first, which fills the same result_body, still runs or
\* its page is still being parsed.
OnePageAtATime ==
    \A t \in Threads : pc[t].at = "initiated" /\ made > 0 =>
        meta_finished /\ pc["loop"].at \notin {"finished", "cleared", "parsed", "stored"}

\* Retries, stale tokens and a reused buffer notwithstanding, the user sees the
\* listing from its beginning, in order, nothing twice and nothing left out.
ListingIsPrefix == \E n \in 0..(2 * Pages) : listed = SubSeq(WholeListing, 1, n)

\* A listing that completed with no page reported as failed is whole, unless
\* the XML of a page did not parse: that error is dropped.
CompletedIsWhole ==
    /\ mode # "plain" /\ operation_state = "completed" /\ pc["loop"].at = "idle"
    /\ \A i \in DOMAIN ended : ended[i] = "ok"
    /\ \A p \in 1..Pages : <<"page", p>> \notin lost
    => listed = WholeListing

\* The reference acquired before the request is made: while the callbacks of a
\* page are to come the paginator, their user_data, is not freed.
PaginatorOutlivesItsRequest ==
    mode # "plain" /\ (Busy \/ (made > 0 /\ ~meta_finished)) => refs > 0

\* Every request made is given up by the time the paginator is gone, but for
\* those whose handle a late store overwrote; and none twice: what
\* aws_atomic_exchange_ptr takes out was not given up before.
RequestsReleased ==
    /\ current_request \notin released
    /\ mode # "plain" /\ refs = 0 =>
         \A r \in 1..made : r \in released \/ <<"overwritten", r>> \in lost

\* A meta request that was made ends: every page is answered and every plain
\* request finishes, whatever fails.
EveryRequestEnds == [](mode = "plain" \/ made > 0 => <>meta_finished)

\* The listing the user gets is exact: one page at a time, from the beginning,
\* to the end if it completes.
ListingIsExact == OnePageAtATime /\ ListingIsPrefix /\ CompletedIsWhole

\* The references of aws_s3_paginator_continue and s_on_request_finished: the
\* paginator lives as long as its request, and no request longer than it.
ReferencesKept == PaginatorOutlivesItsRequest /\ RequestsReleased

\* A default meta request stops when told, and leaves nothing behind.
RequestIsQuiet == TypeOK /\ StoppedStreamsTold /\ FinishIsQuiet
=============================================================================
