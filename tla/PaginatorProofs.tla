--------------------------- MODULE PaginatorProofs ---------------------------
(***************************************************************************)
(* Proofs about Paginator and the default meta request it uses, for every  *)
(* number of pages, of retries and of failures.                            *)
(*                                                                         *)
(* CallInv says where the two threads that may call                        *)
(* aws_s3_paginator_continue are, ListInv what the user has seen of the    *)
(* listing at each of these places, RefInv who holds the paginator and     *)
(* where the reference to every request went.                              *)
(***************************************************************************)
EXTENDS Paginator, TLAPS
-----------------------------------------------------------------------------
(***************************************************************************)
(* The default meta request, for any number of retries and failures:       *)
(* RequestInv.  Attempt is what is known of the request in flight,         *)
(* DefaultInv ties the flags and counters of                               *)
(* struct aws_s3_meta_request_default to it, and DeliveryInv what was      *)
(* delivered to the result.  Every step a user of the meta request can     *)
(* have it take preserves it.                                              *)
(***************************************************************************)

ListOptions == [type |-> "list", body |-> "none", validate |-> FALSE, headers |-> FALSE]
HasBody == opts.body \in {"memory", "stream"}

\* The body of the response that ended the request successfully.
Good == response.data = answer /\ (opts.validate => response.intact)

AttemptRecord ==
    [type : RequestTypes, always_send : BOOLEAN, stage : Stages, prepared : 0..(MaxRetries + 1),
     retries : 0..MaxRetries, connection : BOOLEAN, told : BOOLEAN, code : Errors \cup {"ok"}]

\* One attempt: how often it was prepared, what it sends and what it got.
Attempt(r) ==
    /\ r = Only /\ req[r] \in AttemptRecord
    /\ req[r].type = opts.type /\ ~req[r].always_send
    /\ req[r].prepared <= req[r].retries + 1
    /\ req[r].stage \in {"task", "preparing", "credentials", "session", "signing", "backoff"} =>
         req[r].prepared <= req[r].retries
    /\ req[r].stage \in {"queued", "connecting", "sending", "active", "backoff"} =>
         req[r].prepared > 0
    /\ HasBody /\ req[r].stage # "finishing"
       /\ (req[r].prepared > 0 \/ req[r].stage \in {"credentials", "session", "signing"}) =>
         default.request_body = "whole"
    /\ req[r].stage = "finishing" /\ req[r].code = "ok" => Good
    /\ stop_called /\ req[r].stage = "active" => req[r].told

AttemptInv ==
    /\ req = [r \in DOMAIN req |-> req[r]]
    /\ \A r \in DOMAIN req : Attempt(r)

\* Cancel and pause leave a result before the streams are told.
ResultInv ==
    /\ finish_result \in {"none", "ok"} \cup Errors
    /\ meta_finished \in BOOLEAN /\ stop_called \in BOOLEAN /\ faults \in 0..MaxFaults
    /\ stop_called => HasResult

DefaultRecord ==
    [request_sent : BOOLEAN, request_completed : BOOLEAN, request_body : {"empty", "whole"},
     delivery_sent : 0..1, delivery_completed : 0..1]

\* The phases of a default meta request.
DefaultInv ==
    /\ default \in DefaultRecord
    /\ opts \in Options \cup {ListOptions}
    /\ DOMAIN req = {} <=> ~default.request_sent \/ default.request_completed
    /\ default.request_completed => default.request_sent
    /\ default.delivery_sent = 1 => default.request_completed /\ Good
    /\ default.delivery_completed <= default.delivery_sent
    /\ events \in Nat
    /\ events > 0 => default.request_completed
    /\ HasBody => received \subseteq {"whole"}

\* What was delivered, and what the end of the meta request says of it.
DeliveryInv ==
    /\ delivered \in {<< >>, <<response>>}
    /\ default.delivery_completed = 0 => delivered = << >>
    /\ default.delivery_completed = 1 /\ ~HasResult => delivered = <<response>>
    /\ finish_result = "ok" => /\ meta_finished /\ delivered = <<response>>
                               /\ default.delivery_sent = 1
    /\ IF meta_finished
       THEN /\ HasResult /\ DOMAIN req = {} /\ events = 0
            /\ default.delivery_completed = default.delivery_sent
            /\ reported = [code |-> finish_result, status |-> StatusOf(finish_result)]
       ELSE reported = NotReported

RequestInv == ResultInv /\ AttemptInv /\ DefaultInv /\ DeliveryInv

-----------------------------------------------------------------------------
\* What the ways a request changes leave of it.
Kept(r) ==
    /\ DOMAIN req' = DOMAIN req /\ req' = [s \in DOMAIN req' |-> req'[s]]
    /\ req'[r] \in AttemptRecord
    /\ req'[r].type = req[r].type /\ req'[r].always_send = req[r].always_send

LEMMA MoveEffect ==
    ASSUME AttemptInv, NEW r \in DOMAIN req, NEW stage \in Stages, Move(r, stage)
    PROVE  /\ Kept(r) /\ req'[r].stage = stage
           /\ req'[r].prepared = req[r].prepared /\ req'[r].retries = req[r].retries
           /\ req'[r].told = req[r].told /\ req'[r].code = req[r].code
<1> DEFINE q == [req[r] EXCEPT !.stage = stage]
<1>1. req[r] \in AttemptRecord /\ req = [s \in DOMAIN req |-> req[s]]
  BY DEF AttemptInv, Attempt
<1>2. /\ q \in AttemptRecord /\ q.stage = stage
      /\ q.prepared = req[r].prepared /\ q.retries = req[r].retries
      /\ q.told = req[r].told /\ q.code = req[r].code
      /\ q.type = req[r].type /\ q.always_send = req[r].always_send
  BY <1>1 DEF AttemptRecord
<1>3. req' = [req EXCEPT ![r] = q]
  BY <1>1, Zenon DEF Move, AttemptRecord
<1> HIDE DEF q
<1>4. req'[r] = q /\ DOMAIN req' = DOMAIN req /\ req' = [s \in DOMAIN req' |-> req'[s]]
  BY <1>3, Zenon
<1> QED
  BY <1>2, <1>4, Zenon DEF Kept

LEMMA PreparedEffect ==
    ASSUME AttemptInv, NEW r \in DOMAIN req, NEW code \in Errors \cup {"ok"}, Prepared(r, code),
           req[r].prepared <= MaxRetries
    PROVE  /\ Kept(r) /\ req'[r].prepared = req[r].prepared + 1
           /\ req'[r].retries = req[r].retries /\ req'[r].code = code
           /\ IF code # "ok" THEN req'[r].stage = "finishing"
                             ELSE req'[r].stage \in {"connecting", "queued"}
<1> DEFINE next  == IF code # "ok" THEN "finishing"
                    ELSE IF req[r].connection THEN "connecting" ELSE "queued"
           times == req[r].prepared + 1
           q     == [req[r] EXCEPT !.prepared = times, !.code = code, !.stage = next]
<1>1. req[r] \in AttemptRecord /\ req = [s \in DOMAIN req |-> req[s]]
  BY DEF AttemptInv, Attempt
<1>2. next \in Stages /\ IF code # "ok" THEN next = "finishing" ELSE next \in {"connecting", "queued"}
  BY DEF Stages
<1>3. times \in 0..(MaxRetries + 1)
  BY <1>1, RetryAssumption DEF AttemptRecord
<1>4. req' = [req EXCEPT ![r] = q]
  BY <1>1, Zenon DEF Prepared, AttemptRecord
<1>5. times = req[r].prepared + 1
  OBVIOUS
<1> HIDE DEF next, times
<1>6. /\ q \in AttemptRecord /\ q.stage = next /\ q.prepared = times /\ q.code = code
      /\ q.retries = req[r].retries
      /\ q.type = req[r].type /\ q.always_send = req[r].always_send
  BY <1>1, <1>2, <1>3, Zenon DEF AttemptRecord
<1> HIDE DEF q
<1>7. req'[r] = q /\ DOMAIN req' = DOMAIN req /\ req' = [s \in DOMAIN req' |-> req'[s]]
  BY <1>4, Zenon
<1> QED
  BY <1>2, <1>5, <1>6, <1>7, Zenon DEF Kept

LEMMA NotifyEffect ==
    ASSUME AttemptInv, NEW r \in DOMAIN req, NEW code \in Errors \cup {"ok"}, NEW finishCode,
           NotifyConnectionFinished(r, code, finishCode)
    PROVE  /\ Kept(r) /\ req'[r].prepared = req[r].prepared /\ req'[r].code = code
           /\ \/ req'[r].stage = "finishing" /\ req'[r].retries = req[r].retries
              \/ /\ req'[r].stage = "backoff" /\ req'[r].retries = req[r].retries + 1
                 /\ finishCode = "retry"
<1> DEFINE retry == finishCode = "retry" /\ ~DisableRetries /\ ~meta_finished
                       /\ req[r].retries < MaxRetries
           times == IF retry THEN req[r].retries + 1 ELSE req[r].retries
           next  == IF retry THEN "backoff" ELSE "finishing"
           q     == [req[r] EXCEPT !.code = code, !.told = FALSE, !.retries = times,
                                   !.stage = next]
<1>1. req[r] \in AttemptRecord /\ req = [s \in DOMAIN req |-> req[s]]
  BY DEF AttemptInv, Attempt
<1>2. req' = [req EXCEPT ![r] = q]
  BY <1>1, Zenon DEF NotifyConnectionFinished, AttemptRecord
<1>3. next \in Stages
  BY DEF Stages
<1>4. times \in 0..MaxRetries
  BY <1>1, RetryAssumption DEF AttemptRecord
<1>5. \/ next = "finishing" /\ times = req[r].retries
      \/ next = "backoff" /\ times = req[r].retries + 1 /\ finishCode = "retry"
  BY Zenon
<1> HIDE DEF next, times
<1>6. /\ q \in AttemptRecord /\ q.stage = next /\ q.retries = times /\ q.code = code
      /\ q.prepared = req[r].prepared
      /\ q.type = req[r].type /\ q.always_send = req[r].always_send
  BY <1>1, <1>3, <1>4, Zenon DEF AttemptRecord
<1> HIDE DEF q
<1>7. req'[r] = q /\ DOMAIN req' = DOMAIN req /\ req' = [s \in DOMAIN req' |-> req'[s]]
  BY <1>2, Zenon
<1> QED
  BY <1>5, <1>6, <1>7, Zenon DEF Kept

LEMMA EndEffect ==
    ASSUME AttemptInv, NEW r \in DOMAIN req, NEW code \in Errors,
           req' = [req EXCEPT ![r].stage = "finishing", ![r].code = code]
    PROVE  /\ Kept(r) /\ req'[r].stage = "finishing" /\ req'[r].code = code
           /\ req'[r].prepared = req[r].prepared /\ req'[r].retries = req[r].retries
<1> DEFINE q == [req[r] EXCEPT !.stage = "finishing", !.code = code]
<1>1. req[r] \in AttemptRecord /\ "finishing" \in Stages
  BY DEF AttemptInv, Attempt, Stages
<1>2. req' = [req EXCEPT ![r] = q]
  BY <1>1, Zenon DEF AttemptRecord
<1>3. /\ q \in AttemptRecord /\ q.stage = "finishing" /\ q.code = code
      /\ q.prepared = req[r].prepared /\ q.retries = req[r].retries
      /\ q.type = req[r].type /\ q.always_send = req[r].always_send
  BY <1>1 DEF AttemptRecord
<1> HIDE DEF q
<1>4. req'[r] = q /\ DOMAIN req' = DOMAIN req /\ req' = [s \in DOMAIN req' |-> req'[s]]
  BY <1>2, Zenon DEF AttemptInv
<1> QED
  BY <1>3, <1>4, Zenon DEF Kept

LEMMA ConnectEffect ==
    ASSUME AttemptInv, NEW r \in DOMAIN req,
           req' = [req EXCEPT ![r].stage = "connecting", ![r].connection = TRUE]
    PROVE  /\ Kept(r) /\ req'[r].stage = "connecting"
           /\ req'[r].prepared = req[r].prepared /\ req'[r].retries = req[r].retries
<1> DEFINE q == [req[r] EXCEPT !.stage = "connecting", !.connection = TRUE]
<1>1. req[r] \in AttemptRecord /\ "connecting" \in Stages
  BY DEF AttemptInv, Attempt, Stages
<1>2. req' = [req EXCEPT ![r] = q]
  BY <1>1, Zenon DEF AttemptRecord
<1>3. /\ q \in AttemptRecord /\ q.stage = "connecting"
      /\ q.prepared = req[r].prepared /\ q.retries = req[r].retries
      /\ q.type = req[r].type /\ q.always_send = req[r].always_send
  BY <1>1 DEF AttemptRecord
<1> HIDE DEF q
<1>4. req'[r] = q /\ DOMAIN req' = DOMAIN req /\ req' = [s \in DOMAIN req' |-> req'[s]]
  BY <1>2, Zenon DEF AttemptInv
<1> QED
  BY <1>3, <1>4, Zenon DEF Kept
-----------------------------------------------------------------------------
\* While the request is in flight nothing was delivered and nothing finished.
LEMMA InFlight ==
    ASSUME RequestInv, NEW r \in DOMAIN req
    PROVE  /\ r = Only /\ DOMAIN req = {Only} /\ Attempt(r)
           /\ ~meta_finished /\ finish_result # "ok" /\ events = 0 /\ delivered = << >>
           /\ default.request_sent /\ ~default.request_completed
           /\ default.delivery_sent = 0 /\ default.delivery_completed = 0
<1>1. r = Only /\ DOMAIN req = {Only} /\ Attempt(r)
  BY Zenon DEF RequestInv, AttemptInv, Attempt
<1>2. default.request_sent /\ ~default.request_completed
  BY Zenon DEF RequestInv, DefaultInv
<1>3. default.delivery_sent = 0 /\ default.delivery_completed = 0 /\ events = 0
  BY <1>2 DEF RequestInv, DefaultInv, DefaultRecord
<1>4. ~meta_finished /\ delivered = << >>
  BY <1>1, <1>3, Zenon DEF RequestInv, DeliveryInv
<1>5. finish_result # "ok"
  BY <1>4, Zenon DEF RequestInv, DeliveryInv
<1> QED
  BY <1>1, <1>2, <1>3, <1>4, <1>5

\* A step of the request in flight, which stays in flight.
LEMMA AttemptGoesOn ==
    ASSUME RequestInv, NEW r \in DOMAIN req, Kept(r), Attempt(r)',
           default' \in DefaultRecord,
           default'.request_sent = default.request_sent,
           default'.request_completed = default.request_completed,
           default'.delivery_sent = default.delivery_sent,
           default'.delivery_completed = default.delivery_completed,
           UNCHANGED <<opts, delivered, events, reported, meta_finished, stop_called>>,
           HasBody => received' \subseteq {"whole"},
           faults' \in 0..MaxFaults,
           finish_result' = finish_result \/ (~HasResult /\ finish_result' \in Errors)
    PROVE  RequestInv'
<1>1. /\ r = Only /\ DOMAIN req = {Only} /\ Attempt(r)
      /\ ~meta_finished /\ finish_result # "ok" /\ events = 0 /\ delivered = << >>
      /\ default.request_sent /\ ~default.request_completed
      /\ default.delivery_sent = 0 /\ default.delivery_completed = 0
  BY InFlight, Zenon
<1>2. "ok" \notin Errors /\ "none" \notin Errors
  BY DEF Errors, FatalErrors
<1>3. ResultInv'
  BY <1>2, Zenon DEF RequestInv, ResultInv, HasResult
<1>4. AttemptInv'
  BY <1>1, Zenon DEF AttemptInv, Kept
<1>5. DefaultInv'
  BY <1>1, Zenon DEF RequestInv, DefaultInv, Kept, HasBody
<1>6. DeliveryInv'
  BY <1>1, <1>2 DEF RequestInv, DeliveryInv, HasResult
<1> QED
  BY <1>3, <1>4, <1>5, <1>6 DEF RequestInv

\* Such a step leaves the struct of the meta request alone.
LEMMA AttemptAlone ==
    ASSUME RequestInv, NEW r \in DOMAIN req, Kept(r), Attempt(r)',
           UNCHANGED defaultVars, UNCHANGED <<meta_finished, stop_called>>,
           faults' \in 0..MaxFaults,
           finish_result' = finish_result \/ (~HasResult /\ finish_result' \in Errors)
    PROVE  RequestInv'
<1>1. default \in DefaultRecord /\ (HasBody => received \subseteq {"whole"})
  BY Zenon DEF RequestInv, DefaultInv
<1> QED
  BY <1>1, AttemptGoesOn, Zenon DEF defaultVars

LEMMA FaultBound ==
    ASSUME RequestInv, Fault \/ NoFault
    PROVE  faults' \in 0..MaxFaults
BY RetryAssumption DEF RequestInv, ResultInv, Fault, NoFault

LEMMA SetResultEffect ==
    ASSUME NEW code \in Errors, SetResult(code)
    PROVE  finish_result' = finish_result \/ (~HasResult /\ finish_result' \in Errors)
BY DEF SetResult

Fresh == {"task", "preparing", "credentials", "session", "signing"}

\* A step that takes the preparation to its end, or to a failure.
LEMMA PreparedGoesOn ==
    ASSUME RequestInv, NEW r \in DOMAIN req, NEW code \in Errors \cup {"ok"}, Prepared(r, code),
           req[r].stage \in Fresh, code = "ok" => req[r].stage = "signing",
           UNCHANGED <<default, opts, stop_called>>
    PROVE  /\ Kept(r) /\ Attempt(r)'
           /\ finish_result' = finish_result \/ (~HasResult /\ finish_result' \in Errors)
<1>1. Attempt(r) /\ AttemptInv
  BY InFlight, Zenon DEF RequestInv
<1>2. req[r].prepared <= req[r].retries /\ req[r].prepared \in Nat /\ req[r].retries \in 0..MaxRetries
  BY <1>1 DEF Attempt, AttemptRecord, Fresh
<1>3. req[r].prepared <= MaxRetries
  BY <1>2, RetryAssumption
<1>4. /\ Kept(r) /\ req'[r].prepared = req[r].prepared + 1
      /\ req'[r].retries = req[r].retries /\ req'[r].code = code
      /\ IF code # "ok" THEN req'[r].stage = "finishing"
                        ELSE req'[r].stage \in {"connecting", "queued"}
  BY <1>1, <1>3, PreparedEffect, Zenon
<1>5. Attempt(r)'
  <2>1. code = "ok" /\ HasBody => default.request_body = "whole"
    BY <1>1, Zenon DEF Attempt
  <2>2. (HasBody <=> HasBody')
    BY DEF HasBody
  <2>3. r = Only /\ req'[r] \in AttemptRecord /\ req'[r].type = opts.type' /\ ~req'[r].always_send
    BY <1>1, <1>4, Zenon DEF Attempt, Kept
  <2> QED
    BY <1>2, <1>4, <2>1, <2>2, <2>3 DEF Attempt
<1>6. finish_result' = finish_result \/ (~HasResult /\ finish_result' \in Errors)
  BY SetResultEffect, Zenon DEF Prepared
<1> QED
  BY <1>4, <1>5, <1>6

\* A step that moves the request along, without opening a stream.
LEMMA MoveGoesOn ==
    ASSUME RequestInv, NEW r \in DOMAIN req, NEW stage \in Stages, Move(r, stage),
           \/ req[r].stage = "task" /\ stage = "preparing"
           \/ req[r].stage = "credentials" /\ stage = "session"
           \/ req[r].stage = "session" /\ stage = "signing"
           \/ req[r].stage = "connecting" /\ stage = "sending"
           \/ req[r].stage = "backoff" /\ stage = "task"
           \/ req[r].stage = "sending" /\ stage = "active" /\ ~HasResult,
           UNCHANGED <<default, opts, stop_called>>
    PROVE  Kept(r) /\ Attempt(r)'
<1>1. Attempt(r) /\ AttemptInv
  BY InFlight, Zenon DEF RequestInv
<1>2. /\ Kept(r) /\ req'[r].stage = stage
      /\ req'[r].prepared = req[r].prepared /\ req'[r].retries = req[r].retries
  BY <1>1, MoveEffect, Zenon
<1>3. r = Only /\ req'[r] \in AttemptRecord /\ req'[r].type = opts.type' /\ ~req'[r].always_send
  BY <1>1, <1>2, Zenon DEF Attempt, Kept
<1>4. (HasBody <=> HasBody')
  BY DEF HasBody
<1>5. stage = "active" => ~stop_called
  BY DEF RequestInv, ResultInv
<1> QED
  BY <1>1, <1>2, <1>3, <1>4, <1>5 DEF Attempt

\* A step that ends the attempt, well or not, or has it repeated.
LEMMA NotifyGoesOn ==
    ASSUME RequestInv, NEW r \in DOMAIN req, NEW code \in Errors \cup {"ok"}, NEW finishCode,
           NotifyConnectionFinished(r, code, finishCode),
           req[r].stage \in {"connecting", "sending", "active"},
           code = "ok" => finishCode # "retry" /\ Good',
           UNCHANGED <<default, opts, stop_called>>
    PROVE  Kept(r) /\ Attempt(r)'
<1>1. Attempt(r) /\ AttemptInv
  BY InFlight, Zenon DEF RequestInv
<1>2. /\ Kept(r) /\ req'[r].prepared = req[r].prepared /\ req'[r].code = code
      /\ \/ req'[r].stage = "finishing" /\ req'[r].retries = req[r].retries
         \/ /\ req'[r].stage = "backoff" /\ req'[r].retries = req[r].retries + 1
            /\ finishCode = "retry"
  BY <1>1, NotifyEffect, Zenon
<1>3. r = Only /\ req'[r] \in AttemptRecord /\ req'[r].type = opts.type' /\ ~req'[r].always_send
  BY <1>1, <1>2, Zenon DEF Attempt, Kept
<1>4. (HasBody <=> HasBody')
  BY DEF HasBody
<1>5. req[r].prepared \in Nat /\ req[r].retries \in Nat /\ req[r].prepared > 0
      /\ req[r].prepared <= req[r].retries + 1
  BY <1>1 DEF Attempt, AttemptRecord
<1>6. HasBody => default.request_body = "whole"
  BY <1>1, <1>5 DEF Attempt
<1> QED
  BY <1>2, <1>3, <1>4, <1>5, <1>6 DEF Attempt
-----------------------------------------------------------------------------
LEMMA PipelineKeeps ==
    ASSUME RequestInv, NEW r \in DOMAIN req, PipelineStep(r), UNCHANGED defaultVars
    PROVE  RequestInv' /\ UNCHANGED meta_finished
<1> USE DEF At
<1>1. UNCHANGED <<meta_finished, stop_called, default, opts>>
  BY Zenon DEF PipelineStep, PrepareTask, GetOriginalCredentials, GetExpressSession, OnSigned,
               UpdateConnections, AcquireConnection, RetryReady, SendRequest, defaultVars
<1>2. {"canceled", "connection", "prepare"} \subseteq Errors
  BY DEF Errors
<1>3. {"task", "preparing", "session", "signing", "sending", "active"} \subseteq Stages
  BY DEF Stages
<1>4. Attempt(r) /\ AttemptInv /\ ~req[r].always_send
  BY InFlight, Zenon DEF RequestInv, Attempt
<1>5. SUFFICES /\ Kept(r) /\ Attempt(r)' /\ (Fault \/ NoFault)
               /\ finish_result' = finish_result \/ (~HasResult /\ finish_result' \in Errors)
  BY <1>1, AttemptAlone, FaultBound, Zenon
<1>6. CASE PrepareTask(r)
  <2>1. req[r].stage = "task" /\ NoFault
    BY <1>6 DEF PrepareTask
  <2>2. CASE Prepared(r, "canceled")
    BY <1>1, <1>2, <2>1, <2>2, PreparedGoesOn DEF Fresh
  <2>3. CASE Move(r, "preparing") /\ UNCHANGED finish_result
    BY <1>1, <1>3, <2>1, <2>3, MoveGoesOn
  <2> QED
    BY <1>6, <2>2, <2>3 DEF PrepareTask
<1>7. CASE GetOriginalCredentials(r)
  <2>1. req[r].stage = "credentials" /\ (Fault \/ NoFault)
    BY <1>7 DEF GetOriginalCredentials
  <2>2. CASE Prepared(r, "prepare")
    BY <1>1, <1>2, <2>1, <2>2, PreparedGoesOn DEF Fresh
  <2>3. CASE Move(r, "session") /\ UNCHANGED finish_result
    BY <1>1, <1>3, <2>1, <2>3, MoveGoesOn
  <2> QED
    BY <1>7, <2>2, <2>3 DEF GetOriginalCredentials
<1>8. CASE GetExpressSession(r)
  <2>1. req[r].stage = "session" /\ (Fault \/ NoFault)
    BY <1>8 DEF GetExpressSession
  <2>2. CASE Prepared(r, "prepare")
    BY <1>1, <1>2, <2>1, <2>2, PreparedGoesOn DEF Fresh
  <2>3. CASE Move(r, "signing") /\ UNCHANGED finish_result
    BY <1>1, <1>3, <2>1, <2>3, MoveGoesOn
  <2> QED
    BY <1>8, <2>2, <2>3 DEF GetExpressSession
<1>9. CASE OnSigned(r)
  <2>1. req[r].stage = "signing" /\ (Fault \/ NoFault)
    BY <1>9 DEF OnSigned
  <2>2. \E code \in {"ok", "prepare"} : Prepared(r, code)
    BY <1>9 DEF OnSigned
  <2> QED
    BY <1>1, <1>2, <2>1, <2>2, PreparedGoesOn DEF Fresh
<1>10. CASE UpdateConnections(r)
  <2>1. req[r].stage = "queued" /\ NoFault /\ UNCHANGED finish_result
    BY <1>10, Zenon DEF UpdateConnections
  <2>2. Kept(r) /\ req'[r].prepared = req[r].prepared /\ req'[r].retries = req[r].retries
        /\ \/ req'[r].stage = "finishing" /\ req'[r].code = "canceled"
           \/ req'[r].stage = "connecting"
    BY <1>2, <1>4, <1>10, EndEffect, ConnectEffect, Zenon DEF UpdateConnections
  <2>3. r = Only /\ req'[r] \in AttemptRecord /\ req'[r].type = opts.type' /\ ~req'[r].always_send
    BY <1>1, <1>4, <2>2, Zenon DEF Attempt, Kept
  <2>4. (HasBody <=> HasBody')
    BY <1>1 DEF HasBody
  <2> QED
    BY <1>1, <1>4, <2>1, <2>2, <2>3, <2>4 DEF Attempt
<1>11. CASE AcquireConnection(r)
  <2>1. req[r].stage = "connecting" /\ (Fault \/ NoFault) /\ UNCHANGED finish_result
    BY <1>11, Zenon DEF AcquireConnection
  <2>2. CASE Move(r, "sending")
    BY <1>1, <1>3, <2>1, <2>2, MoveGoesOn
  <2>3. CASE \E finishCode \in {"retry", "failed"} :
                NotifyConnectionFinished(r, "connection", finishCode)
    BY <1>1, <1>2, <2>1, <2>3, NotifyGoesOn
  <2> QED
    BY <1>11, <2>2, <2>3 DEF AcquireConnection
<1>12. CASE RetryReady(r)
  <2>1. req[r].stage = "backoff" /\ (Fault \/ NoFault) /\ UNCHANGED finish_result
    BY <1>12, Zenon DEF RetryReady
  <2>2. CASE Move(r, "task")
    BY <1>1, <1>3, <2>1, <2>2, MoveGoesOn
  <2>3. CASE req' = [req EXCEPT ![r].stage = "finishing", ![r].code = "connection"]
    <3>1. /\ Kept(r) /\ req'[r].stage = "finishing" /\ req'[r].code = "connection"
          /\ req'[r].prepared = req[r].prepared /\ req'[r].retries = req[r].retries
      BY <1>2, <1>4, <2>3, EndEffect, Zenon
    <3>2. r = Only /\ req'[r] \in AttemptRecord /\ req'[r].type = opts.type' /\ ~req'[r].always_send
      BY <1>1, <1>4, <3>1, Zenon DEF Attempt, Kept
    <3> QED
      BY <1>4, <2>1, <3>1, <3>2 DEF Attempt
  <2> QED
    BY <1>12, <2>2, <2>3 DEF RetryReady
<1>13. CASE SendRequest(r)
  <2>1. req[r].stage = "sending" /\ (Fault \/ NoFault) /\ UNCHANGED finish_result
    BY <1>13, Zenon DEF SendRequest
  <2>2. CASE ~Dropped(r) /\ Move(r, "active")
    BY <1>1, <1>3, <1>4, <2>1, <2>2, MoveGoesOn DEF Dropped
  <2>3. CASE SendRequestFinish(r, "canceled") \/ SendRequestFinish(r, "connection")
    BY <1>1, <1>2, <2>1, <2>3, NotifyGoesOn DEF SendRequestFinish
  <2> QED
    BY <1>13, <2>2, <2>3 DEF SendRequest
<1> QED
  BY <1>6, <1>7, <1>8, <1>9, <1>10, <1>11, <1>12, <1>13 DEF PipelineStep
-----------------------------------------------------------------------------
LEMMA PrepareKeeps ==
    ASSUME RequestInv, NEW r \in DOMAIN req, PrepareRequest(r)
    PROVE  RequestInv'
<1> USE DEF At
<1>1. /\ req[r].stage = "preparing"
      /\ UNCHANGED <<meta_finished, stop_called, opts, answer, response, delivered, events,
                     received, reported>>
  BY Zenon DEF PrepareRequest
<1>2. Attempt(r) /\ AttemptInv
  BY InFlight, Zenon DEF RequestInv
<1>3. default \in DefaultRecord /\ (HasBody => received \subseteq {"whole"})
  BY Zenon DEF RequestInv, DefaultInv
<1>4. CASE /\ Prepared(r, "prepare") /\ UNCHANGED default /\ (Fault \/ NoFault)
  <2>1. "prepare" \in Errors \cup {"ok"}
    BY DEF Errors
  <2>2. /\ Kept(r) /\ Attempt(r)'
        /\ finish_result' = finish_result \/ (~HasResult /\ finish_result' \in Errors)
    BY <1>1, <1>4, <2>1, PreparedGoesOn DEF Fresh
  <2> QED
    BY <1>1, <1>4, <2>2, AttemptAlone, FaultBound, Zenon DEF defaultVars
<1>5. CASE /\ opts.body # "short" \/ req[r].prepared > 0
           /\ ToSigning(r, FALSE)
           /\ default' = [default EXCEPT !.request_body = ReadBody(r)]
           /\ UNCHANGED finish_result /\ NoFault
  <2>1. PICK stage \in {"signing", "session", "credentials"} : Move(r, stage)
    BY <1>5, Zenon DEF ToSigning
  <2>2. stage \in Stages
    BY DEF Stages
  <2>3. /\ Kept(r) /\ req'[r].stage = stage
        /\ req'[r].prepared = req[r].prepared /\ req'[r].retries = req[r].retries
    BY <1>2, <2>1, <2>2, MoveEffect, Zenon
  <2>4. req[r].prepared \in Nat
    BY <1>2 DEF Attempt, AttemptRecord
  <2>5. /\ ReadBody(r) \in {"empty", "whole"}
        /\ HasBody => ReadBody(r) = "whole"
    <3>1. HasBody /\ req[r].prepared # 0 => default.request_body = "whole"
      BY <1>1, <1>2, <2>4 DEF Attempt
    <3>2. default.request_body \in {"empty", "whole"}
      BY <1>3 DEF DefaultRecord
    <3> QED
      BY <3>1, <3>2, Zenon DEF ReadBody, HasBody
  <2>6. /\ default' \in DefaultRecord
        /\ default'.request_body = ReadBody(r)
        /\ default'.request_sent = default.request_sent
        /\ default'.request_completed = default.request_completed
        /\ default'.delivery_sent = default.delivery_sent
        /\ default'.delivery_completed = default.delivery_completed
    <3> DEFINE body == ReadBody(r)
    <3>1. body \in {"empty", "whole"} /\ default' = [default EXCEPT !.request_body = body]
      BY <1>5, <2>5
    <3> HIDE DEF body
    <3>2. /\ default' \in DefaultRecord
          /\ default'.request_body = body
          /\ default'.request_sent = default.request_sent
          /\ default'.request_completed = default.request_completed
          /\ default'.delivery_sent = default.delivery_sent
          /\ default'.delivery_completed = default.delivery_completed
      BY <1>3, <3>1 DEF DefaultRecord
    <3> QED
      BY <3>2, Zenon DEF body
  <2>7. r = Only /\ req'[r] \in AttemptRecord /\ req'[r].type = opts.type' /\ ~req'[r].always_send
    BY <1>1, <1>2, <2>3, Zenon DEF Attempt, Kept
  <2>8. HasBody <=> HasBody'
    BY <1>1 DEF HasBody
  <2>9. Attempt(r)'
    <3>1. HasBody => default'.request_body = "whole"
      BY <2>5, <2>6
    <3> QED
      BY <1>1, <1>2, <2>3, <2>7, <2>8, <3>1 DEF Attempt
  <2> QED
    BY <1>1, <1>3, <1>5, <2>3, <2>6, <2>9, AttemptGoesOn, FaultBound, Zenon
<1> QED
  BY <1>4, <1>5, Zenon DEF PrepareRequest

\* s_s3_meta_request_stream_complete: what counts as success is the answer.
LEMMA ReplyKeeps ==
    ASSUME RequestInv, NEW r \in DOMAIN req, Reply(r)
    PROVE  RequestInv'
<1>1. /\ req[r].stage = "active"
      /\ UNCHANGED <<finish_result, meta_finished, stop_called, opts, default, answer,
                     delivered, events, reported>>
      /\ received' = received \cup {default.request_body}
  BY DEF Reply, At, StreamComplete
<1>2. Attempt(r) /\ AttemptInv /\ req[r].type = opts.type
  BY InFlight, Zenon DEF RequestInv, Attempt
<1>3. default \in DefaultRecord /\ (HasBody => received \subseteq {"whole"})
  BY Zenon DEF RequestInv, DefaultInv
<1>4. HasBody => received' \subseteq {"whole"}
  <2>1. req[r].prepared > 0
    BY <1>1, <1>2 DEF Attempt
  <2>2. HasBody => default.request_body = "whole"
    BY <1>1, <1>2, <2>1 DEF Attempt
  <2> QED
    BY <1>1, <1>3, <2>2
<1>5. PICK intact \in BOOLEAN, status \in {200, 404, 500}, xml \in {"none", "recoverable", "unknown"},
           http \in {"ok", "connection", "canceled"} :
          LET answered == [status |-> status, xml |-> xml, intact |-> intact]
          IN  /\ intact \/ opts.type = "get"
              /\ xml # "none" => http = "ok" /\ opts.type # "get"
              /\ http # "ok" => answered = GoodResponse
              /\ http = "canceled" => req[r].told
              /\ StreamComplete(r, http, answered, opts.validate)
              /\ IF http = "canceled" \/ (http = "ok" /\ answered = GoodResponse)
                 THEN NoFault ELSE Fault
              /\ response' = [data |-> IF http = "ok" /\ status = 200 /\ xml = "none"
                                       THEN answer ELSE 0,
                              intact |-> intact]
  BY Zenon DEF Reply
<1> DEFINE answered == [status |-> status, xml |-> xml, intact |-> intact]
           code == IF http # "ok" THEN http
                   ELSE IF opts.validate /\ ~answered.intact THEN "checksum_mismatch"
                   ELSE ErrorFromResponse(req[r].type, answered)
<1>6. NotifyConnectionFinished(r, code, FinishCode(code))
  BY <1>5, Zenon DEF StreamComplete, SendRequestFinish
<1>7. code \in Errors \cup {"ok"}
  BY DEF ErrorFromResponse, ErrorFromStatus, Errors, FatalErrors
<1>8. code = "ok" => /\ FinishCode(code) # "retry"
                     /\ http = "ok" /\ status = 200 /\ xml = "none" /\ (opts.validate => intact)
  BY <1>2, <1>5 DEF ErrorFromResponse, ErrorFromStatus, FinishCode
<1>9. code = "ok" => Good'
  BY <1>1, <1>5, <1>8 DEF Good
<1> HIDE DEF code
<1>10. Kept(r) /\ Attempt(r)'
  BY <1>1, <1>6, <1>7, <1>8, <1>9, NotifyGoesOn
<1> QED
  BY <1>1, <1>3, <1>4, <1>5, <1>10, AttemptGoesOn, FaultBound, Zenon
-----------------------------------------------------------------------------
\* s_s3_meta_request_default_request_finished
LEMMA FinishedKeeps ==
    ASSUME RequestInv, NEW r \in DOMAIN req, RequestFinished(r)
    PROVE  RequestInv'
<1>1. /\ r = Only /\ DOMAIN req = {Only} /\ Attempt(r)
      /\ ~meta_finished /\ finish_result # "ok" /\ events = 0 /\ delivered = << >>
      /\ default.request_sent /\ ~default.request_completed
      /\ default.delivery_sent = 0 /\ default.delivery_completed = 0
  BY InFlight, Zenon
<1>2. /\ req[r].stage = "finishing" /\ Consume(r)
      /\ UNCHANGED <<meta_finished, stop_called, opts, answer, response, delivered, received,
                     reported>>
  BY Zenon DEF RequestFinished, At
<1>3. PICK code \in {req[r].code, "callback"} :
         /\ IF code = req[r].code THEN NoFault
            ELSE req[r].code = "ok" /\ opts.headers /\ Fault
         /\ IF code = "ok" THEN UNCHANGED finish_result ELSE SetResult(code)
         /\ default' = [default EXCEPT !.request_completed = TRUE,
                            !.delivery_sent = IF code = "ok" THEN @ + 1 ELSE @]
         /\ events' = IF code = "ok" THEN events + 1 ELSE events
  BY Zenon DEF RequestFinished
<1>4. code \in Errors \cup {"ok"}
  BY <1>1 DEF Attempt, AttemptRecord, Errors
<1>5. code = "ok" => Good
  BY <1>1, <1>2 DEF Attempt
<1>6. req' = [s \in {} |-> req[s]] /\ DOMAIN req' = {}
  <2>1. DOMAIN req \ {r} = {}
    BY <1>1
  <2> QED
    BY <1>2, <2>1 DEF Consume
<1>7. finish_result' = finish_result \/ (~HasResult /\ finish_result' \in Errors)
  BY <1>3, <1>4, SetResultEffect, Zenon
<1>8. "ok" \notin Errors /\ "none" \notin Errors
  BY DEF Errors, FatalErrors
<1>9. faults' \in 0..MaxFaults
  BY <1>3, FaultBound, Zenon
<1>10. /\ default' \in DefaultRecord
       /\ default'.request_sent /\ default'.request_completed
       /\ default'.delivery_completed = 0
       /\ default'.delivery_sent = IF code = "ok" THEN 1 ELSE 0
  <2> DEFINE sent == IF code = "ok" THEN default.delivery_sent + 1 ELSE default.delivery_sent
  <2>1. sent = (IF code = "ok" THEN 1 ELSE 0) /\ sent \in 0..1
    BY <1>1
  <2>2. default' = [default EXCEPT !.request_completed = TRUE, !.delivery_sent = sent]
    BY <1>3
  <2> HIDE DEF sent
  <2>3. default \in DefaultRecord
    BY Zenon DEF RequestInv, DefaultInv
  <2> QED
    BY <1>1, <2>1, <2>2, <2>3, Zenon DEF DefaultRecord
<1>11. ResultInv'
  BY <1>2, <1>7, <1>8, <1>9, Zenon DEF RequestInv, ResultInv, HasResult
<1>12. AttemptInv'
  BY <1>6 DEF AttemptInv
<1>13. events' \in Nat
  BY <1>1, <1>3
<1>14. Good <=> Good'
  BY <1>2 DEF Good
<1>15. DefaultInv'
  <2>1. opts' \in Options \cup {ListOptions} /\ (HasBody' => received' \subseteq {"whole"})
    BY <1>2 DEF RequestInv, DefaultInv, HasBody
  <2>2. default'.delivery_completed <= default'.delivery_sent
    BY <1>10
  <2>3. default'.delivery_sent = 1 => code = "ok"
    BY <1>10
  <2> QED
    BY <1>5, <1>6, <1>10, <1>13, <1>14, <2>1, <2>2, <2>3, Zenon DEF DefaultInv
<1>16. DeliveryInv'
  <2>1. reported = NotReported
    BY <1>1, Zenon DEF RequestInv, DeliveryInv
  <2>2. finish_result' # "ok"
    BY <1>1, <1>7, <1>8
  <2>3. default'.delivery_completed # 1
    BY <1>10
  <2> QED
    BY <1>1, <1>2, <2>1, <2>2, <2>3, Zenon DEF DeliveryInv
<1> QED
  BY <1>11, <1>12, <1>15, <1>16 DEF RequestInv

\* s_s3_meta_request_default_update hands out the request
LEMMA UpdateSendKeeps ==
    ASSUME RequestInv, UpdateSend
    PROVE  RequestInv'
<1>1. /\ ~meta_finished /\ ~HasResult /\ ~default.request_sent
      /\ Hand(Only, opts.type, FALSE)
      /\ default' = [default EXCEPT !.request_sent = TRUE]
      /\ UNCHANGED <<finish_result, meta_finished, signing, stop_called, faults,
                     opts, answer, response, delivered, events, received, reported>>
  BY Zenon DEF UpdateSend
<1>2. /\ default \in DefaultRecord /\ opts \in Options \cup {ListOptions}
      /\ DOMAIN req = {} /\ ~default.request_completed
      /\ default.delivery_sent # 1 /\ default.delivery_completed <= default.delivery_sent
      /\ events \in Nat /\ (events > 0 => default.request_completed)
  BY <1>1, Zenon DEF RequestInv, DefaultInv
<1>3. default.delivery_sent = 0 /\ default.delivery_completed = 0 /\ events = 0
  BY <1>2 DEF DefaultRecord
<1>4. /\ default' \in DefaultRecord /\ default'.request_sent /\ ~default'.request_completed
      /\ default'.delivery_sent = 0 /\ default'.delivery_completed = 0
  BY <1>1, <1>2, <1>3, Zenon DEF DefaultRecord
<1>5. opts.type \in RequestTypes
  BY <1>2 DEF Options, ListOptions, RequestTypes
<1> DEFINE q == NewRequest(opts.type, FALSE)
<1>6. /\ q \in AttemptRecord /\ q.type = opts.type /\ ~q.always_send /\ q.stage = "task"
      /\ q.prepared = 0 /\ q.retries = 0
  BY <1>5, RetryAssumption DEF NewRequest, AttemptRecord, Stages
<1> HIDE DEF q
<1>7. DOMAIN req' = {Only} /\ req' = [s \in DOMAIN req' |-> req'[s]] /\ req'[Only] = q
  <2>1. req' = [s \in DOMAIN req \cup {Only} |-> IF s = Only THEN q ELSE req[s]]
    BY <1>1, Zenon DEF Hand, q
  <2> QED
    BY <1>2, <2>1
<1>8. AttemptInv'
  <2>1. Attempt(Only)'
    BY <1>1, <1>6, <1>7 DEF Attempt
  <2> QED
    BY <1>7, <2>1, Zenon DEF AttemptInv
<1>9. ResultInv'
  BY <1>1, Zenon DEF RequestInv, ResultInv, HasResult
<1>10. DefaultInv'
  <2>1. HasBody' => received' \subseteq {"whole"}
    BY <1>1 DEF RequestInv, DefaultInv, HasBody
  <2>2. default'.delivery_completed <= default'.delivery_sent /\ default'.delivery_sent # 1
        /\ ~(events' > 0) /\ events' \in Nat
    BY <1>1, <1>3, <1>4
  <2> QED
    BY <1>1, <1>2, <1>4, <1>7, <2>1, <2>2, Zenon DEF DefaultInv
<1>11. DeliveryInv'
  <2>1. delivered = << >> /\ finish_result # "ok" /\ reported = NotReported
    BY <1>1, <1>3, Zenon DEF RequestInv, DeliveryInv
  <2>2. default'.delivery_completed # 1
    BY <1>4
  <2> QED
    BY <1>1, <2>1, <2>2, Zenon DEF DeliveryInv
<1> QED
  BY <1>8, <1>9, <1>10, <1>11 DEF RequestInv
\* s_s3_meta_request_event_delivery_task
LEMMA DeliverBodyKeeps ==
    ASSUME RequestInv, NEW mayFail, DeliverBody(mayFail)
    PROVE  RequestInv'
<1>1. /\ default.delivery_completed < default.delivery_sent
      /\ default' = [default EXCEPT !.delivery_completed = @ + 1]
      /\ UNCHANGED <<meta_finished, req, signing, stop_called,
                     opts, answer, response, events, received, reported>>
      /\ Fault \/ NoFault
  BY Zenon DEF DeliverBody
<1>2. /\ default \in DefaultRecord /\ default.delivery_sent \in 0..1
      /\ default.delivery_completed \in 0..1
  BY DEF RequestInv, DefaultInv, DefaultRecord
<1>3. default.delivery_sent = 1 /\ default.delivery_completed = 0
  BY <1>1, <1>2
<1>4. /\ default.request_completed /\ Good /\ DOMAIN req = {} /\ default.request_sent
      /\ delivered = << >>
  BY <1>3, Zenon DEF RequestInv, DefaultInv, DeliveryInv
<1>5. ~meta_finished /\ finish_result # "ok" /\ reported = NotReported
  <2>1. ~meta_finished
    BY <1>3 DEF RequestInv, DeliveryInv
  <2> QED
    BY <2>1, Zenon DEF RequestInv, DeliveryInv
<1>6. /\ default' \in DefaultRecord /\ default'.delivery_completed = 1
      /\ default'.delivery_sent = 1 /\ default'.request_completed /\ default'.request_sent
  <2> DEFINE done == default.delivery_completed + 1
  <2>1. done = 1 /\ default' = [default EXCEPT !.delivery_completed = done]
    BY <1>1, <1>3
  <2> HIDE DEF done
  <2> QED
    BY <1>2, <1>3, <1>4, <2>1 DEF DefaultRecord
<1>7. /\ finish_result' = finish_result \/ (~HasResult /\ finish_result' \in Errors)
      /\ delivered' \in {<< >>, <<response>>}
      /\ ~HasResult => delivered' = <<response>>
  <2>1. "callback" \in Errors
    BY DEF Errors
  <2>2. Append(delivered, response) = <<response>>
    BY <1>4
  <2> QED
    BY <1>4, <2>1, <2>2, SetResultEffect, Zenon DEF DeliverBody
<1>8. "ok" \notin Errors /\ "none" \notin Errors
  BY DEF Errors, FatalErrors
<1>9. faults' \in 0..MaxFaults
  BY <1>1, FaultBound, Zenon
<1>10. ResultInv'
  BY <1>1, <1>7, <1>8, <1>9, Zenon DEF RequestInv, ResultInv, HasResult
<1>11. AttemptInv'
  BY <1>1, <1>4 DEF RequestInv, AttemptInv
<1>12. Good'
  BY <1>1, <1>4 DEF Good
<1>13. DefaultInv'
  <2>1. default'.delivery_completed <= default'.delivery_sent
    BY <1>6
  <2>2. /\ opts' \in Options \cup {ListOptions} /\ (HasBody' => received' \subseteq {"whole"})
        /\ events' \in Nat
    BY <1>1 DEF RequestInv, DefaultInv, HasBody
  <2> QED
    BY <1>1, <1>4, <1>6, <1>12, <2>1, <2>2, Zenon DEF DefaultInv
<1>14. DeliveryInv'
  <2>1. default'.delivery_completed # 0
    BY <1>6
  <2>2. finish_result' # "ok"
    BY <1>5, <1>7, <1>8
  <2>3. ~HasResult' => delivered' = <<response>>
    BY <1>7, <1>8 DEF HasResult
  <2> QED
    BY <1>1, <1>5, <1>7, <2>1, <2>2, <2>3, Zenon DEF DeliveryInv
<1> QED
  BY <1>10, <1>11, <1>13, <1>14 DEF RequestInv

LEMMA DeliverProgressKeeps ==
    ASSUME RequestInv, DeliverProgress
    PROVE  RequestInv'
<1>1. /\ events > 0 /\ events' = events - 1 /\ UNCHANGED attemptVars
      /\ UNCHANGED <<opts, default, answer, response, delivered, received, reported>>
  BY Zenon DEF DeliverProgress
<1>2. events \in Nat /\ default.request_completed
  BY <1>1, Zenon DEF RequestInv, DefaultInv
<1>3. events' \in Nat /\ events # 0
  BY <1>1, <1>2
<1>4. ~meta_finished
  BY <1>3, Zenon DEF RequestInv, DeliveryInv
<1>5. ResultInv'
  BY <1>1 DEF RequestInv, ResultInv, HasResult, attemptVars
<1>6. AttemptInv'
  <2>1. DOMAIN req' = {} /\ UNCHANGED req
    BY <1>1, <1>2, Zenon DEF RequestInv, DefaultInv, attemptVars
  <2> QED
    BY <2>1 DEF RequestInv, AttemptInv
<1>7. DefaultInv'
  BY <1>1, <1>2, <1>3, Zenon DEF RequestInv, DefaultInv, HasBody, Good, attemptVars
<1>8. DeliveryInv'
  BY <1>1, <1>4, Zenon DEF RequestInv, DeliveryInv, HasResult, attemptVars
<1> QED
  BY <1>5, <1>6, <1>7, <1>8 DEF RequestInv

\* The no_work_remaining branch of s_s3_meta_request_default_update
LEMMA UpdateFinishKeeps ==
    ASSUME RequestInv, UpdateFinish
    PROVE  RequestInv' /\ meta_finished' /\ reported'.code = finish_result'
<1>1. /\ ~meta_finished /\ NothingLeft /\ events = 0
      /\ SetResult("ok")
      /\ meta_finished' = TRUE
      /\ reported' = [code |-> finish_result', status |-> StatusOf(finish_result')]
      /\ UNCHANGED <<req, signing, stop_called, faults,
                     opts, default, answer, response, delivered, events, received>>
  BY Zenon DEF UpdateFinish
<1>2. finish_result # "ok" /\ finish_result' # "none"
      /\ (HasResult => finish_result' = finish_result) /\ (~HasResult => finish_result' = "ok")
  BY <1>1, Zenon DEF RequestInv, DeliveryInv, SetResult, HasResult
<1>3. /\ default.delivery_sent \in 0..1 /\ default.delivery_completed \in 0..1
      /\ default.delivery_completed <= default.delivery_sent
  BY DEF RequestInv, DefaultInv, DefaultRecord
<1>4. /\ DOMAIN req = {} /\ default.delivery_completed = default.delivery_sent
      /\ ~HasResult => default.delivery_completed = 1 /\ default.delivery_sent = 1
  <2>1. CASE ~default.request_sent
    <3>1. HasResult /\ DOMAIN req = {} /\ ~default.request_completed /\ default.delivery_sent # 1
      BY <1>1, <2>1, Zenon DEF NothingLeft, RequestInv, DefaultInv
    <3> QED
      BY <1>3, <3>1
  <2>2. CASE default.request_sent
    <3>1. DOMAIN req = {}
      BY <1>1, <2>2, Zenon DEF NothingLeft, RequestInv, DefaultInv
    <3> QED
      BY <1>1, <1>3, <2>2, <3>1 DEF NothingLeft
  <2> QED
    BY <2>1, <2>2
<1>5. ~HasResult => delivered = <<response>>
  BY <1>4, Zenon DEF RequestInv, DeliveryInv
<1>6. ResultInv'
  BY <1>1, <1>2, Zenon DEF RequestInv, ResultInv, HasResult
<1>7. AttemptInv'
  BY <1>1, <1>4 DEF RequestInv, AttemptInv
<1>8. DefaultInv'
  BY <1>1, Zenon DEF RequestInv, DefaultInv, HasBody, Good
<1>9. DeliveryInv'
  BY <1>1, <1>2, <1>4, <1>5, Zenon DEF RequestInv, DeliveryInv, HasResult
<1> QED
  BY <1>1, <1>6, <1>7, <1>8, <1>9 DEF RequestInv

\* aws_s3_meta_request_cancel and pause
LEMMA StopKeeps ==
    ASSUME RequestInv, NEW code \in Errors, Stop(code), UNCHANGED defaultVars
    PROVE  RequestInv'
<1>1. /\ ~meta_finished /\ ~stop_called /\ SetResult(code) /\ stop_called' = TRUE
      /\ UNCHANGED <<meta_finished, signing, faults>>
      /\ UNCHANGED <<opts, default, answer, response, delivered, events, received, reported>>
  BY Zenon DEF Stop, defaultVars
<1>2. req' = [r \in DOMAIN req |->
                 IF req[r].stage = "active" /\ ~req[r].always_send
                 THEN [req[r] EXCEPT !.told = TRUE] ELSE req[r]]
  BY Zenon DEF Stop
<1>3. "ok" \notin Errors /\ "none" \notin Errors
  BY DEF Errors, FatalErrors
<1>4. /\ finish_result' = finish_result \/ (~HasResult /\ finish_result' \in Errors)
      /\ finish_result' # "none" /\ finish_result # "ok"
  BY <1>1, <1>3, Zenon DEF SetResult, HasResult, RequestInv, DeliveryInv
<1>5. ResultInv'
  BY <1>1, <1>4, Zenon DEF RequestInv, ResultInv, HasResult
<1>6. DOMAIN req' = DOMAIN req /\ req' = [s \in DOMAIN req' |-> req'[s]]
  BY <1>2, Zenon
<1>7. ASSUME NEW r \in DOMAIN req
      PROVE  Attempt(r)'
  <2>1. Attempt(r) /\ req[r] \in AttemptRecord /\ ~req[r].always_send
    BY Zenon DEF RequestInv, AttemptInv, Attempt
  <2>2. CASE req[r].stage = "active"
    <3> DEFINE q == [req[r] EXCEPT !.told = TRUE]
    <3>1. req'[r] = q
      BY <1>2, <2>1, <2>2
    <3>2. /\ q \in AttemptRecord /\ q.told /\ q.stage = req[r].stage /\ q.code = req[r].code
          /\ q.prepared = req[r].prepared /\ q.retries = req[r].retries
          /\ q.type = req[r].type /\ q.always_send = req[r].always_send
      BY <2>1, Zenon DEF AttemptRecord
    <3> HIDE DEF q
    <3> QED
      BY <1>1, <2>1, <2>2, <3>1, <3>2, Zenon DEF Attempt, HasBody, Good
  <2>3. CASE req[r].stage # "active"
    <3>1. req'[r] = req[r]
      BY <1>2, <2>3
    <3> QED
      BY <1>1, <2>1, <2>3, <3>1, Zenon DEF Attempt, HasBody, Good
  <2> QED
    BY <2>2, <2>3
<1>8. AttemptInv'
  BY <1>6, <1>7, Zenon DEF AttemptInv
<1>9. DefaultInv'
  BY <1>1, <1>6, Zenon DEF RequestInv, DefaultInv, HasBody, Good
<1>10. DeliveryInv'
  BY <1>1, <1>3, <1>4, Zenon DEF RequestInv, DeliveryInv, HasResult
<1> QED
  BY <1>5, <1>8, <1>9, <1>10 DEF RequestInv

\* A step of the meta request other than its end, which comes before it.
LEMMA DefaultStepKeeps ==
    ASSUME RequestInv, NEW mayFail, DefaultStep(mayFail)
    PROVE  /\ RequestInv' /\ ~meta_finished /\ UNCHANGED <<meta_finished, stop_called, opts, answer>>
<1>1. CASE UpdateSend
  BY <1>1, UpdateSendKeeps, Zenon DEF UpdateSend
<1>2. CASE DeliverBody(mayFail)
  <2>1. default.delivery_completed # default.delivery_sent
    BY <1>2 DEF DeliverBody, RequestInv, DefaultInv, DefaultRecord
  <2> QED
    BY <1>2, <2>1, DeliverBodyKeeps, Zenon DEF DeliverBody, RequestInv, DeliveryInv
<1>3. CASE DeliverProgress
  <2>1. events # 0
    BY <1>3 DEF DeliverProgress
  <2> QED
    BY <1>3, <2>1, DeliverProgressKeeps, Zenon DEF DeliverProgress, attemptVars, RequestInv, DeliveryInv
<1>4. CASE \E r \in DOMAIN req : PrepareRequest(r) \/ Reply(r) \/ RequestFinished(r)
  <2>1. PICK r \in DOMAIN req : PrepareRequest(r) \/ Reply(r) \/ RequestFinished(r)
    BY <1>4
  <2>2. RequestInv' /\ ~meta_finished
    BY <2>1, InFlight, PrepareKeeps, ReplyKeeps, FinishedKeeps, Zenon
  <2>3. Reply(r) => UNCHANGED <<meta_finished, stop_called, opts, answer>>
    BY DEF Reply, StreamComplete
  <2>4. PrepareRequest(r) \/ RequestFinished(r) => UNCHANGED <<meta_finished, stop_called, opts, answer>>
    BY Zenon DEF PrepareRequest, RequestFinished
  <2> QED
    BY <2>1, <2>2, <2>3, <2>4, Zenon
<1>5. CASE \E r \in DOMAIN req : PipelineStep(r) /\ UNCHANGED defaultVars
  <2>1. PICK r \in DOMAIN req : PipelineStep(r) /\ UNCHANGED defaultVars
    BY <1>5
  <2>2. RequestInv' /\ ~meta_finished
    BY <2>1, InFlight, PipelineKeeps, Zenon
  <2>3. UNCHANGED <<meta_finished, stop_called, opts, answer>>
    BY <2>1, Zenon DEF PipelineStep, PrepareTask, GetOriginalCredentials, GetExpressSession, OnSigned,
               UpdateConnections, AcquireConnection, RetryReady, SendRequest, defaultVars
  <2> QED
    BY <2>2, <2>3
<1> QED
  BY <1>1, <1>2, <1>3, <1>4, <1>5 DEF DefaultStep

\* A meta request that was just made
LEMMA NewRequestKeeps ==
    ASSUME finish_result = "none", meta_finished = FALSE, req = << >>, stop_called = FALSE,
           faults \in 0..MaxFaults, opts \in Options \cup {ListOptions},
           default = NewDefault, delivered = << >>, events = 0, received = {},
           reported = NotReported
    PROVE  RequestInv
<1>1. ResultInv
  BY Zenon DEF ResultInv
<1>2. AttemptInv /\ DOMAIN req = {}
  BY DEF AttemptInv
<1>3. /\ default \in DefaultRecord /\ ~default.request_sent /\ ~default.request_completed
      /\ default.delivery_sent = 0 /\ default.delivery_completed = 0
  BY DEF NewDefault, DefaultRecord
<1>4. DefaultInv
  BY <1>2, <1>3 DEF DefaultInv
<1>5. DeliveryInv
  BY <1>2, <1>3 DEF DeliveryInv
<1> QED
  BY <1>1, <1>2, <1>4, <1>5 DEF RequestInv
\* The same, when the step makes it
LEMMA NewRequestMade ==
    ASSUME finish_result' = "none", meta_finished' = FALSE, req' = << >>, stop_called' = FALSE,
           faults' \in 0..MaxFaults, opts' \in Options \cup {ListOptions},
           default' = NewDefault, delivered' = << >>, events' = 0, received' = {},
           reported' = NotReported
    PROVE  RequestInv'
<1>1. ResultInv'
  BY Zenon DEF ResultInv
<1>2. AttemptInv' /\ DOMAIN req' = {}
  BY DEF AttemptInv
<1>3. /\ default' \in DefaultRecord /\ ~default'.request_sent /\ ~default'.request_completed
      /\ default'.delivery_sent = 0 /\ default'.delivery_completed = 0
  BY DEF NewDefault, DefaultRecord
<1>4. DefaultInv'
  BY <1>2, <1>3 DEF DefaultInv
<1>5. DeliveryInv'
  BY <1>2, <1>3 DEF DeliveryInv
<1> QED
  BY <1>1, <1>2, <1>4, <1>5 DEF RequestInv

\* A step that does not concern the meta request
LEMMA RequestStays ==
    ASSUME RequestInv, UNCHANGED defaultVars,
           UNCHANGED <<finish_result, meta_finished, req, signing, stop_called>>,
           faults' \in 0..MaxFaults
    PROVE  RequestInv'
<1>1. UNCHANGED <<opts, default, answer, response, delivered, events, received, reported>>
  BY DEF defaultVars
<1>2. ResultInv'
  BY Zenon DEF RequestInv, ResultInv, HasResult
<1>3. AttemptInv'
  <2>1. ASSUME NEW r \in DOMAIN req
        PROVE  Attempt(r)'
    BY <1>1, Zenon DEF RequestInv, AttemptInv, Attempt, HasBody, Good
  <2> QED
    BY <2>1, Zenon DEF RequestInv, AttemptInv
<1>4. DefaultInv'
  BY <1>1, Zenon DEF RequestInv, DefaultInv, HasBody, Good
<1>5. DeliveryInv'
  BY <1>1, Zenon DEF RequestInv, DeliveryInv, HasResult
<1> QED
  BY <1>2, <1>3, <1>4, <1>5 DEF RequestInv

LEMMA RequestAlone ==
    ASSUME RequestInv, UNCHANGED <<attemptVars, defaultVars>>
    PROVE  RequestInv' /\ UNCHANGED <<finish_result, meta_finished, stop_called, answer, opts>>
<1>1. faults' \in 0..MaxFaults
  BY DEF attemptVars, RequestInv, ResultInv
<1> QED
  BY <1>1, RequestStays, Zenon DEF attemptVars, defaultVars
-----------------------------------------------------------------------------
(***************************************************************************)
(* The paginator.                                                          *)
(***************************************************************************)

Responding == {"finished", "cleared", "parsed", "stored"}
CallRecord ==
    [at : {"idle", "initiated", "failed", "made", "callback", "called", "set"} \cup Responding,
     request : Nat, code : {"none", "ok"} \cup Errors]

\* aws_s3_paginator_continue, after s_set_paginator_state_if_legal and with no
\* request made.
Calling == {"initiated", "failed"}
Initiated == pc["user"].at \in Calling \/ pc["loop"].at \in Calling
Failed == pc["user"].at = "failed" \/ pc["loop"].at = "failed"

\* A page was asked for and its end has not been taken note of.
Running == made > 0 /\ (~meta_finished \/ pc["loop"].at \in Responding)

\* The threads in aws_s3_paginator_continue and s_on_request_finished, and
\* shared_mt_state.operation_state.
CallInv ==
    /\ made \in Nat /\ user_holds \in BOOLEAN
    /\ pc \in [Threads -> CallRecord]
    /\ pc["user"].at \in {"idle", "initiated", "failed", "made"}
    /\ pc["loop"].at \in Responding =>
         meta_finished /\ made > 0 /\ pc["loop"].code = finish_result
    /\ operation_state \in {"not_started", "initiated", "completed", "error"}
    /\ Initiated => operation_state = "initiated" /\ ~Running
    /\ ~(pc["user"].at \in Calling /\ pc["loop"].at \in Calling)
    /\ Running => operation_state = "initiated"

\* The first k entries of the listing.
UpTo(k) == [i \in 1..k |-> i]

PageLost == \E p \in 1..Pages : <<"page", p>> \in lost

\* Where the listing is: before a page, in it, or after it.
ListInv ==
    /\ \E k \in 0..(2 * Pages) : listed = UpTo(k)
    /\ continuation_token \in 0..Pages
    /\ operation_state = "not_started" \/ Initiated =>
         listed = UpTo(2 * (NextHttpMessage(continuation_token) - 1))
    /\ made > 0 => answer \in 1..Pages
    /\ Running /\ (~meta_finished \/ pc["loop"].at \in {"finished", "cleared"}) =>
         listed = UpTo(2 * (answer - 1))
    /\ pc["loop"].at \in {"parsed", "stored"} =>
         /\ parsed.token \in 0..Pages
         /\ parsed.more <=> parsed.token # 0
         /\ IF parsed.token # 0
            THEN listed = UpTo(2 * (parsed.token - 1))
            ELSE listed = UpTo(2 * Pages) \/ PageLost \/ pc["loop"].code # "ok"
    /\ pc["loop"].at = "stored" => continuation_token = parsed.token
    /\ operation_state = "completed" =>
         \/ listed = UpTo(2 * Pages)
         \/ PageLost
         \/ \E i \in DOMAIN ended : ended[i] # "ok"
         \/ pc["loop"].at = "set" /\ pc["loop"].code # "ok"
    /\ ended \in Seq({"none", "ok"} \cup Errors)

\* Who holds the paginator: the user, a request that runs, a callback of one
\* that ended.
Holders ==
    (IF user_holds THEN 1 ELSE 0) + (IF made > 0 /\ ~meta_finished THEN 1 ELSE 0)
      + (IF pc["loop"].at # "idle" THEN 1 ELSE 0)

\* Where the reference to the r-th request is
Owned(r) ==
    \/ r \in released \/ r = current_request \/ <<"overwritten", r>> \in lost
    \/ \E t \in Threads : pc[t].at = "made" /\ pc[t].request = r

\* It is in one place: what is to be stored, or is stored, was not given up.
HeldOnce ==
    /\ current_request \notin released
    /\ \A t \in Threads : pc[t].at = "made" =>
         pc[t].request \notin released /\ pc[t].request # current_request
    /\ \A t, u \in Threads : t # u /\ pc[t].at = "made" /\ pc[u].at = "made" =>
         pc[t].request # pc[u].request

\* A request that could not be made leaves its reference behind.
RefInv ==
    /\ refs = Holders \/ (refs = Holders + 1 /\ (operation_state = "error" \/ Failed))
    /\ pc["user"].at # "idle" => user_holds
    /\ refs = 0 => current_request = 0
    /\ current_request \in 0..made
    /\ released \subseteq 1..made
    /\ \A t \in Threads : pc[t].at = "made" => pc[t].request \in 1..made
    /\ \A r \in 1..made : Owned(r)
    /\ HeldOnce

PageInv == CallInv /\ ListInv /\ RefInv

\* A meta request used by itself has no paginator.
PlainInv ==
    /\ mode \in {"plain", "objects", "parts"}
    /\ mode = "plain" =>
         /\ pc = [t \in Threads |-> Idle] /\ made = 0 /\ operation_state = "not_started"
         /\ listed = << >> /\ released = {} /\ current_request = 0 /\ refs = 1
         /\ continuation_token = 0
    /\ mode # "plain" => opts = ListOptions /\ ~stop_called /\ (made = 0 => ~meta_finished)

IInv ==
    /\ RequestInv /\ PlainInv
    /\ mode # "plain" => PageInv

-----------------------------------------------------------------------------
LEMMA CallMoves ==
    ASSUME CallInv, NEW t \in Threads,
           NEW at \in {"idle", "initiated", "failed", "made", "callback", "called", "set"} \cup Responding,
           pc' = [pc EXCEPT ![t].at = at]
    PROVE  /\ pc' \in [Threads -> CallRecord] /\ pc'[t].at = at
           /\ pc'[t].request = pc[t].request /\ pc'[t].code = pc[t].code
           /\ \A u \in Threads : u # t => pc'[u] = pc[u]
<1> DEFINE q == [pc[t] EXCEPT !.at = at]
<1>1. pc \in [Threads -> CallRecord] /\ pc[t] \in CallRecord
  BY DEF CallInv
<1>2. q \in CallRecord /\ q.at = at /\ q.request = pc[t].request /\ q.code = pc[t].code
  BY <1>1 DEF CallRecord
<1>3. pc' = [pc EXCEPT ![t] = q]
  OBVIOUS
<1> HIDE DEF q
<1>4. pc' \in [Threads -> CallRecord] /\ pc'[t] = q /\ \A u \in Threads : u # t => pc'[u] = pc[u]
  BY <1>1, <1>2, <1>3
<1> QED
  BY <1>2, <1>4

\* aws_s3_paginator_continue returns to the user, or into on_page_finished.
LEMMA CallReturns ==
    ASSUME CallInv, NEW t \in Threads, pc' = Return(t)
    PROVE  /\ pc' \in [Threads -> CallRecord]
           /\ pc'[t].at = IF t = "user" THEN "idle" ELSE "called"
           /\ \A u \in Threads : u # t => pc'[u] = pc[u]
<1> DEFINE q == IF t = "user" THEN Idle ELSE [pc[t] EXCEPT !.at = "called"]
<1>1. pc \in [Threads -> CallRecord] /\ pc[t] \in CallRecord
  BY DEF CallInv
<1>2. q \in CallRecord /\ q.at = IF t = "user" THEN "idle" ELSE "called"
  BY <1>1 DEF CallRecord, Idle
<1>3. pc' = [pc EXCEPT ![t] = q]
  BY DEF Return
<1> HIDE DEF q
<1>4. pc' \in [Threads -> CallRecord] /\ pc'[t] = q /\ \A u \in Threads : u # t => pc'[u] = pc[u]
  BY <1>1, <1>2, <1>3
<1> QED
  BY <1>2, <1>4

LEMMA HeldOnceStays ==
    ASSUME HeldOnce, UNCHANGED <<released, current_request>>,
           \A u \in Threads : pc'[u].at = "made" => pc'[u] = pc[u]
    PROVE  HeldOnce'
BY Zenon DEF HeldOnce

-----------------------------------------------------------------------------
\* s_set_paginator_state_if_legal lets one caller through, and only while no
\* page is asked for.
LEMMA ContinueKeeps ==
    ASSUME PageInv, NEW t \in Threads, Continue(t),
           UNCHANGED <<finish_result, meta_finished, answer>>
    PROVE  PageInv'
<1>1. /\ operation_state = "not_started" /\ operation_state' = "initiated"
      /\ pc' = [pc EXCEPT ![t].at = "initiated"]
      /\ UNCHANGED <<mode, continuation_token, refs, user_holds, current_request, parsed, listed,
                     ended, made, released, lost>>
      /\ IF t = "user" THEN pc[t].at = "idle" /\ user_holds ELSE pc[t].at = "callback"
  BY Zenon DEF Continue, MayCall
<1>2. /\ pc' \in [Threads -> CallRecord] /\ pc'[t].at = "initiated"
      /\ \A u \in Threads : u # t => pc'[u] = pc[u]
  BY <1>1, CallMoves, Zenon DEF PageInv
<1>3. \/ t = "user" /\ pc'["user"].at = "initiated" /\ pc'["loop"] = pc["loop"] /\ user_holds
      \/ /\ t = "loop" /\ pc'["loop"].at = "initiated" /\ pc["loop"].at = "callback"
         /\ pc'["user"] = pc["user"]
  BY <1>1, <1>2 DEF Threads
<1>4. ~Running /\ ~Initiated
  BY <1>1 DEF PageInv, CallInv
<1>5. ~Running'
  BY <1>1, <1>3, <1>4 DEF Running, Responding
<1>6. CallInv'
  BY SMTT(20), <1>1, <1>2, <1>3, <1>4, <1>5 
     DEF PageInv, CallInv, Initiated, Calling, Responding
<1>7. ListInv'
  <2>1. NextHttpMessage(continuation_token)' = NextHttpMessage(continuation_token)
    BY <1>1, Zenon DEF NextHttpMessage, NextObjectsMessage, NextPartsMessage
  <2>2. PageLost' <=> PageLost
    BY <1>1 DEF PageLost
  <2>3. pc'["loop"].at \notin {"parsed", "stored"} \/ pc'["loop"] = pc["loop"]
    BY <1>3
  <2> QED
    BY <1>1, <1>3, <1>5, <2>1, <2>2, <2>3, Zenon DEF PageInv, ListInv
<1>8. RefInv'
  <2>1. Holders' = Holders
    BY <1>1, <1>3 DEF Holders
  <2>2. refs = Holders
    <3>1. ~Failed
      BY <1>4 DEF Initiated, Calling, Failed
    <3> QED
      BY <1>1, <3>1, Zenon DEF PageInv, RefInv
  <2>3. pc[t].at # "made"
    BY <1>1
  <2>4. \A u \in Threads : pc'[u].at = "made" => u # t /\ pc'[u] = pc[u]
    BY <1>2
  <2>5. \A u \in Threads : pc[u].at = "made" => pc'[u] = pc[u]
    BY <1>2, <2>3
  <2>6. pc'["user"].at # "idle" => user_holds
    BY <1>3 DEF PageInv, RefInv
  <2>7. ASSUME NEW r \in 1..made
        PROVE  Owned(r)'
    BY <1>1, <2>5, Zenon DEF PageInv, RefInv, Owned
  <2>8. HeldOnce'
    BY <1>1, <2>4, HeldOnceStays, Zenon DEF PageInv, RefInv
  <2> QED
    BY <1>1, <2>1, <2>2, <2>4, <2>6, <2>7, <2>8, Zenon DEF PageInv, RefInv
<1> QED
  BY <1>6, <1>7, <1>8 DEF PageInv

\* aws_s3_paginator_continue until the request exists
LEMMA MakeRequestKeeps ==
    ASSUME PageInv, NEW t \in Threads, MakeRequest(t)
    PROVE  PageInv'
<1>1. /\ pc[t].at = "initiated"
      /\ answer' = NextHttpMessage(continuation_token) /\ refs' = refs + 1
      /\ released' = released \cup PreviousRequest /\ current_request' = 0 /\ made' = made + 1
      /\ pc' = [pc EXCEPT ![t].at = "made", ![t].request = made + 1]
      /\ finish_result' = "none" /\ meta_finished' = FALSE
      /\ UNCHANGED <<mode, operation_state, continuation_token, user_holds, parsed, listed, ended,
                     lost>>
  BY Zenon DEF MakeRequest, RefsOfRequest
<1>2. made \in Nat /\ pc \in [Threads -> CallRecord]
  BY DEF PageInv, CallInv
<1>3. /\ pc' \in [Threads -> CallRecord] /\ pc'[t].at = "made" /\ pc'[t].request = made + 1
      /\ \A u \in Threads : u # t => pc'[u] = pc[u]
  <2> DEFINE number == made + 1
             q      == [pc[t] EXCEPT !.at = "made", !.request = number]
  <2>1. number \in Nat /\ number = made + 1 /\ pc[t] \in CallRecord
    BY <1>2
  <2>2. pc' = [pc EXCEPT ![t] = q]
    BY <1>1, <1>2, Zenon DEF CallRecord
  <2> HIDE DEF number
  <2>3. q \in CallRecord /\ q.at = "made" /\ q.request = number
    BY <2>1, Zenon DEF CallRecord
  <2> HIDE DEF q
  <2> QED
    BY <1>2, <2>1, <2>2, <2>3
<1>4. \/ /\ t = "user" /\ pc["user"].at = "initiated" /\ pc'["user"].at = "made"
         /\ pc'["loop"] = pc["loop"] /\ pc["loop"].at \notin Calling
      \/ /\ t = "loop" /\ pc["loop"].at = "initiated" /\ pc'["loop"].at = "made"
         /\ pc'["user"] = pc["user"] /\ pc["user"].at \notin Calling
  BY <1>1, <1>3 DEF Threads, PageInv, CallInv, Calling
<1>5. Initiated /\ operation_state = "initiated" /\ ~Running
  <2>1. Initiated
    BY <1>4 DEF Initiated, Calling
  <2> QED
    BY <2>1, Zenon DEF PageInv, CallInv
<1>6. ~Initiated' /\ ~Failed
  BY <1>4 DEF Initiated, Calling, Failed
<1>7. pc["loop"].at \notin Responding /\ pc'["loop"].at \notin Responding /\ made' \in Nat
  <2>1. pc["loop"].at \notin Responding
    BY <1>5, Zenon DEF PageInv, CallInv, Running
  <2> QED
    BY <1>1, <1>2, <1>4, <2>1 DEF Responding
<1>8. CallInv'
  <2>1. pc'["user"].at \in {"idle", "initiated", "failed", "made"}
    BY <1>4, Zenon DEF PageInv, CallInv
  <2> QED
    BY <1>1, <1>3, <1>4, <1>5, <1>6, <1>7, <2>1, Zenon DEF PageInv, CallInv
<1>9. ListInv'
  <2>1. answer' \in 1..Pages
    BY <1>1, PagesAssumption
       DEF PageInv, ListInv, NextHttpMessage, NextObjectsMessage, NextPartsMessage
  <2>2. listed' = UpTo(2 * (answer' - 1))
    BY <1>1, <1>5, Zenon DEF PageInv, ListInv
  <2>3. PageLost' <=> PageLost
    BY <1>1 DEF PageLost
  <2>4. pc'["loop"].at \notin {"parsed", "stored"}
    BY <1>7 DEF Responding
  <2> QED
    BY <1>1, <1>5, <1>6, <2>1, <2>2, <2>3, <2>4, Zenon DEF PageInv, ListInv
<1>10. RefInv'
  <2>1. refs = Holders /\ ~(made > 0 /\ ~meta_finished)
    BY <1>5, <1>6, Zenon DEF PageInv, RefInv, Running
  <2>2. refs' = Holders' /\ refs' # 0
    BY SMTT(20), <1>1, <1>2, <1>4, <2>1 DEF Holders
  <2>3. pc'["user"].at # "idle" => user_holds'
    BY <1>1, <1>4 DEF PageInv, RefInv
  <2>4. released \subseteq 1..made /\ current_request \in 0..made
    BY Zenon DEF PageInv, RefInv
  <2>5. released' \subseteq 1..made' /\ current_request' \in 0..made'
    BY <1>1, <1>2, <2>4 DEF PreviousRequest
  <2>6. \A u \in Threads : pc'[u].at = "made" => pc'[u].request \in 1..made'
    <3> SUFFICES ASSUME NEW u \in Threads, pc'[u].at = "made"
                 PROVE  pc'[u].request \in 1..made'
      OBVIOUS
    <3>1. CASE u = t
      BY SMTT(20), <1>1, <1>2, <1>3, <3>1
    <3>2. CASE u # t
      <4>1. pc[u].request \in 1..made /\ pc'[u] = pc[u]
        BY <1>3, <3>2, Zenon DEF PageInv, RefInv
      <4> QED
        BY <1>1, <1>2, <4>1
    <3> QED
      BY <3>1, <3>2
  <2>7. ASSUME NEW r \in 1..made'
        PROVE  Owned(r)'
    <3>1. CASE r = made + 1
      BY <1>3, <3>1, Zenon DEF Owned
    <3>2. CASE r # made + 1
      <4>1. Owned(r) /\ r # 0
        BY <1>1, <1>2, <3>2 DEF PageInv, RefInv
      <4>2. pc[t].at # "made"
        BY <1>1
      <4>3. r = current_request => r \in released'
        BY <1>1, <4>1 DEF PreviousRequest
      <4>4. r \in released => r \in released'
        BY <1>1
      <4> QED
        BY <1>1, <1>3, <4>1, <4>2, <4>3, <4>4, Zenon DEF Owned
    <3> QED
      BY <3>1, <3>2
  <2>8. HeldOnce'
    <3>1. HeldOnce /\ 0 \notin released'
      <4>1. HeldOnce
        BY Zenon DEF PageInv, RefInv
      <4> QED
        BY <2>5, <4>1
    <3>2. ASSUME NEW u \in Threads, pc'[u].at = "made", u # t
          PROVE  /\ pc'[u].request \in 1..made /\ pc[u].request = pc'[u].request
                 /\ pc[u].at = "made"
      BY <1>3, <3>2, Zenon DEF PageInv, RefInv
    <3>3. ASSUME NEW u \in Threads, pc'[u].at = "made", u # t
          PROVE  /\ pc'[u].request \notin released' /\ pc'[u].request # current_request'
                 /\ pc'[u].request # made + 1
      <4>1. pc[u].request \notin released /\ pc[u].request # current_request
        BY <3>1, <3>2, <3>3, Zenon DEF HeldOnce
      <4> QED
        BY <1>1, <1>2, <3>2, <3>3, <4>1 DEF PreviousRequest
    <3>4. made + 1 \notin released' /\ made + 1 # current_request'
      BY <1>1, <1>2, <2>4 DEF PreviousRequest
    <3>5. \A u \in Threads : pc'[u].at = "made" =>
             pc'[u].request \notin released' /\ pc'[u].request # current_request'
      BY <1>3, <3>3, <3>4, Zenon
    <3>6. \A u, v \in Threads : u # v /\ pc'[u].at = "made" /\ pc'[v].at = "made" =>
             pc'[u].request # pc'[v].request
      <4> SUFFICES ASSUME NEW u \in Threads, NEW v \in Threads, u # v,
                          pc'[u].at = "made", pc'[v].at = "made"
                   PROVE  pc'[u].request # pc'[v].request
        BY Zenon
      <4>1. CASE u = t \/ v = t
        BY <1>3, <3>3, <4>1, Zenon
      <4>2. CASE u # t /\ v # t
        BY <3>1, <3>2, <4>2, Zenon DEF HeldOnce
      <4> QED
        BY <4>1, <4>2
    <3> QED
      BY <1>1, <3>1, <3>5, <3>6, Zenon DEF HeldOnce
  <2> QED
    BY <2>2, <2>3, <2>5, <2>6, <2>7, <2>8, Zenon DEF RefInv
<1> QED
  BY <1>8, <1>9, <1>10 DEF PageInv

\* What the end of a call leaves, whether it made a request or not.
LEMMA ReturnKeeps ==
    ASSUME PageInv, NEW t \in Threads, pc' = Return(t),
           pc[t].at \in {"initiated", "failed", "made"},
           UNCHANGED <<finish_result, meta_finished, answer, mode, continuation_token,
                       user_holds, parsed, listed, ended, made>>,
           operation_state' = operation_state \/ (operation_state' = "error" /\ ~Running),
           pc[t].at = "made" => UNCHANGED operation_state,
           PageLost => PageLost'
    PROVE  /\ CallInv' /\ ListInv' /\ Holders' = Holders /\ Holders \in Nat /\ Holders # 0
           /\ pc'["user"].at # "idle" => user_holds'
           /\ \A u \in Threads : u # t => pc'[u] = pc[u]
           /\ pc'[t].at \in {"idle", "called"}
<1>1. /\ pc' \in [Threads -> CallRecord]
      /\ pc'[t].at = IF t = "user" THEN "idle" ELSE "called"
      /\ \A u \in Threads : u # t => pc'[u] = pc[u]
  BY CallReturns, Zenon DEF PageInv
<1>2. \/ t = "user" /\ pc'["user"].at = "idle" /\ pc'["loop"] = pc["loop"] /\ pc["user"].at # "idle"
      \/ /\ t = "loop" /\ pc["loop"].at \in {"initiated", "failed", "made"}
         /\ pc'["loop"].at = "called" /\ pc'["user"] = pc["user"]
  BY <1>1 DEF Threads
<1>3. /\ pc'["loop"].at \in Responding <=> pc["loop"].at \in Responding
      /\ pc'["loop"].at \in Responding => pc'["loop"] = pc["loop"]
  BY <1>2 DEF Responding
<1>4. Running' <=> Running
  BY <1>3, Zenon DEF Running
<1>5. /\ Initiated' => Initiated /\ UNCHANGED operation_state
      /\ pc'["user"].at \in Calling => pc["user"].at \in Calling
      /\ pc'["loop"].at \in Calling => pc["loop"].at \in Calling
  <2>1. /\ pc'["user"].at \in Calling => pc["user"].at \in Calling
        /\ pc'["loop"].at \in Calling => pc["loop"].at \in Calling
    BY <1>2 DEF Calling
  <2>2. CASE pc[t].at \in Calling
    <3>1. ~Initiated'
      BY <1>2, <2>2 DEF Initiated, Calling, PageInv, CallInv
    <3> QED
      BY <2>1, <3>1
  <2>3. CASE pc[t].at = "made"
    <3>1. Initiated' => Initiated
      BY <2>1, Zenon DEF Initiated
    <3>2. UNCHANGED operation_state
      BY <2>3
    <3> QED
      BY <2>1, <3>1, <3>2
  <2> QED
    BY <2>2, <2>3 DEF Calling
<1>6. CallInv'
  <2>1. pc'["user"].at \in {"idle", "initiated", "failed", "made"}
    BY <1>2 DEF PageInv, CallInv
  <2> QED
    BY <1>1, <1>3, <1>4, <1>5, <2>1, Zenon DEF PageInv, CallInv
<1>7. ListInv'
  <2>1. NextHttpMessage(continuation_token)' = NextHttpMessage(continuation_token)
    BY Zenon DEF NextHttpMessage, NextObjectsMessage, NextPartsMessage
  <2>2. /\ pc'["loop"].at \in {"finished", "cleared"} => pc["loop"].at \in {"finished", "cleared"}
        /\ pc'["loop"].at \in {"parsed", "stored"} => pc'["loop"] = pc["loop"]
        /\ pc["loop"].at = "set" => pc'["loop"] = pc["loop"]
    BY <1>2
  <2>3. /\ operation_state' = "not_started" => operation_state = "not_started"
        /\ operation_state' = "completed" => operation_state = "completed"
    OBVIOUS
  <2>4. operation_state' = "not_started" \/ Initiated' =>
          listed' = UpTo(2 * (NextHttpMessage(continuation_token)' - 1))
    BY <1>5, <2>1, <2>3, Zenon DEF PageInv, ListInv
  <2>5. Running' /\ (~meta_finished' \/ pc'["loop"].at \in {"finished", "cleared"}) =>
          listed' = UpTo(2 * (answer' - 1))
    BY <1>4, <2>2, Zenon DEF PageInv, ListInv
  <2>6. pc'["loop"].at \in {"parsed", "stored"} =>
          /\ parsed'.token \in 0..Pages
          /\ parsed'.more <=> parsed'.token # 0
          /\ IF parsed'.token # 0
             THEN listed' = UpTo(2 * (parsed'.token - 1))
             ELSE listed' = UpTo(2 * Pages) \/ PageLost' \/ pc'["loop"].code # "ok"
          /\ pc'["loop"].at = "stored" => continuation_token' = parsed'.token
    BY <2>2, Zenon DEF PageInv, ListInv
  <2>7. operation_state' = "completed" =>
          \/ listed' = UpTo(2 * Pages)
          \/ PageLost'
          \/ \E i \in DOMAIN ended' : ended'[i] # "ok"
          \/ pc'["loop"].at = "set" /\ pc'["loop"].code # "ok"
    BY <2>2, <2>3, Zenon DEF PageInv, ListInv
  <2> QED
    BY SMTT(20), <2>4, <2>5, <2>6, <2>7 DEF PageInv, ListInv
<1>8. Holders' = Holders
  <2>1. pc["loop"].at # "idle" <=> pc'["loop"].at # "idle"
    BY <1>2
  <2> QED
    BY <2>1, Zenon DEF Holders
<1>9. Holders \in Nat /\ Holders # 0
  <2>1. user_holds \/ pc["loop"].at # "idle"
    BY <1>2, Zenon DEF PageInv, RefInv
  <2> QED
    BY <2>1 DEF Holders
<1>10. pc'["user"].at # "idle" => user_holds'
  BY <1>2, Zenon DEF PageInv, RefInv
<1> QED
  BY SMTT(20), <1>1, <1>6, <1>7, <1>8, <1>9, <1>10

\* The message of the next page could not be made.
LEMMA NextMessageFailsKeeps ==
    ASSUME PageInv, NEW t \in Threads, NextMessageFails(t)
    PROVE  PageInv'
<1>1. /\ pc[t].at = "initiated" /\ pc' = Return(t)
      /\ UNCHANGED <<finish_result, meta_finished, answer, mode, operation_state,
                     continuation_token, refs, user_holds, current_request, parsed, listed,
                     ended, made, released, lost>>
  BY Zenon DEF NextMessageFails, defaultVars
<1>2. Initiated /\ ~Failed
  BY <1>1 DEF Initiated, Calling, Failed, Threads, PageInv, CallInv
<1>3. operation_state = "initiated"
  BY <1>2, Zenon DEF PageInv, CallInv
<1>4. PageLost => PageLost'
  BY <1>1, Zenon DEF PageLost
<1>5. /\ CallInv' /\ ListInv' /\ Holders' = Holders
      /\ pc'["user"].at # "idle" => user_holds'
      /\ \A u \in Threads : u # t => pc'[u] = pc[u]
      /\ pc'[t].at \in {"idle", "called"}
  BY <1>1, <1>4, ReturnKeeps
<1>6. RefInv'
  <2>1. refs = Holders
    BY <1>2, <1>3, Zenon DEF PageInv, RefInv
  <2>2. pc'[t].at # "made" /\ pc[t].at # "made"
    BY <1>1, <1>5
  <2>3. \A u \in Threads : pc'[u].at = "made" => pc'[u] = pc[u]
    BY <1>5, <2>2, Zenon
  <2>4. HeldOnce'
    BY <1>1, <2>3, HeldOnceStays, Zenon DEF PageInv, RefInv
  <2>5. ASSUME NEW r \in 1..made'
        PROVE  Owned(r)'
    <3>1. Owned(r)
      BY <1>1, Zenon DEF PageInv, RefInv
    <3> QED
      BY <1>1, <1>5, <2>2, <3>1, Zenon DEF Owned
  <2> QED
    BY <1>1, <1>5, <2>1, <2>3, <2>4, <2>5, Zenon DEF PageInv, RefInv
<1> QED
  BY <1>5, <1>6 DEF PageInv

\* aws_s3_client_make_meta_request failed: the reference stays.
LEMMA MakeRequestFailsKeeps ==
    ASSUME PageInv, NEW t \in Threads, MakeRequestFails(t)
    PROVE  PageInv'
<1>1. /\ pc[t].at = "initiated" /\ refs' = refs + 1
      /\ released' = released \cup PreviousRequest /\ current_request' = 0
      /\ pc' = [pc EXCEPT ![t].at = "failed"]
      /\ UNCHANGED <<finish_result, meta_finished, answer, mode, operation_state,
                     continuation_token, user_holds, parsed, listed, ended, made, lost>>
  BY Zenon DEF MakeRequestFails, RefsOfRequest, defaultVars
<1>2. /\ pc' \in [Threads -> CallRecord] /\ pc'[t].at = "failed"
      /\ \A u \in Threads : u # t => pc'[u] = pc[u]
  BY <1>1, CallMoves, Zenon DEF PageInv
<1>3. \/ /\ t = "user" /\ pc["user"].at = "initiated" /\ pc'["user"].at = "failed"
         /\ pc'["loop"] = pc["loop"] /\ pc["loop"].at \notin Calling
      \/ /\ t = "loop" /\ pc["loop"].at = "initiated" /\ pc'["loop"].at = "failed"
         /\ pc'["user"] = pc["user"] /\ pc["user"].at \notin Calling
  BY <1>1, <1>2 DEF Threads, PageInv, CallInv, Calling
<1>4. Initiated /\ Initiated' /\ ~Failed /\ Failed'
  BY <1>3 DEF Initiated, Calling, Failed
<1>5. operation_state = "initiated" /\ ~Running
  BY <1>4, Zenon DEF PageInv, CallInv
<1>6. /\ pc'["loop"].at \in Responding => pc'["loop"] = pc["loop"]
      /\ pc["loop"].at \in Responding => pc'["loop"] = pc["loop"]
  BY <1>3 DEF Responding
<1>7. ~Running'
  BY <1>1, <1>5, <1>6, Zenon DEF Running
<1>8. CallInv'
  <2>1. /\ pc'["user"].at \in {"idle", "initiated", "failed", "made"}
        /\ ~(pc'["user"].at \in Calling /\ pc'["loop"].at \in Calling)
    BY <1>3, Zenon DEF PageInv, CallInv
  <2> QED
    BY <1>1, <1>2, <1>5, <1>6, <1>7, <2>1, Zenon DEF PageInv, CallInv
<1>9. ListInv'
  <2>1. NextHttpMessage(continuation_token)' = NextHttpMessage(continuation_token)
    BY <1>1, Zenon DEF NextHttpMessage, NextObjectsMessage, NextPartsMessage
  <2>2. PageLost' <=> PageLost
    BY <1>1 DEF PageLost
  <2>3. pc'["loop"].at \in {"parsed", "stored"} => pc'["loop"] = pc["loop"]
    BY <1>3
  <2> QED
    BY <1>1, <1>4, <1>5, <1>7, <2>1, <2>2, <2>3, Zenon DEF PageInv, ListInv
<1>10. RefInv'
  <2>1. refs = Holders /\ Holders \in Nat
    BY <1>4, <1>5 DEF PageInv, RefInv, Holders
  <2>2. Holders' = Holders
    BY <1>1, <1>3 DEF Holders
  <2>3. refs' = Holders' + 1 /\ refs' # 0
    BY <1>1, <2>1, <2>2
  <2>4. pc'["user"].at # "idle" => user_holds'
    BY <1>1, <1>3 DEF PageInv, RefInv
  <2>5. released \subseteq 1..made /\ current_request \in 0..made /\ made \in Nat /\ HeldOnce
    BY Zenon DEF PageInv, RefInv, CallInv
  <2>6. released' \subseteq 1..made' /\ current_request' \in 0..made' /\ 0 \notin released'
    BY <1>1, <2>5 DEF PreviousRequest
  <2>7. pc'[t].at # "made" /\ pc[t].at # "made"
    BY <1>1, <1>2
  <2>8. \A u \in Threads : pc'[u].at = "made" => pc'[u] = pc[u] /\ pc[u].request \in 1..made
    BY <1>2, <2>7, Zenon DEF PageInv, RefInv
  <2>9. ASSUME NEW r \in 1..made'
        PROVE  Owned(r)'
    <3>1. Owned(r) /\ r # 0
      BY <1>1 DEF PageInv, RefInv
    <3>2. r = current_request \/ r \in released => r \in released'
      BY <1>1, <3>1 DEF PreviousRequest
    <3> QED
      BY <1>1, <1>2, <2>7, <3>1, <3>2, Zenon DEF Owned
  <2>10. HeldOnce'
    <3>1. ASSUME NEW u \in Threads, pc'[u].at = "made"
          PROVE  pc'[u].request \notin released' /\ pc'[u].request # current_request'
      <4>1. /\ pc'[u] = pc[u] /\ pc[u].request \in 1..made
            /\ pc[u].request \notin released /\ pc[u].request # current_request
        BY <2>5, <2>8, <3>1, Zenon DEF HeldOnce
      <4> QED
        BY <1>1, <4>1 DEF PreviousRequest
    <3> QED
      BY <1>1, <2>5, <2>6, <2>8, <3>1, Zenon DEF HeldOnce
  <2> QED
    BY <1>1, <1>4, <2>3, <2>4, <2>6, <2>8, <2>9, <2>10, Zenon DEF RefInv
<1> QED
  BY <1>8, <1>9, <1>10 DEF PageInv

\* aws_atomic_store_ptr at the end of aws_s3_paginator_continue
LEMMA StoreKeeps ==
    ASSUME PageInv, NEW t \in Threads, NEW request, Store(t, request),
           UNCHANGED <<finish_result, meta_finished, answer>>,
           \/ pc[t].at = "made" /\ request = pc[t].request /\ UNCHANGED operation_state
           \/ pc[t].at = "failed" /\ request = 0 /\ operation_state' = "error"
    PROVE  PageInv'
<1>1. /\ lost' = IF current_request = 0 THEN lost ELSE lost \cup {<<"overwritten", current_request>>}
      /\ current_request' = request /\ pc' = Return(t)
      /\ UNCHANGED <<mode, continuation_token, refs, user_holds, parsed, listed, ended, made,
                     released>>
  BY Zenon DEF Store
<1>2. lost \subseteq lost' /\ (current_request # 0 => <<"overwritten", current_request>> \in lost')
  BY <1>1
<1>3. PageLost => PageLost'
  BY <1>2, Zenon DEF PageLost
<1>4. pc[t].at = "failed" => ~Running
  <2>1. pc[t].at = "failed" => Initiated
    BY DEF Initiated, Calling, Threads
  <2> QED
    BY <2>1, Zenon DEF PageInv, CallInv
<1>5. /\ CallInv' /\ ListInv' /\ Holders' = Holders /\ Holders \in Nat /\ Holders # 0
      /\ pc'["user"].at # "idle" => user_holds'
      /\ \A u \in Threads : u # t => pc'[u] = pc[u]
      /\ pc'[t].at \in {"idle", "called"}
  BY <1>1, <1>3, <1>4, ReturnKeeps
<1>6. RefInv'
  <2>1. /\ released \subseteq 1..made /\ made \in Nat /\ HeldOnce
        /\ \A u \in Threads : pc[u].at = "made" => pc[u].request \in 1..made
    BY Zenon DEF PageInv, RefInv, CallInv
  <2>2. request \in 0..made /\ request \notin released
    BY <2>1 DEF HeldOnce
  <2>3. pc[t].at = "made" => (Failed => Failed')
    BY <1>5 DEF Failed, Threads
  <2>4. refs # 0 /\ (refs' = Holders' \/ (refs' = Holders' + 1 /\ (operation_state' = "error" \/ Failed')))
    BY <1>1, <1>5, <2>3 DEF PageInv, RefInv
  <2>5. pc'[t].at # "made"
    BY <1>5
  <2>6. \A u \in Threads : pc'[u].at = "made" => u # t /\ pc'[u] = pc[u] /\ pc[u].at = "made"
    BY <1>5, <2>5, Zenon
  <2>7. ASSUME NEW u \in Threads, pc'[u].at = "made"
        PROVE  pc'[u].request \notin released' /\ pc'[u].request # current_request'
    <3>1. /\ u # t /\ pc'[u] = pc[u] /\ pc[u].at = "made" /\ pc[u].request \in 1..made
          /\ pc[u].request \notin released
      BY <2>1, <2>6, <2>7, Zenon DEF HeldOnce
    <3>2. CASE pc[t].at = "made" /\ request = pc[t].request
      BY <1>1, <2>1, <3>1, <3>2, Zenon DEF HeldOnce
    <3>3. CASE request = 0
      BY <1>1, <3>1, <3>3
    <3> QED
      BY <3>2, <3>3
  <2>8. HeldOnce'
    BY <1>1, <2>1, <2>2, <2>6, <2>7, Zenon DEF HeldOnce
  <2>9. ASSUME NEW r \in 1..made'
        PROVE  Owned(r)'
    <3>1. Owned(r) /\ r # 0
      BY <1>1 DEF PageInv, RefInv
    <3>2. r = current_request => <<"overwritten", r>> \in lost'
      BY <1>2, <3>1
    <3>3. <<"overwritten", r>> \in lost => <<"overwritten", r>> \in lost'
      BY <1>2
    <3>4. pc[t].at = "made" /\ pc[t].request = r => r = current_request'
      BY <1>1
    <3> QED
      BY <1>1, <1>5, <3>1, <3>2, <3>3, <3>4, Zenon DEF Owned
  <2> QED
    BY <1>1, <1>5, <2>1, <2>2, <2>4, <2>6, <2>8, <2>9, Zenon DEF RefInv
<1> QED
  BY <1>5, <1>6 DEF PageInv

-----------------------------------------------------------------------------
\* The thread that finishes meta requests goes from one section of
\* s_on_request_finished to another: nobody is about to make a request.
LEMMA LoopMoves ==
    ASSUME PageInv,
           NEW at \in {"cleared", "parsed", "stored", "set", "callback"},
           pc' = [pc EXCEPT !["loop"].at = at],
           pc["loop"].at \in Responding \cup {"set"}
    PROVE  /\ pc' \in [Threads -> CallRecord] /\ pc'["loop"].at = at
           /\ pc'["loop"].code = pc["loop"].code /\ pc'["user"] = pc["user"]
           /\ pc["loop"].at \in Responding =>
                /\ meta_finished /\ Running /\ operation_state = "initiated"
                /\ pc["loop"].code = finish_result /\ made > 0
                /\ ~Initiated /\ ~Initiated' /\ pc'["user"].at \notin Calling
<1>1. at \in {"idle", "initiated", "failed", "made", "callback", "called", "set"} \cup Responding
  BY DEF Responding
<1>2. /\ pc' \in [Threads -> CallRecord] /\ pc'["loop"].at = at
      /\ pc'["loop"].code = pc["loop"].code /\ pc'["user"] = pc["user"]
  BY <1>1, CallMoves, Zenon DEF PageInv, Threads
<1>3. ASSUME pc["loop"].at \in Responding
      PROVE  /\ meta_finished /\ Running /\ operation_state = "initiated"
             /\ pc["loop"].code = finish_result /\ ~Initiated /\ made > 0
  BY <1>3, Zenon DEF PageInv, CallInv, Running
<1>4. ASSUME ~Initiated
      PROVE  ~Initiated' /\ pc'["user"].at \notin Calling
  BY <1>2, <1>4 DEF Initiated, Calling
<1> QED
  BY <1>2, <1>3, <1>4

\* The references of a step of s_on_request_finished
LEMMA RefsAlone ==
    ASSUME PageInv, pc' \in [Threads -> CallRecord], pc'["user"] = pc["user"],
           pc["loop"].at \notin {"idle", "made", "failed"},
           pc'["loop"].at \notin {"idle", "made", "failed"},
           lost \subseteq lost',
           UNCHANGED <<refs, user_holds, meta_finished, made, released, current_request>>,
           operation_state' = operation_state \/ operation_state = "initiated"
    PROVE  RefInv'
<1>1. Holders' = Holders
  BY Zenon DEF Holders
<1>2. refs' = Holders' \/ (refs' = Holders' + 1 /\ (operation_state' = "error" \/ Failed'))
  BY <1>1 DEF PageInv, RefInv, Failed
<1>3. \A u \in Threads : pc'[u].at = "made" => pc'[u].request \in 1..made'
  BY Zenon DEF PageInv, RefInv, Threads
<1>4. ASSUME NEW r \in 1..made'
      PROVE  Owned(r)'
  <2>1. Owned(r)
    BY Zenon DEF PageInv, RefInv
  <2>2. (\E u \in Threads : pc[u].at = "made" /\ pc[u].request = r) =>
           pc'["user"].at = "made" /\ pc'["user"].request = r
    BY Zenon DEF Threads
  <2>3. "user" \in Threads /\ (<<"overwritten", r>> \in lost => <<"overwritten", r>> \in lost')
    BY DEF Threads
  <2> QED
    BY <2>1, <2>2, <2>3, Zenon DEF Owned
<1>5. HeldOnce'
  <2>1. \A u \in Threads : pc'[u].at = "made" => pc'[u] = pc[u]
    BY Zenon DEF Threads
  <2> QED
    BY <2>1, HeldOnceStays, Zenon DEF PageInv, RefInv
<1> QED
  BY <1>2, <1>3, <1>4, <1>5, Zenon DEF PageInv, RefInv
\* finish_callback of the page's meta request
LEMMA FinishCallbackKeeps ==
    ASSUME RequestInv, PageInv, mode # "plain", made > 0, FinishCallback
    PROVE  PageInv'
<1>1. /\ pc["loop"].at = "idle" /\ UpdateFinish
      /\ pc' = [pc EXCEPT !["loop"] = [at |-> "finished", request |-> made, code |-> reported'.code]]
      /\ UNCHANGED <<mode, operation_state, has_more_results, continuation_token, refs, user_holds,
                     current_request, parsed, listed, ended, made, released, lost>>
  BY Zenon DEF FinishCallback
<1>2. ~meta_finished /\ UNCHANGED answer
  BY <1>1, Zenon DEF UpdateFinish
<1>3. /\ meta_finished' /\ reported'.code = finish_result'
      /\ finish_result' \in {"none", "ok"} \cup Errors
  BY <1>1, UpdateFinishKeeps, Zenon DEF RequestInv, ResultInv
<1>4. /\ pc' \in [Threads -> CallRecord] /\ pc'["loop"].at = "finished"
      /\ pc'["loop"].code = finish_result' /\ pc'["user"] = pc["user"]
  <2> DEFINE q == [at |-> "finished", request |-> made, code |-> reported'.code]
  <2>1. q \in CallRecord /\ q.at = "finished" /\ q.code = finish_result'
    BY <1>3 DEF CallRecord, Responding, PageInv, CallInv
  <2>2. pc' = [pc EXCEPT !["loop"] = q]
    BY <1>1
  <2> HIDE DEF q
  <2> QED
    BY <2>1, <2>2 DEF PageInv, CallInv, Threads
<1>5. Running /\ operation_state = "initiated" /\ ~Initiated
  BY <1>2, Zenon DEF Running, PageInv, CallInv
<1>6. ~Initiated' /\ pc'["user"].at \notin Calling
  BY <1>4, <1>5 DEF Initiated, Calling
<1>7. CallInv'
  <2>1. pc'["user"].at \in {"idle", "initiated", "failed", "made"}
    BY <1>4, Zenon DEF PageInv, CallInv
  <2> QED
    BY <1>1, <1>3, <1>4, <1>5, <1>6, <2>1, Zenon DEF PageInv, CallInv
<1>8. ListInv'
  <2>1. listed = UpTo(2 * (answer - 1))
    BY <1>2, <1>5, Zenon DEF PageInv, ListInv
  <2>2. pc'["loop"].at \notin {"parsed", "stored"}
    BY <1>4
  <2> QED
    BY <1>1, <1>2, <1>5, <1>6, <2>1, <2>2, Zenon DEF PageInv, ListInv
<1>9. RefInv'
  <2>1. Holders' = Holders
    BY SMTT(20), <1>1, <1>2, <1>3, <1>4 DEF Holders
  <2>2. pc["loop"].at # "made" /\ pc'["loop"].at # "made"
    BY <1>1, <1>4
  <2>3. \A u \in Threads : pc'[u].at = "made" => pc'[u].request \in 1..made'
    BY <1>1, <1>4, <2>2, Zenon DEF PageInv, RefInv, Threads
  <2>4. ASSUME NEW r \in 1..made'
        PROVE  Owned(r)'
    BY <1>1, <1>4, <2>2, Zenon DEF PageInv, RefInv, Owned, Threads
  <2>5. HeldOnce'
    <3>1. \A u \in Threads : pc'[u].at = "made" => pc'[u] = pc[u]
      BY <1>4, <2>2, Zenon DEF Threads
    <3> QED
      BY <1>1, <3>1, HeldOnceStays, Zenon DEF PageInv, RefInv
  <2>6. refs = Holders
    <3>1. ~Failed
      BY <1>5 DEF Initiated, Calling, Failed
    <3> QED
      BY <1>5, <3>1, Zenon DEF PageInv, RefInv
  <2> QED
    BY <1>1, <1>4, <2>1, <2>3, <2>4, <2>5, <2>6, Zenon DEF PageInv, RefInv
<1> QED
  BY <1>7, <1>8, <1>9 DEF PageInv

\* The three critical sections of s_on_request_finished
LEMMA ClearTokenKeeps ==
    ASSUME PageInv, ClearToken, UNCHANGED <<finish_result, meta_finished, answer>>
    PROVE  PageInv'
<1>1. /\ pc["loop"].at = "finished"
      /\ \/ /\ pc' = [pc EXCEPT !["loop"].at = "cleared"] /\ continuation_token' = 0
            /\ UNCHANGED operation_state
         \/ /\ pc' = [pc EXCEPT !["loop"].at = "set"] /\ operation_state' = "error"
            /\ UNCHANGED continuation_token
      /\ UNCHANGED <<mode, refs, user_holds, current_request, parsed, listed, ended, made,
                     released, lost>>
  BY Zenon DEF ClearToken
<1>2. pc["loop"].at \in Responding
  BY <1>1 DEF Responding
<1>3. PICK at \in {"cleared", "set"} :
        /\ pc' = [pc EXCEPT !["loop"].at = at]
        /\ at = "cleared" => continuation_token' = 0 /\ UNCHANGED operation_state
        /\ at = "set" => operation_state' = "error" /\ UNCHANGED continuation_token
  BY <1>1
<1>4. /\ pc' \in [Threads -> CallRecord] /\ pc'["loop"].at = at
      /\ pc'["loop"].code = pc["loop"].code /\ pc'["user"] = pc["user"]
      /\ meta_finished /\ Running /\ operation_state = "initiated"
      /\ pc["loop"].code = finish_result /\ made > 0
      /\ ~Initiated /\ ~Initiated' /\ pc'["user"].at \notin Calling
  BY <1>2, <1>3, LoopMoves, Zenon
<1>5. CallInv'
  <2>1. at = "set" => ~Running'
    BY <1>1, <1>4 DEF Running, Responding
  <2> QED
    BY <1>1, <1>3, <1>4, <2>1 DEF PageInv, CallInv
<1>6. ListInv'
  <2>1. listed = UpTo(2 * (answer - 1))
    BY <1>1, <1>4 DEF PageInv, ListInv
  <2>2. pc'["loop"].at \notin {"parsed", "stored"} /\ operation_state' \in {"initiated", "error"}
        /\ continuation_token' \in 0..Pages
    BY <1>3, <1>4, PagesAssumption DEF PageInv, ListInv
  <2> QED
    BY <1>1, <1>4, <2>1, <2>2, Zenon DEF PageInv, ListInv
<1>7. RefInv'
  BY <1>1, <1>4, RefsAlone
<1> QED
  BY <1>5, <1>6, <1>7 DEF PageInv

LEMMA StoreTokenKeeps ==
    ASSUME PageInv, StoreToken, UNCHANGED <<finish_result, meta_finished, answer>>
    PROVE  PageInv'
<1>1. /\ pc["loop"].at = "parsed" /\ continuation_token' = parsed.token
      /\ pc' = [pc EXCEPT !["loop"].at = "stored"]
      /\ UNCHANGED <<mode, operation_state, refs, user_holds, current_request, parsed, listed,
                     ended, made, released, lost>>
  BY Zenon DEF StoreToken
<1>2. pc["loop"].at \in Responding
  BY <1>1 DEF Responding
<1>3. /\ pc' \in [Threads -> CallRecord] /\ pc'["loop"].at = "stored"
      /\ pc'["loop"].code = pc["loop"].code /\ pc'["user"] = pc["user"]
      /\ meta_finished /\ Running /\ operation_state = "initiated"
      /\ pc["loop"].code = finish_result /\ made > 0
      /\ ~Initiated /\ ~Initiated' /\ pc'["user"].at \notin Calling
  BY <1>1, <1>2, LoopMoves
<1>4. CallInv'
  BY <1>1, <1>3 DEF PageInv, CallInv
<1>5. ListInv'
  <2>1. PageLost' <=> PageLost
    BY <1>1 DEF PageLost
  <2>2. /\ parsed.token \in 0..Pages
        /\ parsed.more <=> parsed.token # 0
        /\ IF parsed.token # 0
           THEN listed = UpTo(2 * (parsed.token - 1))
           ELSE listed = UpTo(2 * Pages) \/ PageLost \/ pc["loop"].code # "ok"
    BY <1>1 DEF PageInv, ListInv
  <2> QED
    BY <1>1, <1>3, <2>1, <2>2 DEF PageInv, ListInv
<1>6. RefInv'
  BY <1>1, <1>3, RefsAlone
<1> QED
  BY <1>4, <1>5, <1>6 DEF PageInv

LEMMA SetStateKeeps ==
    ASSUME PageInv, SetState, UNCHANGED <<finish_result, meta_finished, answer>>
    PROVE  PageInv'
<1>1. /\ pc["loop"].at = "stored"
      /\ operation_state' = IF parsed.more THEN "not_started" ELSE "completed"
      /\ pc' = [pc EXCEPT !["loop"].at = "set"]
      /\ UNCHANGED <<mode, continuation_token, refs, user_holds, current_request, parsed, listed,
                     ended, made, released, lost>>
  BY Zenon DEF SetState
<1>2. pc["loop"].at \in Responding
  BY <1>1 DEF Responding
<1>3. /\ pc' \in [Threads -> CallRecord] /\ pc'["loop"].at = "set"
      /\ pc'["loop"].code = pc["loop"].code /\ pc'["user"] = pc["user"]
      /\ meta_finished /\ Running /\ operation_state = "initiated"
      /\ pc["loop"].code = finish_result /\ made > 0
      /\ ~Initiated /\ ~Initiated' /\ pc'["user"].at \notin Calling
  BY <1>1, <1>2, LoopMoves
<1>4. ~Running' /\ pc'["loop"].at \notin Responding
  BY <1>1, <1>3 DEF Running, Responding
<1>5. CallInv'
  BY <1>1, <1>3, <1>4 DEF PageInv, CallInv
<1>6. ListInv'
  <2>1. PageLost' <=> PageLost
    BY <1>1 DEF PageLost
  <2>2. /\ parsed.token \in 0..Pages /\ continuation_token = parsed.token
        /\ parsed.more <=> parsed.token # 0
        /\ IF parsed.token # 0
           THEN listed = UpTo(2 * (parsed.token - 1))
           ELSE listed = UpTo(2 * Pages) \/ PageLost \/ pc["loop"].code # "ok"
    BY <1>1 DEF PageInv, ListInv
  <2>3. parsed.token # 0 => NextHttpMessage(continuation_token)' = parsed.token
    BY <1>1, <2>2 DEF NextHttpMessage, NextObjectsMessage, NextPartsMessage
  <2>4. operation_state' = "not_started" => parsed.token # 0
    BY <1>1, <2>2
  <2>5. operation_state' = "completed" => parsed.token = 0
    BY <1>1, <2>2
  <2>6. operation_state' = "completed" =>
          \/ listed' = UpTo(2 * Pages)
          \/ PageLost'
          \/ pc'["loop"].at = "set" /\ pc'["loop"].code # "ok"
    BY SMTT(20), <1>1, <1>3, <2>1, <2>2, <2>5
  <2>7. operation_state' = "not_started" =>
          listed' = UpTo(2 * (NextHttpMessage(continuation_token)' - 1))
    BY SMTT(20), <1>1, <2>2, <2>3, <2>4
  <2>8. pc'["loop"].at \notin {"parsed", "stored"}
    BY <1>3
  <2> QED
    BY <1>1, <1>3, <1>4, <2>6, <2>7, <2>8, Zenon DEF PageInv, ListInv
<1>7. RefInv'
  BY <1>1, <1>3, RefsAlone
<1> QED
  BY <1>5, <1>6, <1>7 DEF PageInv
\* on_page_finished is called with the error code of the meta request.
LEMMA PageFinishedKeeps ==
    ASSUME PageInv, PageFinished, UNCHANGED <<finish_result, meta_finished, answer>>
    PROVE  PageInv'
<1>1. /\ pc["loop"].at = "set" /\ ended' = Append(ended, pc["loop"].code)
      /\ pc' = [pc EXCEPT !["loop"].at = "callback"]
      /\ UNCHANGED <<mode, operation_state, continuation_token, refs, user_holds, current_request,
                     parsed, listed, made, released, lost>>
  BY Zenon DEF PageFinished
<1>2. /\ pc' \in [Threads -> CallRecord] /\ pc'["loop"].at = "callback"
      /\ pc'["loop"].code = pc["loop"].code /\ pc'["user"] = pc["user"]
  BY <1>1, LoopMoves
<1>3. (Initiated' <=> Initiated) /\ (Running' <=> Running)
  BY <1>1, <1>2 DEF Initiated, Calling, Running, Responding
<1>4. CallInv'
  BY <1>1, <1>2, <1>3 DEF PageInv, CallInv, Calling, Responding
<1>5. ListInv'
  <2>1. pc["loop"].code \in {"none", "ok"} \cup Errors /\ ended \in Seq({"none", "ok"} \cup Errors)
    BY DEF PageInv, CallInv, ListInv, CallRecord, Threads
  <2> DEFINE codes == {"none", "ok"} \cup Errors
             code  == pc["loop"].code
  <2>2. code \in codes /\ ended \in Seq(codes) /\ ended' = Append(ended, code)
    BY <1>1, <2>1
  <2> HIDE DEF codes, code
  <2>3. /\ ended' \in Seq(codes) /\ Len(ended') = Len(ended) + 1 /\ Len(ended) \in Nat
        /\ DOMAIN ended = 1..Len(ended) /\ DOMAIN ended' = 1..Len(ended')
        /\ ended'[Len(ended) + 1] = code /\ \A i \in 1..Len(ended) : ended'[i] = ended[i]
    BY <2>2
  <2>4. code # "ok" => \E i \in DOMAIN ended' : ended'[i] # "ok"
    <3>1. Len(ended) + 1 \in DOMAIN ended'
      BY <2>3
    <3> QED
      BY <2>3, <3>1
  <2>5. (\E i \in DOMAIN ended : ended[i] # "ok") => \E i \in DOMAIN ended' : ended'[i] # "ok"
    BY <2>3
  <2>6. PageLost' <=> PageLost
    BY <1>1 DEF PageLost
  <2>7. NextHttpMessage(continuation_token)' = NextHttpMessage(continuation_token)
    BY <1>1, Zenon DEF NextHttpMessage, NextObjectsMessage, NextPartsMessage
  <2>8. pc'["loop"].at \notin {"parsed", "stored", "finished", "cleared"}
    BY <1>2
  <2>9. ended' \in Seq({"none", "ok"} \cup Errors) /\ (pc["loop"].code # "ok" => code # "ok")
    BY <2>3 DEF codes, code
  <2>10. operation_state' = "completed" =>
          \/ listed' = UpTo(2 * Pages)
          \/ PageLost'
          \/ \E i \in DOMAIN ended' : ended'[i] # "ok"
    BY <1>1, <2>4, <2>5, <2>6, <2>9, Zenon DEF PageInv, ListInv
  <2> QED
    BY <1>1, <1>3, <2>7, <2>8, <2>9, <2>10, Zenon DEF PageInv, ListInv
<1>6. RefInv'
  BY <1>1, <1>2, RefsAlone
<1> QED
  BY <1>4, <1>5, <1>6 DEF PageInv

\* aws_s3_paginator_release, with s_paginator_ref_count_zero_callback
LEMMA ReleaseKeeps ==
    ASSUME PageInv, NEW newPc \in [Threads -> CallRecord], NEW holds \in BOOLEAN,
           Release(newPc, holds), UNCHANGED <<finish_result, meta_finished, answer>>,
           \/ /\ pc["loop"].at \in {"callback", "called"} /\ newPc["loop"].at = "idle"
              /\ newPc["user"] = pc["user"] /\ holds = user_holds
           \/ newPc = pc /\ user_holds /\ ~holds /\ pc["user"].at = "idle"
    PROVE  PageInv'
<1>1. /\ refs' = refs - 1 /\ pc' = newPc /\ user_holds' = holds
      /\ IF refs = 1
         THEN released' = released \cup ({current_request} \ {0}) /\ current_request' = 0
         ELSE UNCHANGED <<released, current_request>>
      /\ UNCHANGED <<mode, operation_state, continuation_token, parsed, listed, ended, made, lost>>
  BY Zenon DEF Release
<1>2. /\ pc'["user"] = pc["user"]
      /\ pc'["loop"] = pc["loop"] \/ (pc["loop"].at \in {"callback", "called"} /\ pc'["loop"].at = "idle")
  BY <1>1
<1>3. (Initiated' <=> Initiated) /\ (Running' <=> Running)
  BY <1>1, <1>2 DEF Initiated, Calling, Running, Responding
<1>4. /\ pc'["loop"].at \in Responding \cup {"initiated", "failed", "made", "set"} => pc'["loop"] = pc["loop"]
      /\ pc["loop"].at \in Responding \cup {"initiated", "failed", "made", "set"} => pc'["loop"] = pc["loop"]
  BY <1>2 DEF Responding
<1>5. CallInv'
  <2>1. pc'["loop"].at \in Responding => pc'["loop"] = pc["loop"]
    BY <1>4
  <2>2. pc'["loop"].at \in Calling => pc["loop"].at \in Calling
    BY <1>2 DEF Calling
  <2> QED
    BY <1>1, <1>2, <1>3, <2>1, <2>2, Zenon DEF PageInv, CallInv
<1>6. ListInv'
  <2>1. PageLost' <=> PageLost
    BY <1>1 DEF PageLost
  <2>2. NextHttpMessage(continuation_token)' = NextHttpMessage(continuation_token)
    BY <1>1, Zenon DEF NextHttpMessage, NextObjectsMessage, NextPartsMessage
  <2>3. /\ pc'["loop"].at \in {"finished", "cleared"} => pc["loop"].at \in {"finished", "cleared"}
        /\ pc'["loop"].at \in {"parsed", "stored"} => pc'["loop"] = pc["loop"]
        /\ pc["loop"].at = "set" => pc'["loop"] = pc["loop"]
    BY <1>2
  <2>4. pc'["loop"].at \in {"parsed", "stored"} =>
          /\ parsed'.token \in 0..Pages
          /\ parsed'.more <=> parsed'.token # 0
          /\ IF parsed'.token # 0
             THEN listed' = UpTo(2 * (parsed'.token - 1))
             ELSE listed' = UpTo(2 * Pages) \/ PageLost' \/ pc'["loop"].code # "ok"
          /\ pc'["loop"].at = "stored" => continuation_token' = parsed'.token
    BY <1>1, <2>1, <2>3, Zenon DEF PageInv, ListInv
  <2>5. operation_state' = "completed" =>
          \/ listed' = UpTo(2 * Pages)
          \/ PageLost'
          \/ \E i \in DOMAIN ended' : ended'[i] # "ok"
          \/ pc'["loop"].at = "set" /\ pc'["loop"].code # "ok"
    BY <1>1, <2>1, <2>3, Zenon DEF PageInv, ListInv
  <2>6. Running' /\ (~meta_finished' \/ pc'["loop"].at \in {"finished", "cleared"}) =>
          listed' = UpTo(2 * (answer' - 1))
    BY <1>1, <1>3, <2>3, Zenon DEF PageInv, ListInv
  <2>7. operation_state' = "not_started" \/ Initiated' =>
          listed' = UpTo(2 * (NextHttpMessage(continuation_token)' - 1))
    BY <1>1, <1>3, <2>2, Zenon DEF PageInv, ListInv
  <2> QED
    BY SMTT(20), <1>1, <2>4, <2>5, <2>6, <2>7 DEF PageInv, ListInv
<1>7. RefInv'
  <2>1. Holders' = Holders - 1 /\ Holders \in Nat /\ Holders' \in Nat
    BY <1>1, <1>2 DEF Holders, PageInv, CallInv
  <2>2. refs' = Holders' \/ (refs' = Holders' + 1 /\ (operation_state' = "error" \/ Failed'))
    <3>1. Failed => Failed'
      BY <1>2 DEF Failed
    <3> QED
      BY <1>1, <2>1, <3>1 DEF PageInv, RefInv
  <2>3. refs \in Nat
    BY <2>1 DEF PageInv, RefInv
  <2>4. pc'["user"].at # "idle" => user_holds'
    BY <1>1, <1>2 DEF PageInv, RefInv
  <2>5. released \subseteq 1..made /\ current_request \in 0..made
    BY Zenon DEF PageInv, RefInv
  <2>6. /\ refs' = 0 => current_request' = 0
        /\ released' \subseteq 1..made' /\ current_request' \in 0..made'
        /\ released \subseteq released'
        /\ \A r \in 1..made : r = current_request => r = current_request' \/ r \in released'
    <3>1. refs' = 0 => refs = 1
      BY <1>1, <2>3
    <3>2. made \in Nat /\ UNCHANGED made
      BY <1>1 DEF PageInv, CallInv
    <3>3. CASE refs = 1
      <4>1. released' = released \cup ({current_request} \ {0}) /\ current_request' = 0
        BY <1>1, <3>3
      <4>2. current_request # 0 => current_request \in 1..made
        BY <2>5, <3>2
      <4>3. released' \subseteq 1..made' /\ released \subseteq released'
        BY SMTT(20), <2>5, <3>2, <4>1, <4>2
      <4>4. \A r \in 1..made : r = current_request => r \in released'
        BY <4>1
      <4> QED
        BY SMTT(20), <3>2, <4>1, <4>3, <4>4
    <3>4. CASE refs # 1
      BY <1>1, <2>5, <3>1, <3>4, Zenon
    <3> QED
      BY <3>3, <3>4
  <2>7. \A u \in Threads : pc'[u].at = "made" => pc'[u] = pc[u]
    BY <1>2, <1>4 DEF Threads
  <2>8. \A u \in Threads : pc[u].at = "made" => pc'[u] = pc[u]
    BY <1>2, <1>4 DEF Threads
  <2>9. \A u \in Threads : pc'[u].at = "made" => pc'[u].request \in 1..made'
    BY <1>1, <2>7, Zenon DEF PageInv, RefInv
  <2>10. ASSUME NEW r \in 1..made'
         PROVE  Owned(r)'
    BY <1>1, <2>6, <2>8, ZenonT(30) DEF PageInv, RefInv, Owned
  <2>11. HeldOnce'
    <3>1. /\ HeldOnce /\ 0 \notin released' /\ (current_request' = current_request \/ current_request' = 0)
          /\ released' \subseteq released \cup {current_request}
          /\ current_request' = current_request /\ current_request # 0 => released' = released
      BY <1>1, <2>6 DEF PageInv, RefInv
    <3>2. current_request' \notin released'
      BY <3>1 DEF HeldOnce
    <3>3. ASSUME NEW u \in Threads, pc'[u].at = "made"
          PROVE  pc'[u].request \notin released' /\ pc'[u].request # current_request'
      <4>1. /\ pc'[u] = pc[u] /\ pc'[u].request \in 1..made' /\ pc[u].request \notin released
            /\ pc[u].request # current_request
        BY <2>7, <2>9, <3>1, <3>3, Zenon DEF HeldOnce
      <4>2. pc'[u].request # 0
        BY <4>1
      <4> QED
        BY <3>1, <4>1, <4>2
    <3> QED
      BY <2>7, <3>1, <3>2, <3>3, Zenon DEF HeldOnce
  <2> QED
    BY <2>2, <2>4, <2>6, <2>9, <2>10, <2>11, Zenon DEF RefInv
<1> QED
  BY <1>5, <1>6, <1>7 DEF PageInv

LEMMA ReleasesKeep ==
    ASSUME PageInv, ReleaseAfterPage \/ UserRelease,
           UNCHANGED <<finish_result, meta_finished, answer>>
    PROVE  PageInv'
<1>1. pc \in [Threads -> CallRecord] /\ user_holds \in BOOLEAN
  BY DEF PageInv, CallInv
<1>2. CASE ReleaseAfterPage
  <2> DEFINE newPc == [pc EXCEPT !["loop"] = Idle]
  <2>1. Idle \in CallRecord /\ Idle.at = "idle"
    BY DEF Idle, CallRecord
  <2>2. newPc \in [Threads -> CallRecord] /\ newPc["loop"].at = "idle" /\ newPc["user"] = pc["user"]
    BY <1>1, <2>1 DEF Threads
  <2>3. Release(newPc, user_holds) /\ pc["loop"].at \in {"callback", "called"}
    BY <1>2, Zenon DEF ReleaseAfterPage
  <2> HIDE DEF newPc
  <2> QED
    BY <1>1, <2>2, <2>3, ReleaseKeeps
<1>3. CASE UserRelease
  BY <1>1, <1>3, ReleaseKeeps, Zenon DEF UserRelease
<1> QED
  BY <1>2, <1>3
-----------------------------------------------------------------------------
\* Appended of the lists a page has: none, one and two.
LEMMA AppendedNone == Appended(<< >>) = << >>
BY DEF Appended

LEMMA AppendedOne ==
    ASSUME NEW a
    PROVE  Appended(<<a>>) = a
<1> DEFINE s == <<a>>
           upTo[n \in 1..Len(s)] == IF n = 1 THEN s[n] ELSE upTo[n - 1] \o s[n]
<1>1. Appended(s) = upTo[Len(s)]
  BY DEF Appended
<1>2. Len(s) = 1 /\ s[1] = a
  OBVIOUS
<1> HIDE DEF s
<1> DEFINE f == [n \in 1..Len(s) |-> s[n]]
<1>3. f = [n \in 1..Len(s) |-> IF n = 1 THEN s[n] ELSE f[n - 1] \o s[n]]
  BY <1>2
<1>4. upTo = [n \in 1..Len(s) |-> IF n = 1 THEN s[n] ELSE upTo[n - 1] \o s[n]]
  BY <1>3, Zenon
<1> QED
  BY <1>1, <1>2, <1>4 DEF s

LEMMA AppendedTwo ==
    ASSUME NEW S, NEW a \in Seq(S), NEW b \in Seq(S)
    PROVE  Appended(<<a, b>>) = a \o b
<1> DEFINE s == <<a, b>>
           upTo[n \in 1..Len(s)] == IF n = 1 THEN s[n] ELSE upTo[n - 1] \o s[n]
<1>1. Appended(s) = upTo[Len(s)]
  BY DEF Appended
<1>2. Len(s) = 2 /\ s[1] = a /\ s[2] = b
  OBVIOUS
<1> HIDE DEF s
<1> DEFINE f == [n \in 1..Len(s) |-> IF n = 1 THEN s[n] ELSE s[1] \o s[n]]
<1>3. f = [n \in 1..Len(s) |-> IF n = 1 THEN s[n] ELSE f[n - 1] \o s[n]]
  BY <1>2
<1>4. upTo = [n \in 1..Len(s) |-> IF n = 1 THEN s[n] ELSE upTo[n - 1] \o s[n]]
  BY <1>3, Zenon
<1> HIDE DEF upTo
<1>5. 1 \in 1..Len(s) /\ 2 \in 1..Len(s)
  BY <1>2
<1>6. upTo[1] = a
  BY <1>2, <1>4, <1>5
<1>7. upTo[2] = IF 2 = 1 THEN s[2] ELSE upTo[2 - 1] \o s[2]
  BY <1>4, <1>5, Zenon
<1>8. upTo[2] = upTo[1] \o b
  BY <1>2, <1>7
<1>9. Appended(s) = a \o b
  BY <1>1, <1>2, <1>6, <1>8, Zenon
<1> QED
  BY <1>9, Zenon DEF s

\* The nodes of page p give its two entries.
LEMMA PageEntries ==
    ASSUME mode \in {"objects", "parts"}, NEW p \in Nat
    PROVE  /\ Len(Entries(p)) = 2
           /\ OnResultNode(Entries(p)[1]) = <<2 * p - 1>>
           /\ OnResultNode(Entries(p)[2]) = <<2 * p>>
<1>1. CASE mode = "objects"
  BY <1>1 DEF Entries, OnResultNode, OnListBucketResultNode
<1>2. CASE mode = "parts"
  BY <1>2 DEF Entries, OnResultNode, OnListPartsResultChild
<1> QED
  BY <1>1, <1>2

\* What the first `good` nodes of page p add to the listing before it.
LEMMA PageListed ==
    ASSUME mode \in {"objects", "parts"}, NEW p \in Nat \ {0}, NEW good \in 0..2
    PROVE  UpTo(2 * (p - 1)) \o Appended([i \in 1..good |-> OnResultNode(Entries(p)[i])])
             = UpTo(2 * (p - 1) + good)
<1> DEFINE x == 2 * (p - 1)
           nodes(n) == [i \in 1..n |-> OnResultNode(Entries(p)[i])]
<1>1. /\ OnResultNode(Entries(p)[1]) = <<x + 1>>
      /\ OnResultNode(Entries(p)[2]) = <<x + 2>>
  BY PageEntries
<1>2. x \in Nat
  OBVIOUS
<1> HIDE DEF x
<1>3. CASE good = 0
  <2>1. nodes(0) = << >>
    OBVIOUS
  <2>2. UpTo(x) \o << >> = UpTo(x + 0)
    BY <1>2 DEF UpTo
  <2> QED
    BY <1>3, <2>1, <2>2, AppendedNone, Zenon DEF x
<1>4. CASE good = 1
  <2>1. nodes(1) = << <<x + 1>> >>
    BY <1>1
  <2>2. UpTo(x) \o <<x + 1>> = UpTo(x + 1)
    BY <1>2 DEF UpTo
  <2>3. Appended(nodes(1)) = <<x + 1>>
    BY <2>1, AppendedOne, Zenon
  <2> QED
    BY <1>4, <2>2, <2>3, Zenon DEF x
<1>5. CASE good = 2
  <2>1. nodes(2) = << <<x + 1>>, <<x + 2>> >>
    BY <1>1
  <2>2. <<x + 1>> \in Seq(Nat) /\ <<x + 2>> \in Seq(Nat)
    BY <1>2
  <2>3. Appended(nodes(2)) = <<x + 1>> \o <<x + 2>>
    BY <2>1, <2>2, AppendedTwo, Zenon
  <2>4. UpTo(x) \o (<<x + 1>> \o <<x + 2>>) = UpTo(x + 2)
    BY <1>2 DEF UpTo
  <2> QED
    BY <1>5, <2>3, <2>4, Zenon DEF x
<1> QED
  BY SMTT(20), <1>3, <1>4, <1>5
\* aws_s3_paginated_operation_on_response: result_body is the answer, or empty
\* after a failure.
LEMMA ParsePageKeeps ==
    ASSUME RequestInv, PageInv, mode \in {"objects", "parts"}, ParsePage
    PROVE  PageInv'
<1> DEFINE doc  == Appended([i \in DOMAIN delivered |-> Entries(delivered[i].data)])
           page == IF delivered = << >> THEN 0 ELSE delivered[Len(delivered)].data
<1>1. /\ pc["loop"].at = "cleared" /\ pc' = [pc EXCEPT !["loop"].at = "parsed"]
      /\ UNCHANGED <<finish_result, meta_finished, answer, mode, operation_state,
                     continuation_token, refs, user_holds, current_request, ended, made,
                     released>>
  BY Zenon DEF ParsePage, defaultVars
<1>2. PICK good \in 0..Len(doc) :
        /\ listed' = listed \o Appended([i \in 1..good |-> OnResultNode(doc[i])])
        /\ IF good = Len(doc) /\ page # 0
           THEN /\ parsed' = [token |-> NextToken(page), more |-> NextToken(page) # 0]
                /\ UNCHANGED lost
           ELSE /\ parsed' = [token |-> 0, more |-> FALSE]
                /\ lost' = IF page # 0 THEN lost \cup {<<"page", page>>} ELSE lost
  BY Zenon DEF ParsePage
<1>3. pc["loop"].at \in Responding
  BY <1>1 DEF Responding
<1>4. /\ pc' \in [Threads -> CallRecord] /\ pc'["loop"].at = "parsed"
      /\ pc'["loop"].code = pc["loop"].code /\ pc'["user"] = pc["user"]
      /\ meta_finished /\ Running /\ operation_state = "initiated"
      /\ pc["loop"].code = finish_result /\ made > 0
      /\ ~Initiated /\ ~Initiated' /\ pc'["user"].at \notin Calling
  BY <1>1, <1>3, LoopMoves
<1>5. listed = UpTo(2 * (answer - 1)) /\ answer \in 1..Pages
  BY <1>1, <1>4 DEF PageInv, ListInv
<1>6. lost \subseteq lost'
  BY <1>2
<1>7. /\ parsed'.token \in 0..Pages
      /\ parsed'.more <=> parsed'.token # 0
      /\ IF parsed'.token # 0
         THEN listed' = UpTo(2 * (parsed'.token - 1))
         ELSE listed' = UpTo(2 * Pages) \/ PageLost' \/ finish_result # "ok"
      /\ \E k \in 0..(2 * Pages) : listed' = UpTo(k)
  <2>1. CASE delivered = << >>
    <3>1. [i \in DOMAIN delivered |-> Entries(delivered[i].data)] = << >>
      BY <2>1
    <3>2. doc = << >>
      BY <3>1, AppendedNone, Zenon
    <3>3. page = 0
      BY <2>1
    <3>4. good = 0 /\ [i \in 1..0 |-> OnResultNode(doc[i])] = << >>
      BY <3>2
    <3>5. parsed' = [token |-> 0, more |-> FALSE]
      BY <1>2, <3>3, Zenon
    <3>6. listed' = listed \o << >>
      BY <1>2, <3>4, AppendedNone, Zenon
    <3>7. UpTo(2 * (answer - 1)) \o << >> = UpTo(2 * (answer - 1)) /\ 2 * (answer - 1) \in 0..(2 * Pages)
      BY <1>5, PagesAssumption DEF UpTo
    <3>8. finish_result # "ok"
      <4>1. << >> # <<response>>
        OBVIOUS
      <4> QED
        BY <2>1, <4>1, Zenon DEF RequestInv, DeliveryInv
    <3>9. \E k \in 0..(2 * Pages) : listed' = UpTo(k)
      BY <1>5, <3>6, <3>7, Zenon
    <3> QED
      BY SMTT(20), <3>5, <3>8, <3>9, PagesAssumption
  <2>2. CASE delivered # << >>
    <3>1. delivered = <<response>> /\ default.delivery_completed # 0
      BY <2>2, Zenon DEF RequestInv, DeliveryInv
    <3>2. default.delivery_sent = 1
      BY <3>1 DEF RequestInv, DefaultInv, DefaultRecord
    <3>3. response.data = answer
      BY <3>2, Zenon DEF RequestInv, DefaultInv, Good
    <3>4. delivered[Len(delivered)] = response
      BY <3>1
    <3>5. page = answer
      BY <2>2, <3>3, <3>4, Zenon
    <3>6. [i \in DOMAIN delivered |-> Entries(delivered[i].data)] = <<Entries(answer)>>
      BY <3>1, <3>3
    <3>7. doc = Entries(answer)
      BY <3>6, AppendedOne, Zenon
    <3> HIDE DEF doc, page
    <3>8. answer \in Nat \ {0} /\ Len(doc) = 2
      BY SMTT(20), <1>5, <3>7, PageEntries, PagesAssumption
    <3>9. good \in 0..2
      BY <3>8
    <3>10. listed' = UpTo(2 * (answer - 1) + good)
      <4>1. listed' = UpTo(2 * (answer - 1)) \o
                        Appended([i \in 1..good |-> OnResultNode(Entries(answer)[i])])
        BY <1>2, <1>5, <3>7, Zenon
      <4> QED
        BY <3>8, <3>9, <4>1, PageListed, Zenon
    <3>11. 2 * (answer - 1) + good \in 0..(2 * Pages)
      BY <1>5, <3>9, PagesAssumption
    <3>12. CASE good = 2
      <4>1. parsed' = [token |-> NextToken(answer), more |-> NextToken(answer) # 0]
        BY SMTT(20), <1>2, <3>5, <3>8, <3>12
      <4>2. CASE answer < Pages
        <5>1. NextToken(answer) = answer + 1 /\ answer + 1 \in 0..Pages /\ answer + 1 # 0
          BY SMTT(20), <1>5, <4>2, PagesAssumption DEF NextToken
        <5>2. parsed'.token = answer + 1 /\ parsed'.more
          BY <4>1, <5>1, Zenon
        <5>3. listed' = UpTo(2 * ((answer + 1) - 1))
          <6>1. 2 * (answer - 1) + good = 2 * ((answer + 1) - 1)
            BY <3>8, <3>12
          <6> QED
            BY <3>10, <6>1, Zenon
        <5> QED
          BY SMTT(20), <3>10, <3>11, <5>1, <5>2, <5>3
      <4>3. CASE ~(answer < Pages)
        <5>1. NextToken(answer) = 0 /\ answer = Pages
          BY SMTT(20), <1>5, <4>3, PagesAssumption DEF NextToken
        <5>2. parsed'.token = 0 /\ ~parsed'.more
          BY <4>1, <5>1, Zenon
        <5>3. listed' = UpTo(2 * Pages)
          <6>1. 2 * (answer - 1) + good = 2 * Pages
            BY SMTT(20), <3>8, <3>12, <5>1
          <6> QED
            BY <3>10, <6>1, Zenon
        <5> QED
          BY SMTT(20), <3>10, <3>11, <5>2, <5>3, PagesAssumption
      <4> QED
        BY <4>2, <4>3
    <3>13. CASE good # 2
      <4>1. parsed' = [token |-> 0, more |-> FALSE] /\ <<"page", answer>> \in lost'
        BY SMTT(20), <1>2, <3>5, <3>8, <3>13
      <4>2. PageLost'
        BY <1>5, <4>1, Zenon DEF PageLost
      <4> QED
        BY SMTT(20), <3>10, <3>11, <4>1, <4>2, PagesAssumption
    <3> QED
      BY <3>12, <3>13
  <2> QED
    BY <2>1, <2>2
<1>8. CallInv'
  BY <1>1, <1>4 DEF PageInv, CallInv
<1>9. ListInv'
  <2>1. pc'["loop"].at \notin {"finished", "cleared", "stored"}
    BY <1>4
  <2>2. operation_state' \notin {"not_started", "completed"}
    BY <1>1, <1>4
  <2> QED
    BY SMTT(20), <1>1, <1>4, <1>7, <2>1, <2>2 DEF PageInv, ListInv
<1>10. RefInv'
  BY SMTT(20), <1>1, <1>4, <1>6, RefsAlone
<1> QED
  BY <1>8, <1>9, <1>10 DEF PageInv
\* Steps of the meta request while it runs do not touch the paginator.
LEMMA PageStays ==
    ASSUME PageInv, UNCHANGED pageVars, UNCHANGED <<meta_finished, answer>>, ~meta_finished
    PROVE  PageInv'
<1>1. UNCHANGED <<mode, operation_state, continuation_token, refs, user_holds, current_request,
                  pc, parsed, listed, ended, made, released, lost>>
  BY Zenon DEF pageVars
<1>2. (Running' <=> Running) /\ (Initiated' <=> Initiated) /\ (PageLost' <=> PageLost)
  BY <1>1, Zenon DEF Running, Initiated, PageLost
<1>3. CallInv'
  BY <1>1, <1>2, Zenon DEF PageInv, CallInv
<1>4. ListInv'
  <2>1. NextHttpMessage(continuation_token)' = NextHttpMessage(continuation_token)
    BY <1>1, Zenon DEF NextHttpMessage, NextObjectsMessage, NextPartsMessage
  <2> QED
    BY <1>1, <1>2, <2>1, Zenon DEF PageInv, ListInv
<1>5. RefInv'
  <2>1. Holders' = Holders
    BY <1>1, Zenon DEF Holders
  <2>2. ASSUME NEW r \in 1..made
        PROVE  Owned(r) => Owned(r)'
    BY <1>1, Zenon DEF Owned
  <2> QED
    BY <1>1, <2>1, <2>2, Zenon DEF PageInv, RefInv, HeldOnce, Failed
<1> QED
  BY <1>3, <1>4, <1>5 DEF PageInv

LEMMA InitEstablishes == Init => IInv
<1> SUFFICES ASSUME Init
             PROVE  IInv
  OBVIOUS
<1>1. /\ finish_result = "none" /\ meta_finished = FALSE /\ req = << >> /\ stop_called = FALSE
      /\ faults = 0 /\ default = NewDefault /\ delivered = << >> /\ events = 0 /\ received = {}
      /\ reported = NotReported
  BY Zenon DEF Init, DefaultInit, AttemptInit
<1>2. /\ mode \in {"plain", "objects", "parts"}
      /\ mode = "plain" => opts \in Options
      /\ mode # "plain" => opts = ListOptions
  BY Zenon DEF Init, ListOptions
<1>3. /\ operation_state = "not_started" /\ continuation_token = 0 /\ refs = 1
      /\ user_holds = TRUE /\ current_request = 0 /\ pc = [t \in Threads |-> Idle]
      /\ listed = << >> /\ ended = << >> /\ made = 0 /\ released = {} /\ lost = {}
  BY Zenon DEF Init
<1>4. RequestInv
  <2>1. faults \in 0..MaxFaults
    BY <1>1, RetryAssumption
  <2>2. opts \in Options \cup {ListOptions}
    BY <1>2, Zenon
  <2> QED
    BY <1>1, <2>1, <2>2, NewRequestKeeps, Zenon
<1>5. PlainInv
  BY <1>1, <1>2, <1>3, Zenon DEF PlainInv
<1>6. Idle \in CallRecord /\ Idle.at = "idle"
  BY DEF Idle, CallRecord
<1>7. /\ pc \in [Threads -> CallRecord] /\ pc["user"].at = "idle" /\ pc["loop"].at = "idle"
      /\ \A t \in Threads : pc[t].at = "idle"
  BY <1>3, <1>6 DEF Threads
<1>8. ~Running /\ ~Initiated /\ pc["loop"].at \notin Responding
  BY <1>3, <1>7 DEF Running, Initiated, Calling, Responding
<1>9. CallInv
  BY <1>3, <1>7, <1>8 DEF CallInv, Calling
<1>10. ListInv
  <2>1. listed = UpTo(0)
    BY <1>3 DEF UpTo
  <2>2. 2 * (NextHttpMessage(continuation_token) - 1) = 0
    BY <1>3 DEF NextHttpMessage, NextObjectsMessage, NextPartsMessage
  <2> QED
    BY SMTT(20), <1>3, <1>7, <1>8, <2>1, <2>2, PagesAssumption DEF ListInv
<1>11. RefInv
  BY <1>1, <1>3, <1>7 DEF RefInv, Holders, HeldOnce
<1> QED
  BY SMTT(20), <1>4, <1>5, <1>9, <1>10, <1>11 DEF IInv, PageInv

LEMMA NextPreserves == IInv /\ [Next]_vars => IInv'
<1> SUFFICES ASSUME IInv, [Next]_vars
             PROVE  IInv'
  OBVIOUS
<1>1. RequestInv /\ PlainInv /\ (mode # "plain" => PageInv)
  BY DEF IInv
<1>2. mode \in {"plain", "objects", "parts"}
  BY <1>1 DEF PlainInv
<1>3. mode = "plain" =>
        /\ pc = [t \in Threads |-> Idle] /\ \A t \in Threads : pc[t].at = "idle"
        /\ pc["loop"].at = "idle"
  BY <1>1 DEF PlainInv, Idle, Threads
<1>4. mode # "plain" => opts = ListOptions /\ ~stop_called /\ (made = 0 => ~meta_finished)
  BY <1>1, Zenon DEF PlainInv
<1>5. CASE UNCHANGED vars
  <2>1. RequestInv' /\ UNCHANGED <<finish_result, meta_finished, stop_called, answer, opts>>
    BY <1>1, <1>5, RequestAlone, Zenon DEF vars
  <2>2. UNCHANGED pageVars
    BY <1>5, Zenon DEF vars
  <2>3. PlainInv'
    BY <1>1, <2>1, <2>2 DEF PlainInv, pageVars
  <2>4. PageInv => PageInv'
    <3>1. UNCHANGED <<mode, operation_state, continuation_token, refs, user_holds, current_request,
                      pc, parsed, listed, ended, made, released, lost>>
      BY <2>2, Zenon DEF pageVars
    <3>2. (CallInv => CallInv') /\ (Initiated' <=> Initiated) /\ (Running' <=> Running)
      BY <2>1, <3>1, Zenon DEF CallInv, Running, Initiated
    <3>3. ListInv => ListInv'
      <4>1. NextHttpMessage(continuation_token)' = NextHttpMessage(continuation_token)
        BY <3>1, Zenon DEF NextHttpMessage, NextObjectsMessage, NextPartsMessage
      <4> QED
        BY <2>1, <3>1, <3>2, <4>1, Zenon DEF ListInv, PageLost
    <3>4. RefInv => RefInv'
      BY <2>1, <3>1, Zenon DEF RefInv, Holders, Owned, HeldOnce, Failed
    <3> QED
      BY <3>2, <3>3, <3>4 DEF PageInv
  <2>5. UNCHANGED mode
    BY <2>2 DEF pageVars
  <2> QED
    BY SMTT(20), <1>1, <2>1, <2>3, <2>4, <2>5 DEF IInv
<1>6. CASE /\ mode = "plain" \/ made > 0
           /\ DefaultStep(mode = "plain") /\ UNCHANGED pageVars
  <2>1. /\ RequestInv' /\ ~meta_finished
        /\ UNCHANGED <<meta_finished, stop_called, opts, answer>>
    BY <1>1, <1>6, DefaultStepKeeps, Zenon
  <2>2. PlainInv' /\ UNCHANGED mode
    BY <1>1, <1>6, <2>1 DEF PlainInv, pageVars
  <2>3. PageInv => PageInv'
    BY <1>6, <2>1, PageStays, Zenon
  <2> QED
    BY SMTT(20), <1>1, <2>1, <2>2, <2>3 DEF IInv
<1>7. CASE (mode = "plain" \/ made > 0) /\ FinishCallback
  <2>1. /\ UpdateFinish
        /\ UNCHANGED <<mode, operation_state, has_more_results, continuation_token, refs,
                       user_holds, current_request, parsed, listed, ended, made, released, lost>>
        /\ mode = "plain" => UNCHANGED pc
    BY <1>7, Zenon DEF FinishCallback
  <2>2. RequestInv'
    BY <1>1, <2>1, UpdateFinishKeeps, Zenon
  <2>3. mode # "plain" => made # 0
    BY <1>7
  <2>4. UNCHANGED <<opts, stop_called>>
    BY <2>1, Zenon DEF UpdateFinish
  <2>5. PlainInv'
    BY <1>1, <2>1, <2>3, <2>4, Zenon DEF PlainInv
  <2>6. mode # "plain" => PageInv'
    BY <1>1, <1>7, FinishCallbackKeeps
  <2> QED
    BY SMTT(20), <2>1, <2>2, <2>5, <2>6 DEF IInv
<1>8. CASE ClearToken \/ StoreToken \/ SetState \/ PageFinished
  <2>1. pc["loop"].at # "idle" /\ UNCHANGED <<attemptVars, defaultVars>> /\ UNCHANGED <<mode, made>>
    BY <1>8 DEF ClearToken, StoreToken, SetState, PageFinished
  <2>2. RequestInv' /\ UNCHANGED <<finish_result, meta_finished, stop_called, answer, opts>>
    BY <1>1, <2>1, RequestAlone, Zenon
  <2>3. mode # "plain" /\ PageInv
    BY <1>1, <1>3, <2>1
  <2>4. PageInv'
    BY <1>8, <2>2, <2>3, ClearTokenKeeps, StoreTokenKeeps, SetStateKeeps, PageFinishedKeeps, Zenon
  <2>5. PlainInv'
    BY SMTT(20), <1>1, <2>1, <2>2, <2>3 DEF PlainInv
  <2> QED
    BY SMTT(20), <2>2, <2>4, <2>5 DEF IInv
<1>9. CASE ParsePage
  <2>1. /\ pc["loop"].at = "cleared" /\ UNCHANGED <<mode, made>> /\ UNCHANGED defaultVars
        /\ UNCHANGED <<finish_result, meta_finished, req, signing, stop_called>>
        /\ Fault \/ NoFault
    BY <1>9, Zenon DEF ParsePage
  <2>2. mode # "plain" /\ PageInv /\ mode \in {"objects", "parts"}
    BY SMTT(20), <1>1, <1>2, <1>3, <2>1
  <2>3. RequestInv'
    BY <1>1, <2>1, FaultBound, RequestStays, Zenon
  <2>4. PageInv'
    BY <1>1, <1>9, <2>2, ParsePageKeeps, Zenon
  <2>5. PlainInv'
    BY SMTT(20), <1>1, <2>1, <2>2 DEF PlainInv, defaultVars
  <2> QED
    BY <2>3, <2>4, <2>5 DEF IInv
<1>10. CASE ReleaseAfterPage \/ UserRelease
  <2>1. /\ mode # "plain" /\ UNCHANGED <<attemptVars, defaultVars>> /\ UNCHANGED <<mode, made>>
    <3>1. mode # "plain"
      <4>1. ReleaseAfterPage => pc["loop"].at # "idle"
        BY DEF ReleaseAfterPage
      <4> QED
        BY <1>3, <1>10, <4>1, Zenon DEF UserRelease
    <3> QED
      BY <1>10, <3>1, Zenon DEF ReleaseAfterPage, UserRelease, Release
  <2>2. RequestInv' /\ UNCHANGED <<finish_result, meta_finished, stop_called, answer, opts>>
    BY <1>1, <2>1, RequestAlone, Zenon
  <2>3. PageInv'
    BY <1>1, <1>10, <2>1, <2>2, ReleasesKeep, Zenon
  <2>4. PlainInv'
    BY SMTT(20), <1>1, <2>1, <2>2 DEF PlainInv
  <2> QED
    BY <2>2, <2>3, <2>4 DEF IInv
<1>11. ASSUME NEW t \in Threads, MakeRequest(t)
       PROVE  IInv'
  <2>1. pc[t].at = "initiated" /\ made' = made + 1 /\ UNCHANGED <<mode, opts, faults>>
    BY <1>11, Zenon DEF MakeRequest
  <2>2. mode # "plain" /\ PageInv
    BY <1>1, <1>3, <2>1
  <2>3. /\ finish_result' = "none" /\ meta_finished' = FALSE /\ req' = << >> /\ stop_called' = FALSE
        /\ default' = NewDefault /\ delivered' = << >> /\ events' = 0 /\ received' = {}
        /\ reported' = NotReported
    BY <1>11, Zenon DEF MakeRequest, ResultBody
  <2>4. faults' \in 0..MaxFaults /\ opts' \in Options \cup {ListOptions}
    BY <1>1, <2>1 DEF RequestInv, ResultInv, DefaultInv
  <2>5. RequestInv'
    BY <2>3, <2>4, NewRequestMade, Zenon
  <2>6. PageInv'
    BY <1>11, <2>2, MakeRequestKeeps, Zenon
  <2>7. PlainInv'
    BY SMTT(20), <1>2, <1>4, <2>1, <2>2, <2>3 DEF PlainInv
  <2> QED
    BY SMTT(20), <2>5, <2>6, <2>7 DEF IInv
<1>12. ASSUME NEW t \in Threads, StoreRequest(t) \/ StoreNoRequest(t) \/ Continue(t)
       PROVE  IInv'
  <2>1. mode # "plain" /\ UNCHANGED <<attemptVars, defaultVars>> /\ UNCHANGED <<mode, made>>
    <3>1. mode # "plain"
      <4>1. StoreRequest(t) \/ StoreNoRequest(t) => pc[t].at # "idle"
        BY DEF StoreRequest, StoreNoRequest
      <4> QED
        BY <1>3, <1>12, <4>1, Zenon DEF Continue, MayCall
    <3> QED
      BY <1>12, <3>1, Zenon DEF StoreRequest, StoreNoRequest, Store, Continue
  <2>2. RequestInv' /\ UNCHANGED <<finish_result, meta_finished, stop_called, answer, opts>>
    BY <1>1, <2>1, RequestAlone, Zenon
  <2>3. PageInv'
    <3>1. ASSUME StoreRequest(t) \/ StoreNoRequest(t)
          PROVE  PageInv'
      BY <1>1, <2>1, <2>2, <3>1, StoreKeeps, Zenon DEF StoreRequest, StoreNoRequest
    <3> QED
      BY <1>1, <1>12, <2>1, <2>2, <3>1, ContinueKeeps, Zenon
  <2>4. PlainInv'
    BY SMTT(20), <1>1, <2>1, <2>2 DEF PlainInv
  <2> QED
    BY SMTT(20), <2>2, <2>3, <2>4 DEF IInv
<1>13. ASSUME NEW t \in Threads, NextMessageFails(t) \/ MakeRequestFails(t)
       PROVE  IInv'
  <2>1. /\ pc[t].at = "initiated" /\ UNCHANGED <<mode, made>> /\ UNCHANGED defaultVars /\ Fault
        /\ UNCHANGED <<finish_result, meta_finished, req, signing, stop_called>>
    BY <1>13, Zenon DEF NextMessageFails, MakeRequestFails
  <2>2. mode # "plain" /\ PageInv
    BY SMTT(20), <1>1, <1>3, <2>1
  <2>3. RequestInv'
    BY <1>1, <2>1, FaultBound, RequestStays, Zenon
  <2>4. PageInv'
    BY <1>13, <2>2, NextMessageFailsKeeps, MakeRequestFailsKeeps, Zenon
  <2>5. PlainInv'
    BY SMTT(20), <1>1, <2>1, <2>2 DEF PlainInv, defaultVars
  <2> QED
    BY <2>3, <2>4, <2>5 DEF IInv
<1>14. CASE UserStops
  <2>1. mode = "plain" /\ UNCHANGED defaultVars /\ UNCHANGED pageVars
    BY <1>14, Zenon DEF UserStops
  <2>2. PICK code \in {"canceled", "paused"} : Stop(code)
    BY <1>14 DEF UserStops
  <2>3. code \in Errors
    BY DEF Errors
  <2>4. RequestInv'
    BY <1>1, <2>1, <2>2, <2>3, StopKeeps, Zenon
  <2>5. PlainInv' /\ mode' = "plain"
    BY <1>1, <2>1 DEF PlainInv, pageVars
  <2> QED
    BY <2>4, <2>5 DEF IInv
<1> QED
  BY SMTT(20), <1>5, <1>6, <1>7, <1>8, <1>9, <1>10, <1>11, <1>12, <1>13, <1>14 DEF Next, Step

LEMMA PaginatorInvariance == Spec => []IInv
<1>1. Spec => Init /\ [][Next]_vars
  BY PTL DEF Spec
<1> QED
  BY <1>1, InitEstablishes, NextPreserves, PTL

-----------------------------------------------------------------------------
\* BodiesIntact, for every number of retries and failures: the service gets
\* the body the caller gave whatever the attempt
\* (s_s3_default_prepare_request), success is reported after the answer, and
\* nothing else, went to body_callback (s_s3_meta_request_default_update), and a
\* validated body that changed is never delivered.
THEOREM DefaultBodiesIntact == Spec => []BodiesIntact
<1>1. IInv => BodiesIntact
  <2> SUFFICES ASSUME IInv
               PROVE  BodiesIntact
    OBVIOUS
  <2>1. DefaultInv /\ DeliveryInv /\ ResultInv
    BY Zenon DEF IInv, RequestInv
  <2>2. delivered # << >> => delivered = <<response>> /\ Good
    <3>1. delivered # << >> => default.delivery_completed # 0 /\ delivered = <<response>>
      BY <2>1, Zenon DEF DeliveryInv
    <3>2. default.delivery_completed # 0 => default.delivery_sent = 1
      BY <2>1 DEF DefaultInv, DefaultRecord
    <3> QED
      BY <2>1, <3>1, <3>2, Zenon DEF DefaultInv
  <2>3. DeliveredIsIntact
    <3>1. CASE delivered = << >>
      BY <3>1 DEF DeliveredIsIntact
    <3>2. CASE delivered # << >>
      BY <2>2, <3>2 DEF DeliveredIsIntact, Good
    <3> QED
      BY <3>1, <3>2
  <2>4. SuccessWasDelivered
    <3> SUFFICES ASSUME reported.code = "ok"
                 PROVE  delivered = <<response>> /\ response.data = answer
      BY DEF SuccessWasDelivered
    <3>1. meta_finished
      BY <2>1 DEF DeliveryInv, NotReported
    <3>2. finish_result = "ok"
      BY <2>1, <3>1 DEF DeliveryInv
    <3>3. delivered = <<response>> /\ default.delivery_sent = 1
      BY <2>1, <3>2, Zenon DEF DeliveryInv
    <3> QED
      BY <2>1, <3>3, Zenon DEF DefaultInv, Good
  <2>5. EveryAttemptSendsTheBody
    BY <2>1, Zenon DEF DefaultInv, EveryAttemptSendsTheBody, HasBody
  <2> QED
    BY <2>3, <2>4, <2>5 DEF BodiesIntact
<1> QED
  BY <1>1, PaginatorInvariance, PTL

\* RequestIsQuiet: a default meta request that was cancelled or paused has
\* told every open stream (aws_s3_meta_request_cancel against
\* aws_s3_meta_request_send_request), and when its finish callback runs no
\* request, body or event of it is on the way.
THEOREM DefaultRequestIsQuiet == Spec => []RequestIsQuiet
<1>1. IInv => RequestIsQuiet
  <2> SUFFICES ASSUME IInv
               PROVE  RequestIsQuiet
    OBVIOUS
  <2>1. DefaultInv /\ DeliveryInv /\ ResultInv /\ AttemptInv /\ PlainInv
    BY Zenon DEF IInv, RequestInv
  <2>2. AttemptTypeOK
    BY <2>1, Zenon DEF ResultInv, AttemptInv, Attempt, AttemptRecord, AttemptTypeOK
  <2>3. DefaultTypeOK
    <3>1. DOMAIN req \subseteq {Only}
      BY <2>1, Zenon DEF AttemptInv, Attempt
    <3> QED
      BY <2>1, <2>2, <3>1 DEF DefaultInv, DefaultRecord, DefaultTypeOK
  <2>4. TypeOK
    <3>1. CASE mode = "plain"
      BY <2>1, <2>3, <3>1, PagesAssumption DEF PlainInv, TypeOK
    <3>2. CASE mode # "plain"
      <4>1. CallInv /\ ListInv /\ RefInv
        BY <3>2 DEF IInv, PageInv
      <4>2. operation_state = "error" \/ Failed => ~Running
        BY <4>1 DEF CallInv, Failed, Initiated, Calling
      <4>3. operation_state = "error" \/ Failed => ~(made > 0 /\ ~meta_finished)
        BY <4>2 DEF Running
      <4>4. refs \in 0..3
        BY <4>1, <4>3 DEF RefInv, Holders
      <4> QED
        BY <2>3, <4>1, <4>4, Zenon DEF TypeOK, CallInv, ListInv, RefInv
    <3> QED
      BY <3>1, <3>2
  <2>5. StoppedStreamsTold
    BY <2>1, Zenon DEF AttemptInv, Attempt, StoppedStreamsTold
  <2>6. FinishIsQuiet
    <3>1. DOMAIN req = {} => req = << >>
      BY <2>1 DEF AttemptInv
    <3> QED
      BY <2>1, <3>1, Zenon DEF DeliveryInv, FinishIsQuiet
  <2> QED
    BY <2>4, <2>5, <2>6 DEF RequestIsQuiet
<1> QED
  BY <1>1, PaginatorInvariance, PTL

\* ReferencesKept, for every number of pages: aws_s3_paginator_continue and
\* s_on_request_finished keep the paginator while a callback of its request is
\* to come, and give up every request they made but one whose handle a late
\* aws_atomic_store_ptr overwrote, and none of them twice.
THEOREM PaginatorReferencesKept == Spec => []ReferencesKept
<1>1. IInv => ReferencesKept
  <2>0. IInv => current_request \notin released
    BY DEF IInv, PlainInv, PageInv, RefInv, HeldOnce
  <2> SUFFICES ASSUME IInv, mode # "plain"
               PROVE  /\ Busy \/ (made > 0 /\ ~meta_finished) => refs > 0
                      /\ refs = 0 => \A r \in 1..made : r \in released \/ <<"overwritten", r>> \in lost
    BY <2>0, Zenon DEF ReferencesKept, PaginatorOutlivesItsRequest, RequestsReleased
  <2>1. RefInv /\ CallInv
    BY DEF IInv, PageInv
  <2>2. Busy => user_holds \/ pc["loop"].at # "idle"
    BY <2>1 DEF Busy, Threads, RefInv
  <2>3. Busy \/ (made > 0 /\ ~meta_finished) => Holders > 0
    BY <2>2 DEF Holders
  <2>4. Holders \in Nat
    BY DEF Holders
  <2>5. Busy \/ (made > 0 /\ ~meta_finished) => refs > 0
    BY <2>1, <2>3, <2>4 DEF RefInv
  <2>6. ASSUME refs = 0, NEW r \in 1..made
        PROVE  r \in released \/ <<"overwritten", r>> \in lost
    <3>1. ~Busy
      BY <2>5, <2>6
    <3>2. Owned(r) /\ current_request = 0
      BY <2>1, <2>6 DEF RefInv
    <3>3. r # current_request
      BY <3>2
    <3>4. \A t \in Threads : pc[t].at # "made"
      BY <3>1 DEF Busy
    <3> QED
      BY <3>2, <3>3, <3>4, Zenon DEF Owned
  <2> QED
    BY <2>5, <2>6
<1> QED
  BY <1>1, PaginatorInvariance, PTL

\* ListingIsExact, for every number of pages: whichever thread calls
\* aws_s3_paginator_continue, one page is asked for at a time, the user sees
\* the listing from its beginning and in order, and all of it when the
\* operation completes and no page failed to parse.
THEOREM ListingExact == Spec => []ListingIsExact
<1>1. IInv => ListingIsExact
  <2> SUFFICES ASSUME IInv
               PROVE  ListingIsExact
    OBVIOUS
  <2>1. CASE mode = "plain"
    <3>1. pc = [t \in Threads |-> Idle] /\ listed = << >>
      BY <2>1 DEF IInv, PlainInv
    <3>2. OnePageAtATime
      BY <3>1 DEF OnePageAtATime, Idle
    <3>3. ListingIsPrefix
      <4>1. SubSeq(WholeListing, 1, 0) = << >> /\ 0 \in 0..(2 * Pages)
        BY PagesAssumption DEF WholeListing
      <4> QED
        BY <3>1, <4>1, Zenon DEF ListingIsPrefix
    <3>4. CompletedIsWhole
      BY <2>1 DEF CompletedIsWhole
    <3> QED
      BY <3>2, <3>3, <3>4 DEF ListingIsExact
  <2>2. CASE mode # "plain"
    <3>1. CallInv /\ ListInv
      BY <2>2 DEF IInv, PageInv
    <3>2. OnePageAtATime
      BY <3>1 DEF OnePageAtATime, CallInv, Initiated, Calling, Running, Responding, Threads
    <3>3. ListingIsPrefix
      <4>1. PICK k \in 0..(2 * Pages) : listed = UpTo(k)
        BY <3>1 DEF ListInv
      <4>2. UpTo(k) = SubSeq(WholeListing, 1, k)
        BY PagesAssumption DEF UpTo, WholeListing
      <4> QED
        BY <4>1, <4>2, Zenon DEF ListingIsPrefix
    <3>4. CompletedIsWhole
      <4> SUFFICES ASSUME operation_state = "completed", pc["loop"].at = "idle",
                          \A i \in DOMAIN ended : ended[i] = "ok",
                          \A p \in 1..Pages : <<"page", p>> \notin lost
                   PROVE  listed = WholeListing
        BY Zenon DEF CompletedIsWhole
      <4>1. ~PageLost
        BY Zenon DEF PageLost
      <4>2. pc["loop"].at # "set"
        OBVIOUS
      <4>3. listed = UpTo(2 * Pages)
        BY <3>1, <4>1, <4>2, Zenon DEF ListInv
      <4> QED
        BY <4>3, Zenon DEF UpTo, WholeListing
    <3> QED
      BY <3>2, <3>3, <3>4 DEF ListingIsExact
  <2> QED
    BY <2>1, <2>2
<1> QED
  BY <1>1, PaginatorInvariance, PTL
=============================================================================
