-------------------------- MODULE CopyObjectProofs --------------------------
(***************************************************************************)
(* Proofs about CopyObject, for an object of any length, any part size and *)
(* number of parts, and any number of retries and failures.                *)
(*                                                                         *)
(* CopyStepProofs states the inductive invariant, of which StopInv and     *)
(* QuietInv give StoppedStreamsTold and WindsDown. Here are the steps that *)
(* finish a request (s_s3_copy_object_request_finished) or the meta        *)
(* request, the invariance of the whole, and the theorems.                 *)
(***************************************************************************)
EXTENDS CopyStepProofs
-----------------------------------------------------------------------------
\* s_s3_copy_object_request_finished
LEMMA ConsumedEffect ==
    ASSUME FlightInv, NEW r, Finishing(r), Fault \/ NoFault,
           finish_result' = finish_result \/ (~HasResult /\ finish_result' \in Errors)
    PROVE  Consumed(r)
<1>1. r \in DOMAIN req /\ req[r].stage = "finishing"
      /\ UNCHANGED <<meta_finished, stop_called, progress, source, initial, service, reported>>
  BY DEF Finishing, At
<1>2. DOMAIN req' = DOMAIN req \ {r} /\ \A s \in DOMAIN req' : req'[s] = req[s]
  BY DEF Finishing, Consume
<1>3. DOMAIN message' = DOMAIN message \ {r} /\ \A s \in DOMAIN message' : message'[s] = message[s]
  BY DEF Finishing, CleanUpSendData
<1>4. faults' \in 0..MaxFaults /\ faults' >= faults
  BY FaultEffect
<1> QED
  BY <1>1, <1>2, <1>3, <1>4 DEF Consumed

\* The result a request's code leaves.
LEMMA ResultOfCode ==
    ASSUME NEW code \in Errors \cup {"ok"}, SetFailUnlessOk(code)
    PROVE  /\ finish_result' = finish_result \/ (~HasResult /\ finish_result' \in Errors)
           /\ IF code = "ok" THEN UNCHANGED finish_result ELSE HasResult'
<1>1. "none" \notin Errors /\ "ok" \notin Errors
  BY DEF Errors, FatalErrors
<1> QED
  BY <1>1 DEF SetFailUnlessOk, SetResult, HasResult

LEMMA ConsumedSame ==
    ASSUME FlightInv, NEW r, Consumed(r)
    PROVE  /\ \A s : Succeeded(s)' => Succeeded(s)
           /\ finish_result # "ok" /\ finish_result' # "ok"
           /\ HasResult => UNCHANGED finish_result
<1>1. \A s : Succeeded(s)' => Succeeded(s)
  BY DEF Consumed, Succeeded, At
<1>2. finish_result # "ok" /\ finish_result' # "ok"
  BY DEF FlightInv, Consumed, Errors, FatalErrors
<1> QED
  BY <1>1, <1>2 DEF Consumed

LEMMA MessageConsumed ==
    ASSUME MessageInv, NEW r, Consumed(r), \A s \in DOMAIN message \ {r} : Build(s)' = Build(s)
    PROVE  MessageInv'
<1>1. \A s \in DOMAIN message' : message'[s] = Build(s)'
  BY DEF Consumed, MessageInv
<1>2. DOMAIN message' \subseteq DOMAIN req'
  BY DEF Consumed, MessageInv
<1>3. UNCHANGED initial
  BY DEF Consumed
<1> QED
  BY <1>1, <1>2, <1>3, Zenon DEF MessageInv

LEMMA CleanConsumed ==
    ASSUME FlightInv, CleanInv, NEW r, Consumed(r),
           Clean /\ faults' = faults => UNCHANGED finish_result,
           copy'.create = "done" /\ copy'.complete = "none" =>
              Succeeded(Req("create")) \/ (copy.create = "done" /\ copy.complete = "none")
    PROVE  CleanInv'
<1> SUFFICES ASSUME Clean' PROVE CleanInv!2'
  BY DEF CleanInv
<1>1. UNCHANGED <<stop_called, initial, service>> /\ faults' \in Nat /\ faults' >= faults
  BY DEF Consumed
<1>2. Clean /\ faults' = faults
  BY <1>1, CleanBack
<1>3. CleanInv!2 /\ UNCHANGED finish_result
  BY <1>2 DEF CleanInv
<1>4. \A s \in DOMAIN req' : s \in DOMAIN req /\ req'[s] = req[s]
  BY DEF Consumed
<1>5. \A s : Succeeded(s)' => Succeeded(s)
  BY ConsumedSame
<1>6. Req("complete") \in DOMAIN req' /\ ~At(Req("complete"), "finishing")' =>
         Req("complete") \in DOMAIN req /\ ~At(Req("complete"), "finishing")
  BY <1>4 DEF At
<1> QED
  BY <1>1, <1>3, <1>4, <1>5, <1>6

\* A failure is recorded, and the request was not what the copy waits for.
LEMMA FailureKeeps ==
    ASSUME CopyInv, NEW r, Consumed(r), UNCHANGED <<copy, events>>, HasResult',
           Clean => faults' # faults
    PROVE  FlightInv' /\ MessageInv' /\ PlanInv' /\ ServiceInv' /\ ProgressInv' /\ CleanInv'
<1>1. /\ FlightInv /\ MessageInv /\ PlanInv /\ ServiceInv /\ ProgressInv /\ CleanInv /\ QuietInv
  BY DEF CopyInv
<1>2. UNCHANGED <<meta_finished, stop_called, progress, source, initial, service>>
      /\ DOMAIN req' \subseteq DOMAIN req /\ DOMAIN message' \subseteq DOMAIN message
  BY DEF Consumed
<1>3. /\ \A s : Succeeded(s)' => Succeeded(s)
      /\ finish_result # "ok" /\ finish_result' # "ok" /\ (HasResult => UNCHANGED finish_result)
  BY <1>1, ConsumedSame
<1>4. FlightInv'
  BY <1>1, FlightConsumed
<1>5. MessageInv'
  <2>1. \A s : Build(s)' = Build(s)
    BY <1>2, BuildSame
  <2> QED
    BY <1>1, <2>1, MessageConsumed
<1>6. PlanInv'
  <2>1. (IsCut' <=> IsCut) /\ (CompleteSucceeded' <=> CompleteSucceeded)
    BY DEF IsCut, PartSize, NumCopyParts, CompleteSucceeded
  <2>2. meta_finished => HasResult
    BY <1>1 DEF QuietInv
  <2> QED
    BY <1>1, <1>2, <1>3, <2>1, <2>2 DEF PlanInv
<1>7. ServiceInv'
  BY <1>1, <1>2, <1>3, ServiceSame DEF CompleteSucceeded
<1>8. ProgressInv'
  BY <1>1, <1>2, <1>3, ProgressSame
<1>9. CleanInv'
  BY <1>1, CleanConsumed
<1> QED
  BY <1>4, <1>5, <1>6, <1>7, <1>8, <1>9
LEMMA HeadFinishedKeeps ==
    ASSUME CopyInv, HeadFinished
    PROVE  FlightInv' /\ MessageInv' /\ PlanInv' /\ ServiceInv' /\ ProgressInv' /\ CleanInv'
<1> DEFINE r == Req("head")
<1>1. /\ FlightInv /\ MessageInv /\ PlanInv /\ ServiceInv /\ ProgressInv /\ CleanInv /\ QuietInv
      /\ StopInv
  BY DEF CopyInv
<1>2. /\ Finishing(r) /\ r \in DOMAIN req /\ UNCHANGED events /\ req[r].code \in Errors \cup {"ok"}
  BY <1>1 DEF HeadFinished, Finishing, At, StopInv, RequestType
<1>3. "header" \in Errors /\ "ok" \notin Errors /\ "none" \notin Errors
  BY DEF Errors, FatalErrors
<1>4. CASE copy' = copy
  <2>1. PICK code \in Errors : /\ SetResult(code)
                               /\ (req[r].code = "ok" /\ Fault) \/ (req[r].code # "ok" /\ NoFault)
    <3>1. copy' # [copy EXCEPT !.head = "done", !.content_length = source]
      <4>1. copy \in CopyType /\ copy.head = "sent"
        BY <1>1, <1>2 DEF QuietInv, FlagsInv
      <4> QED
        BY <1>4, <4>1, Zenon DEF CopyType
    <3> QED
      BY <1>2, <1>3, <3>1 DEF HeadFinished
  <2>2. HasResult' /\ (finish_result' = finish_result \/ (~HasResult /\ finish_result' \in Errors))
    BY <1>3, <2>1 DEF SetResult, HasResult
  <2>3. Consumed(r)
    BY <1>1, <1>2, <2>1, <2>2, ConsumedEffect
  <2>4. Clean => faults' # faults
    BY <1>1, <1>2, <2>1, FaultEffect DEF CleanInv
  <2> QED
    BY <1>2, <1>4, <2>2, <2>3, <2>4, FailureKeeps
<1>5. CASE copy' # copy
  <2>1. /\ copy' = [copy EXCEPT !.head = "done", !.content_length = source]
        /\ UNCHANGED finish_result /\ NoFault
    BY <1>5 DEF HeadFinished
  <2>2. Consumed(r)
    BY <1>1, <1>2, <2>1, ConsumedEffect
  <2>3. copy \in CopyType /\ copy.head = "sent"
    BY <1>1, <1>2 DEF QuietInv, FlagsInv
  <2>4. /\ copy'.bypass = copy.bypass /\ copy'.create = copy.create
        /\ copy'.complete = copy.complete /\ copy'.abort = copy.abort
        /\ copy'.complete_error = copy.complete_error /\ copy'.upload_id = copy.upload_id
        /\ copy'.content_length = source /\ copy'.part_size = copy.part_size
        /\ copy'.num_parts_sent = copy.num_parts_sent /\ copy'.etags = copy.etags
    BY <2>1, <2>3 DEF CopyType
  <2>5. copy.create = "none" /\ copy.num_parts_sent = 0 /\ copy.complete = "none"
        /\ copy.bypass = "none"
    BY <1>1, <2>3 DEF QuietInv, OrderInv, CopyType
  <2>6. copy.etags = {} /\ 1..copy.num_parts_sent = {} /\ ~copy.upload_id
    BY <1>1, <2>5 DEF PlanInv
  <2>7. /\ \A s : Succeeded(s)' => Succeeded(s)
        /\ finish_result # "ok" /\ finish_result' # "ok"
    BY <1>1, <2>2, ConsumedSame
  <2>8. /\ UNCHANGED <<source, initial, service, progress>>
        /\ DOMAIN message' \subseteq DOMAIN req
    BY <1>1, <2>2 DEF Consumed, MessageInv
  <2>9. FlightInv'
    BY <1>1, <2>2, FlightConsumed
  <2>10. MessageInv'
    <3>1. \A s \in DOMAIN req : s[1] \notin {"part", "complete"}
      <4> TAKE s \in DOMAIN req
      <4>1. PICK tag \in Tags : s = Req(tag)
        BY <1>1, <2>6 DEF QuietInv, FlagsInv
      <4>2. tag # "complete"
        BY <1>1, <2>5, <4>1 DEF QuietInv, FlagsInv
      <4> QED
        BY <4>1, <4>2 DEF Req, Tags
    <3>2. \A s \in DOMAIN req : Build(s)' = Build(s)
      BY <2>8, <3>1, BuildSame
    <3> QED
      BY <1>1, <2>2, <3>2, MessageConsumed DEF MessageInv
  <2>11. PlanInv'
    <3>1. Req("create") \notin DOMAIN message'
      BY <1>1, <2>5, <2>8 DEF QuietInv, FlagsInv
    <3> QED
      BY SMTT(20), <2>4, <2>5, <2>6, <2>7, <2>8, <3>1 DEF PlanInv
  <2>12. ServiceInv'
    <3>1. DOMAIN service.stored = {}
      BY <1>1, <2>6 DEF ServiceInv
    <3>2. Bytes' = Bytes /\ (CompleteSucceeded' <=> CompleteSucceeded)
      BY <2>4, <2>8 DEF Bytes, CompleteSucceeded
    <3> QED
      BY SMTT(20), <1>1, <2>4, <2>5, <2>6, <2>7, <2>8, <3>1, <3>2 DEF ServiceInv, CopyIsWhole
  <2>13. ProgressInv'
    BY SMTT(20), <1>1, <1>2, <2>4, <2>5, <2>7, <2>8 DEF ProgressInv
  <2>14. CleanInv'
    BY <1>1, <2>1, <2>2, <2>4, CleanConsumed
  <2> QED
    BY <2>9, <2>10, <2>11, <2>12, <2>13, <2>14
<1> QED
  BY <1>4, <1>5

\* The events not delivered yet add up to a number of bytes.
LEMMA EventsSum ==
    ASSUME ProgressInv
    PROVE  SumFunction(events) \in Nat
<1> DEFINE D == 1..Len(events)
<1>1. events \in [D -> Nat] /\ Len(events) \in Nat
  BY DEF ProgressInv
<1>2. IsFiniteSet(D)
  BY <1>1, FS_Interval
<1> HIDE DEF D
<1> QED
  BY <1>1, <1>2, SumType

LEMMA EtagsFinite ==
    ASSUME QuietInv, PlanInv
    PROVE  /\ IsFiniteSet(copy.etags) /\ Cardinality(copy.etags) \in Nat /\ copy.part_size \in Nat
           /\ Cardinality(copy.etags) * copy.part_size \in Nat
<1> DEFINE sent == copy.num_parts_sent
           S == copy.etags
<1>1. S \subseteq 1..sent /\ sent \in Nat /\ copy.part_size \in Nat
  BY DEF QuietInv, PlanInv, CopyType
<1>2. IsFiniteSet(1..sent)
  BY <1>1, FS_Interval
<1> HIDE DEF sent, S
<1>3. IsFiniteSet(S)
  BY <1>1, <1>2, FS_Subset, Zenon
<1>4. Cardinality(S) \in Nat
  BY <1>3, FS_CardinalityType
<1> QED
  BY <1>1, <1>3, <1>4 DEF S

LEMMA BypassFinishedKeeps ==
    ASSUME CopyInv, BypassFinished
    PROVE  FlightInv' /\ MessageInv' /\ PlanInv' /\ ServiceInv' /\ ProgressInv' /\ CleanInv'
<1> DEFINE r == Req("bypass")
<1>1. /\ FlightInv /\ MessageInv /\ PlanInv /\ ServiceInv /\ ProgressInv /\ CleanInv /\ QuietInv
      /\ StopInv
  BY DEF CopyInv
<1>2. /\ Finishing(r) /\ r \in DOMAIN req /\ req[r].code \in Errors \cup {"ok"}
      /\ req[r].stage = "finishing" /\ NoFault /\ SetFailUnlessOk(req[r].code)
  BY <1>1 DEF BypassFinished, Finishing, At, StopInv, RequestType
<1>3. /\ finish_result' = finish_result \/ (~HasResult /\ finish_result' \in Errors)
      /\ IF req[r].code = "ok" THEN UNCHANGED finish_result ELSE HasResult'
  BY <1>2, ResultOfCode
<1>4. Consumed(r)
  BY <1>1, <1>2, <1>3, ConsumedEffect
<1>5. CASE req[r].code # "ok"
  <2>1. UNCHANGED <<copy, events>>
    BY <1>5 DEF BypassFinished
  <2>2. ~Clean
    BY SMTT(20), <1>1, <1>2, <1>5 DEF CleanInv
  <2> QED
    BY <1>3, <1>4, <1>5, <2>1, <2>2, FailureKeeps
<1>6. CASE req[r].code = "ok"
  <2>1. /\ copy' = [copy EXCEPT !.bypass = "done"] /\ events' = Append(events, copy.content_length)
        /\ UNCHANGED finish_result
    BY <1>3, <1>6 DEF BypassFinished
  <2>2. copy \in CopyType /\ copy.bypass = "sent"
    BY <1>1, <1>2 DEF QuietInv, FlagsInv
  <2>3. /\ copy'.head = copy.head /\ copy'.bypass = "done" /\ copy'.create = copy.create
        /\ copy'.complete = copy.complete /\ copy'.abort = copy.abort
        /\ copy'.complete_error = copy.complete_error /\ copy'.upload_id = copy.upload_id
        /\ copy'.content_length = copy.content_length /\ copy'.part_size = copy.part_size
        /\ copy'.total_num_parts = copy.total_num_parts
        /\ copy'.num_parts_sent = copy.num_parts_sent /\ copy'.etags = copy.etags
    BY <2>1, <2>2 DEF CopyType
  <2>4. /\ \A s : Succeeded(s)' => Succeeded(s)
        /\ finish_result # "ok" /\ finish_result' # "ok"
    BY <1>1, <1>4, ConsumedSame
  <2>5. /\ UNCHANGED <<source, initial, service, progress, meta_finished>>
        /\ DOMAIN message' \subseteq DOMAIN message /\ DOMAIN req' = DOMAIN req \ {r}
    BY <1>4 DEF Consumed
  <2>6. FlightInv'
    BY <1>1, <1>4, FlightConsumed
  <2>7. MessageInv'
    <3>1. \A s : Build(s)' = Build(s)
      BY <2>3, <2>5, BuildSame
    <3> QED
      BY <1>1, <1>4, <3>1, MessageConsumed
  <2>8. PlanInv'
    <3>1. IsCut' <=> IsCut
      BY <2>3 DEF IsCut, PartSize, NumCopyParts
    <3>2. (CompleteSucceeded' <=> CompleteSucceeded) /\ (HasResult' <=> HasResult)
      BY <2>1, <2>3 DEF CompleteSucceeded, HasResult
    <3>3. \A n : PartReq(n) # r
      BY DEF PartReq, Req
    <3> HIDE DEF r
    <3> QED
      BY SMTT(20), <1>1, <2>1, <2>3, <2>4, <2>5, <3>1, <3>2, <3>3 DEF PlanInv
  <2>9. ServiceInv'
    <3>1. Succeeded(r)
      BY <1>2, <1>6 DEF Succeeded, At
    <3>2. Bytes' = Bytes /\ (CompleteSucceeded' <=> CompleteSucceeded)
          /\ \A n : PartRange(n)' = PartRange(n)
      BY <2>3, <2>5 DEF Bytes, CompleteSucceeded, PartRange
    <3> QED
      BY SMTT(20), <1>1, <2>3, <2>4, <2>5, <3>1, <3>2 DEF ServiceInv, CopyIsWhole
  <2>10. ProgressInv'
    <3> DEFINE E == SumFunction(events)
               c == copy.content_length
               K == Cardinality(copy.etags) * copy.part_size
    <3>1. E \in Nat /\ c \in Nat /\ events \in Seq(Nat) /\ progress \in Nat /\ progress + E = 0 + K
      BY <1>1, <2>2, EventsSum DEF ProgressInv, CopyType
    <3>2. K \in Nat
      BY <1>1, EtagsFinite
    <3>3. events' = Append(events, c)
      BY <2>1
    <3> HIDE DEF c
    <3>4. events' \in Seq(Nat)
      BY <3>1, <3>3
    <3>5. SumFunction(events') = E + c
      BY <3>1, <3>3, SumAppend, Zenon
    <3> HIDE DEF E, K
    <3>6. progress + (E + c) = c + K
      BY <3>1, <3>2
    <3> QED
      BY SMTT(20), <2>3, <2>4, <2>5, <3>1, <3>4, <3>5, <3>6 DEF c, K, ProgressInv
  <2>11. CleanInv'
    BY <1>1, <1>4, <2>1, <2>3, CleanConsumed
  <2> QED
    BY <2>6, <2>7, <2>8, <2>9, <2>10, <2>11
<1> QED
  BY <1>5, <1>6
LEMMA CreateFinishedKeeps ==
    ASSUME CopyInv, CreateFinished
    PROVE  FlightInv' /\ MessageInv' /\ PlanInv' /\ ServiceInv' /\ ProgressInv' /\ CleanInv'
<1> DEFINE r == Req("create")
<1>1. /\ FlightInv /\ MessageInv /\ PlanInv /\ ServiceInv /\ ProgressInv /\ CleanInv /\ QuietInv
      /\ StopInv
  BY DEF CopyInv
<1>2. /\ Finishing(r) /\ r \in DOMAIN req /\ req[r].code \in Errors \cup {"ok"}
      /\ req[r].stage = "finishing" /\ UNCHANGED events
  BY <1>1 DEF CreateFinished, Finishing, At, StopInv, RequestType
<1>3. PICK code \in {req[r].code, "header"} :
         /\ IF code = "header" /\ req[r].code # "header"
            THEN req[r].code = "ok" /\ Fault ELSE NoFault
         /\ SetFailUnlessOk(code)
         /\ copy' = [copy EXCEPT !.create = "done", !.upload_id = (code = "ok")]
  BY Zenon DEF CreateFinished
<1>4. code \in Errors \cup {"ok"} /\ (code = "ok" => req[r].code = "ok")
  BY <1>2 DEF Errors
<1>5. /\ finish_result' = finish_result \/ (~HasResult /\ finish_result' \in Errors)
      /\ IF code = "ok" THEN UNCHANGED finish_result ELSE HasResult'
  BY <1>3, <1>4, ResultOfCode
<1>6. Consumed(r)
  BY <1>1, <1>2, <1>3, <1>5, ConsumedEffect
<1>7. copy \in CopyType /\ copy.create = "sent" /\ ~meta_finished
  <2>1. r # Req("head") /\ r # Req("bypass")
    BY DEF Req
  <2> QED
    BY <1>1, <1>2, <2>1 DEF QuietInv, FlagsInv, FinishIsQuiet
<1> DEFINE known == (code = "ok")
<1>8. known \in BOOLEAN /\ (known <=> code = "ok")
  OBVIOUS
<1> HIDE DEF known
<1>9. /\ copy'.head = copy.head /\ copy'.bypass = copy.bypass /\ copy'.create = "done"
      /\ copy'.complete = copy.complete /\ copy'.abort = copy.abort
      /\ copy'.complete_error = copy.complete_error /\ copy'.upload_id = known
      /\ copy'.content_length = copy.content_length /\ copy'.part_size = copy.part_size
      /\ copy'.total_num_parts = copy.total_num_parts
      /\ copy'.num_parts_sent = copy.num_parts_sent /\ copy'.etags = copy.etags
  BY <1>3, <1>7 DEF CopyType, known
<1>10. copy.complete = "none" /\ copy.num_parts_sent = 0 /\ copy.etags = {}
       /\ 1..copy.num_parts_sent = {}
  <2>1. copy.complete = "none" /\ copy.num_parts_sent = 0
    BY <1>1, <1>7 DEF QuietInv, OrderInv, CopyType
  <2> QED
    BY <1>1, <2>1 DEF PlanInv
<1>11. /\ \A s : Succeeded(s)' => Succeeded(s)
       /\ finish_result # "ok" /\ finish_result' # "ok"
  BY <1>1, <1>6, ConsumedSame
<1>12. /\ UNCHANGED <<source, initial, service, progress, meta_finished>>
       /\ DOMAIN message' = DOMAIN message \ {r}
  BY <1>6 DEF Consumed
<1>13. FlightInv'
  BY <1>1, <1>6, FlightConsumed
<1>14. MessageInv'
  <2>1. \A s : Build(s)' = Build(s)
    BY <1>9, <1>12, BuildSame
  <2> QED
    BY <1>1, <1>6, <2>1, MessageConsumed
<1>15. known => Succeeded(r)
  BY <1>2, <1>4, <1>8 DEF Succeeded, At
<1>16. PlanInv'
  <2>1. known => IsCut
    <3>1. known => r \in DOMAIN message
      BY <1>1, <1>2, <1>15 DEF FlightInv
    <3> QED
      BY <1>1, <3>1 DEF PlanInv
  <2>2. IsCut' <=> IsCut
    BY <1>9 DEF IsCut, PartSize, NumCopyParts
  <2>3. ~HasResult' => known
    BY <1>5, <1>8
  <2> QED
    BY SMTT(20), <1>1, <1>7, <1>9, <1>10, <1>11, <1>12, <2>1, <2>2, <2>3 DEF PlanInv
<1>17. ServiceInv'
  BY SMTT(20), <1>1, <1>9, <1>10, <1>11, <1>12, ServiceSame DEF CompleteSucceeded
<1>18. ProgressInv'
  BY SMTT(20), <1>1, <1>2, <1>9, <1>11, <1>12, ProgressSame
<1>19. CleanInv'
  <2>1. Clean /\ faults' = faults => code = "ok"
    BY <1>1, <1>2, <1>3, FaultEffect DEF CleanInv
  <2>2. Clean /\ faults' = faults => UNCHANGED finish_result /\ Succeeded(r)
    BY <1>5, <1>8, <1>15, <2>1
  <2>3. CASE Clean /\ faults' = faults
    BY <1>1, <1>6, <2>2, <2>3, CleanConsumed
  <2>4. CASE ~(Clean /\ faults' = faults)
    <3>1. UNCHANGED <<stop_called, initial>> /\ faults' \in Nat /\ faults' >= faults
      BY <1>6 DEF Consumed
    <3>2. ~Clean'
      BY <1>1, <2>4, <3>1, CleanBack
    <3> QED
      BY <3>2 DEF CleanInv
  <2> QED
    BY <2>3, <2>4
<1> QED
  BY <1>13, <1>14, <1>16, <1>17, <1>18, <1>19

LEMMA CompleteFinishedKeeps ==
    ASSUME CopyInv, CompleteFinished
    PROVE  FlightInv' /\ MessageInv' /\ PlanInv' /\ ServiceInv' /\ ProgressInv' /\ CleanInv'
<1> DEFINE r == Req("complete")
           code == req[r].code
<1>1. /\ FlightInv /\ MessageInv /\ PlanInv /\ ServiceInv /\ ProgressInv /\ CleanInv /\ QuietInv
      /\ StopInv
  BY DEF CopyInv
<1>2. /\ Finishing(r) /\ r \in DOMAIN req /\ code \in Errors \cup {"ok"}
      /\ req[r].stage = "finishing" /\ UNCHANGED events /\ NoFault /\ SetFailUnlessOk(code)
  BY <1>1 DEF CompleteFinished, Finishing, At, StopInv, RequestType
<1>3. /\ finish_result' = finish_result \/ (~HasResult /\ finish_result' \in Errors)
      /\ IF code = "ok" THEN UNCHANGED finish_result ELSE HasResult'
  BY <1>2, ResultOfCode
<1>4. Consumed(r)
  BY <1>1, <1>2, <1>3, ConsumedEffect
<1>5. copy \in CopyType /\ copy.complete = "sent" /\ copy.create = "done" /\ copy.upload_id
      /\ ~meta_finished
  <2>1. r # Req("head") /\ r # Req("bypass")
    BY DEF Req
  <2> QED
    BY <1>1, <1>2, <2>1 DEF QuietInv, FlagsInv, FinishIsQuiet, OrderInv, PlanInv
<1>6. copy' = [copy EXCEPT !.complete = "done", !.complete_error = code]
  BY DEF CompleteFinished
<1>7. /\ copy'.head = copy.head /\ copy'.bypass = copy.bypass /\ copy'.create = copy.create
      /\ copy'.complete = "done" /\ copy'.abort = copy.abort
      /\ copy'.complete_error = code /\ copy'.upload_id = copy.upload_id
      /\ copy'.content_length = copy.content_length /\ copy'.part_size = copy.part_size
      /\ copy'.total_num_parts = copy.total_num_parts
      /\ copy'.num_parts_sent = copy.num_parts_sent /\ copy'.etags = copy.etags
  <2> HIDE DEF code
  <2> QED
    BY <1>5, <1>6, Zenon DEF CopyType
<1>8. /\ \A s : Succeeded(s)' => Succeeded(s)
      /\ finish_result # "ok" /\ finish_result' # "ok"
  BY <1>1, <1>4, ConsumedSame
<1>9. /\ UNCHANGED <<source, initial, service, progress, meta_finished>>
      /\ DOMAIN message' \subseteq DOMAIN message /\ DOMAIN req' = DOMAIN req \ {r}
  BY <1>4 DEF Consumed
<1>10. FlightInv'
  BY <1>1, <1>4, FlightConsumed
<1>11. MessageInv'
  <2>1. \A s : Build(s)' = Build(s)
    BY <1>7, <1>9, BuildSame
  <2> QED
    BY <1>1, <1>4, <2>1, MessageConsumed
<1>12. PlanInv'
  <2>1. IsCut' <=> IsCut
    BY <1>7 DEF IsCut, PartSize, NumCopyParts
  <2>2. ~HasResult' => ~HasResult /\ code = "ok"
    BY <1>3 DEF HasResult
  <2>3. \A n : PartReq(n) # r
    BY DEF PartReq, Req
  <2> HIDE DEF r, code
  <2> QED
    BY SMTT(20), <1>1, <1>5, <1>7, <1>8, <1>9, <2>1, <2>2, <2>3 DEF PlanInv
<1>13. ServiceInv'
  <2>1. CompleteSucceeded' => Succeeded(r)
    BY <1>2, <1>7 DEF CompleteSucceeded, Succeeded, At
  <2>2. Bytes' = Bytes /\ \A n : PartRange(n)' = PartRange(n)
    BY <1>7, <1>9 DEF Bytes, PartRange
  <2> QED
    BY SMTT(20), <1>1, <1>7, <1>8, <1>9, <2>1, <2>2 DEF ServiceInv, CopyIsWhole
<1>14. ProgressInv'
  BY SMTT(20), <1>1, <1>2, <1>7, <1>8, <1>9, ProgressSame
<1>15. CleanInv'
  <2>1. Clean => UNCHANGED finish_result
    BY <1>1, <1>2, <1>3 DEF CleanInv
  <2> QED
    BY <1>1, <1>4, <1>7, <2>1, CleanConsumed
<1> QED
  BY <1>10, <1>11, <1>12, <1>13, <1>14, <1>15

LEMMA AbortFinishedKeeps ==
    ASSUME CopyInv, AbortFinished
    PROVE  FlightInv' /\ MessageInv' /\ PlanInv' /\ ServiceInv' /\ ProgressInv' /\ CleanInv'
<1> DEFINE r == Req("abort")
<1>1. /\ FlightInv /\ MessageInv /\ PlanInv /\ ServiceInv /\ ProgressInv /\ CleanInv /\ QuietInv
  BY DEF CopyInv
<1>2. /\ Finishing(r) /\ r \in DOMAIN req /\ UNCHANGED <<events, finish_result>> /\ NoFault
      /\ copy' = [copy EXCEPT !.abort = "done"]
  BY DEF AbortFinished, Finishing, At
<1>3. Consumed(r)
  BY <1>1, <1>2, ConsumedEffect
<1>4. copy \in CopyType /\ HasResult /\ ~meta_finished
  <2>1. r # Req("head") /\ r # Req("bypass")
    BY DEF Req
  <2> QED
    BY <1>1, <1>2, <2>1 DEF QuietInv, FlagsInv, FinishIsQuiet, OrderInv
<1>5. /\ copy'.head = copy.head /\ copy'.bypass = copy.bypass /\ copy'.create = copy.create
      /\ copy'.complete = copy.complete
      /\ copy'.complete_error = copy.complete_error /\ copy'.upload_id = copy.upload_id
      /\ copy'.content_length = copy.content_length /\ copy'.part_size = copy.part_size
      /\ copy'.total_num_parts = copy.total_num_parts
      /\ copy'.num_parts_sent = copy.num_parts_sent /\ copy'.etags = copy.etags
  BY <1>2, <1>4 DEF CopyType
<1>6. /\ \A s : Succeeded(s)' => Succeeded(s)
      /\ finish_result # "ok" /\ finish_result' # "ok"
  BY <1>1, <1>3, ConsumedSame
<1>7. /\ UNCHANGED <<source, initial, service, progress, meta_finished>>
      /\ DOMAIN message' \subseteq DOMAIN message /\ DOMAIN req' \subseteq DOMAIN req
  BY <1>3 DEF Consumed
<1>8. (CompleteSucceeded' <=> CompleteSucceeded) /\ (IsCut' <=> IsCut) /\ HasResult'
  BY <1>2, <1>4, <1>5 DEF CompleteSucceeded, IsCut, PartSize, NumCopyParts, HasResult
<1>9. FlightInv'
  BY <1>1, <1>3, FlightConsumed
<1>10. MessageInv'
  <2>1. \A s : Build(s)' = Build(s)
    BY <1>5, <1>7, BuildSame
  <2> QED
    BY <1>1, <1>3, <2>1, MessageConsumed
<1>11. PlanInv'
  BY SMTT(20), <1>1, <1>4, <1>5, <1>6, <1>7, <1>8 DEF PlanInv
<1>12. ServiceInv'
  BY SMTT(20), <1>1, <1>5, <1>6, <1>7, <1>8, ServiceSame
<1>13. ProgressInv'
  BY SMTT(20), <1>1, <1>2, <1>5, <1>6, <1>7, ProgressSame
<1>14. CleanInv'
  BY <1>1, <1>2, <1>3, <1>5, CleanConsumed
<1> QED
  BY <1>9, <1>10, <1>11, <1>12, <1>13, <1>14
LEMMA PartFinishedKeeps ==
    ASSUME CopyInv, NEW n \in 1..copy.num_parts_sent, PartFinished(n)
    PROVE  FlightInv' /\ MessageInv' /\ PlanInv' /\ ServiceInv' /\ ProgressInv' /\ CleanInv'
<1> DEFINE r == PartReq(n)
           code == req[r].code
           back == copy.num_parts_completed + 1
           good == code = "ok"
           tags == IF good THEN copy.etags \cup {n} ELSE copy.etags
<1>1. /\ FlightInv /\ MessageInv /\ PlanInv /\ ServiceInv /\ ProgressInv /\ CleanInv /\ QuietInv
      /\ StopInv
  BY DEF CopyInv
<1>2. /\ Finishing(r) /\ r \in DOMAIN req /\ code \in Errors \cup {"ok"}
      /\ req[r].stage = "finishing" /\ NoFault /\ SetFailUnlessOk(code)
  BY <1>1 DEF PartFinished, Finishing, At, StopInv, RequestType
<1>3. /\ finish_result' = finish_result \/ (~HasResult /\ finish_result' \in Errors)
      /\ IF good THEN UNCHANGED finish_result ELSE HasResult'
  BY <1>2, ResultOfCode
<1>4. Consumed(r)
  BY <1>1, <1>2, <1>3, ConsumedEffect
<1>5. /\ copy \in CopyType /\ copy.num_parts_sent \in Nat /\ copy.num_parts_completed \in Nat
      /\ copy.create = "done"
  BY <1>1 DEF QuietInv, CopyType, OrderInv
<1>6. copy.complete = "none"
  BY <1>1, <1>2, <1>5, NoPartInFlight DEF QuietInv, OrderInv
<1>7. ~meta_finished
  <2>1. r # Req("head") /\ r # Req("bypass")
    BY DEF Req, PartReq
  <2> QED
    BY <1>1, <1>2, <2>1 DEF QuietInv, FinishIsQuiet
<1>8. /\ \/ copy' = [copy EXCEPT !.num_parts_completed = back, !.etags = tags]
         \/ copy' = [copy EXCEPT !.num_parts_completed = back] /\ tags = copy.etags
      /\ events' = IF good THEN Append(events, copy.part_size) ELSE events
  BY Zenon DEF PartFinished
<1>9. /\ copy'.head = copy.head /\ copy'.bypass = copy.bypass /\ copy'.create = copy.create
      /\ copy'.complete = copy.complete /\ copy'.abort = copy.abort
      /\ copy'.complete_error = copy.complete_error /\ copy'.upload_id = copy.upload_id
      /\ copy'.content_length = copy.content_length /\ copy'.part_size = copy.part_size
      /\ copy'.total_num_parts = copy.total_num_parts
      /\ copy'.num_parts_sent = copy.num_parts_sent /\ copy'.etags = tags
  <2> HIDE DEF back, tags
  <2> QED
    BY <1>5, <1>8, Zenon DEF CopyType
<1>10. /\ \A s : Succeeded(s)' => Succeeded(s)
       /\ finish_result # "ok" /\ finish_result' # "ok"
  BY <1>1, <1>4, ConsumedSame
<1>11. /\ UNCHANGED <<source, initial, service, progress, meta_finished>>
       /\ DOMAIN message' \subseteq DOMAIN message /\ DOMAIN req' = DOMAIN req \ {r}
  BY <1>4 DEF Consumed
<1>12. good => Succeeded(r)
  BY <1>2 DEF Succeeded, At
<1>13. n \notin copy.etags
  BY <1>1, <1>2 DEF PlanInv
<1>14. \A m : PartReq(m) = r => m = n
  BY DEF PartReq
<1>15. (CompleteSucceeded' <=> CompleteSucceeded) /\ (IsCut' <=> IsCut)
       /\ \A m : PartRange(m)' = PartRange(m)
  BY <1>9 DEF CompleteSucceeded, IsCut, PartSize, NumCopyParts, PartRange
<1>16. FlightInv'
  BY <1>1, <1>4, FlightConsumed
<1>17. MessageInv'
  <2>1. \A s \in DOMAIN req : s[1] # "complete"
    <3> TAKE s \in DOMAIN req
    <3>1. s # Req("complete")
      BY <1>1, <1>6 DEF QuietInv, FlagsInv
    <3> QED
      BY <1>1, <3>1 DEF QuietInv, FlagsInv, Req, PartReq, Tags
  <2>2. \A s \in DOMAIN req : Build(s)' = Build(s)
    BY <1>9, <1>11, <2>1, BuildSame
  <2> QED
    BY <1>1, <1>4, <2>2, MessageConsumed DEF MessageInv
<1> HIDE DEF r, code, good
<1>18. PlanInv'
  <2>1. ~HasResult' => ~HasResult /\ good
    BY <1>3 DEF HasResult
  <2>2. tags \subseteq 1..copy.num_parts_sent /\ \A m \in tags : PartReq(m) \notin DOMAIN req'
    <3>1. PartReq(n) = r
      BY DEF r
    <3> QED
      BY <1>1, <1>11, <3>1 DEF PlanInv
  <2>3. good => \A m \in 1..copy.num_parts_sent :
                   m \in copy.etags \/ PartReq(m) \in DOMAIN req =>
                      m \in tags \/ PartReq(m) \in DOMAIN req'
    BY <1>11, <1>14
  <2> HIDE DEF tags
  <2> QED
    BY <1>1, <1>6, <1>7, <1>9, <1>10, <1>11, <1>15, <2>1, <2>2, <2>3, Zenon DEF PlanInv
<1>19. ServiceInv'
  <2>1. tags \subseteq DOMAIN service.stored
    BY <1>1, <1>12 DEF ServiceInv, r
  <2>2. Bytes' = Bytes
    BY <1>11 DEF Bytes
  <2> HIDE DEF tags
  <2> QED
    BY SMTT(20), <1>1, <1>9, <1>10, <1>11, <1>15, <2>1, <2>2 DEF ServiceInv, CopyIsWhole
<1>20. ProgressInv'
  <2> DEFINE E == SumFunction(events)
             c == copy.part_size
             k == Cardinality(copy.etags)
             B == IF copy.bypass = "done" THEN copy.content_length ELSE 0
  <2>1. /\ E \in Nat /\ c \in Nat /\ events \in Seq(Nat) /\ progress \in Nat /\ k \in Nat /\ B \in Nat
        /\ progress + E = B + k * c /\ IsFiniteSet(copy.etags)
    BY <1>1, <1>5, EventsSum, EtagsFinite DEF ProgressInv, CopyType
  <2>2. CASE good
    <3>1. events' = Append(events, c) /\ copy'.etags = copy.etags \cup {n}
      BY <1>8, <1>9, <2>2
    <3>2. Cardinality(copy'.etags) = k + 1
      BY <1>13, <2>1, <3>1, FS_AddElement, Zenon
    <3> HIDE DEF c, k, B
    <3>3. events' \in Seq(Nat)
      BY <2>1, <3>1
    <3>4. SumFunction(events') = E + c
      BY <2>1, <3>1, SumAppend, Zenon
    <3> HIDE DEF E
    <3>5. k * c \in Nat /\ (k + 1) * c = k * c + c
      BY <2>1
    <3> DEFINE p == k * c
               q == (k + 1) * c
    <3>6. p \in Nat /\ q = p + c /\ progress + E = B + p
      BY <2>1, <3>5
    <3> HIDE DEF p, q
    <3>7. progress + (E + c) = B + q
      BY <2>1, <3>6
    <3> QED
      BY SMTT(20), <1>9, <1>10, <1>11, <2>1, <3>2, <3>3, <3>4, <3>7 DEF c, B, q, ProgressInv
  <2>3. CASE ~good
    BY SMTT(20), <1>1, <1>8, <1>9, <1>10, <1>11, <2>3, ProgressSame
  <2> QED
    BY <2>2, <2>3
<1>21. CleanInv'
  <2>1. Clean => UNCHANGED finish_result
    BY <1>1, <1>2, <1>3 DEF CleanInv, good, code
  <2> QED
    BY SMTT(20), <1>1, <1>4, <1>9, <2>1, CleanConsumed
<1> QED
  BY <1>16, <1>17, <1>18, <1>19, <1>20, <1>21
LEMMA FinishedKeeps ==
    ASSUME CopyInv, FinishedRequest
    PROVE  FlightInv' /\ MessageInv' /\ PlanInv' /\ ServiceInv' /\ ProgressInv' /\ CleanInv'
BY HeadFinishedKeeps, BypassFinishedKeeps, CreateFinishedKeeps, CompleteFinishedKeeps,
   AbortFinishedKeeps, PartFinishedKeeps, Zenon DEF FinishedRequest
-----------------------------------------------------------------------------
\* A step that leaves the requests and the stop alone.
LEMMA StopInvUntouched ==
    ASSUME StopInv, UNCHANGED <<req, stop_called>>, HasResult => HasResult'
    PROVE  StopInv'
BY DEF StopInv, StoppedStreamsTold

\* aws_s3_meta_request_set_fail_synced never takes a result back.
LEMMA SetResultKeeps ==
    ASSUME NEW code, SetResult(code)
    PROVE  HasResult => HasResult'
BY DEF SetResult, HasResult

\* A request changes into one that is no open stream.
LEMMA StopInvQuietChange ==
    ASSUME StopInv, NEW r \in DOMAIN req, NEW q \in RequestType,
           req' = [req EXCEPT ![r] = q],
           q.stage # "active",
           UNCHANGED stop_called, HasResult => HasResult'
    PROVE  StopInv'
BY DEF StopInv, StoppedStreamsTold

LEMMA StopInvPrepared ==
    ASSUME StopInv, NEW r \in DOMAIN req, NEW code \in Errors \cup {"ok"}, Prepared(r, code),
           UNCHANGED stop_called
    PROVE  StopInv'
<1>1. HasResult => HasResult'
  BY SetResultKeeps DEF Prepared, HasResult
<1>2. req[r] \in RequestType
  BY DEF StopInv
<1> DEFINE next  == IF code # "ok" THEN "finishing"
                    ELSE IF req[r].connection THEN "connecting" ELSE "queued"
           times == req[r].prepared + 1
           q     == [req[r] EXCEPT !.prepared = times, !.code = code, !.stage = next]
<1>3. next \in Stages /\ next # "active"
  BY DEF Stages
<1>4. times \in Int
  BY <1>2 DEF RequestType
<1>5. req' = [req EXCEPT ![r] = q]
  BY <1>2, Zenon DEF Prepared, RequestType
<1> HIDE DEF next, times
<1>6. q \in RequestType /\ q.stage # "active"
  BY <1>2, <1>3, <1>4, Zenon DEF RequestType
<1> QED
  BY <1>1, <1>5, <1>6, StopInvQuietChange, Zenon

\* The request moves to another stage than "active".
LEMMA StopInvMove ==
    ASSUME StopInv, NEW r \in DOMAIN req, NEW stage \in Stages \ {"active"}, Move(r, stage),
           UNCHANGED stop_called, HasResult => HasResult'
    PROVE  StopInv'
<1> DEFINE q == [req[r] EXCEPT !.stage = stage]
<1>1. req[r] \in RequestType
  BY DEF StopInv
<1>2. q \in RequestType /\ q.stage # "active"
  BY <1>1 DEF RequestType
<1>3. req' = [req EXCEPT ![r] = q]
  BY <1>1 DEF Move, RequestType
<1> QED
  BY <1>2, <1>3, StopInvQuietChange, Zenon

\* The request ends or is to be retried.
LEMMA StopInvNotify ==
    ASSUME StopInv, NEW r \in DOMAIN req, NEW code \in Errors \cup {"ok"}, NEW finishCode,
           NotifyConnectionFinished(r, code, finishCode),
           UNCHANGED stop_called, HasResult => HasResult'
    PROVE  StopInv'
<1> DEFINE retry == finishCode = "retry" /\ ~DisableRetries /\ ~meta_finished
                       /\ req[r].retries < MaxRetries
           times == IF retry THEN req[r].retries + 1 ELSE req[r].retries
           next  == IF retry THEN "backoff" ELSE "finishing"
           q     == [req[r] EXCEPT !.code = code, !.told = FALSE, !.retries = times,
                                   !.stage = next]
<1>1. req[r] \in RequestType
  BY DEF StopInv
<1>2. req' = [req EXCEPT ![r] = q]
  BY <1>1, Zenon DEF NotifyConnectionFinished, RequestType
<1>3. next \in Stages /\ next # "active"
  BY DEF Stages
<1>4. times \in Int
  BY <1>1 DEF RequestType
<1> HIDE DEF next, times
<1>5. q \in RequestType /\ q.stage # "active"
  BY <1>1, <1>3, <1>4, Zenon DEF RequestType
<1> QED
  BY <1>2, <1>5, StopInvQuietChange, Zenon

\* The request ends without another attempt.
LEMMA StopInvEnd ==
    ASSUME StopInv, NEW r \in DOMAIN req, NEW code \in Errors \cup {"ok"},
           req' = [req EXCEPT ![r].stage = "finishing", ![r].code = code],
           UNCHANGED stop_called, HasResult => HasResult'
    PROVE  StopInv'
<1> DEFINE q == [req[r] EXCEPT !.stage = "finishing", !.code = code]
<1>1. req[r] \in RequestType /\ "finishing" \in Stages
  BY DEF StopInv, Stages
<1>2. req' = [req EXCEPT ![r] = q]
  BY <1>1, Zenon DEF RequestType
<1>3. q \in RequestType /\ q.stage # "active"
  BY <1>1 DEF RequestType
<1> QED
  BY <1>2, <1>3, StopInvQuietChange, Zenon

\* aws_s3_client_update_connections_threaded gives the request a connection.
LEMMA StopInvConnect ==
    ASSUME StopInv, NEW r \in DOMAIN req,
           req' = [req EXCEPT ![r].stage = "connecting", ![r].connection = TRUE],
           UNCHANGED stop_called, HasResult => HasResult'
    PROVE  StopInv'
<1> DEFINE q == [req[r] EXCEPT !.stage = "connecting", !.connection = TRUE]
<1>1. req[r] \in RequestType /\ "connecting" \in Stages
  BY DEF StopInv, Stages
<1>2. req' = [req EXCEPT ![r] = q]
  BY <1>1, Zenon DEF RequestType
<1>3. q \in RequestType /\ q.stage # "active"
  BY <1>1 DEF RequestType
<1> QED
  BY <1>2, <1>3, StopInvQuietChange, Zenon

\* The race of cancel and send_request: a stream opens only while there is no
\* result, or for a request that is not cancellable.
LEMMA StopInvSend ==
    ASSUME StopInv, NEW r, SendRequest(r)
    PROVE  StopInv'
<1>1. r \in DOMAIN req /\ req[r] \in RequestType
  BY DEF StopInv, SendRequest, At
<1>2. UNCHANGED <<stop_called, finish_result>>
  BY DEF SendRequest
<1>3. {"canceled", "connection"} \subseteq Errors
  BY DEF Errors
<1>4. HasResult => HasResult'
  BY <1>2 DEF HasResult
<1>5. CASE SendRequestFinish(r, "canceled") \/ SendRequestFinish(r, "connection")
  BY <1>1, <1>2, <1>3, <1>4, <1>5, StopInvNotify DEF SendRequestFinish
<1>6. CASE ~Dropped(r) /\ Move(r, "active")
  <2> DEFINE q == [req[r] EXCEPT !.stage = "active"]
  <2>1. q \in RequestType /\ q.always_send = req[r].always_send
    BY <1>1 DEF RequestType, Stages
  <2>2. req' = [req EXCEPT ![r] = q]
    BY <1>1, <1>6 DEF Move, RequestType
  <2>3. stop_called => q.always_send
    BY <1>6, <2>1 DEF StopInv, Dropped
  <2> HIDE DEF q
  <2>4. req' \in [DOMAIN req' -> RequestType]
    BY <2>1, <2>2, Zenon DEF StopInv
  <2>5. StoppedStreamsTold'
    BY <1>2, <2>2, <2>3 DEF StopInv, StoppedStreamsTold
  <2> QED
    BY <1>2, <1>4, <2>4, <2>5 DEF StopInv
<1> QED
  BY <1>5, <1>6 DEF SendRequest

LEMMA StopInvPipeline ==
    ASSUME StopInv, NEW r, PipelineStep(r)
    PROVE  StopInv'
<1> USE DEF At
<1>1. {"canceled", "connection", "prepare"} \subseteq Errors
  BY DEF Errors
<1>2. {"preparing", "session", "signing", "sending", "task"} \subseteq Stages \ {"active"}
  BY DEF Stages
<1>3. UNCHANGED finish_result => (HasResult => HasResult')
  BY DEF HasResult
<1>4. CASE PrepareTask(r)
  BY <1>1, <1>2, <1>3, <1>4, StopInvPrepared, StopInvMove DEF PrepareTask
<1>5. CASE GetOriginalCredentials(r)
  BY <1>1, <1>2, <1>3, <1>5, StopInvPrepared, StopInvMove DEF GetOriginalCredentials
<1>6. CASE GetExpressSession(r)
  BY <1>1, <1>2, <1>3, <1>6, StopInvPrepared, StopInvMove DEF GetExpressSession
<1>7. CASE OnSigned(r)
  BY <1>1, <1>7, StopInvPrepared DEF OnSigned
<1>8. CASE UpdateConnections(r)
  BY <1>1, <1>3, <1>8, StopInvEnd, StopInvConnect, Zenon DEF UpdateConnections
<1>9. CASE AcquireConnection(r)
  BY SMTT(20), <1>1, <1>2, <1>3, <1>9, StopInvMove, StopInvNotify DEF AcquireConnection
<1>10. CASE RetryReady(r)
  BY <1>1, <1>2, <1>3, <1>10, StopInvMove, StopInvEnd, Zenon DEF RetryReady
<1> QED
  BY SMTT(20), <1>4, <1>5, <1>6, <1>7, <1>8, <1>9, <1>10, StopInvSend DEF PipelineStep
-----------------------------------------------------------------------------
LEMMA StopInvHand ==
    ASSUME StopInv, NEW r, NEW alwaysSend \in BOOLEAN,
           NEW type \in {"head", "copy", "create", "part", "complete", "abort"},
           Hand(r, type, alwaysSend), UNCHANGED <<stop_called, finish_result>>
    PROVE  StopInv'
<1> DEFINE q == NewRequest(type, alwaysSend)
<1>1. q \in RequestType /\ q.stage # "active"
  BY DEF NewRequest, RequestType, Stages
<1>2. req' = [s \in DOMAIN req \cup {r} |-> IF s = r THEN q ELSE req[s]]
  BY DEF Hand
<1> HIDE DEF q
<1>3. req' \in [DOMAIN req' -> RequestType]
  BY <1>1, <1>2 DEF StopInv
<1>4. StoppedStreamsTold'
  BY <1>1, <1>2 DEF StopInv, StoppedStreamsTold
<1> QED
  BY <1>3, <1>4 DEF StopInv, HasResult

LEMMA StopInvConsume ==
    ASSUME StopInv, NEW r, Consume(r), UNCHANGED stop_called, HasResult => HasResult'
    PROVE  StopInv'
BY DEF StopInv, StoppedStreamsTold, Consume

\* aws_s3_meta_request_cancel tells every open stream, and sets the result
\* that keeps others from opening.
LEMMA StopInvCancel ==
    ASSUME StopInv, Stop("canceled")
    PROVE  StopInv'
<1>1. HasResult'
  BY DEF Stop, SetResult, HasResult
<1>2. stop_called' = TRUE
  BY DEF Stop
<1> DEFINE told(q) == IF q.stage = "active" /\ ~q.always_send
                      THEN [q EXCEPT !.told = TRUE] ELSE q
<1>3. req' = [r \in DOMAIN req |-> told(req[r])]
  BY DEF Stop
<1>4. \A q \in RequestType :
         told(q) \in RequestType /\ (told(q).stage = "active" /\ ~told(q).always_send => told(q).told)
  BY Zenon DEF RequestType
<1> HIDE DEF told
<1>5. req' \in [DOMAIN req' -> RequestType]
  BY <1>3, <1>4 DEF StopInv
<1>6. StoppedStreamsTold'
  BY <1>3, <1>4 DEF StopInv, StoppedStreamsTold
<1> QED
  BY <1>1, <1>2, <1>5, <1>6 DEF StopInv

LEMMA StopInvReply ==
    ASSUME StopInv, NEW r, Reply(r)
    PROVE  StopInv'
<1>1. r \in DOMAIN req /\ UNCHANGED <<stop_called, finish_result>>
  BY DEF Reply, At, StreamComplete
<1>2. \E http \in {"ok", "connection", "canceled"} : \E response :
          StreamComplete(r, http, response, FALSE)
  <2> DEFINE S(http, response) == StreamComplete(r, http, response, FALSE)
  <2>1. \/ \E response : S("ok", response)
        \/ \E response : S("connection", response)
        \/ \E response : S("canceled", response)
    BY Zenon DEF Reply
  <2> HIDE DEF S
  <2>2. \E http \in {"ok", "connection", "canceled"} : \E response : S(http, response)
    BY <2>1
  <2> QED
    BY <2>2, Zenon DEF S
<1>3. \A response : ErrorFromResponse(req[r].type, response) \in Errors \cup {"ok"}
  BY DEF ErrorFromResponse, ErrorFromStatus, Errors, FatalErrors
<1>4. PICK code \in Errors \cup {"ok"} : SendRequestFinish(r, code)
  BY <1>2, <1>3 DEF StreamComplete, Errors
<1> QED
  BY <1>1, <1>4, StopInvNotify DEF SendRequestFinish, HasResult

LEMMA StopInvPrepareRequest ==
    ASSUME StopInv, NEW r, PrepareRequest(r)
    PROVE  StopInv'
<1>1. r \in DOMAIN req /\ UNCHANGED stop_called
  BY DEF PrepareRequest, At
<1>2. CASE Prepared(r, "prepare")
  BY <1>1, <1>2, StopInvPrepared DEF Errors
<1>3. CASE ToSigning(r, r[1] \in {"bypass", "part"}) /\ UNCHANGED finish_result
  <2>1. PICK stage \in Stages \ {"active"} : Move(r, stage)
    BY <1>3 DEF ToSigning, Stages
  <2> QED
    BY <1>1, <1>3, <2>1, StopInvMove DEF HasResult
<1> QED
  BY <1>2, <1>3 DEF PrepareRequest

LEMMA StopInvHeadersCallback ==
    ASSUME StopInv, NEW r, HeadersCallback(r)
    PROVE  StopInv'
<1>1. r \in DOMAIN req /\ UNCHANGED <<stop_called, finish_result>>
  BY DEF HeadersCallback, At
<1>2. req[r] \in RequestType /\ req[r].stage = "finishing"
  BY <1>1 DEF StopInv, HeadersCallback, At
<1> DEFINE q == [req[r] EXCEPT !.code = "callback"]
<1>3. q \in RequestType /\ q.stage # "active"
  BY <1>2 DEF RequestType, Errors
<1>4. CASE req' = [req EXCEPT ![r].code = "callback"]
  <2>1. req' = [req EXCEPT ![r] = q]
    BY <1>2, <1>4 DEF RequestType
  <2> QED
    BY <1>1, <1>3, <2>1, StopInvQuietChange, Zenon DEF HasResult
<1>5. CASE UNCHANGED req
  BY <1>1, <1>5, StopInvUntouched DEF HasResult
<1> QED
  BY <1>4, <1>5 DEF HeadersCallback

LEMMA StopInvFinished ==
    ASSUME StopInv, FinishedRequest
    PROVE  StopInv'
<1>1. \E r : Consume(r)
  BY Zenon DEF FinishedRequest, HeadFinished, BypassFinished, CreateFinished, CompleteFinished,
         AbortFinished, PartFinished, Finishing
<1>2. UNCHANGED stop_called
  BY Zenon DEF FinishedRequest, HeadFinished, BypassFinished, CreateFinished, CompleteFinished,
         AbortFinished, PartFinished, Finishing
<1>3. (\E code : SetResult(code)) \/ UNCHANGED finish_result
  BY Zenon DEF FinishedRequest, HeadFinished, BypassFinished, CreateFinished, CompleteFinished,
         AbortFinished, PartFinished, SetFailUnlessOk
<1> QED
  BY <1>1, <1>2, <1>3, SetResultKeeps, StopInvConsume DEF HasResult

LEMMA StopInvUpdate ==
    ASSUME StopInv, Update
    PROVE  StopInv'
<1>1. UNCHANGED <<stop_called, finish_result>>
  BY DEF Update
<1>2. CASE UpdateHead
  BY <1>1, <1>2, StopInvHand, Zenon DEF UpdateHead, Send
<1>3. CASE UpdateBypass
  BY <1>1, <1>3, StopInvHand, Zenon DEF UpdateBypass, Send
<1>4. CASE UpdateCreate
  BY <1>1, <1>4, StopInvHand, Zenon DEF UpdateCreate, Send
<1>5. CASE UpdatePart
  BY <1>1, <1>5, StopInvHand, Zenon DEF UpdatePart
<1>6. CASE UpdateComplete
  BY <1>1, <1>6, StopInvHand, Zenon DEF UpdateComplete, Send
<1>7. CASE UpdateAbort
  BY <1>1, <1>7, StopInvHand, Zenon DEF UpdateAbort, Send
<1> QED
  BY <1>2, <1>3, <1>4, <1>5, <1>6, <1>7 DEF Update

LEMMA StopInvNext ==
    ASSUME StopInv, [Next]_vars
    PROVE  StopInv'
<1>1. CASE UpdateFinish
  BY <1>1, SetResultKeeps, StopInvUntouched DEF UpdateFinish
<1>2. CASE DeliverProgress
  BY <1>2, StopInvUntouched, Zenon DEF DeliverProgress, attemptVars, HasResult
<1>3. CASE Cancel
  BY <1>3, StopInvCancel DEF Cancel
<1>4. CASE UNCHANGED vars
  BY <1>4, StopInvUntouched DEF vars, attemptVars, HasResult
<1> QED
  BY SMTT(20), <1>1, <1>2, <1>3, <1>4, StopInvUpdate, StopInvFinished, StopInvPrepareRequest,
     StopInvReply, StopInvHeadersCallback, StopInvPipeline DEF Next, Step

LEMMA StopInvInitially ==
    ASSUME Init
    PROVE  StopInv
<1>1. req \in Seq(RequestType) /\ stop_called = FALSE
  BY DEF Init, AttemptInit
<1>2. req \in [DOMAIN req -> RequestType]
  BY <1>1
<1> QED
  BY <1>1, <1>2, Zenon DEF StopInv, StoppedStreamsTold

\* aws_s3_meta_request_cancel against aws_s3_meta_request_send_request: for
\* any number of parts, retries and failures, once a copy was cancelled every
\* open stream that may be cancelled has been told to end.
THEOREM CancelReachesEveryStream == Spec => []StoppedStreamsTold
<1>1. Init => StopInv
  BY StopInvInitially
<1>2. StopInv /\ [Next]_vars => StopInv'
  BY StopInvNext
<1>3. StopInv => StoppedStreamsTold
  BY DEF StopInv
<1> QED
  BY <1>1, <1>2, <1>3, PTL DEF Spec
-----------------------------------------------------------------------------

\* A part handed out is one more in flight.
LEMMA PartsInAdd ==
    ASSUME NEW D, NEW sent \in Nat, PartReq(sent + 1) \notin D
    PROVE  Cardinality(PartsIn(D \cup {PartReq(sent + 1)}, sent + 1))
             = Cardinality(PartsIn(D, sent)) + 1
<1>1. PartsIn(D \cup {PartReq(sent + 1)}, sent + 1) = PartsIn(D, sent) \cup {sent + 1}
  BY DEF PartsIn, PartReq
<1>2. sent + 1 \notin PartsIn(D, sent)
  BY DEF PartsIn
<1> QED
  BY <1>1, <1>2, PartsInFinite, FS_AddElement, Zenon

\* A part that came back is one less.
LEMMA PartsInRemove ==
    ASSUME NEW D, NEW sent \in Nat, NEW n \in 1..sent, PartReq(n) \in D
    PROVE  Cardinality(PartsIn(D \ {PartReq(n)}, sent)) = Cardinality(PartsIn(D, sent)) - 1
<1>1. PartsIn(D \ {PartReq(n)}, sent) = PartsIn(D, sent) \ {n}
  BY DEF PartsIn, PartReq
<1>2. n \in PartsIn(D, sent)
  BY DEF PartsIn
<1> QED
  BY <1>1, <1>2, PartsInFinite, FS_RemoveElement, Zenon

\* The other requests do not count.
LEMMA PartsInOther ==
    ASSUME NEW D, NEW sent \in Nat, NEW tag \in Tags
    PROVE  /\ PartsIn(D \cup {Req(tag)}, sent) = PartsIn(D, sent)
           /\ PartsIn(D \ {Req(tag)}, sent) = PartsIn(D, sent)
<1>1. \A n : PartReq(n) # Req(tag)
  BY DEF PartReq, Req, Tags
<1> QED
  BY <1>1 DEF PartsIn

-----------------------------------------------------------------------------
\* A step that leaves the copy and the set of requests in flight alone.
LEMMA QuietUntouched ==
    ASSUME QuietInv, DOMAIN req' = DOMAIN req, UNCHANGED <<copy, source, meta_finished>>,
           HasResult => HasResult'
    PROVE  QuietInv'
<1>1. OrderInv'
  BY DEF QuietInv, OrderInv, Small, PartsLeft, WoundDown, CompleteSucceeded
<1>2. FlagsInv' /\ PartsInv'
  BY DEF QuietInv, FlagsInv, PartsInv
<1> QED
  BY <1>1, <1>2 DEF QuietInv, FinishIsQuiet

\* update() hands out a request that is no part.
LEMMA QuietSend ==
    ASSUME QuietInv, NEW tag \in Tags, Sent(tag), OrderInv',
           DOMAIN req' = DOMAIN req \cup {Req(tag)},
           ~meta_finished, UNCHANGED <<source, meta_finished>>
    PROVE  QuietInv'
<1>1. copy.num_parts_sent \in Nat
  BY DEF QuietInv, CopyType
<1>2. PartsInv'
  BY <1>1, PartsInOther DEF QuietInv, PartsInv, Sent
<1>3. FlagsInv'
  BY DEF QuietInv, FlagsInv, Sent, Req, Tags
<1> QED
  BY <1>2, <1>3 DEF QuietInv, FinishIsQuiet, Sent

\* vtable->finished_request consumes a request.
LEMMA QuietConsume ==
    ASSUME QuietInv, NEW r, DOMAIN req' = DOMAIN req \ {r},
           copy' \in CopyType, copy'.num_parts_sent = copy.num_parts_sent,
           copy'.head = copy.head \/ r = Req("head"),
           copy'.bypass = copy.bypass \/ r = Req("bypass"),
           copy'.create = copy.create \/ r = Req("create"),
           copy'.complete = copy.complete \/ r = Req("complete"),
           copy'.abort = copy.abort \/ r = Req("abort"),
           PartsInv', OrderInv', UNCHANGED <<source, meta_finished>>, HasResult => HasResult'
    PROVE  QuietInv'
<1>1. FlagsInv'
  BY DEF QuietInv, FlagsInv
<1>2. FinishIsQuiet'
  BY DEF QuietInv, FinishIsQuiet
<1> QED
  BY <1>1, <1>2 DEF QuietInv

LEMMA HandDomain ==
    ASSUME NEW r, NEW type, NEW alwaysSend, Hand(r, type, alwaysSend)
    PROVE  DOMAIN req' = DOMAIN req \cup {r}
BY DEF Hand

LEMMA ConsumeDomain ==
    ASSUME NEW r, Consume(r)
    PROVE  DOMAIN req' = DOMAIN req \ {r}
BY DEF Consume

LEMMA QuietUpdateHead ==
    ASSUME QuietInv, Update, UpdateHead
    PROVE  QuietInv'
<1>1. copy \in CopyType /\ copy.head = "none" /\ copy' = [copy EXCEPT !.head = "sent"]
  BY Zenon DEF QuietInv, UpdateHead, Send
<1>2. Sent("head")
  BY <1>1 DEF Sent, CopyType
<1>3. OrderInv'
  BY <1>1, <1>2 DEF Sent, QuietInv, OrderInv, WoundDown
<1> QED
  BY <1>2, <1>3, HandDomain, QuietSend, Zenon DEF Update, UpdateHead, Send, Tags

LEMMA QuietUpdateBypass ==
    ASSUME QuietInv, Update, UpdateBypass
    PROVE  QuietInv'
<1>1. copy \in CopyType /\ copy' = [copy EXCEPT !.bypass = "sent"]
  BY Zenon DEF QuietInv, UpdateBypass, Send
<1>2. Sent("bypass")
  BY <1>1 DEF Sent, CopyType
<1>3. UNCHANGED finish_result
  BY DEF Update
<1>4. OrderInv'
  BY <1>2, <1>3 DEF Sent, QuietInv, OrderInv, UpdateBypass, Small, PartsLeft, WoundDown,
                    CompleteSucceeded, HasResult
<1> QED
  BY <1>2, <1>4, HandDomain, QuietSend, Zenon DEF Update, UpdateBypass, Send, Tags

LEMMA QuietUpdateCreate ==
    ASSUME QuietInv, Update, UpdateCreate
    PROVE  QuietInv'
<1>1. copy \in CopyType /\ copy.create = "none" /\ copy' = [copy EXCEPT !.create = "sent"]
  BY Zenon DEF QuietInv, UpdateCreate, Send
<1>2. Sent("create")
  BY <1>1 DEF Sent, CopyType
<1>3. OrderInv'
  BY <1>1, <1>2 DEF Sent, QuietInv, OrderInv, UpdateCreate, Small, WoundDown
<1> QED
  BY <1>2, <1>3, HandDomain, QuietSend, Zenon DEF Update, UpdateCreate, Send, Tags

LEMMA QuietUpdateComplete ==
    ASSUME QuietInv, Update, UpdateComplete
    PROVE  QuietInv'
<1>1. copy \in CopyType /\ copy' = [copy EXCEPT !.complete = "sent"]
  BY Zenon DEF QuietInv, UpdateComplete, Send
<1>2. Sent("complete")
  BY <1>1 DEF Sent, CopyType
<1>3. copy.num_parts_completed = copy.num_parts_sent
  <2>1. /\ copy.num_parts_sent \in Nat /\ copy.num_parts_completed \in Nat
        /\ copy.total_num_parts \in Nat
    BY <1>1 DEF CopyType
  <2>2. Cardinality(PartsIn(DOMAIN req, copy.num_parts_sent)) \in Nat
    BY <2>1, PartsInFinite
  <2>3. copy.num_parts_completed <= copy.num_parts_sent
    BY <2>1, <2>2 DEF QuietInv, PartsInv
  <2> QED
    BY <2>1, <2>3 DEF UpdateComplete, PartsLeft, PartsDone, QuietInv, OrderInv
<1>4. OrderInv'
  BY <1>2, <1>3 DEF Sent, QuietInv, OrderInv, UpdateComplete, Small, PartsLeft, HasResult
<1> QED
  BY <1>2, <1>4, HandDomain, QuietSend, Zenon DEF Update, UpdateComplete, Send, Tags

LEMMA QuietUpdateAbort ==
    ASSUME QuietInv, Update, UpdateAbort
    PROVE  QuietInv'
<1>1. copy \in CopyType /\ copy' = [copy EXCEPT !.abort = "sent"]
  BY Zenon DEF QuietInv, UpdateAbort, Send
<1>2. Sent("abort")
  BY <1>1 DEF Sent, CopyType
<1>3. UNCHANGED finish_result
  BY DEF Update
<1>4. OrderInv'
  BY <1>2, <1>3 DEF Sent, QuietInv, OrderInv, UpdateAbort, Small, PartsLeft, WoundDown,
                    CompleteSucceeded, HasResult
<1> QED
  BY <1>2, <1>4, HandDomain, QuietSend, Zenon DEF Update, UpdateAbort, Send, Tags

\* The part size and the number of parts are set while CreateMultipartUpload
\* is in flight, before any part is handed out.
LEMMA QuietPrepareRequest ==
    ASSUME QuietInv, NEW r, PrepareRequest(r)
    PROVE  QuietInv'
<1>1. DOMAIN req' = DOMAIN req
  BY DEF PrepareRequest, ToSigning, Move, Prepared
<1>2. HasResult => HasResult'
  BY SetResultKeeps DEF PrepareRequest, Prepared, HasResult
<1>3. UNCHANGED <<source, meta_finished>>
  BY DEF PrepareRequest
<1>4. CASE copy' = copy
  BY <1>1, <1>2, <1>3, <1>4, QuietUntouched
<1>5. CASE r = Req("create") /\ copy' = [copy EXCEPT !.part_size = PartSize,
                                                    !.total_num_parts = NumCopyParts]
  <2>1. copy \in CopyType /\ copy.create = "sent"
    BY <1>5 DEF QuietInv, FlagsInv, PrepareRequest, At
  <2>2. PartSize \in Nat /\ NumCopyParts \in Nat
    BY <2>1, PartSizeType DEF CopyType
  <2>3. /\ copy' \in CopyType
        /\ copy'.head = copy.head /\ copy'.bypass = copy.bypass /\ copy'.create = copy.create
        /\ copy'.complete = copy.complete /\ copy'.abort = copy.abort
        /\ copy'.content_length = copy.content_length
        /\ copy'.num_parts_sent = copy.num_parts_sent
        /\ copy'.num_parts_completed = copy.num_parts_completed
        /\ copy'.total_num_parts \in Nat
    BY <1>5, <2>1, <2>2, Zenon DEF CopyType
  <2>4. copy.num_parts_sent = 0
    BY <2>1 DEF QuietInv, OrderInv, CopyType
  <2>5. OrderInv'
    BY <2>1, <2>3, <2>4 DEF QuietInv, OrderInv, Small, WoundDown
  <2>6. FlagsInv' /\ PartsInv'
    BY <1>1, <2>3 DEF QuietInv, FlagsInv, PartsInv
  <2> QED
    BY SMTT(20), <1>1, <1>2, <1>3, <2>3, <2>5, <2>6 DEF QuietInv, FinishIsQuiet
<1> QED
  BY <1>4, <1>5 DEF PrepareRequest

LEMMA QuietUpdatePart ==
    ASSUME QuietInv, Update, UpdatePart
    PROVE  QuietInv'
<1> DEFINE sent == copy.num_parts_sent
           next == sent + 1
<1>1. /\ copy \in CopyType /\ sent \in Nat /\ copy.num_parts_completed \in Nat
      /\ copy.total_num_parts \in Nat
  BY DEF QuietInv, CopyType
<1>2. next \in Nat /\ copy' = [copy EXCEPT !.num_parts_sent = next]
  BY <1>1 DEF UpdatePart
<1>3. DOMAIN req' = DOMAIN req \cup {PartReq(next)}
  BY HandDomain, Zenon DEF UpdatePart
<1>4. UNCHANGED <<source, meta_finished, finish_result>> /\ ~meta_finished
  BY DEF Update
<1>5. PartReq(next) \notin DOMAIN req
  <2>1. \A n \in 1..sent : PartReq(next) # PartReq(n)
    BY <1>1 DEF PartReq
  <2>2. \A tag \in Tags : PartReq(next) # Req(tag)
    BY DEF PartReq, Req, Tags
  <2> QED
    BY <2>1, <2>2 DEF QuietInv, FlagsInv
<1>6. Cardinality(PartsIn(DOMAIN req', next)) = Cardinality(PartsIn(DOMAIN req, sent)) + 1
  BY <1>1, <1>3, <1>5, PartsInAdd
<1>7. sent < copy.total_num_parts /\ copy.create = "done" /\ ~HasResult
  BY DEF UpdatePart, PartsLeft
<1>8. Cardinality(PartsIn(DOMAIN req, sent)) \in Nat
      /\ copy.num_parts_completed + Cardinality(PartsIn(DOMAIN req, sent)) = sent
  BY <1>1, PartsInFinite DEF QuietInv, PartsInv
<1> HIDE DEF next
<1>9. /\ copy' \in CopyType
      /\ copy'.head = copy.head /\ copy'.bypass = copy.bypass /\ copy'.create = copy.create
      /\ copy'.complete = copy.complete /\ copy'.abort = copy.abort
      /\ copy'.content_length = copy.content_length
      /\ copy'.num_parts_sent = next
      /\ copy'.num_parts_completed = copy.num_parts_completed
      /\ copy'.total_num_parts = copy.total_num_parts
  BY <1>1, <1>2 DEF CopyType
<1>10. PartsInv'
  BY <1>1, <1>6, <1>8, <1>9 DEF PartsInv, next
<1>11. \A n \in 1..sent : n \in 1..next
  BY <1>1 DEF next
<1>12. next \in 1..next
  BY <1>1 DEF next
<1>13. FlagsInv'
  <2>1. \A tag \in Tags : PartReq(next) # Req(tag)
    BY DEF PartReq, Req, Tags
  <2> QED
    BY SMTT(20), <1>3, <1>9, <1>11, <1>12, <2>1 DEF QuietInv, FlagsInv, Tags
<1>14. OrderInv'
  BY <1>1, <1>7, <1>9 DEF QuietInv, OrderInv, Small, PartsLeft, next
<1> QED
  BY <1>4, <1>9, <1>10, <1>13, <1>14 DEF QuietInv, FinishIsQuiet
-----------------------------------------------------------------------------
\* What every end of a request has in common.
LEMMA FinishingFacts ==
    ASSUME NEW r, Finishing(r)
    PROVE  /\ r \in DOMAIN req /\ DOMAIN req' = DOMAIN req \ {r}
           /\ UNCHANGED <<source, meta_finished>>
BY ConsumeDomain DEF Finishing, At

LEMMA SetFailKeeps ==
    ASSUME NEW code, SetFailUnlessOk(code)
    PROVE  HasResult => HasResult'
BY SetResultKeeps DEF SetFailUnlessOk, HasResult

\* Requests other than parts leave the count of parts as it is.
LEMMA PartsInvOther ==
    ASSUME QuietInv, NEW tag \in Tags, DOMAIN req' = DOMAIN req \ {Req(tag)},
           copy'.num_parts_sent = copy.num_parts_sent,
           copy'.num_parts_completed = copy.num_parts_completed
    PROVE  PartsInv'
<1>1. copy.num_parts_sent \in Nat
  BY DEF QuietInv, CopyType
<1> QED
  BY <1>1, PartsInOther DEF QuietInv, PartsInv

LEMMA QuietHeadFinished ==
    ASSUME QuietInv, HeadFinished
    PROVE  QuietInv'
<1> DEFINE r == Req("head")
<1>1. r \in DOMAIN req /\ DOMAIN req' = DOMAIN req \ {r} /\ UNCHANGED <<source, meta_finished>>
  BY FinishingFacts DEF HeadFinished
<1>2. copy \in CopyType /\ source \in Nat /\ copy.head = "sent"
  BY <1>1 DEF QuietInv, FlagsInv
<1>3. HasResult => HasResult'
  BY SetResultKeeps DEF HeadFinished, HasResult
<1>4. \/ copy' = copy
      \/ copy' = [copy EXCEPT !.head = "done", !.content_length = source]
  BY DEF HeadFinished
<1>5. /\ copy' \in CopyType
      /\ copy'.bypass = copy.bypass /\ copy'.create = copy.create
      /\ copy'.complete = copy.complete /\ copy'.abort = copy.abort
      /\ copy'.num_parts_sent = copy.num_parts_sent
      /\ copy'.num_parts_completed = copy.num_parts_completed
      /\ copy'.total_num_parts = copy.total_num_parts
  BY <1>2, <1>4, Zenon DEF CopyType
<1>6. PartsInv'
  BY <1>1, <1>5, PartsInvOther DEF Tags
<1>7. OrderInv'
  BY <1>2, <1>5 DEF QuietInv, OrderInv, WoundDown
<1> QED
  BY SMTT(20), <1>1, <1>3, <1>5, <1>6, <1>7, QuietConsume

LEMMA QuietBypassFinished ==
    ASSUME QuietInv, BypassFinished
    PROVE  QuietInv'
<1> DEFINE r == Req("bypass")
<1>1. r \in DOMAIN req /\ DOMAIN req' = DOMAIN req \ {r} /\ UNCHANGED <<source, meta_finished>>
  BY FinishingFacts, Zenon DEF BypassFinished
<1>2. copy \in CopyType /\ copy.bypass = "sent"
  BY <1>1 DEF QuietInv, FlagsInv
<1>3. HasResult => HasResult'
  BY SetFailKeeps DEF BypassFinished
<1>4. copy' = copy \/ copy' = [copy EXCEPT !.bypass = "done"]
  BY DEF BypassFinished
<1>5. /\ copy' \in CopyType
      /\ copy'.head = copy.head /\ copy'.create = copy.create
      /\ copy'.complete = copy.complete /\ copy'.abort = copy.abort
      /\ copy'.content_length = copy.content_length
      /\ copy'.num_parts_sent = copy.num_parts_sent
      /\ copy'.num_parts_completed = copy.num_parts_completed
      /\ copy'.total_num_parts = copy.total_num_parts
  BY <1>2, <1>4 DEF CopyType
<1>6. PartsInv'
  BY <1>1, <1>5, PartsInvOther DEF Tags
<1>7. OrderInv'
  BY <1>2, <1>5 DEF QuietInv, OrderInv, Small, PartsLeft, WoundDown
<1> QED
  BY SMTT(20), <1>1, <1>3, <1>5, <1>6, <1>7, QuietConsume

LEMMA QuietCreateFinished ==
    ASSUME QuietInv, CreateFinished
    PROVE  QuietInv'
<1> DEFINE r == Req("create")
<1>1. r \in DOMAIN req /\ DOMAIN req' = DOMAIN req \ {r} /\ UNCHANGED <<source, meta_finished>>
  BY FinishingFacts DEF CreateFinished
<1>2. copy \in CopyType /\ copy.create = "sent"
  BY <1>1 DEF QuietInv, FlagsInv
<1>3. HasResult => HasResult'
  BY SetFailKeeps DEF CreateFinished
<1>4. PICK known \in BOOLEAN : copy' = [copy EXCEPT !.create = "done", !.upload_id = known]
  BY Zenon DEF CreateFinished
<1>5. /\ copy' \in CopyType
      /\ copy'.head = copy.head /\ copy'.bypass = copy.bypass /\ copy'.create = "done"
      /\ copy'.complete = copy.complete /\ copy'.abort = copy.abort
      /\ copy'.content_length = copy.content_length
      /\ copy'.num_parts_sent = copy.num_parts_sent
      /\ copy'.num_parts_completed = copy.num_parts_completed
      /\ copy'.total_num_parts = copy.total_num_parts
  BY <1>2, <1>4, Zenon DEF CopyType
<1>6. PartsInv'
  BY <1>1, <1>5, PartsInvOther DEF Tags
<1>7. OrderInv'
  BY <1>2, <1>5 DEF QuietInv, OrderInv, Small, WoundDown
<1> QED
  BY SMTT(20), <1>1, <1>3, <1>5, <1>6, <1>7, QuietConsume

LEMMA QuietCompleteFinished ==
    ASSUME StopInv, QuietInv, CompleteFinished
    PROVE  QuietInv'
<1> DEFINE r == Req("complete")
<1>1. r \in DOMAIN req /\ DOMAIN req' = DOMAIN req \ {r} /\ UNCHANGED <<source, meta_finished>>
  BY FinishingFacts DEF CompleteFinished
<1>2. copy \in CopyType /\ copy.complete = "sent"
  BY <1>1 DEF QuietInv, FlagsInv
<1>3. HasResult => HasResult'
  BY SetFailKeeps DEF CompleteFinished
<1>4. PICK code \in Errors \cup {"ok"} :
        copy' = [copy EXCEPT !.complete = "done", !.complete_error = code]
  <2>1. req[r] \in RequestType
    BY <1>1 DEF StopInv
  <2> QED
    BY <2>1, Zenon DEF CompleteFinished, RequestType
<1>5. /\ copy' \in CopyType
      /\ copy'.head = copy.head /\ copy'.bypass = copy.bypass /\ copy'.create = copy.create
      /\ copy'.abort = copy.abort
      /\ copy'.content_length = copy.content_length
      /\ copy'.num_parts_sent = copy.num_parts_sent
      /\ copy'.num_parts_completed = copy.num_parts_completed
      /\ copy'.total_num_parts = copy.total_num_parts
  BY <1>2, <1>4, Zenon DEF CopyType
<1>6. PartsInv'
  BY <1>1, <1>5, PartsInvOther DEF Tags
<1>7. OrderInv'
  BY <1>2, <1>5 DEF QuietInv, OrderInv, Small, PartsLeft, WoundDown
<1> QED
  BY <1>1, <1>3, <1>5, <1>6, <1>7, QuietConsume
LEMMA QuietAbortFinished ==
    ASSUME QuietInv, AbortFinished
    PROVE  QuietInv'
<1> DEFINE r == Req("abort")
<1>1. r \in DOMAIN req /\ DOMAIN req' = DOMAIN req \ {r} /\ UNCHANGED <<source, meta_finished>>
  BY FinishingFacts DEF AbortFinished
<1>2. copy \in CopyType /\ copy.abort = "sent"
  BY <1>1 DEF QuietInv, FlagsInv
<1>3. UNCHANGED finish_result /\ copy' = [copy EXCEPT !.abort = "done"]
  BY DEF AbortFinished
<1>4. /\ copy' \in CopyType
      /\ copy'.head = copy.head /\ copy'.bypass = copy.bypass /\ copy'.create = copy.create
      /\ copy'.complete = copy.complete /\ copy'.complete_error = copy.complete_error
      /\ copy'.upload_id = copy.upload_id /\ copy'.content_length = copy.content_length
      /\ copy'.num_parts_sent = copy.num_parts_sent
      /\ copy'.num_parts_completed = copy.num_parts_completed
      /\ copy'.total_num_parts = copy.total_num_parts
  BY <1>2, <1>3 DEF CopyType
<1>5. PartsInv'
  BY <1>1, <1>4, PartsInvOther DEF Tags
<1>6. OrderInv'
  BY <1>2, <1>3, <1>4 DEF QuietInv, OrderInv, Small, PartsLeft, WoundDown, CompleteSucceeded,
                          HasResult
<1> QED
  BY SMTT(20), <1>1, <1>3, <1>4, <1>5, <1>6, QuietConsume DEF HasResult

\* A part that comes back while it is in flight finds neither the complete nor
\* the abort handed out: both wait for the counters to meet.
LEMMA QuietPartFinished ==
    ASSUME QuietInv, NEW n \in 1..copy.num_parts_sent, PartFinished(n)
    PROVE  QuietInv'
<1> DEFINE r == PartReq(n)
           P == PartsIn(DOMAIN req, copy.num_parts_sent)
           back == copy.num_parts_completed + 1
<1>1. r \in DOMAIN req /\ DOMAIN req' = DOMAIN req \ {r} /\ UNCHANGED <<source, meta_finished>>
  BY FinishingFacts, Zenon DEF PartFinished
<1>2. /\ copy \in CopyType /\ copy.num_parts_sent \in Nat /\ copy.num_parts_completed \in Nat
      /\ copy.etags \in SUBSET Nat /\ n \in Nat
  BY DEF QuietInv, CopyType
<1>3. HasResult => HasResult'
  BY SetFailKeeps DEF PartFinished
<1>4. back \in Nat /\ copy.etags \cup {n} \in SUBSET Nat
  BY <1>2
<1>5. \/ copy' = [copy EXCEPT !.num_parts_completed = back, !.etags = copy.etags \cup {n}]
      \/ copy' = [copy EXCEPT !.num_parts_completed = back]
  BY DEF PartFinished
<1>6. Cardinality(PartsIn(DOMAIN req', copy.num_parts_sent)) = Cardinality(P) - 1
  BY <1>1, <1>2, PartsInRemove
<1>7. /\ Cardinality(P) \in Nat /\ (Cardinality(P) = 0 <=> P = {})
      /\ copy.num_parts_completed + Cardinality(P) = copy.num_parts_sent
  BY <1>2, PartsInFinite DEF QuietInv, PartsInv
<1>8. n \in P
  BY <1>1 DEF PartsIn
<1> HIDE DEF P
<1>9. copy.num_parts_completed < copy.num_parts_sent
  BY <1>2, <1>7, <1>8
<1>10. copy.complete = "none" /\ copy.abort = "none"
  BY <1>2, <1>9 DEF QuietInv, OrderInv, WoundDown
<1> HIDE DEF back
<1>11. /\ copy' \in CopyType
       /\ copy'.head = copy.head /\ copy'.bypass = copy.bypass /\ copy'.create = copy.create
       /\ copy'.complete = copy.complete /\ copy'.abort = copy.abort
       /\ copy'.content_length = copy.content_length
       /\ copy'.num_parts_sent = copy.num_parts_sent
       /\ copy'.num_parts_completed = back
       /\ copy'.total_num_parts = copy.total_num_parts
  BY <1>2, <1>4, <1>5, Zenon DEF CopyType
<1>12. PartsInv'
  BY SMTT(20), <1>2, <1>6, <1>7, <1>11 DEF PartsInv, back
<1>13. OrderInv'
  BY <1>10, <1>11 DEF QuietInv, OrderInv, Small
<1> QED
  BY <1>1, <1>3, <1>11, <1>12, <1>13, QuietConsume

\* The stages of a request neither add nor remove one.
LEMMA QuietPipeline ==
    ASSUME QuietInv, NEW r, PipelineStep(r), UNCHANGED copyVars
    PROVE  QuietInv'
<1>1. DOMAIN req' = DOMAIN req
  <2>1. \A stage : Move(r, stage) => DOMAIN req' = DOMAIN req
    BY DEF Move
  <2>2. \A code : Prepared(r, code) => DOMAIN req' = DOMAIN req
    BY DEF Prepared
  <2>3. \A code, finishCode :
           NotifyConnectionFinished(r, code, finishCode) => DOMAIN req' = DOMAIN req
    BY DEF NotifyConnectionFinished
  <2>4. CASE PrepareTask(r) \/ GetOriginalCredentials(r) \/ GetExpressSession(r) \/ OnSigned(r)
    BY <2>1, <2>2, <2>4 DEF PrepareTask, GetOriginalCredentials, GetExpressSession, OnSigned
  <2>5. CASE UpdateConnections(r) \/ RetryReady(r)
    BY <2>1, <2>5 DEF UpdateConnections, RetryReady
  <2>6. CASE AcquireConnection(r) \/ SendRequest(r)
    BY SMTT(20), <2>1, <2>3, <2>6 DEF AcquireConnection, SendRequest, SendRequestFinish
  <2> QED
    BY <2>4, <2>5, <2>6 DEF PipelineStep
<1>2. (\E code : SetResult(code)) \/ UNCHANGED finish_result
  BY DEF PipelineStep, PrepareTask, GetOriginalCredentials, GetExpressSession, OnSigned,
         UpdateConnections, AcquireConnection, RetryReady, SendRequest, Prepared
<1>3. UNCHANGED <<copy, source, meta_finished>>
  BY DEF PipelineStep, PrepareTask, GetOriginalCredentials, GetExpressSession, OnSigned,
         UpdateConnections, AcquireConnection, RetryReady, SendRequest, copyVars
<1> QED
  BY <1>1, <1>2, <1>3, SetResultKeeps, QuietUntouched DEF HasResult

LEMMA QuietReply ==
    ASSUME QuietInv, NEW r, Reply(r)
    PROVE  QuietInv'
<1>1. DOMAIN req' = DOMAIN req
  <2>1. \A http, response :
           StreamComplete(r, http, response, FALSE) => DOMAIN req' = DOMAIN req
    BY DEF StreamComplete, SendRequestFinish, NotifyConnectionFinished
  <2> QED
    BY <2>1, Zenon DEF Reply
<1>2. UNCHANGED <<copy, source, meta_finished, finish_result>>
  BY DEF Reply, StreamComplete
<1> QED
  BY <1>1, <1>2, QuietUntouched DEF HasResult

LEMMA QuietFinished ==
    ASSUME StopInv, QuietInv, FinishedRequest
    PROVE  QuietInv'
BY QuietHeadFinished, QuietBypassFinished, QuietCreateFinished, QuietCompleteFinished,
   QuietAbortFinished, QuietPartFinished DEF FinishedRequest

LEMMA QuietUpdate ==
    ASSUME QuietInv, Update
    PROVE  QuietInv'
BY QuietUpdateHead, QuietUpdateBypass, QuietUpdateCreate, QuietUpdatePart, QuietUpdateComplete,
   QuietUpdateAbort DEF Update

LEMMA QuietInitially ==
    ASSUME Init
    PROVE  QuietInv
<1>1. DOMAIN req = {} /\ meta_finished = FALSE /\ source \in Nat
  BY CopyAssumption DEF Init, AttemptInit
<1>2. copy \in CopyType
  BY DEF Init, CopyType
<1>3. PartsIn(DOMAIN req, copy.num_parts_sent) = {}
  BY <1>1 DEF PartsIn
<1>4. PartsInv
  BY <1>3, FS_EmptySet DEF Init, PartsInv
<1>5. FlagsInv
  BY <1>1 DEF FlagsInv
<1>6. OrderInv
  BY DEF Init, OrderInv
<1> QED
  BY <1>1, <1>2, <1>4, <1>5, <1>6, Zenon DEF QuietInv, FinishIsQuiet

LEMMA QuietNext ==
    ASSUME StopInv, QuietInv, [Next]_vars
    PROVE  QuietInv'
<1>1. CASE DeliverProgress
  BY <1>1, QuietUntouched, Zenon DEF DeliverProgress, attemptVars, HasResult
<1>2. CASE Cancel
  <2>1. DOMAIN req' = DOMAIN req /\ UNCHANGED <<copy, source, meta_finished>>
    BY <1>2 DEF Cancel, Stop, copyVars
  <2>2. HasResult => HasResult'
    BY <1>2, SetResultKeeps DEF Cancel, Stop
  <2> QED
    BY <2>1, <2>2, QuietUntouched
<1>3. CASE \E r \in DOMAIN req : HeadersCallback(r)
  <2>1. DOMAIN req' = DOMAIN req /\ UNCHANGED <<copy, source, meta_finished, finish_result>>
    BY <1>3 DEF HeadersCallback
  <2> QED
    BY <2>1, QuietUntouched DEF HasResult
<1>4. CASE UNCHANGED vars
  BY <1>4, QuietUntouched DEF vars, attemptVars, copyVars, HasResult
<1> QED
  BY SMTT(20), <1>1, <1>2, <1>3, <1>4, QuietUpdate, QuietFinish, QuietFinished, QuietPrepareRequest,
     QuietReply, QuietPipeline DEF Next, Step

\* s_s3_copy_object_update, for any number of parts, retries and failures:
\* AbortMultipartUpload is sent only when the create, every part and the
\* complete have come back, and nothing is sent after it; and when the copy
\* finishes, which gives up what a request in flight would need, none of its
\* multipart requests is in flight.
THEOREM CopyWindsDown == Spec => []WindsDown
<1>1. Init => StopInv /\ QuietInv
  BY StopInvInitially, QuietInitially
<1>2. StopInv /\ QuietInv /\ [Next]_vars => (StopInv /\ QuietInv)'
  BY StopInvNext, QuietNext
<1>3. QuietInv => WindsDown
  BY QuietAbort DEF QuietInv, WindsDown
<1> QED
  BY <1>1, <1>2, <1>3, PTL DEF Spec
-----------------------------------------------------------------------------
LEMMA CopyInitially ==
    ASSUME Init
    PROVE  CopyInv
<1>1. StopInv /\ QuietInv
  BY StopInvInitially, QuietInitially
<1>2. /\ finish_result = "none" /\ meta_finished = FALSE /\ req = << >> /\ faults = 0
      /\ ~stop_called /\ events = << >> /\ progress = 0 /\ message = << >> /\ reported = "none"
      /\ service = [object |-> {}, upload |-> "none", orphans |-> 0, stored |-> << >>]
  BY DEF Init, AttemptInit
<1>3. /\ copy.head = "none" /\ copy.bypass = "none" /\ copy.create = "none"
      /\ copy.complete = "none" /\ copy.num_parts_sent = 0 /\ copy.etags = {}
      /\ copy.upload_id = FALSE /\ copy.part_size = 0
  BY DEF Init
<1>4. \A r : ~Succeeded(r) /\ r \notin DOMAIN req /\ r \notin DOMAIN message
  BY <1>2 DEF Succeeded, At
<1>5. FlightInv
  BY <1>2, <1>4, RetryAssumption DEF FlightInv
<1>6. MessageInv
  <2>1. initial.headers \subseteq HeaderClasses /\ (initial.source_uri => "source" \in initial.headers)
    BY CopyAssumption DEF Init
  <2> QED
    BY <1>4, <2>1 DEF MessageInv
<1>7. PlanInv
  BY <1>2, <1>3, <1>4 DEF PlanInv
<1>8. ServiceInv
  BY <1>2, <1>3, <1>4 DEF ServiceInv, IsService, CopyIsWhole, CompleteSucceeded
<1>9. ProgressInv
  <2>1. << >> \in [{} -> Nat] /\ << >> \in Seq(Nat)
    OBVIOUS
  <2>2. SumFunction(events) = 0 /\ events \in Seq(Nat)
    BY <1>2, <2>1, SumNone, Zenon
  <2>3. Cardinality(copy.etags) = 0
    BY <1>3, FS_EmptySet
  <2> QED
    BY <1>2, <1>3, <2>2, <2>3 DEF ProgressInv
<1>10. CleanInv
  BY <1>2, <1>3, <1>4 DEF CleanInv
<1> QED
  BY SMTT(20), <1>1, <1>5, <1>6, <1>7, <1>8, <1>9, <1>10 DEF CopyInv

LEMMA CopyNext ==
    ASSUME CopyInv, [Next]_vars
    PROVE  CopyInv'
<1>1. StopInv /\ QuietInv
  BY DEF CopyInv
<1>2. StopInv' /\ QuietInv'
  BY <1>1, StopInvNext, QuietNext
<1> DEFINE Rest == FlightInv /\ MessageInv /\ PlanInv /\ ServiceInv /\ ProgressInv /\ CleanInv
<1> SUFFICES Rest'
  BY <1>2 DEF CopyInv
<1>3. CASE Update
  BY <1>3, UpdateKeeps
<1>4. CASE UpdateFinish
  BY SMTT(20), <1>4, FinishKeeps
<1>5. CASE FinishedRequest
  BY <1>5, FinishedKeeps
<1>6. CASE DeliverProgress
  BY <1>6, DeliverKeeps
<1>7. CASE \E r \in DOMAIN req : PrepareRequest(r) \/ Reply(r) \/ HeadersCallback(r)
  BY <1>7, PrepareKeeps, ReplyKeeps, HeadersCallbackKeeps
<1>8. CASE \E r \in DOMAIN req : PipelineStep(r) /\ UNCHANGED copyVars
  BY <1>8, PipelineKeeps
<1>9. CASE Cancel
  BY <1>9, CancelKeeps
<1>10. CASE UNCHANGED vars
  <2>1. Rest
    BY DEF CopyInv
  <2>2. /\ UNCHANGED <<finish_result, meta_finished, req, stop_called, faults>>
        /\ UNCHANGED <<copy, events, progress, source, initial, message, service, reported>>
    BY <1>10 DEF vars, attemptVars, copyVars
  <2>3. \A s : Succeeded(s)' <=> Succeeded(s)
    BY <2>2 DEF Succeeded, At
  <2>4. FlightInv'
    BY <2>1, <2>2, <2>3 DEF FlightInv
  <2>5. MessageInv'
    BY <2>1, <2>2, MessageSame
  <2>6. PlanInv'
    <3>1. (CompleteSucceeded' <=> CompleteSucceeded) /\ (IsCut' <=> IsCut)
          /\ (HasResult' <=> HasResult)
      BY <2>2 DEF CompleteSucceeded, IsCut, PartSize, NumCopyParts, HasResult
    <3> QED
      BY <2>1, <2>2, <3>1 DEF PlanInv
  <2>7. ServiceInv'
    BY <2>1, <2>2, <2>3, ServiceSame DEF CompleteSucceeded
  <2>8. ProgressInv'
    BY <2>1, <2>2, ProgressSame
  <2>9. CleanInv'
    BY <2>1, <2>2, <2>3 DEF CleanInv, Clean, At
  <2> QED
    BY SMTT(20), <2>4, <2>5, <2>6, <2>7, <2>8, <2>9
<1> QED
  BY <1>3, <1>4, <1>5, <1>6, <1>7, <1>8, <1>9, <1>10, Zenon DEF Next, Step

LEMMA CopyInvariance == Spec => []CopyInv
<1>1. Init => CopyInv
  BY CopyInitially
<1>2. CopyInv /\ [Next]_vars => CopyInv'
  BY CopyNext
<1>3. Spec => Init /\ [][Next]_vars
  BY PTL DEF Spec
<1> QED
  BY <1>1, <1>2, <1>3, PTL
-----------------------------------------------------------------------------
\* The kinds of requests that have a message.
LEMMA MessageKinds ==
    ASSUME CopyInv, NEW r \in DOMAIN message
    PROVE  /\ message[r] = Build(r)
           /\ \/ r = Req("head") \/ r = Req("bypass") \/ r = Req("create")
              \/ \E n : r = PartReq(n)
              \/ r = Req("complete") \/ r = Req("abort")
BY DEF CopyInv, MessageInv, QuietInv, FlagsInv, Tags

LEMMA ForwardedHeaders ==
    ASSUME NEW hs
    PROVE  /\ "payer" \in ForwardHeaders(hs) <=> "payer" \in hs
           /\ "owner" \in ForwardHeaders(hs) <=> "source_owner" \in hs
           /\ ForwardHeaders(hs) \subseteq {"payer", "owner"}
BY DEF ForwardHeaders, Forwarded

LEMMA CopyTypes ==
    ASSUME CopyInv
    PROVE  TypeOK
<1>1. StopInv /\ FlightInv /\ MessageInv /\ PlanInv /\ ServiceInv /\ QuietInv
  BY DEF CopyInv
<1>2. AttemptTypeOK
  <2>1. ASSUME NEW r \in DOMAIN req
        PROVE  req[r] \in [type : RequestTypes, always_send : BOOLEAN, stage : Stages,
                           prepared : 0..(MaxRetries + 1), retries : 0..MaxRetries,
                           connection : BOOLEAN, told : BOOLEAN, code : Errors \cup {"ok"}]
    <3>1. req[r] \in RequestType /\ AttemptFits(req[r])
      BY <1>1 DEF StopInv, FlightInv
    <3>2. req[r].prepared \in 0..(MaxRetries + 1) /\ req[r].retries \in 0..MaxRetries
      BY <3>1, RetryAssumption DEF AttemptFits
    <3>3. req[r].type \in RequestTypes
      BY <3>1 DEF RequestType, RequestTypes
    <3> QED
      BY <3>1, <3>2, <3>3 DEF RequestType
  <2> QED
    BY <1>1, <2>1 DEF AttemptTypeOK, FlightInv, StopInv, QuietInv
<1>3. \A tag \in Tags : copy[tag] \in {"none", "sent", "done"}
  BY <1>1 DEF QuietInv, CopyType, Tags
<1>4. copy.etags \subseteq 1..copy.total_num_parts
  <2>1. /\ copy.num_parts_sent \in Nat /\ copy.total_num_parts \in Nat
        /\ copy.num_parts_sent <= copy.total_num_parts
    BY <1>1 DEF QuietInv, OrderInv, CopyType
  <2>2. copy.etags \subseteq 1..copy.num_parts_sent
    BY <1>1 DEF PlanInv
  <2> QED
    BY <2>1, <2>2
<1>5. \A r \in DOMAIN message : message[r].headers \subseteq HeaderClasses
  <2> TAKE r \in DOMAIN message
  <2>1. initial.headers \subseteq HeaderClasses
    BY <1>1 DEF MessageInv
  <2>2. \A excluded, meta, checksum :
           CopyHeaders(initial.headers, excluded, meta, checksum) \subseteq HeaderClasses
    BY <2>1 DEF CopyHeaders
  <2>3. ForwardHeaders(initial.headers) \subseteq HeaderClasses /\ "length" \in HeaderClasses
    BY ForwardedHeaders DEF HeaderClasses
  <2>4. CASE r = Req("head") \/ r = Req("bypass")
    BY SMTT(20), <2>1, <2>3, <2>4, MessageKinds, BuildHead, BuildBypass
  <2>5. CASE r = Req("create")
    BY <2>2, <2>3, <2>5, MessageKinds, BuildCreate, Zenon
  <2>6. CASE r = Req("complete")
    BY <2>2, <2>3, <2>6, MessageKinds, BuildComplete, Zenon
  <2>7. CASE r = Req("abort")
    <3>1. message[r].headers = CopyHeaders(initial.headers, AbortExcluded, TRUE, TRUE)
      BY <2>7, MessageKinds, BuildAbort, Zenon
    <3> QED
      BY <2>2, <3>1, Zenon
  <2>8. ASSUME NEW n, r = PartReq(n)
        PROVE  message[r].headers \subseteq HeaderClasses
    BY <2>2, <2>3, <2>8, MessageKinds, BuildPart, Zenon
  <2> QED
    BY <2>4, <2>5, <2>6, <2>7, <2>8, MessageKinds, Zenon
<1>6. service.object \subseteq Bytes
  BY <1>1 DEF ServiceInv, CopyIsWhole
<1>7. reported \in {"none", "ok"} \cup Errors
  BY <1>1 DEF FlightInv
<1> QED
  BY SMTT(20), <1>1, <1>2, <1>3, <1>4, <1>5, <1>6, <1>7 DEF TypeOK, MessageInv

LEMMA SuccessIsCopied ==
    ASSUME CopyInv
    PROVE  SuccessMeansCopied
<1>1. FlightInv /\ PlanInv /\ ServiceInv /\ QuietInv
  BY DEF CopyInv
<1> SUFFICES ASSUME reported = "ok"
             PROVE  service.object = Bytes /\ service.upload # "open"
  BY DEF SuccessMeansCopied
<1>2. copy.bypass = "done" \/ CompleteSucceeded
  BY <1>1 DEF FlightInv, PlanInv
<1>3. CASE copy.bypass = "done"
  <2>1. copy.create = "none"
    BY <1>1, <1>3 DEF QuietInv, OrderInv
  <2> QED
    BY <1>1, <1>3, <2>1 DEF ServiceInv
<1>4. CASE CompleteSucceeded
  BY <1>1, <1>4 DEF ServiceInv
<1> QED
  BY <1>2, <1>3, <1>4

LEMMA SuccessIsReported ==
    ASSUME CopyInv
    PROVE  ProgressIsComplete
<1>1. FlightInv /\ PlanInv /\ ProgressInv /\ QuietInv
  BY DEF CopyInv
<1> SUFFICES ASSUME reported = "ok"
             PROVE  progress = IF Small THEN source ELSE copy.total_num_parts * copy.part_size
  BY DEF ProgressIsComplete
<1>2. finish_result = "ok" /\ DOMAIN req = {} /\ events = << >>
      /\ (copy.bypass = "done" \/ CompleteSucceeded)
  BY <1>1 DEF FlightInv, PlanInv, ProgressInv
<1>3. SumFunction(events) = 0
  <2>1. << >> \in [{} -> Nat]
    OBVIOUS
  <2> QED
    BY <1>2, <2>1, SumNone, Zenon
<1>4. /\ progress \in Nat /\ copy.part_size \in Nat /\ copy.content_length \in Nat
      /\ copy.num_parts_sent \in Nat /\ copy.total_num_parts \in Nat
      /\ progress + 0 = (IF copy.bypass = "done" THEN copy.content_length ELSE 0)
                          + Cardinality(copy.etags) * copy.part_size
  BY <1>1, <1>3 DEF ProgressInv, QuietInv, CopyType
<1>5. CASE copy.bypass = "done"
  <2>1. Small /\ copy.content_length = source /\ copy.create = "none"
    BY <1>1, <1>5 DEF QuietInv, OrderInv, PlanInv
  <2>2. copy.num_parts_sent = 0
    BY SMTT(20), <1>1, <1>4, <2>1 DEF QuietInv, OrderInv
  <2>3. copy.etags = {}
    BY <1>1, <2>2 DEF PlanInv
  <2>4. Cardinality(copy.etags) = 0
    BY <2>3, FS_EmptySet
  <2> QED
    BY SMTT(20), <1>4, <1>5, <2>1, <2>4
<1>6. CASE copy.bypass # "done"
  <2>1. CompleteSucceeded
    BY <1>2, <1>6
  <2>2. ~Small /\ copy.num_parts_sent = copy.total_num_parts
    BY SMTT(20), <1>1, <1>4, <2>1 DEF QuietInv, OrderInv, CompleteSucceeded, PartsLeft
  <2>3. copy.etags = 1..copy.total_num_parts
    BY <1>1, <1>2, <2>2, Zenon DEF PlanInv
  <2>4. Cardinality(copy.etags) = copy.total_num_parts
    BY SMTT(20), <1>4, <2>3, FS_Interval
  <2>5. Cardinality(copy.etags) * copy.part_size \in Nat
    BY <1>1, EtagsFinite
  <2>6. progress = Cardinality(copy.etags) * copy.part_size
    BY <1>4, <1>6, <2>5
  <2> QED
    BY <2>2, <2>4, <2>6
<1> QED
  BY <1>5, <1>6

\* s3_copy_object.c against a service that may execute a request and lose its
\* answer, for a source of any length, cut into any number of parts, with any
\* number of retries and failures and a cancel at any time: an object that
\* appears at the destination is the whole source; a success is only reported
\* with it there and the upload closed; and by then the progress callback has
\* been given every byte.
THEOREM CopiesAreReal == Spec => []CopyIsReal
<1>1. CopyInv => CopyIsReal
  <2>1. CopyInv => CopyIsWhole
    BY DEF CopyInv, ServiceInv
  <2> QED
    BY <2>1, CopyTypes, SuccessIsCopied, SuccessIsReported DEF CopyIsReal
<1> QED
  BY <1>1, CopyInvariance, PTL

\* s_s3_copy_object_update after a failure or a cancel: when the copy has
\* finished without success and knew its upload id, an upload still open at
\* the service is one whose AbortMultipartUpload was sent and came back.
THEOREM FailedCopiesAbort == Spec => []FailureAborts
<1>1. CopyInv => FailureAborts
  <2> SUFFICES ASSUME CopyInv, meta_finished, reported # "ok", service.upload = "open",
                      copy.upload_id
               PROVE  copy.abort = "done"
    BY DEF FailureAborts
  <2>1. FlightInv /\ PlanInv /\ ServiceInv
    BY DEF CopyInv
  <2>2. finish_result # "ok" /\ copy.create = "done"
    BY <2>1 DEF FlightInv, PlanInv
  <2>3. ~CompleteSucceeded
    BY <2>1 DEF ServiceInv
  <2> QED
    BY <2>1, <2>2, <2>3 DEF PlanInv
<1> QED
  BY <1>1, CopyInvariance, PTL

LEMMA HeadersArrive ==
    ASSUME CopyInv
    PROVE  HeadersReachTheirRequest
<1> SUFFICES ASSUME NEW r \in DOMAIN message
             PROVE  LET has(h)     == h \in message[r].headers
                        carries(h) == has(h) <=> h \in initial.headers
                    IN  /\ carries("payer")
                        /\ r[1] = "head" => (has("owner") <=> "source_owner" \in initial.headers)
                        /\ r[1] \in {"part", "bypass"} =>
                              /\ carries("source_owner")
                              /\ carries("conditions") /\ carries("customer_key")
                        /\ IF r[1] \in {"complete", "bypass"}
                           THEN carries("if_none") ELSE ~has("if_none")
                        /\ \A h \in {"attributes", "meta"} :
                              IF r[1] \in {"create", "bypass"} THEN carries(h) ELSE ~has(h)
  BY DEF HeadersReachTheirRequest
<1>1. CASE r = Req("head")
  <2>1. message[r].headers = ForwardHeaders(initial.headers) /\ r[1] = "head"
    BY <1>1, MessageKinds, BuildHead DEF Req
  <2> QED
    BY <2>1, ForwardedHeaders
<1>2. CASE r = Req("bypass")
  <2>1. message[r].headers = initial.headers /\ r[1] = "bypass"
    BY <1>2, MessageKinds, BuildBypass DEF Req
  <2> QED
    BY <2>1
<1>3. CASE r = Req("create")
  <2>1. /\ message[r].headers = CopyHeaders(initial.headers, CreateExcluded, FALSE, TRUE) \cup {"length"}
        /\ r[1] = "create"
    BY <1>3, MessageKinds, BuildCreate, Zenon DEF Req
  <2> QED
    BY <2>1 DEF CopyHeaders, CreateExcluded
<1>4. ASSUME NEW n, r = PartReq(n)
      PROVE  /\ message[r].headers = CopyHeaders(initial.headers, PartExcluded, TRUE, TRUE) \cup {"length"}
             /\ r[1] = "part"
  BY <1>4, MessageKinds, BuildPart, Zenon DEF PartReq
<1>5. CASE /\ message[r].headers = CopyHeaders(initial.headers, PartExcluded, TRUE, TRUE) \cup {"length"}
           /\ r[1] = "part"
  BY <1>5 DEF CopyHeaders, PartExcluded
<1>6. CASE r = Req("complete")
  <2>1. /\ message[r].headers = CopyHeaders(initial.headers, CompleteExcluded, TRUE, FALSE) \cup {"length"}
        /\ r[1] = "complete"
    BY <1>6, MessageKinds, BuildComplete, Zenon DEF Req
  <2> QED
    BY <2>1 DEF CopyHeaders, CompleteExcluded
<1>7. CASE r = Req("abort")
  <2>1. /\ message[r].headers = CopyHeaders(initial.headers, AbortExcluded, TRUE, TRUE)
        /\ r[1] = "abort"
    BY <1>7, MessageKinds, BuildAbort, Zenon DEF Req
  <2> QED
    BY <2>1 DEF CopyHeaders, AbortExcluded
<1> QED
  BY <1>1, <1>2, <1>3, <1>4, <1>5, <1>6, <1>7, MessageKinds, Zenon

\* s3_request_messages.c, for any headers of the user's request: every request
\* of the copy carries the headers that belong to it and no other copy header;
\* and the requests fit each other, so that a copy that names its source, meets
\* no failure of the network or the service and is not cancelled never fails.
THEOREM CopyMessagesFit == Spec => []MessagesFit
<1>1. CopyInv => NoFailureOfItsOwn
  <2> SUFFICES ASSUME CopyInv, reported \notin {"none", "ok"}
               PROVE  faults > 0 \/ stop_called \/ ~HasSource(initial)
    BY DEF NoFailureOfItsOwn
  <2>1. FlightInv /\ CleanInv
    BY DEF CopyInv
  <2>2. finish_result \notin {"none", "ok"} /\ faults \in Nat
    BY <2>1, RetryAssumption DEF FlightInv
  <2>3. ~Clean
    BY <2>1, <2>2 DEF CleanInv
  <2> QED
    BY <2>2, <2>3 DEF Clean
<1> QED
  BY <1>1, HeadersArrive, CopyInvariance, PTL DEF MessagesFit
=============================================================================
