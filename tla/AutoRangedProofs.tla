-------------------------- MODULE AutoRangedProofs ---------------------------
(***************************************************************************)
(* Proofs about the auto-ranged transfers, in two parts.                   *)
(*                                                                         *)
(* AutoRangedPut, the upload of the parts of a body: its invariants, for   *)
(* every set of options, every number of parts and every limit on the      *)
(* parts waiting to be read.                                               *)
(*                                                                         *)
(* PartHandout, for ranges, parts and connection counts of every size: the *)
(* parts handed out tile the requested range and rotate over its regions,  *)
(* and the split of an upload respects the part limit. The argument has    *)
(* three layers: arithmetic (products, quotients), what the operators of   *)
(* PartRanges compute, and an inductive invariant that gives every part    *)
(* handed out in closed form.                                              *)
(***************************************************************************)
EXTENDS AutoRangedPut, PartHandout, FiniteSetTheorems, TLAPS

Going == finish_result = "none"
Done == {n \in Part : stage[Upload(n)] = "done"}
Preparing == {n \in Part : stage[Upload(n)] = "preparing"}

\* The state of every phase tells where its request is, and phases follow each
\* other: nothing is started before the upload is created and listed.
PhaseInv ==
    /\ synced.list = "sent" <=> stage[List] \in InProgress
    /\ synced.create = "sent" <=> stage[Create] \in InProgress
    /\ synced.complete = "to_send" <=> stage[Complete] = "unused"
    /\ synced.complete = "sent" <=> stage[Complete] \in InProgress
    /\ synced.abort = "to_send" <=> stage[Abort] = "unused"
    /\ synced.abort = "sent" <=> stage[Abort] \in InProgress
    /\ synced.list # "completed" => synced.started = 0 /\ synced.complete = "to_send"
    /\ synced.create # "completed" =>
         synced.started = 0 /\ synced.complete = "to_send" /\ synced.abort = "to_send"

\* num_parts_started and num_parts_completed count the part requests, those
\* that failed and those that were no-ops included.
CountInv ==
    /\ \A n \in Part : stage[Upload(n)] = "unused" <=> n > synced.started
    /\ synced.completed = Cardinality(Done)
    /\ Cardinality(Preparing) <= synced.pending_read
    /\ synced.pending_read <= synced.started
    /\ opts.known => synced.started <= opts.body

\* While the upload goes on, the parts to be read are the last ones started;
\* the end of a body of unknown length was seen only once all of it was read.
ReadInv ==
    Going =>
      /\ \A n \in Part : stage[Upload(n)] = "preparing" <=>
           synced.started - synced.pending_read < n /\ n <= synced.started
      /\ opts.known \/ IF synced.at_end
                       THEN /\ synced.started - synced.pending_read >= opts.body
                            /\ synced.started - synced.pending_read >= 1
                       ELSE synced.started - synced.pending_read <= opts.body

\* What part_list says of a part, what the service holds and where the request
\* of the part is.
PartInv(n) ==
    /\ part_list[n] # "null" => n \in Whole
    /\ part_list[n] = "previous" => n \in stored /\ resumed # -1
    /\ part_list[n] = "etag" => n \in stored
    /\ n \in stored => n \in Whole
    /\ n \in noop => /\ stage[Upload(n)] \in {"signing", "queued", "done"}
                     /\ n \in Whole => part_list[n] = "previous"
    /\ stage[Upload(n)] \in {"signing", "queued", "sent"} /\ n \notin noop => n \in Whole
    /\ Going /\ stage[Upload(n)] = "done" => n \in noop \/ part_list[n] = "etag"

\* Once the complete was asked for nothing is left to do for any part.
CompleteInv ==
    stage[Complete] # "unused" =>
      /\ Listed = Whole /\ Listed \subseteq stored
      /\ \A n \in Part : stage[Upload(n)] \in {"unused", "done"}
      /\ ~MorePartsToStart

\* The upload at the service, and what the client knows of it.
ServiceInv ==
    /\ synced.upload_id <=> upload # "none"
    /\ synced.create # "completed" => upload = "none" /\ resumed = -1
    /\ token.upload_id => upload # "none"
    /\ synced.list # "completed" => resumed # -1
    /\ Going /\ synced.create = "completed" => synced.upload_id
    /\ synced.complete = "succeeded" => upload = "completed"
    /\ synced.complete = "failed" => ~Going
    /\ upload = "completed" => object = Whole
    /\ upload = "aborted" /\ resumed = -1 => stage[Abort] # "unused"
    /\ stage[Abort] # "unused" =>
         /\ finish_result \notin {"none", "PAUSED", "RESUME_FAILED"}
         /\ synced.complete \notin {"sent", "succeeded"}
    /\ finish_result = "SUCCESS" => upload # "open" /\ (resumed = -1 => upload = "completed")
    /\ mismatched => ~Going /\ resumed # -1 /\ stage[Complete] = "unused"

\* A meta request that finishes has nothing left to do.
EndInv ==
    /\ reported # "none" => reported = finish_result /\ process_work = "removed"
    /\ process_work \in {"finishing", "removed"} =>
         /\ ~Going
         /\ \A r \in Request \ {List} : stage[r] \notin InProgress
         /\ finish_result \in {"FAILED", "CANCELED", "CHECKSUM_MISMATCH"} /\ upload = "open" =>
              stage[Abort] = "done"

IInv ==
    /\ TypeOK /\ PhaseInv /\ CountInv /\ ReadInv /\ CompleteInv /\ ServiceInv /\ EndInv
    /\ \A n \in Part : PartInv(n)
-----------------------------------------------------------------------------
\* Requests are told apart by their kind and their part.
LEMMA Requests ==
    /\ {List, Create, Complete, Abort} \subseteq Request
    /\ \A n \in Part : /\ Upload(n) \in Request
                       /\ Upload(n) \notin {List, Create, Complete, Abort}
    /\ \A m, n \in Part : Upload(m) = Upload(n) => m = n
    /\ List # Create /\ List # Complete /\ List # Abort
    /\ Create # Complete /\ Create # Abort /\ Complete # Abort
    /\ \A r \in Request : r \notin {List, Create, Complete, Abort} =>
         \E n \in Part : r = Upload(n)
BY DEF List, Create, Complete, Abort, Upload, Request

\* Parts are numbered from 1, and there are as many as the body fills.
LEMMA Parts ==
    ASSUME TypeOK
    PROVE  /\ Part \subseteq Nat /\ MaxPart \in Nat
           /\ \A n \in Part : n >= 1 /\ n <= MaxPart
           /\ \A n \in Nat : 1 <= n /\ n <= MaxPart => n \in Part
           /\ opts.body \in Nat /\ opts.body <= MaxPart /\ opts.known \in BOOLEAN
           /\ IF opts.known THEN opts.body > 0 ELSE opts.body + MaxPendingRead <= MaxPart
           /\ MaxPendingRead \in Nat /\ MaxPendingRead > 0
BY PutAssumption DEF TypeOK, Part

\* Sets of parts are finite.
LEMMA PartSets ==
    ASSUME TypeOK, NEW S \in SUBSET Part
    PROVE  IsFiniteSet(S) /\ Cardinality(S) \in Nat /\ Cardinality(S) <= MaxPart
<1>1. IsFiniteSet(Part) /\ Cardinality(Part) = MaxPart
  BY FS_Interval, PutAssumption DEF Part
<1>2. QED
  BY <1>1, FS_Subset, FS_CardinalityType, PutAssumption

\* A part that ends is counted once.
LEMMA DoneGrows ==
    ASSUME TypeOK, NEW n \in Part, stage[Upload(n)] # "done",
           stage' = [stage EXCEPT ![Upload(n)] = "done"]
    PROVE  Cardinality(Done') = Cardinality(Done) + 1
<1>1. Done' = Done \cup {n}
  BY Requests DEF Done, TypeOK
<1>2. n \notin Done /\ IsFiniteSet(Done)
  BY PartSets DEF Done
<1>3. QED
  BY <1>1, <1>2, FS_AddElement

\* A part that leaves the preparation is one less to be read.
LEMMA PreparingShrinks ==
    ASSUME TypeOK, NEW n \in Part, NEW x, stage[Upload(n)] = "preparing", x # "preparing",
           stage' = [stage EXCEPT ![Upload(n)] = x]
    PROVE  Cardinality(Preparing') = Cardinality(Preparing) - 1
<1>1. Preparing' = Preparing \ {n}
  BY Requests DEF Preparing, TypeOK
<1>2. n \in Preparing /\ IsFiniteSet(Preparing)
  BY PartSets DEF Preparing
<1>3. QED
  BY <1>1, <1>2, FS_RemoveElement


\* Nothing about the requests is disturbed by a step that leaves them alone.
LEMMA RequestsAlone ==
    ASSUME IInv, UNCHANGED <<opts, synced, stage, part_list, noop, stored, resumed>>,
           Going' => Going
    PROVE  PhaseInv' /\ CountInv' /\ ReadInv' /\ CompleteInv' /\ \A n \in Part : PartInv(n)'
<1> USE DEF IInv
<1>1. PhaseInv'
  BY DEF PhaseInv
<1>2. CountInv'
  BY DEF CountInv, Done, Preparing
<1>3. ReadInv'
  BY DEF ReadInv
<1>4. CompleteInv'
  BY DEF CompleteInv, Listed, Whole, MorePartsToStart
<1>5. \A n \in Part : PartInv(n)'
  BY DEF PartInv, Whole
<1>6. QED
  BY <1>1, <1>2, <1>3, <1>4, <1>5

\* Nothing about the parts is disturbed by a step of another request.
LEMMA PartsAlone ==
    ASSUME IInv, NEW r \in {List, Create, Complete, Abort}, NEW x,
           stage' = [stage EXCEPT ![r] = x],
           synced'.started = synced.started, synced'.completed = synced.completed,
           synced'.pending_read = synced.pending_read, synced'.at_end = synced.at_end,
           UNCHANGED <<opts, noop, resumed>>, Going' => Going
    PROVE  /\ CountInv' /\ ReadInv'
           /\ \A n \in Part : stage'[Upload(n)] = stage[Upload(n)]
           /\ UNCHANGED <<part_list, stored>> => \A n \in Part : PartInv(n)'
<1> USE DEF IInv
<1>1. \A n \in Part : stage'[Upload(n)] = stage[Upload(n)]
  BY Requests DEF TypeOK
<1>2. CountInv'
  <2>1. Done' = Done /\ Preparing' = Preparing
    BY <1>1 DEF Done, Preparing
  <2>2. QED
    BY <1>1, <2>1 DEF CountInv
<1>3. ReadInv'
  BY <1>1 DEF ReadInv
<1>4. UNCHANGED <<part_list, stored>> => \A n \in Part : PartInv(n)'
  BY <1>1 DEF PartInv, Whole
<1>5. QED
  BY <1>1, <1>2, <1>3, <1>4

-----------------------------------------------------------------------------
\* Steps of the process-work task and of the user that leave the requests alone.
LEMMA StartWorkStep ==
    ASSUME IInv, StartWork PROVE IInv'
<1> USE DEF IInv, StartWork, metaVars, userVars, serviceVars
<1>1. TypeOK'
  BY Zenon DEF TypeOK
<1>2. ServiceInv' /\ EndInv'
  BY DEF ServiceInv, EndInv, Going, Whole
<1>3. QED
  BY <1>1, <1>2, RequestsAlone DEF Going

LEMMA UpdateWaitStep ==
    ASSUME IInv, UpdateWait PROVE IInv'
<1> USE DEF IInv, UpdateWait, InPass, metaVars, userVars, serviceVars
<1>1. TypeOK'
  BY DEF TypeOK
<1>2. ServiceInv' /\ EndInv'
  BY DEF ServiceInv, EndInv, Going, Whole
<1>3. QED
  BY <1>1, <1>2, RequestsAlone DEF Going

LEMMA DeliverEventsStep ==
    ASSUME IInv, DeliverEvents PROVE IInv'
<1> USE DEF IInv, DeliverEvents, metaVars, userVars, serviceVars
<1>1. TypeOK'
  BY Zenon DEF TypeOK
<1>2. ServiceInv' /\ EndInv'
  BY DEF ServiceInv, EndInv, Going, Whole
<1>3. QED
  BY <1>1, <1>2, RequestsAlone DEF Going

LEMMA CancelStep ==
    ASSUME IInv, Cancel PROVE IInv'
<1> USE DEF IInv, Cancel, SetResult, userVars, serviceVars
<1>1. TypeOK'
  BY DEF TypeOK, Codes
<1>2. ServiceInv' /\ EndInv'
  BY DEF ServiceInv, EndInv, Going, Whole
<1>3. QED
  BY <1>1, <1>2, RequestsAlone DEF Going

LEMMA PauseStep ==
    ASSUME IInv, Pause PROVE IInv'
<1> USE DEF IInv, Pause, SetResult, taskVars, userVars, serviceVars
<1>1. BuildResumeToken \in [built : BOOLEAN, upload_id : BOOLEAN, completed : 0 .. MaxPart]
  BY PutAssumption DEF BuildResumeToken, NoToken, TypeOK, SyncedData
<1>2. TypeOK'
  BY <1>1 DEF TypeOK, Codes
<1>3. BuildResumeToken.upload_id => upload # "none"
  BY DEF BuildResumeToken, NoToken, ServiceInv
<1>4. ServiceInv' /\ EndInv'
  BY <1>3 DEF ServiceInv, EndInv, Going, Whole
<1>5. QED
  BY <1>2, <1>4, RequestsAlone DEF Going

LEMMA PauseAsyncStep ==
    ASSUME IInv, PauseAsync PROVE IInv'
<1> USE DEF IInv, PauseAsync, SetResult, taskVars, userVars, serviceVars
<1>1. TypeOK'
  BY DEF TypeOK, Codes
<1>2. ServiceInv' /\ EndInv'
  BY DEF ServiceInv, EndInv, Going, Whole
<1>3. QED
  BY <1>1, <1>2, RequestsAlone DEF Going

\* All that were started are done once as many are completed.
LEMMA AllDone ==
    ASSUME IInv, synced.completed >= synced.started
    PROVE  \A n \in Part : stage[Upload(n)] \in {"unused", "done"}
<1> USE DEF IInv
<1>1. synced.started \in Nat /\ synced.completed \in Nat /\ synced.started <= MaxPart
  BY PutAssumption DEF TypeOK, SyncedData
<1>2. Done \subseteq 1 .. synced.started
  BY <1>1, Parts DEF Done, CountInv
<1>3. IsFiniteSet(1 .. synced.started) /\ Cardinality(1 .. synced.started) = synced.started
  BY <1>1, FS_Interval
<1> DEFINE Started == 1 .. synced.started
<1> HIDE DEF Started
<1>4. /\ Cardinality(Done) <= Cardinality(Started)
      /\ Cardinality(Started) = Cardinality(Done) => Started = Done
  BY <1>2, <1>3, FS_Subset, Zenon DEF Started
<1>5. Cardinality(Started) = Cardinality(Done)
  BY <1>1, <1>3, <1>4 DEF CountInv, Started
<1>6. QED
  BY <1>1, <1>4, <1>5, Parts DEF Done, CountInv, Started

LEMMA UpdateStartPartStep ==
    ASSUME IInv, UpdateStartPart
    PROVE  IInv'
<1> DEFINE n == synced.started + 1
           new == [synced EXCEPT !.started = @ + 1, !.pending_read = @ + 1]
<1> USE DEF IInv
<1>1. /\ synced' = new /\ stage' = [stage EXCEPT ![Upload(n)] = "preparing"]
      /\ Going /\ MorePartsToStart /\ ~SkipMoreParts /\ InPass
      /\ synced.list = "completed" /\ synced.create = "completed"
      /\ UNCHANGED <<opts, part_list, finish_result, noop, mismatched, taskVars, userVars,
                   serviceVars>>
  BY DEF UpdateStartPart, HandOut, CanStartPart, Ready, Going
<1>2. /\ synced.started \in Nat /\ synced.pending_read \in Nat /\ synced.completed \in Nat
  BY PutAssumption DEF TypeOK, SyncedData
<1>3. n \in Part
  <2>1. CASE opts.known
    BY <1>1, <1>2, <2>1, Parts DEF MorePartsToStart
  <2>2. CASE ~opts.known
    BY <1>1, <1>2, <2>2, Parts DEF MorePartsToStart, ReadInv, SkipMoreParts
  <2>3. QED
    BY <2>1, <2>2
<1>4. new \in SyncedData
  <2>1. synced.started + 1 \in 0 .. MaxPart /\ synced.pending_read + 1 \in 0 .. MaxPart
    BY <1>2, <1>3, Parts DEF CountInv
  <2>2. QED
    BY <2>1, Zenon DEF TypeOK, SyncedData
<1>5. /\ new.started = synced.started + 1 /\ new.pending_read = synced.pending_read + 1
      /\ new.list = synced.list /\ new.create = synced.create /\ new.complete = synced.complete
      /\ new.abort = synced.abort /\ new.upload_id = synced.upload_id 
      /\ new.completed = synced.completed /\ new.at_end = synced.at_end
  BY DEF TypeOK, SyncedData
<1>6. /\ stage'[Upload(n)] = "preparing"
      /\ \A r \in Request : r # Upload(n) => stage'[r] = stage[r]
      /\ stage[Upload(n)] = "unused"
  BY <1>1, <1>2, <1>3, Requests DEF TypeOK, CountInv
<1> HIDE DEF new
<1>7. TypeOK'
  BY <1>1, <1>4, Requests, <1>3 DEF TypeOK, InProgress, taskVars, userVars, serviceVars
<1>8. PhaseInv'
  BY <1>1, <1>3, <1>5, <1>6, Requests DEF PhaseInv
<1>9. CountInv'
  <2>1. Done' = Done /\ Preparing' = Preparing \cup {n} /\ n \notin Preparing
    BY <1>3, <1>6, Requests DEF Done, Preparing
  <2>2. Cardinality(Preparing') = Cardinality(Preparing) + 1 /\ Cardinality(Preparing) \in Nat
    <3>1. IsFiniteSet(Preparing) /\ Cardinality(Preparing) \in Nat
      BY PartSets, Zenon DEF Preparing
    <3>2. QED
      BY <2>1, <3>1, FS_AddElement, Zenon
  <2>3. opts.known => synced.started + 1 <= opts.body
    BY <1>1, <1>2, Parts DEF MorePartsToStart
  <2>4. \A m \in Part : stage'[Upload(m)] = "unused" <=> m > synced'.started
    BY <1>1, <1>2, <1>3, <1>5, <1>6, Requests, Parts DEF CountInv
  <2>5. QED
    BY <2>1, <2>2, <2>3, <2>4, <1>1, <1>2, <1>5 DEF CountInv
<1>10. ReadInv'
  BY <1>1, <1>2, <1>3, <1>5, <1>6, Requests, Parts DEF ReadInv, Going
<1>11. CompleteInv'
  BY <1>1, <1>2, <1>3, <1>5, <1>6, Requests, Parts DEF CompleteInv
<1>12. ServiceInv'
  BY <1>1, <1>3, <1>5, <1>6, Requests DEF ServiceInv, Going, Whole, userVars, serviceVars
<1>13. EndInv'
  BY <1>1, <1>3, <1>5, <1>6, Requests DEF EndInv, Going, InPass, taskVars, userVars, serviceVars
<1>14. \A m \in Part : PartInv(m)'
  BY <1>1, <1>3, <1>5, <1>6, Requests DEF PartInv, Going, Whole, userVars, serviceVars
<1> QED
  BY <1>7, <1>8, <1>9, <1>10, <1>11, <1>12, <1>13, <1>14
\* No work remains: all requests but a listing are over, a success made the
\* object, and a failure has aborted what it left.
LEMMA NothingRemains ==
    ASSUME IInv, NoWorkRemaining
    PROVE  /\ \A r \in Request \ {List} : stage[r] \notin InProgress
           /\ Going => upload = "completed"
           /\ finish_result \in {"FAILED", "CANCELED", "CHECKSUM_MISMATCH"} /\ upload = "open" =>
                stage[Abort] = "done"
<1> USE DEF IInv
<1>1. synced.started \in Nat /\ synced.completed \in Nat /\ opts.body \in Nat
  BY PutAssumption DEF TypeOK, SyncedData
<1>2. CASE Going
  <2>1. Ready /\ PartsDone /\ synced.complete \in {"succeeded", "failed"}
    BY <1>2 DEF NoWorkRemaining, Going
  <2>2. synced.completed >= synced.started
    BY <1>1, <2>1 DEF PartsDone, MorePartsToStart, CountInv
  <2>3. \A n \in Part : stage[Upload(n)] \in {"unused", "done"}
    BY <2>2, AllDone
  <2>4. stage[Create] \notin InProgress /\ stage[Complete] \notin InProgress
    BY <2>1 DEF Ready, PhaseInv
  <2>5. stage[Abort] = "unused" /\ upload = "completed"
    BY <1>2, <2>1 DEF ServiceInv, Going
  <2>6. QED
    BY <1>2, <2>3, <2>4, <2>5, Requests DEF InProgress, Going
<1>3. CASE ~Going /\ synced.create = "to_send"
  <2>1. \A n \in Part : stage[Upload(n)] \in {"unused", "done"}
    BY <1>1, <1>3, AllDone DEF PhaseInv
  <2>2. /\ stage[Create] \notin InProgress /\ stage[Complete] \notin InProgress
        /\ stage[Abort] = "unused" /\ upload = "none"
    BY <1>3 DEF PhaseInv, ServiceInv
  <2>3. QED
    BY <1>3, <2>1, <2>2, Requests DEF InProgress
<1>4. CASE ~Going /\ WoundDown /\ (NothingToAbort \/ synced.abort = "completed")
  <2>1. \A n \in Part : stage[Upload(n)] \in {"unused", "done"}
    BY <1>4, AllDone DEF WoundDown
  <2>2. stage[Create] \notin InProgress /\ stage[Complete] \notin InProgress
    BY <1>4 DEF PhaseInv, WoundDown
  <2>3. CASE synced.abort = "completed"
    <3>1. stage[Abort] = "done"
      BY <2>3, Requests DEF PhaseInv, TypeOK, InProgress
    <3>2. QED
      BY <1>4, <2>1, <2>2, <3>1, Requests DEF InProgress
  <2>4. CASE synced.abort # "completed" /\ NothingToAbort
    <3>1. stage[Abort] = "unused"
      BY <2>4 DEF NothingToAbort, ServiceInv, PhaseInv
    <3>2. \/ finish_result \in {"PAUSED", "RESUME_FAILED", "SUCCESS"}
          \/ upload \in {"completed", "none"}
      BY <2>4 DEF NothingToAbort, ServiceInv
    <3>3. QED
      BY <1>4, <2>1, <2>2, <3>1, <3>2, Requests DEF InProgress
  <2>5. QED
    BY <1>4, <2>3, <2>4
<1>5. QED
  BY <1>2, <1>3, <1>4 DEF NoWorkRemaining, Going

LEMMA UpdateFinishStep ==
    ASSUME IInv, UpdateFinish PROVE IInv'
<1> USE DEF IInv
<1>1. /\ NoWorkRemaining /\ InPass /\ process_work' = "finishing"
      /\ finish_result' = IF Going THEN "SUCCESS" ELSE finish_result
      /\ UNCHANGED <<opts, synced, part_list, stage, noop, mismatched, work_scheduled, events_out,
                     pause, token, resumed, reported, upload, stored, object>>
  BY DEF UpdateFinish, CanFinish, SetResult, Going, userVars, serviceVars
<1>2. /\ \A r \in Request \ {List} : stage[r] \notin InProgress
      /\ Going => upload = "completed"
      /\ finish_result \in {"FAILED", "CANCELED", "CHECKSUM_MISMATCH"} /\ upload = "open" =>
           stage[Abort] = "done"
  BY <1>1, NothingRemains
<1>3. TypeOK'
  BY <1>1 DEF TypeOK, Codes
<1>4. ServiceInv'
  BY <1>1, <1>2 DEF ServiceInv, Going, Whole
<1>5. EndInv'
  BY <1>1, <1>2 DEF EndInv, Going, InPass
<1>6. QED
  BY <1>1, <1>3, <1>4, <1>5, RequestsAlone DEF Going

LEMMA FinishDefaultStep ==
    ASSUME IInv, FinishDefault PROVE IInv'
<1> USE DEF IInv, FinishDefault, metaVars, serviceVars
<1>1. BuildResumeToken \in [built : BOOLEAN, upload_id : BOOLEAN, completed : 0 .. MaxPart]
  BY PutAssumption DEF BuildResumeToken, NoToken, TypeOK, SyncedData
<1>2. TypeOK'
  BY <1>1 DEF TypeOK, Codes
<1>3. BuildResumeToken.upload_id => upload # "none"
  BY DEF BuildResumeToken, NoToken, ServiceInv
<1>4. ServiceInv'
  BY <1>3 DEF ServiceInv, Going, Whole
<1>5. EndInv'
  BY DEF EndInv, Going
<1>6. QED
  BY <1>2, <1>4, <1>5, RequestsAlone DEF Going
\* Requests the process-work task asks for.
LEMMA UpdateListStep ==
    ASSUME IInv, UpdateList PROVE IInv'
<1> USE DEF IInv, UpdateList, HandOut, taskVars, userVars, serviceVars
<1> DEFINE new == [synced EXCEPT !.list = "sent"]
<1>1. new \in SyncedData
  BY DEF TypeOK, SyncedData
<1>2. /\ new.list = "sent" /\ new.create = synced.create /\ new.upload_id = synced.upload_id
      /\ new.started = synced.started /\ new.completed = synced.completed
      /\ new.pending_read = synced.pending_read /\ new.at_end = synced.at_end
      /\ new.complete = synced.complete /\ new.abort = synced.abort
  BY DEF TypeOK, SyncedData
<1> HIDE DEF new
<1>3. synced' = new /\ stage'[List] = "preparing"
      /\ \A r \in Request : r # List => stage'[r] = stage[r]
  BY Requests DEF TypeOK, new
<1>4. TypeOK'
  BY <1>1, <1>3, Requests DEF TypeOK, InProgress
<1>5. PhaseInv'
  BY <1>2, <1>3, Requests DEF PhaseInv, CanList, InProgress
<1>6. CompleteInv'
  BY <1>2, <1>3, Requests DEF CompleteInv, Listed, Whole, MorePartsToStart
<1>7. ServiceInv'
  BY <1>2, <1>3, Requests DEF ServiceInv, Going, Whole, CanList
<1>8. EndInv'
  BY <1>3, Requests DEF EndInv, Going, InPass
<1>9. CountInv' /\ ReadInv' /\ \A n \in Part : PartInv(n)'
  BY <1>2, <1>3, PartsAlone, Zenon DEF Going
<1>10. QED
  BY <1>4, <1>5, <1>6, <1>7, <1>8, <1>9

LEMMA UpdateCreateStep ==
    ASSUME IInv, UpdateCreate PROVE IInv'
<1> USE DEF IInv, UpdateCreate, HandOut, taskVars, userVars, serviceVars
<1> DEFINE new == [synced EXCEPT !.create = "sent"]
<1>1. new \in SyncedData
  BY DEF TypeOK, SyncedData
<1>2. /\ new.list = synced.list /\ new.create = "sent" /\ new.upload_id = synced.upload_id
      /\ new.started = synced.started /\ new.completed = synced.completed
      /\ new.pending_read = synced.pending_read /\ new.at_end = synced.at_end
      /\ new.complete = synced.complete /\ new.abort = synced.abort
  BY DEF TypeOK, SyncedData
<1> HIDE DEF new
<1>3. synced' = new /\ stage'[Create] = "preparing"
      /\ \A r \in Request : r # Create => stage'[r] = stage[r]
  BY Requests DEF TypeOK, new
<1>4. TypeOK'
  BY <1>1, <1>3, Requests DEF TypeOK, InProgress
<1>5. PhaseInv'
  BY <1>2, <1>3, Requests DEF PhaseInv, CanCreate, InProgress
<1>6. CompleteInv'
  BY <1>2, <1>3, Requests DEF CompleteInv, Listed, Whole, MorePartsToStart
<1>7. ServiceInv'
  BY <1>2, <1>3, Requests DEF ServiceInv, Going, Whole, CanCreate
<1>8. EndInv'
  BY <1>3, Requests DEF EndInv, Going, InPass
<1>9. CountInv' /\ ReadInv' /\ \A n \in Part : PartInv(n)'
  BY <1>2, <1>3, PartsAlone, Zenon DEF Going
<1>10. QED
  BY <1>4, <1>5, <1>6, <1>7, <1>8, <1>9

\* When the counters agree, every part of the body is listed and stored.
LEMMA ReadyToComplete ==
    ASSUME IInv, CanComplete
    PROVE  /\ Listed = Whole /\ Listed \subseteq stored
           /\ \A n \in Part : stage[Upload(n)] \in {"unused", "done"}
<1> USE DEF IInv, CanComplete
<1>1. synced.started \in Nat /\ synced.completed \in Nat /\ synced.pending_read \in Nat
  BY PutAssumption DEF TypeOK, SyncedData
<1>2. Going
  BY DEF Ready, Going
<1>3. synced.completed >= synced.started
  BY <1>1, Parts DEF PartsDone, MorePartsToStart, CountInv
<1>4. \A n \in Part : stage[Upload(n)] \in {"unused", "done"}
  BY <1>3, AllDone
<1>5. \A n \in Whole : n \in Part /\ n <= synced.started
  <2>1. CASE opts.known
    BY <1>1, <2>1, Parts DEF PartsDone, MorePartsToStart, Whole
  <2>2. CASE ~opts.known
    <3>1. synced.started - synced.pending_read >= opts.body
          /\ synced.started - synced.pending_read >= 1
      BY <1>2, <2>2 DEF PartsDone, MorePartsToStart, ReadInv
    <3>2. synced.started >= opts.body /\ synced.started >= 1 /\ synced.started <= MaxPart
      BY <1>1, <3>1, Parts DEF TypeOK, SyncedData
    <3>3. QED
      BY <1>1, <3>2, Parts DEF Whole
  <2>3. QED
    BY <2>1, <2>2
<1>6. \A n \in Whole : stage[Upload(n)] = "done"
  BY <1>1, <1>4, <1>5, Parts DEF CountInv
<1>7. \A n \in Whole : n \in Listed /\ n \in stored
  BY <1>2, <1>5, <1>6 DEF PartInv, Listed
<1>8. \A n \in Listed : n \in Whole
  BY DEF PartInv, Listed
<1>9. QED
  BY <1>4, <1>7, <1>8

LEMMA UpdateCompleteStep ==
    ASSUME IInv, UpdateComplete PROVE IInv'
<1>1. /\ Listed = Whole /\ Listed \subseteq stored
      /\ \A n \in Part : stage[Upload(n)] \in {"unused", "done"}
  BY ReadyToComplete DEF UpdateComplete
<1> USE DEF IInv, UpdateComplete, HandOut, taskVars, userVars, serviceVars
<1> DEFINE new == [synced EXCEPT !.complete = "sent"]
<1>2. new \in SyncedData
  BY DEF TypeOK, SyncedData
<1>3. /\ new.list = synced.list /\ new.create = synced.create /\ new.upload_id = synced.upload_id
      /\ new.started = synced.started /\ new.completed = synced.completed
      /\ new.pending_read = synced.pending_read /\ new.at_end = synced.at_end
      /\ new.complete = "sent" /\ new.abort = synced.abort
  BY DEF TypeOK, SyncedData
<1> HIDE DEF new
<1>4. synced' = new /\ stage'[Complete] = "preparing"
      /\ \A r \in Request : r # Complete => stage'[r] = stage[r]
  BY Requests DEF TypeOK, new
<1>5. TypeOK'
  BY <1>2, <1>4, Requests DEF TypeOK, InProgress
<1>6. PhaseInv'
  BY <1>3, <1>4, Requests DEF PhaseInv, CanComplete, Ready, InProgress
<1>7. CompleteInv'
  <2>1. ~MorePartsToStart'
    BY <1>3, <1>4 DEF CanComplete, PartsDone, MorePartsToStart
  <2>2. Listed' = Listed /\ Whole' = Whole
    BY DEF Listed, Whole
  <2>3. QED
    BY <1>1, <1>4, <2>1, <2>2, Requests DEF CompleteInv
<1>8. ServiceInv'
  BY <1>3, <1>4, Requests DEF ServiceInv, Going, Whole, CanComplete, Ready
<1>9. EndInv'
  BY <1>4, Requests DEF EndInv, Going, InPass
<1>10. CountInv' /\ ReadInv' /\ \A n \in Part : PartInv(n)'
  BY <1>3, <1>4, PartsAlone, Zenon DEF Going
<1>11. QED
  BY <1>5, <1>6, <1>7, <1>8, <1>9, <1>10

LEMMA UpdateAbortStep ==
    ASSUME IInv, UpdateAbort PROVE IInv'
<1> USE DEF IInv, UpdateAbort, HandOut, taskVars, userVars, serviceVars
<1> DEFINE new == [synced EXCEPT !.abort = "sent"]
<1>1. new \in SyncedData
  BY DEF TypeOK, SyncedData
<1>2. /\ new.list = synced.list /\ new.create = synced.create /\ new.upload_id = synced.upload_id
      /\ new.started = synced.started /\ new.completed = synced.completed
      /\ new.pending_read = synced.pending_read /\ new.at_end = synced.at_end
      /\ new.complete = synced.complete /\ new.abort = "sent"
  BY DEF TypeOK, SyncedData
<1> HIDE DEF new
<1>3. synced' = new /\ stage'[Abort] = "preparing"
      /\ \A r \in Request : r # Abort => stage'[r] = stage[r]
  BY Requests DEF TypeOK, new
<1>4. TypeOK'
  BY <1>1, <1>3, Requests DEF TypeOK, InProgress
<1>5. PhaseInv'
  BY <1>2, <1>3, Requests DEF PhaseInv, CanAbort, WoundDown, InProgress
<1>6. CompleteInv'
  BY <1>2, <1>3, Requests DEF CompleteInv, Listed, Whole, MorePartsToStart
<1>7. ServiceInv'
  BY <1>2, <1>3, Requests DEF ServiceInv, Going, Whole, CanAbort, WoundDown, NothingToAbort
<1>8. EndInv'
  BY <1>3, Requests DEF EndInv, Going, InPass
<1>9. CountInv' /\ ReadInv' /\ \A n \in Part : PartInv(n)'
  BY <1>2, <1>3, PartsAlone, Zenon DEF Going
<1>10. QED
  BY <1>4, <1>5, <1>6, <1>7, <1>8, <1>9
-----------------------------------------------------------------------------
\* A request moves on towards the service.
LEMMA RequestMoves ==
    ASSUME IInv, NEW r \in Request, NEW x \in InProgress, stage[r] \in InProgress,
           stage' = [stage EXCEPT ![r] = x],
           \A n \in Part : r = Upload(n) => /\ stage[r] # "preparing" /\ x # "preparing"
                                            /\ n \in noop => x = "queued",
           UNCHANGED <<opts, synced, part_list, finish_result, noop, mismatched, process_work,
                       events_out, userVars, serviceVars>>,
           work_scheduled' \in BOOLEAN
    PROVE  IInv'
<1> USE DEF IInv, userVars, serviceVars
<1>1. stage'[r] = x /\ \A q \in Request : q # r => stage'[q] = stage[q]
  BY DEF TypeOK
<1>2. TypeOK'
  BY DEF TypeOK
<1>3. PhaseInv'
  BY <1>1, Requests DEF PhaseInv, InProgress
<1>4. CountInv'
  <2>1. Done' = Done /\ Preparing' = Preparing
    BY <1>1, Requests DEF Done, Preparing, InProgress
  <2>2. QED
    BY <1>1, <2>1, Requests DEF CountInv, InProgress
<1>5. ReadInv'
  BY <1>1, Requests DEF ReadInv, Going
<1>6. CompleteInv'
  <2>1. \A n \in Part : r = Upload(n) => stage[Complete] = "unused"
    BY DEF CompleteInv, InProgress
  <2>2. stage'[Complete] # "unused" => stage[Complete] # "unused"
    BY <1>1, Requests DEF InProgress
  <2>3. Listed' = Listed /\ Whole' = Whole /\ MorePartsToStart' = MorePartsToStart
    BY DEF Listed, Whole, MorePartsToStart
  <2>4. QED
    BY <1>1, <2>1, <2>2, <2>3, Requests DEF CompleteInv
<1>7. ServiceInv'
  BY <1>1, Requests DEF ServiceInv, Going, Whole, InProgress
<1>8. EndInv'
  BY <1>1, Requests, SMTT(30) DEF EndInv, Going, InProgress
<1>9. \A n \in Part : PartInv(n)'
  BY <1>1, Requests DEF PartInv, Going, Whole, InProgress
<1>10. QED
  BY <1>2, <1>3, <1>4, <1>5, <1>6, <1>7, <1>8, <1>9

LEMMA PreparedStep ==
    ASSUME IInv, NEW r \in Request, Prepared(r) PROVE IInv'
<1>1. /\ stage[r] \in InProgress /\ "queued" \in InProgress
      /\ \A n \in Part : r = Upload(n) => stage[r] # "preparing"
  BY Requests DEF Prepared, InProgress
<1>2. QED
  BY <1>1, RequestMoves, Zenon DEF Prepared

LEMMA SendRequestStep ==
    ASSUME IInv, NEW r \in Request, SendRequest(r) PROVE IInv'
<1>1. /\ stage[r] \in InProgress /\ "sent" \in InProgress /\ work_scheduled \in BOOLEAN
      /\ \A n \in Part : r = Upload(n) => stage[r] # "preparing" /\ n \notin noop
  BY DEF SendRequest, InProgress, IsNoop, IInv, TypeOK
<1>2. QED
  BY <1>1, RequestMoves, Zenon DEF SendRequest, taskVars

\* A request other than a part fails.
LEMMA OtherFails ==
    ASSUME IInv, NEW r \in {List, Create, Complete, Abort}, NEW code \in {"FAILED", "SUCCESS"},
           stage[r] \in InProgress, synced' = AfterFailure(r), Ends(r),
           finish_result' = IF Going THEN code ELSE finish_result,
           code = "SUCCESS" => r = List /\ upload # "open" /\ resumed # -1,
           UNCHANGED <<part_list, noop, mismatched, serviceVars>>
    PROVE  IInv'
<1> USE DEF IInv, Ends, userVars, serviceVars
<1> DEFINE new == AfterFailure(r)
<1>1. /\ new \in SyncedData
      /\ new.list = IF r = List THEN "completed" ELSE synced.list
      /\ new.create = IF r = Create THEN "completed" ELSE synced.create
      /\ new.complete = IF r = Complete THEN "failed" ELSE synced.complete
      /\ new.abort = IF r = Abort THEN "completed" ELSE synced.abort
      /\ new.upload_id = synced.upload_id
      /\ new.started = synced.started /\ new.completed = synced.completed
      /\ new.pending_read = synced.pending_read /\ new.at_end = synced.at_end
  <2>1. CASE r = List
    BY <2>1, Requests DEF AfterFailure, TypeOK, SyncedData
  <2>2. CASE r = Create
    BY <2>2, Requests DEF AfterFailure, TypeOK, SyncedData
  <2>3. CASE r = Complete
    BY <2>3, Requests DEF AfterFailure, TypeOK, SyncedData
  <2>4. CASE r = Abort
    BY <2>4, Requests DEF AfterFailure, TypeOK, SyncedData
  <2>5. QED
    BY <2>1, <2>2, <2>3, <2>4
<1>2. synced' = new
  OBVIOUS
<1> HIDE DEF new
<1>3. /\ stage'[r] = "done" /\ r \in Request
      /\ \A q \in Request : q # r => stage'[q] = stage[q]
  BY Requests DEF TypeOK
<1>4. ~Going'
  BY DEF Going
<1>5. TypeOK'
  <2>1. synced' \in SyncedData /\ finish_result' \in Codes \cup {"none"}
    BY <1>1, <1>2 DEF TypeOK, Codes
  <2>2. stage' \in [Request -> InProgress \cup {"unused", "done"}]
    BY <1>3 DEF TypeOK
  <2>3. QED
    BY <2>1, <2>2 DEF TypeOK
<1>6. PhaseInv'
  <2>1. /\ stage[r] \notin {"unused", "done"}
        /\ stage'[List] = IF r = List THEN "done" ELSE stage[List]
        /\ stage'[Create] = IF r = Create THEN "done" ELSE stage[Create]
        /\ stage'[Complete] = IF r = Complete THEN "done" ELSE stage[Complete]
        /\ stage'[Abort] = IF r = Abort THEN "done" ELSE stage[Abort]
    BY <1>3, Requests DEF InProgress
  <2>3. /\ synced'.list = IF r = List THEN "completed" ELSE synced.list
        /\ synced'.create = IF r = Create THEN "completed" ELSE synced.create
        /\ synced'.complete = IF r = Complete THEN "failed" ELSE synced.complete
        /\ synced'.abort = IF r = Abort THEN "completed" ELSE synced.abort
        /\ synced'.started = synced.started
    BY <1>1, <1>2, Zenon
  <2>4. CASE r = List
    BY <2>1, <2>3, <2>4, Requests DEF PhaseInv, InProgress
  <2>5. CASE r = Create
    BY <2>1, <2>3, <2>5, Requests DEF PhaseInv, InProgress
  <2>6. CASE r = Complete
    BY <2>1, <2>3, <2>6, Requests DEF PhaseInv, InProgress
  <2>7. CASE r = Abort
    BY <2>1, <2>3, <2>7, Requests, SMTT(30) DEF PhaseInv, InProgress
  <2>8. QED
    BY <2>4, <2>5, <2>6, <2>7
<1>7. CompleteInv'
  BY <1>1, <1>2, <1>3, Requests, SMTT(30) DEF CompleteInv, Listed, Whole, MorePartsToStart,
     InProgress
<1>8. ServiceInv'
  <2>1. stage[Abort] # "unused" => ~Going
    BY DEF ServiceInv, Going
  <2>2. r = Complete => stage[Abort] = "unused"
    BY DEF ServiceInv, PhaseInv
  <2>3. QED
    BY <1>1, <1>2, <1>3, <1>4, <2>1, <2>2, Requests DEF ServiceInv, Whole, InProgress, Going
<1>9. EndInv'
  BY <1>3, Requests DEF EndInv, Going, InProgress
<1>10. CountInv' /\ ReadInv' /\ \A n \in Part : PartInv(n)'
  BY <1>1, <1>2, <1>4, PartsAlone, Zenon
<1>11. QED
  BY <1>5, <1>6, <1>7, <1>8, <1>9, <1>10, SMTT(30)
-----------------------------------------------------------------------------
\* A part in progress has not been counted as completed, and one that is to be
\* read has been counted as pending.
LEMMA PartInProgress ==
    ASSUME IInv, NEW n \in Part, stage[Upload(n)] \in InProgress
    PROVE  /\ synced.completed + 1 \in 0 .. MaxPart
           /\ stage[Upload(n)] = "preparing" => synced.pending_read - 1 \in 0 .. MaxPart
           /\ stage[Complete] = "unused"
           /\ process_work \notin {"finishing", "removed"}
           /\ synced.list = "completed" /\ synced.create = "completed"
<1> USE DEF IInv
<1>1. synced.completed \in Nat /\ synced.pending_read \in Nat /\ synced.pending_read <= MaxPart
      /\ synced.started \in Nat
  BY PutAssumption DEF TypeOK, SyncedData
<1>2. synced.completed + 1 \in 0 .. MaxPart
  <2>1. n \notin Done /\ Done \cup {n} \subseteq Part /\ IsFiniteSet(Done)
    BY PartSets DEF Done, InProgress
  <2>2. Cardinality(Done \cup {n}) = Cardinality(Done) + 1
    BY <2>1, FS_AddElement, Zenon
  <2>3. Cardinality(Done \cup {n}) <= MaxPart
    BY <2>1, PartSets
  <2>4. QED
    BY <1>1, <2>2, <2>3, PutAssumption DEF CountInv
<1>3. stage[Upload(n)] = "preparing" => synced.pending_read - 1 \in 0 .. MaxPart
  <2>1. SUFFICES ASSUME stage[Upload(n)] = "preparing"
                 PROVE  synced.pending_read - 1 \in 0 .. MaxPart
    OBVIOUS
  <2>2. Preparing # {} /\ IsFiniteSet(Preparing) /\ Cardinality(Preparing) \in Nat
    BY <2>1, PartSets DEF Preparing
  <2>3. Cardinality(Preparing) # 0
    BY <2>2, FS_EmptySet
  <2>4. QED
    BY <1>1, <2>2, <2>3, PutAssumption DEF CountInv
<1>4. stage[Complete] = "unused"
  BY DEF CompleteInv, InProgress
<1>5. process_work \notin {"finishing", "removed"}
  BY Requests DEF EndInv
<1>6. synced.list = "completed" /\ synced.create = "completed"
  <2>1. synced.started # 0
    BY <1>1, Parts DEF CountInv, InProgress
  <2>2. QED
    BY <2>1 DEF PhaseInv
<1>7. QED
  BY <1>2, <1>3, <1>4, <1>5, <1>6

\* The counters after a part ended.
LEMMA PartEnds ==
    ASSUME IInv, NEW n \in Part, stage[Upload(n)] \in InProgress,
           stage' = [stage EXCEPT ![Upload(n)] = "done"],
           synced'.started = synced.started, synced'.completed = synced.completed + 1,
           \/ synced'.pending_read = synced.pending_read
           \/ /\ synced'.pending_read = synced.pending_read - 1
              /\ stage[Upload(n)] = "preparing",
           UNCHANGED opts
    PROVE  /\ CountInv'
           /\ stage'[Upload(n)] = "done"
           /\ \A q \in Request : q # Upload(n) => stage'[q] = stage[q]
<1> USE DEF IInv
<1>1. stage'[Upload(n)] = "done" /\ \A q \in Request : q # Upload(n) => stage'[q] = stage[q]
  BY Requests DEF TypeOK
<1>2. synced.pending_read \in Nat /\ synced.started \in Nat
  BY PutAssumption DEF TypeOK, SyncedData
<1>3. Cardinality(Done') = Cardinality(Done) + 1
  BY DoneGrows, Zenon DEF InProgress
<1>4. CASE stage[Upload(n)] = "preparing"
  <2>1. Cardinality(Preparing') = Cardinality(Preparing) - 1 /\ Cardinality(Preparing) \in Nat
    BY <1>4, PreparingShrinks, PartSets, Zenon DEF Preparing
  <2>2. \A m \in Part : stage'[Upload(m)] = "unused" <=> m > synced'.started
    BY <1>1, <1>4, Requests DEF CountInv
  <2>3. QED
    BY <1>1, <1>2, <1>3, <2>1, <2>2 DEF CountInv
<1>5. CASE stage[Upload(n)] # "preparing"
  <2>1. Preparing' = Preparing
    BY <1>1, <1>5, Requests DEF Preparing
  <2>2. \A m \in Part : stage'[Upload(m)] = "unused" <=> m > synced'.started
    BY <1>1, <1>5, Requests DEF CountInv, InProgress
  <2>3. QED
    BY <1>1, <1>2, <1>3, <1>5, <2>1, <2>2 DEF CountInv
<1>6. QED
  BY <1>4, <1>5

\* A part fails, or is a no-op and needs not succeed.
LEMMA PartFails ==
    ASSUME IInv, NEW n \in Part, stage[Upload(n)] \in InProgress,
           synced' = AfterFailure(Upload(n)), Ends(Upload(n)),
           \/ finish_result' = IF Going THEN "FAILED" ELSE finish_result
           \/ finish_result' = finish_result /\ (Going => n \in noop),
           UNCHANGED <<part_list, noop, mismatched, serviceVars>>
    PROVE  IInv'
<1> USE DEF IInv, Ends, userVars, serviceVars
<1> DEFINE new == [synced EXCEPT !.completed = @ + 1]
<1>1. synced' = new
  BY Requests DEF AfterFailure
<1>2. /\ synced.completed + 1 \in 0 .. MaxPart /\ stage[Complete] = "unused"
      /\ process_work \notin {"finishing", "removed"}
  BY PartInProgress
<1>3. new \in SyncedData
  BY <1>2 DEF TypeOK, SyncedData
<1>4. /\ new.list = synced.list /\ new.create = synced.create /\ new.upload_id = synced.upload_id
      /\ new.started = synced.started /\ new.completed = synced.completed + 1
      /\ new.pending_read = synced.pending_read /\ new.at_end = synced.at_end
      /\ new.complete = synced.complete /\ new.abort = synced.abort
  BY DEF TypeOK, SyncedData
<1> HIDE DEF new
<1>5. /\ CountInv' /\ stage'[Upload(n)] = "done"
      /\ \A q \in Request : q # Upload(n) => stage'[q] = stage[q]
  BY <1>1, <1>4, PartEnds, Zenon
<1>6. Going' => Going /\ n \in noop
  BY DEF Going
<1>7. TypeOK'
  <2>1. finish_result' \in Codes \cup {"none"}
    BY SMTT(30) DEF TypeOK, Codes, Going
  <2>2. QED
    BY <1>1, <1>3, <2>1, Requests, PutAssumption DEF TypeOK
<1>8. PhaseInv'
  BY <1>1, <1>4, <1>5, Requests DEF PhaseInv
<1>9. ReadInv'
  <2>1. Going' => stage[Upload(n)] # "preparing"
    BY <1>6 DEF PartInv
  <2>2. QED
    BY <1>1, <1>4, <1>5, <1>6, <2>1, Requests DEF ReadInv
<1>10. CompleteInv'
  BY <1>2, <1>5, Requests, SMTT(30) DEF CompleteInv
<1>11. ServiceInv'
  BY <1>1, <1>4, <1>5, <1>6, Requests DEF ServiceInv, Whole, Going
<1>12. EndInv'
  BY <1>2, SMTT(30) DEF EndInv
<1>13. \A m \in Part : PartInv(m)'
  BY <1>5, <1>6, Requests DEF PartInv, Whole
<1>14. QED
  BY <1>5, <1>7, <1>8, <1>9, <1>10, <1>11, <1>12, <1>13

LEMMA PrepareFailsStep ==
    ASSUME IInv, NEW r \in Request, PrepareFails(r) PROVE IInv'
<1>1. /\ stage[r] \in InProgress /\ "FAILED" \in {"FAILED", "SUCCESS"}
      /\ finish_result' = IF Going THEN "FAILED" ELSE finish_result
  BY DEF PrepareFails, InProgress, SetResult, Going
<1>2. CASE r \in {List, Create, Complete, Abort}
  BY <1>1, <1>2, OtherFails DEF PrepareFails
<1>3. CASE r \notin {List, Create, Complete, Abort}
  BY <1>1, <1>3, PartFails, Requests, Zenon DEF PrepareFails
<1>4. QED
  BY <1>2, <1>3

LEMMA DropRequestStep ==
    ASSUME IInv, NEW r \in Request, DropRequest(r) PROVE IInv'
<1>1. stage[r] \in InProgress /\ "FAILED" \in {"FAILED", "SUCCESS"}
  BY DEF DropRequest, InProgress
<1>2. CASE r \in {List, Create, Complete, Abort}
  <2>1. ~IsNoop(r)
    BY <1>2, Requests DEF IsNoop, IInv, TypeOK
  <2>2. finish_result' = IF Going THEN "FAILED" ELSE finish_result
    BY <2>1 DEF DropRequest, Going
  <2>3. QED
    BY <1>1, <1>2, <2>2, OtherFails DEF DropRequest
<1>3. CASE r \notin {List, Create, Complete, Abort}
  <2>1. PICK n \in Part : r = Upload(n)
    BY <1>3, Requests
  <2>2. Going => n \in noop
    BY <2>1, Requests DEF DropRequest, IsNoop, Going, IInv, TypeOK
  <2>3. QED
    BY <1>1, <2>1, <2>2, PartFails DEF DropRequest
<1>4. QED
  BY <1>2, <1>3

LEMMA RequestFailedStep ==
    ASSUME IInv, NEW r \in Request, NEW gone \in BOOLEAN, RequestFailed(r, gone) PROVE IInv'
<1> USE DEF RequestFailed
<1>1. stage[r] \in InProgress
  BY DEF InProgress
<1>2. resumed = opts.body => resumed # -1
  BY Parts DEF IInv
<1>3. CASE r = Abort
  <2>1. finish_result' = finish_result
    BY <1>3, Requests
  <2>2. ~Going
    BY <1>1, <1>3 DEF IInv, ServiceInv, Going, InProgress
  <2>3. QED
    BY <1>1, <1>3, <2>1, <2>2, OtherFails
<1>4. CASE r \in {List, Create, Complete}
  <2>1. \/ /\ finish_result' = IF Going THEN "SUCCESS" ELSE finish_result
           /\ r = List /\ upload # "open" /\ resumed # -1
        \/ finish_result' = IF Going THEN "FAILED" ELSE finish_result
    BY <1>2, <1>4, Requests DEF SetResult, Going
  <2>2. QED
    BY <1>1, <1>4, <2>1, OtherFails
<1>5. CASE r \notin {List, Create, Complete, Abort}
  <2>1. PICK n \in Part : r = Upload(n)
    BY <1>5, Requests
  <2>2. finish_result' = IF Going THEN "FAILED" ELSE finish_result
    BY <1>5 DEF SetResult, Going
  <2>3. QED
    BY <1>1, <2>1, <2>2, PartFails
<1>6. QED
  BY <1>3, <1>4, <1>5
\* While the upload goes on the part that is read next is the first one pending.
LEMMA ReadInOrder ==
    ASSUME IInv, Going, NEW n \in Part, Read(n)
    PROVE  synced.started - synced.pending_read = n - 1
<1> USE DEF IInv, Read
<1> DEFINE k == synced.started - synced.pending_read
<1>1. k \in Nat /\ synced.started \in Nat /\ synced.pending_read \in Nat
  BY PutAssumption DEF TypeOK, SyncedData, CountInv
<1>2. k < n /\ n <= synced.started
  BY DEF ReadInv
<1>3. k + 1 \in Part
  BY <1>1, <1>2, Parts
<1>4. k + 1 < n => stage[Upload(k + 1)] = "preparing"
  BY <1>1, <1>2, <1>3, Parts DEF ReadInv
<1>5. QED
  BY <1>1, <1>2, <1>4, Parts

LEMMA ReadDoneStep ==
    ASSUME IInv, NEW n \in Part, NEW end \in BOOLEAN, ReadDone(n, end) PROVE IInv'
<1> USE DEF IInv
<1> DEFINE new == [synced EXCEPT !.at_end = end, !.pending_read = @ - 1]
<1>1. /\ Read(n) /\ end \in EndSeen(n) /\ synced' = new
      /\ noop' = IF Empty(n) \/ part_list[n] = "previous" THEN noop \cup {n} ELSE noop
      /\ part_list' = IF n \in noop' THEN part_list ELSE [part_list EXCEPT ![n] = "read"]
      /\ stage' = [stage EXCEPT ![Upload(n)] = "signing"]
      /\ work_scheduled' = TRUE
      /\ UNCHANGED <<opts, finish_result, mismatched, process_work, events_out, pause, token,
                     resumed, reported, upload, stored, object>>
  BY DEF ReadDone, AfterBody, userVars, serviceVars
<1>2. stage[Upload(n)] = "preparing" /\ stage[Upload(n)] \in InProgress
  BY <1>1 DEF Read, InProgress
<1>3. /\ synced.pending_read - 1 \in 0 .. MaxPart
      /\ stage[Complete] = "unused" /\ process_work \notin {"finishing", "removed"}
  BY <1>2, PartInProgress
<1>4. new \in SyncedData
  BY <1>3, Zenon DEF TypeOK, SyncedData
<1>5. /\ new.list = synced.list /\ new.create = synced.create /\ new.upload_id = synced.upload_id
      /\ new.started = synced.started /\ new.completed = synced.completed
      /\ new.pending_read = synced.pending_read - 1 /\ new.at_end = end
      /\ new.complete = synced.complete /\ new.abort = synced.abort
  BY DEF TypeOK, SyncedData
<1> HIDE DEF new
<1>6. /\ stage'[Upload(n)] = "signing"
      /\ \A q \in Request : q # Upload(n) => stage'[q] = stage[q]
  BY <1>1, Requests DEF TypeOK
<1>7. TypeOK'
  <2>1. noop' \subseteq Part /\ part_list' \in [Part -> {"null", "previous", "read", "etag"}]
    BY <1>1, SMTT(30) DEF TypeOK
  <2>2. QED
    BY <1>1, <1>4, <2>1, Requests DEF TypeOK, InProgress
<1>8. PhaseInv'
  BY <1>1, <1>5, <1>6, Requests DEF PhaseInv
<1>9. CountInv'
  <2>1. Done' = Done
    BY <1>2, <1>6, Requests DEF Done
  <2>2. Cardinality(Preparing') = Cardinality(Preparing) - 1 /\ Cardinality(Preparing) \in Nat
    BY <1>1, <1>2, PreparingShrinks, PartSets, Zenon DEF Preparing
  <2>3. \A m \in Part : stage'[Upload(m)] = "unused" <=> m > synced'.started
    BY <1>1, <1>2, <1>5, <1>6, Requests, Zenon DEF CountInv
  <2>4. synced.pending_read \in Nat /\ synced.started \in Nat
    BY PutAssumption DEF TypeOK, SyncedData
  <2>5. /\ synced'.completed = Cardinality(Done') /\ (opts'.known => synced'.started <= opts'.body)
    BY <1>1, <1>5, <2>1, Zenon DEF CountInv
  <2>6. Cardinality(Preparing) <= synced.pending_read /\ synced.pending_read <= synced.started
    BY DEF CountInv
  <2>7. synced'.pending_read = synced.pending_read - 1 /\ synced'.started = synced.started
    BY <1>1, <1>5, Zenon
  <2>8. Cardinality(Preparing') <= synced'.pending_read /\ synced'.pending_read <= synced'.started
    <3> DEFINE a == Cardinality(Preparing)
               b == Cardinality(Preparing')
               pending == synced.pending_read
               pendingAfter == synced'.pending_read
               started == synced.started
               startedAfter == synced'.started
    <3>1. /\ b = a - 1 /\ a \in Nat /\ pendingAfter = pending - 1 /\ startedAfter = started
          /\ pending \in Nat /\ started \in Nat /\ a <= pending /\ pending <= started
      BY <2>2, <2>4, <2>6, <2>7, Zenon
    <3> HIDE DEF a, b, pending, pendingAfter, started, startedAfter
    <3>2. b <= pendingAfter /\ pendingAfter <= startedAfter
      BY <3>1, SMTT(30)
    <3>3. QED
      BY <3>2, Zenon DEF b, pendingAfter, startedAfter
  <2>9. QED
    BY <2>3, <2>5, <2>8, ZenonT(40) DEF CountInv
<1>10. ReadInv'
  <2>1. SUFFICES ASSUME Going PROVE ReadInv'
    BY <1>1 DEF ReadInv, Going
  <2>2. synced.started - synced.pending_read = n - 1
    BY <1>1, <2>1, ReadInOrder, SMTT(30)
  <2>3. /\ synced.pending_read \in Nat /\ synced.started \in Nat /\ n \in Nat
        /\ synced'.started - synced'.pending_read = n
    BY <1>1, <1>5, <2>2, PutAssumption, Parts, SMTT(30) DEF TypeOK, SyncedData
  <2>4. \A m \in Part : stage'[Upload(m)] = "preparing" <=>
           synced'.started - synced'.pending_read < m /\ m <= synced'.started
    BY <1>1, <1>5, <1>6, <2>1, <2>2, <2>3, Requests, Parts DEF ReadInv
  <2>5. opts.known \/ IF end THEN n >= opts.body /\ n >= 1 ELSE n <= opts.body
    <3>1. CASE opts.known
      BY <3>1
    <3>2. CASE ~opts.known /\ n < opts.body
      <4>1. end = FALSE
        BY <1>1, <3>2 DEF EndSeen
      <4>2. QED
        BY <3>2, <4>1, Parts
    <3>3. CASE ~opts.known /\ n = opts.body
      BY <3>3, Parts
    <3>4. CASE ~opts.known /\ n > opts.body
      <4>1. ~(n < opts.body) /\ n # opts.body
        BY <3>4, Parts
      <4>2. end = TRUE
        BY <1>1, <3>4, <4>1, Zenon DEF EndSeen
      <4>3. QED
        BY <3>4, <4>2, Parts
    <3>5. QED
      BY <3>1, <3>2, <3>3, <3>4, Parts
  <2>6. QED
    BY <1>1, <1>5, <2>3, <2>4, <2>5, Zenon DEF ReadInv
<1>11. CompleteInv'
  BY <1>3, <1>6, Requests, SMTT(30) DEF CompleteInv
<1>12. ServiceInv'
  BY <1>1, <1>5, <1>6, Requests DEF ServiceInv, Whole, Going
<1>13. EndInv'
  BY <1>1, <1>3 DEF EndInv
<1>14. \A m \in Part : PartInv(m)'
  <2>1. Empty(n) <=> n \notin Whole
    BY Parts DEF Empty, Whole
  <2>2. Whole' = Whole /\ Going' = Going
    BY <1>1 DEF Whole, Going
  <2>3. n \notin noop
    BY <1>2 DEF PartInv
  <2>4. PartInv(n)'
    BY <1>1, <1>2, <1>6, <2>1, <2>2, <2>3, SMTT(30) DEF PartInv, TypeOK
  <2>5. ASSUME NEW m \in Part, m # n PROVE PartInv(m)'
    <3>1. (m \in noop' <=> m \in noop) /\ part_list'[m] = part_list[m]
      BY <1>1, <2>5, SMTT(30) DEF TypeOK
    <3>2. QED
      BY <1>1, <1>6, <2>2, <2>5, <3>1, Requests, Zenon DEF PartInv
  <2>6. QED
    BY <2>4, <2>5
<1>15. QED
  BY <1>7, <1>8, <1>9, <1>10, <1>11, <1>12, <1>13, <1>14

LEMMA ReadMismatchStep ==
    ASSUME IInv, NEW n \in Part, NEW code \in {"RESUME_FAILED", "CHECKSUM_MISMATCH"},
           ReadMismatch(n, code)
    PROVE  IInv'
<1> USE DEF IInv
<1> DEFINE new == [[synced EXCEPT !.pending_read = @ - 1] EXCEPT !.completed = @ + 1]
<1>1. /\ Read(n) /\ part_list[n] = "previous" /\ synced' = new
      /\ finish_result' = IF Going THEN code ELSE finish_result
      /\ noop' = noop \cup {n} /\ mismatched' = TRUE
      /\ stage' = [stage EXCEPT ![Upload(n)] = "done"]
      /\ work_scheduled' = TRUE /\ events_out' = (events_out \/ Callbacks)
      /\ UNCHANGED <<opts, process_work, pause, token, resumed, reported, part_list, upload,
                     stored, object>>
  BY DEF ReadMismatch, SetResult, Ends, Going, userVars, serviceVars
<1>2. stage[Upload(n)] = "preparing" /\ stage[Upload(n)] \in InProgress
  BY <1>1 DEF Read, InProgress
<1>3. /\ synced.pending_read - 1 \in 0 .. MaxPart /\ synced.completed + 1 \in 0 .. MaxPart
      /\ stage[Complete] = "unused" /\ process_work \notin {"finishing", "removed"}
  BY <1>2, PartInProgress
<1>4. new \in SyncedData
  BY <1>3, Zenon DEF TypeOK, SyncedData
<1>5. /\ new.list = synced.list /\ new.create = synced.create /\ new.upload_id = synced.upload_id
      /\ new.started = synced.started /\ new.completed = synced.completed + 1
      /\ new.pending_read = synced.pending_read - 1 /\ new.at_end = synced.at_end
      /\ new.complete = synced.complete /\ new.abort = synced.abort
  BY DEF TypeOK, SyncedData
<1> HIDE DEF new
<1>6. /\ CountInv' /\ stage'[Upload(n)] = "done"
      /\ \A q \in Request : q # Upload(n) => stage'[q] = stage[q]
  BY <1>1, <1>2, <1>5, PartEnds, Zenon
<1>7. ~Going' /\ finish_result' \in Codes
  BY <1>1 DEF Going, TypeOK, Codes
<1>8. TypeOK'
  BY <1>1, <1>4, <1>7, Requests, PutAssumption, SMTT(30) DEF TypeOK
<1>9. PhaseInv'
  BY <1>1, <1>5, <1>6, Requests, SMTT(30) DEF PhaseInv
<1>10. ReadInv'
  BY <1>7, Zenon DEF ReadInv
<1>11. CompleteInv'
  <2>1. stage'[Complete] = "unused"
    BY <1>3, <1>6, Requests
  <2>2. QED
    BY <2>1, Zenon DEF CompleteInv
<1>12. ServiceInv'
  <2>1. resumed # -1
    BY <1>1 DEF PartInv
  <2>2. stage[Abort] # "unused" => ~Going
    BY DEF ServiceInv, Going
  <2>3. QED
    BY <1>1, <1>3, <1>5, <1>6, <1>7, <2>1, <2>2, Requests DEF ServiceInv, Whole, Going
<1>13. EndInv'
  BY <1>1, <1>3, SMTT(30) DEF EndInv
<1>14. \A m \in Part : PartInv(m)'
  BY <1>1, <1>6, <1>7, Requests DEF PartInv, Whole
<1>15. QED
  BY <1>6, <1>8, <1>9, <1>10, <1>11, <1>12, <1>13, <1>14

LEMMA PartSucceededStep ==
    ASSUME IInv, NEW n \in Part, PartSucceeded(n) PROVE IInv'
<1> USE DEF IInv
<1> DEFINE new == [synced EXCEPT !.completed = @ + 1]
<1>1. /\ stage[Upload(n)] = "sent" /\ synced' = new
      /\ upload' = upload /\ stored' = stored \cup {n} /\ object' = object
      /\ part_list' = [part_list EXCEPT ![n] = "etag"]
      /\ stage' = [stage EXCEPT ![Upload(n)] = "done"]
      /\ work_scheduled' = TRUE /\ events_out' = (events_out \/ Callbacks)
      /\ UNCHANGED <<opts, process_work, pause, token, resumed, reported, finish_result, noop,
                     mismatched>>
  <2>1. Upload(n)[2] = n
    BY DEF Upload
  <2>2. QED
    BY <2>1, Requests DEF PartSucceeded, Effect, Ends, userVars
<1>2. stage[Upload(n)] \in InProgress
  BY <1>1 DEF InProgress
<1>3. /\ synced.completed + 1 \in 0 .. MaxPart
      /\ stage[Complete] = "unused" /\ process_work \notin {"finishing", "removed"}
  BY <1>2, PartInProgress
<1>4. new \in SyncedData
  BY <1>3 DEF TypeOK, SyncedData
<1>5. /\ new.list = synced.list /\ new.create = synced.create /\ new.upload_id = synced.upload_id
      /\ new.started = synced.started /\ new.completed = synced.completed + 1
      /\ new.pending_read = synced.pending_read /\ new.at_end = synced.at_end
      /\ new.complete = synced.complete /\ new.abort = synced.abort
  BY DEF TypeOK, SyncedData
<1> HIDE DEF new
<1>6. /\ CountInv' /\ stage'[Upload(n)] = "done"
      /\ \A q \in Request : q # Upload(n) => stage'[q] = stage[q]
  BY <1>1, <1>2, <1>5, PartEnds, Zenon
<1>7. TypeOK'
  BY <1>1, <1>4, Requests, PutAssumption, SMTT(30) DEF TypeOK
<1>8. PhaseInv'
  BY <1>1, <1>5, <1>6, Requests, SMTT(30) DEF PhaseInv
<1>9. ReadInv'
  BY <1>1, <1>5, <1>6, Requests, SMTT(30) DEF ReadInv, Going
<1>10. CompleteInv'
  BY <1>3, <1>6, Requests, SMTT(30) DEF CompleteInv
<1>11. ServiceInv'
  BY <1>1, <1>5, <1>6, Requests DEF ServiceInv, Whole, Going
<1>12. EndInv'
  BY <1>1, <1>3, SMTT(30) DEF EndInv
<1>13. \A m \in Part : PartInv(m)'
  BY <1>1, <1>6, Requests DEF PartInv, Whole, Going, TypeOK
<1>14. QED
  BY <1>6, <1>7, <1>8, <1>9, <1>10, <1>11, <1>12, <1>13
-----------------------------------------------------------------------------
\* What a request that is carried out does to the service.
LEMMA Effects ==
    ASSUME NEW r \in Request, Effect(r)
    PROVE  /\ r = List => UNCHANGED <<upload, stored, object>>
           /\ r = Create => upload' = "open" /\ UNCHANGED <<stored, object>>
           /\ r = Complete => upload' = "completed" /\ object' = Listed /\ UNCHANGED stored
           /\ r = Abort => upload' = "aborted" /\ UNCHANGED <<stored, object>>
           /\ \A n \in Part : r = Upload(n) => /\ UNCHANGED <<upload, object>>
                                               /\ stored' = stored \cup {n}
<1>1. \A n \in Part : Upload(n)[2] = n
  BY DEF Upload
<1>2. QED
  BY <1>1, Requests DEF Effect

LEMMA ResponseLostStep ==
    ASSUME IInv, NEW r \in Request, ResponseLost(r) PROVE IInv'
<1> USE DEF IInv
<1>1. /\ stage[r] = "sent" /\ r \notin {Create, List} /\ upload = "open" /\ Effect(r)
      /\ UNCHANGED <<opts, synced, part_list, finish_result, stage, noop, mismatched,
                     work_scheduled, process_work, events_out, pause, token, resumed, reported>>
  BY DEF ResponseLost, metaVars, taskVars, userVars
<1>2. stage[r] \in InProgress /\ process_work \notin {"finishing", "removed"}
  BY <1>1, Requests, Zenon DEF InProgress, EndInv
<1>3. PhaseInv' /\ CountInv' /\ ReadInv'
  BY <1>1 DEF PhaseInv, CountInv, ReadInv, Going, Done, Preparing
<1>4. Whole' = Whole /\ Listed' = Listed /\ MorePartsToStart' = MorePartsToStart
      /\ Going' = Going
  BY <1>1 DEF Whole, Listed, MorePartsToStart, Going
<1>5. EndInv'
  BY <1>1, <1>2 DEF EndInv
<1>6. CASE r = Complete
  <2>1. upload' = "completed" /\ object' = Listed /\ UNCHANGED stored
    BY <1>1, <1>6, Effects
  <2>2. Listed = Whole
    BY <1>1, <1>6 DEF CompleteInv
  <2>3. TypeOK'
    BY <1>1, <2>1 DEF TypeOK, Listed
  <2>4. CompleteInv'
    BY <1>1, <1>4, <2>1 DEF CompleteInv
  <2>5. ServiceInv'
    <3>1. synced.complete = "sent" /\ stage[Abort] = "unused"
      BY <1>2, <1>6 DEF PhaseInv, ServiceInv
    <3>2. finish_result # "SUCCESS"
      BY <1>1 DEF ServiceInv
    <3>3. QED
      BY <1>1, <1>4, <2>1, <2>2, <3>1, <3>2 DEF ServiceInv
  <2>6. \A n \in Part : PartInv(n)'
    BY <1>1, <1>4, <2>1 DEF PartInv
  <2>7. QED
    BY <1>3, <1>5, <2>3, <2>4, <2>5, <2>6
<1>7. CASE r = Abort
  <2>1. upload' = "aborted" /\ UNCHANGED <<stored, object>>
    BY <1>1, <1>7, Effects
  <2>2. TypeOK'
    BY <1>1, <2>1 DEF TypeOK
  <2>3. CompleteInv'
    BY <1>1, <1>4, <2>1 DEF CompleteInv
  <2>4. ServiceInv'
    BY <1>1, <1>4, <1>7, <2>1 DEF ServiceInv
  <2>5. \A n \in Part : PartInv(n)'
    BY <1>1, <1>4, <2>1 DEF PartInv
  <2>6. QED
    BY <1>3, <1>5, <2>2, <2>3, <2>4, <2>5
<1>8. CASE r \notin {Complete, Abort}
  <2>1. PICK n \in Part : r = Upload(n)
    BY <1>1, <1>8, Requests
  <2>2. UNCHANGED <<upload, object>> /\ stored' = stored \cup {n}
    BY <1>1, <2>1, Effects
  <2>3. TypeOK'
    BY <1>1, <2>2 DEF TypeOK
  <2>4. CompleteInv'
    BY <1>1, <1>4, <2>2 DEF CompleteInv
  <2>5. ServiceInv'
    BY <1>1, <1>4, <2>2 DEF ServiceInv
  <2>6. \A m \in Part : PartInv(m)'
    BY <1>1, <1>4, <2>1, <2>2 DEF PartInv
  <2>7. QED
    BY <1>3, <1>5, <2>3, <2>4, <2>5, <2>6, SMTT(30)
<1>9. QED
  BY <1>6, <1>7, <1>8

LEMMA ListSucceededStep ==
    ASSUME IInv, NEW last \in Part, ListSucceeded(last) PROVE IInv'
<1> USE DEF IInv
<1> DEFINE unlisted == {n \in stored : part_list[n] = "null"}
           page == {n \in unlisted : n <= last}
           phase == IF page = unlisted THEN "completed" ELSE "continues"
           new == [synced EXCEPT !.list = phase]
<1>1. /\ stage[List] = "sent" /\ upload = "open" /\ synced' = new
      /\ part_list' = [n \in Part |-> IF n \in page THEN "previous" ELSE part_list[n]]
      /\ stage' = [stage EXCEPT ![List] = "done"]
      /\ work_scheduled' = TRUE /\ events_out' = (events_out \/ Callbacks)
      /\ UNCHANGED <<opts, process_work, pause, token, resumed, reported, finish_result, noop,
                     mismatched, upload, stored, object>>
  BY DEF ListSucceeded, Ends, userVars, serviceVars
<1>2. phase \in {"completed", "continues"} /\ \A n \in page : n \in stored
  OBVIOUS
<1> HIDE DEF page, phase
<1>3. new \in SyncedData
  BY <1>2 DEF TypeOK, SyncedData
<1>4. /\ new.list = phase /\ new.create = synced.create /\ new.upload_id = synced.upload_id
      /\ new.started = synced.started /\ new.completed = synced.completed
      /\ new.pending_read = synced.pending_read /\ new.at_end = synced.at_end
      /\ new.complete = synced.complete /\ new.abort = synced.abort
  BY DEF TypeOK, SyncedData
<1> HIDE DEF new
<1>5. /\ stage'[List] = "done"
      /\ \A q \in Request : q # List => stage'[q] = stage[q]
  BY <1>1, Requests DEF TypeOK
<1>6. /\ synced.started = 0 /\ synced.complete = "to_send" /\ synced.list = "sent"
      /\ stage[Complete] = "unused"
  BY <1>1, SMTT(30) DEF PhaseInv, InProgress
<1>7. TypeOK'
  <2>1. part_list' \in [Part -> {"null", "previous", "read", "etag"}]
    BY <1>1, SMTT(30) DEF TypeOK
  <2>2. QED
    BY <1>1, <1>3, <2>1, Requests, PutAssumption DEF TypeOK
<1>8. PhaseInv'
  BY <1>1, <1>2, <1>4, <1>5, <1>6, Requests, ZenonT(40) DEF PhaseInv, InProgress
<1>9. CompleteInv'
  BY <1>5, <1>6, Requests, Zenon DEF CompleteInv
<1>10. ServiceInv'
  BY <1>1, <1>4, <1>5, <1>6, Requests DEF ServiceInv, Whole, Going
<1>11. EndInv'
  BY <1>1, <1>5, Requests DEF EndInv, Going
<1>12. CountInv' /\ ReadInv'
  BY <1>1, <1>4, PartsAlone, Zenon DEF Going
<1>13. \A n \in Part : PartInv(n)'
  <2>1. \A n \in Part : stage[Upload(n)] = "unused" /\ stage'[Upload(n)] = "unused"
    BY <1>5, <1>6, Requests, Parts DEF CountInv
  <2>2. resumed # -1
    BY <1>6 DEF ServiceInv
  <2>3. QED
    BY <1>1, <1>2, <2>1, <2>2, SMTT(30) DEF PartInv, Whole, Going
<1>14. QED
  BY <1>7, <1>8, <1>9, <1>10, <1>11, <1>12, <1>13
LEMMA CreateSucceededStep ==
    ASSUME IInv, CreateSucceeded PROVE IInv'
<1> USE DEF IInv
<1> DEFINE new == [synced EXCEPT !.create = "completed", !.upload_id = TRUE]
<1>1. /\ stage[Create] = "sent" /\ synced' = new
      /\ upload' = "open"
      /\ stage' = [stage EXCEPT ![Create] = "done"]
      /\ work_scheduled' = TRUE /\ events_out' = (events_out \/ Callbacks)
      /\ UNCHANGED <<opts, process_work, pause, token, resumed, reported, finish_result, noop,
                     mismatched, part_list, stored, object>>
  BY Requests, Effects DEF CreateSucceeded, Ends, userVars
<1>2. new \in SyncedData
  BY Zenon DEF TypeOK, SyncedData
<1>3. /\ new.list = synced.list /\ new.create = "completed" /\ new.upload_id = TRUE
      /\ new.started = synced.started /\ new.completed = synced.completed
      /\ new.pending_read = synced.pending_read /\ new.at_end = synced.at_end
      /\ new.complete = synced.complete /\ new.abort = synced.abort
  BY DEF TypeOK, SyncedData
<1> HIDE DEF new
<1>4. /\ stage'[Create] = "done"
      /\ \A q \in Request : q # Create => stage'[q] = stage[q]
  BY <1>1, Requests, SMTT(30) DEF TypeOK
<1>5. /\ synced.create = "sent" /\ upload = "none" /\ synced.complete = "to_send"
      /\ stage[Complete] = "unused" /\ process_work \notin {"finishing", "removed"}
  BY <1>1, Requests, SMTT(30) DEF PhaseInv, ServiceInv, EndInv, InProgress
<1>6. TypeOK'
  BY <1>1, <1>2, Requests, PutAssumption, SMTT(30) DEF TypeOK
<1>7. PhaseInv'
  BY <1>1, <1>3, <1>4, <1>5, Requests, SMTT(30) DEF PhaseInv, InProgress
<1>8. CompleteInv'
  BY <1>4, <1>5, Requests, SMTT(30) DEF CompleteInv
<1>9. ServiceInv'
  <2>1. finish_result # "SUCCESS"
    BY <1>5 DEF ServiceInv
  <2>2. QED
    BY <1>1, <1>3, <1>4, <1>5, <2>1, Requests DEF ServiceInv, Whole, Going
<1>10. EndInv'
  BY <1>1, <1>5 DEF EndInv
<1>11. CountInv' /\ ReadInv' /\ \A n \in Part : PartInv(n)'
  BY <1>1, <1>3, PartsAlone, Zenon DEF Going
<1>12. QED
  BY <1>6, <1>7, <1>8, <1>9, <1>10, <1>11

LEMMA CompleteSucceededStep ==
    ASSUME IInv, CompleteSucceeded PROVE IInv'
<1> USE DEF IInv
<1> DEFINE new == [synced EXCEPT !.complete = "succeeded"]
<1>1. /\ stage[Complete] = "sent" /\ synced' = new
      /\ upload' = "completed" /\ object' = Listed /\ upload \in {"open", "completed"}
      /\ stage' = [stage EXCEPT ![Complete] = "done"]
      /\ work_scheduled' = TRUE /\ events_out' = (events_out \/ Callbacks)
      /\ UNCHANGED <<opts, process_work, pause, token, resumed, reported, finish_result, noop,
                     mismatched, part_list, stored>>
  BY Requests, Effects DEF CompleteSucceeded, Ends, userVars
<1>2. new \in SyncedData
  BY DEF TypeOK, SyncedData
<1>3. /\ new.list = synced.list /\ new.create = synced.create /\ new.upload_id = synced.upload_id
      /\ new.started = synced.started /\ new.completed = synced.completed
      /\ new.pending_read = synced.pending_read /\ new.at_end = synced.at_end
      /\ new.complete = "succeeded" /\ new.abort = synced.abort
  BY DEF TypeOK, SyncedData
<1> HIDE DEF new
<1>4. /\ stage'[Complete] = "done"
      /\ \A q \in Request : q # Complete => stage'[q] = stage[q]
  BY <1>1, Requests, SMTT(30) DEF TypeOK
<1>5. /\ synced.complete = "sent" /\ stage[Abort] = "unused" /\ Listed = Whole
      /\ process_work \notin {"finishing", "removed"}
  BY <1>1, Requests, SMTT(30) DEF PhaseInv, ServiceInv, CompleteInv, EndInv, InProgress
<1>6. TypeOK'
  BY <1>1, <1>2, Requests, PutAssumption, SMTT(30) DEF TypeOK, Listed
<1>7. PhaseInv'
  BY <1>1, <1>3, <1>4, <1>5, Requests DEF PhaseInv, InProgress
<1>8. CompleteInv'
  BY <1>1, <1>3, <1>4, Requests, ZenonT(40) DEF CompleteInv, Listed, Whole, MorePartsToStart
<1>9. ServiceInv'
  BY <1>1, <1>3, <1>4, <1>5, Requests DEF ServiceInv, Whole, Going
<1>10. EndInv'
  BY <1>1, <1>5 DEF EndInv
<1>11. CountInv' /\ ReadInv' /\ \A n \in Part : PartInv(n)'
  BY <1>1, <1>3, PartsAlone, Zenon DEF Going
<1>12. QED
  BY <1>6, <1>7, <1>8, <1>9, <1>10, <1>11

LEMMA AbortSucceededStep ==
    ASSUME IInv, AbortSucceeded PROVE IInv'
<1> USE DEF IInv
<1> DEFINE new == [synced EXCEPT !.abort = "completed"]
<1>1. /\ stage[Abort] = "sent" /\ synced' = new
      /\ upload' = "aborted" /\ upload = "open"
      /\ stage' = [stage EXCEPT ![Abort] = "done"]
      /\ work_scheduled' = TRUE /\ events_out' = (events_out \/ Callbacks)
      /\ UNCHANGED <<opts, process_work, pause, token, resumed, reported, finish_result, noop,
                     mismatched, part_list, stored, object>>
  BY Requests, Effects DEF AbortSucceeded, Ends, userVars
<1>2. new \in SyncedData
  BY DEF TypeOK, SyncedData
<1>3. /\ new.list = synced.list /\ new.create = synced.create /\ new.upload_id = synced.upload_id
      /\ new.started = synced.started /\ new.completed = synced.completed
      /\ new.pending_read = synced.pending_read /\ new.at_end = synced.at_end
      /\ new.complete = synced.complete /\ new.abort = "completed"
  BY DEF TypeOK, SyncedData
<1> HIDE DEF new
<1>4. /\ stage'[Abort] = "done"
      /\ \A q \in Request : q # Abort => stage'[q] = stage[q]
  BY <1>1, Requests DEF TypeOK
<1>5. process_work \notin {"finishing", "removed"} /\ synced.create = "completed"
  BY <1>1, Requests, SMTT(30) DEF PhaseInv, EndInv, InProgress
<1>6. TypeOK'
  BY <1>1, <1>2, Requests, PutAssumption, SMTT(30) DEF TypeOK
<1>7. PhaseInv'
  BY <1>1, <1>3, <1>4, <1>5, Requests, SMTT(30) DEF PhaseInv, InProgress
<1>8. CompleteInv'
  BY <1>1, <1>3, <1>4, Requests, SMTT(30) DEF CompleteInv, Listed, Whole, MorePartsToStart
<1>9. ServiceInv'
  BY <1>1, <1>3, <1>4, <1>5, Requests DEF ServiceInv, Whole, Going
<1>10. EndInv'
  BY <1>1, <1>5 DEF EndInv
<1>11. CountInv' /\ ReadInv' /\ \A n \in Part : PartInv(n)'
  BY <1>1, <1>3, PartsAlone, Zenon DEF Going
<1>12. QED
  BY <1>6, <1>7, <1>8, <1>9, <1>10, <1>11

\* A new meta request takes over the upload; the service keeps what it holds.
LEMMA ResumeStep ==
    ASSUME IInv, Resume PROVE IInv'
<1> USE DEF IInv
<1>1. /\ resumed = -1 /\ token.upload_id /\ resumed' = token.completed /\ synced' = NewSynced(TRUE)
      /\ part_list' = [n \in Part |-> "null"] /\ finish_result' = "none"
      /\ stage' = [r \in Request |-> "unused"] /\ noop' = {} /\ work_scheduled' = TRUE
      /\ process_work' = "idle" /\ events_out' = FALSE /\ pause' = "none" /\ token' = NoToken
      /\ reported' = "none" /\ UNCHANGED <<opts, mismatched, upload, stored, object>>
  BY DEF Resume, serviceVars
<1>2. resumed' \in 0 .. MaxPart /\ resumed' # -1
  BY <1>1 DEF TypeOK
<1>3. /\ synced'.list = "to_send" /\ synced'.create = "completed" /\ synced'.upload_id = TRUE
      /\ synced'.started = 0 /\ synced'.completed = 0 /\ synced'.pending_read = 0
      /\ synced'.at_end = FALSE /\ synced'.complete = "to_send" /\ synced'.abort = "to_send"
      /\ synced' \in SyncedData
  BY <1>1, PutAssumption DEF NewSynced, SyncedData
<1>4. \A r \in Request : stage'[r] = "unused"
  BY <1>1
<1>5. ~mismatched /\ upload # "none"
  BY <1>1 DEF ServiceInv
<1>6. TypeOK'
  <2>1. NoToken \in [built : BOOLEAN, upload_id : BOOLEAN, completed : 0 .. MaxPart]
    BY PutAssumption DEF NoToken
  <2>2. part_list' \in [Part -> {"null", "previous", "read", "etag"}]
    BY <1>1
  <2>3. stage' \in [Request -> InProgress \cup {"unused", "done"}]
    BY <1>1
  <2>4. resumed' \in -1 .. MaxPart
    BY <1>2, PutAssumption
  <2>5. {work_scheduled', events_out', mismatched'} \subseteq BOOLEAN
    BY <1>1, Zenon DEF TypeOK
  <2>6. opts' \in Options /\ upload' \in {"none", "open", "completed", "aborted"}
        /\ stored' \subseteq Part /\ object' \subseteq Part
    BY <1>1, SMTT(30) DEF TypeOK
  <2>7. QED
    BY <1>1, <1>3, <2>1, <2>2, <2>3, <2>4, <2>5, <2>6, Zenon DEF TypeOK
<1>7. PhaseInv'
  BY <1>3, <1>4, Requests, SMTT(30) DEF PhaseInv, InProgress
<1>8. CountInv'
  <2>1. Done' = {} /\ Preparing' = {}
    BY <1>4, Requests DEF Done, Preparing
  <2>2. \A n \in Part : stage'[Upload(n)] = "unused" /\ n > 0
    BY <1>4, Requests, Parts
  <2>3. opts'.known => 0 <= opts'.body
    BY <1>1, Parts
  <2>4. QED
    BY <1>3, <2>1, <2>2, <2>3, FS_EmptySet, SMTT(30) DEF CountInv
<1>9. ReadInv'
  <2>1. \A n \in Part : stage'[Upload(n)] = "unused" /\ n > 0 /\ n \in Nat
    BY <1>4, Requests, Parts
  <2>2. 0 <= opts'.body
    BY <1>1, Parts
  <2>3. QED
    BY <1>3, <2>1, <2>2 DEF ReadInv
<1>10. CompleteInv'
  BY <1>4, Requests DEF CompleteInv
<1>11. ServiceInv'
  BY <1>1, <1>2, <1>3, <1>4, <1>5, Requests, Zenon DEF ServiceInv, Going, NoToken, Whole
<1>12. EndInv'
  BY <1>1, SMTT(30) DEF EndInv
<1>13. \A n \in Part : PartInv(n)'
  BY <1>1, <1>4, Requests DEF PartInv, Whole
<1>14. QED
  BY <1>6, <1>7, <1>8, <1>9, <1>10, <1>11, <1>12, <1>13

LEMMA InitEstablishes == Init => IInv
<1> SUFFICES ASSUME Init PROVE IInv
  OBVIOUS
<1>1. /\ synced.list = "completed" /\ synced.create = "to_send" /\ synced.upload_id = FALSE
      /\ synced.started = 0 /\ synced.completed = 0 /\ synced.pending_read = 0
      /\ synced.at_end = FALSE /\ synced.complete = "to_send" /\ synced.abort = "to_send"
      /\ synced \in SyncedData
  BY PutAssumption DEF Init, NewSynced, SyncedData
<1>2. \A r \in Request : stage[r] = "unused"
  BY DEF Init
<1>3. TypeOK
  <2>1. NoToken \in [built : BOOLEAN, upload_id : BOOLEAN, completed : 0 .. MaxPart]
    BY PutAssumption DEF NoToken
  <2>2. part_list \in [Part -> {"null", "previous", "read", "etag"}]
    BY DEF Init
  <2>3. stage \in [Request -> InProgress \cup {"unused", "done"}]
    BY DEF Init
  <2>4. resumed \in -1 .. MaxPart
    BY PutAssumption DEF Init
  <2>5. QED
    BY <1>1, <2>1, <2>2, <2>3, <2>4, Zenon DEF Init, TypeOK
<1>4. PhaseInv
  BY <1>1, <1>2, Requests DEF PhaseInv, InProgress
<1>5. CountInv
  <2>1. Done = {} /\ Preparing = {}
    BY <1>2, Requests DEF Done, Preparing
  <2>2. \A n \in Part : stage[Upload(n)] = "unused" /\ n > 0
    BY <1>2, <1>3, Requests, Parts
  <2>3. opts.known => 0 <= opts.body
    BY <1>3, Parts
  <2>4. QED
    BY <1>1, <2>1, <2>2, <2>3, FS_EmptySet DEF CountInv
<1>6. ReadInv
  <2>1. \A n \in Part : stage[Upload(n)] = "unused" /\ n > 0 /\ n \in Nat
    BY <1>2, <1>3, Requests, Parts
  <2>2. 0 <= opts.body
    BY <1>3, Parts, SMTT(30)
  <2>3. QED
    BY <1>1, <2>1, <2>2 DEF ReadInv
<1>7. CompleteInv
  BY <1>2, Requests DEF CompleteInv
<1>8. ServiceInv
  BY <1>1, <1>2, Requests, Zenon DEF Init, ServiceInv, Going, NoToken
<1>9. EndInv
  BY DEF Init, EndInv
<1>10. \A n \in Part : PartInv(n)
  BY <1>2, Requests DEF Init, PartInv
<1>11. QED
  BY <1>3, <1>4, <1>5, <1>6, <1>7, <1>8, <1>9, <1>10 DEF IInv
\* Every step of the upload, of its user and of the service keeps the invariant.
LEMMA NextPreserves ==
    ASSUME IInv, [Next]_vars PROVE IInv'
<1>1. CASE ProcessWork
  BY <1>1, StartWorkStep, UpdateListStep, UpdateCreateStep, UpdateStartPartStep,
     UpdateCompleteStep, UpdateAbortStep, UpdateWaitStep, UpdateFinishStep, FinishDefaultStep
     DEF ProcessWork
<1>2. ASSUME NEW r \in Request, RequestStep(r) \/ ResponseLost(r) PROVE IInv'
  BY <1>2, PreparedStep, PrepareFailsStep, SendRequestStep, DropRequestStep, RequestFailedStep,
     ResponseLostStep DEF RequestStep
<1>3. ASSUME NEW n \in Part, PartStep(n) PROVE IInv'
  BY <1>3, ReadDoneStep, ReadMismatchStep, PartSucceededStep DEF PartStep
<1>4. CASE Answers
  BY <1>4, ListSucceededStep, CreateSucceededStep, CompleteSucceededStep, AbortSucceededStep
     DEF Answers
<1>5. CASE DeliverEvents \/ Cancel \/ Pause \/ PauseAsync \/ Resume
  BY <1>5, DeliverEventsStep, CancelStep, PauseStep, PauseAsyncStep, ResumeStep
<1>6. CASE UNCHANGED vars
  <2> USE <1>6 DEF vars, metaVars, taskVars, userVars, serviceVars, IInv
  <2>1. TypeOK'
    BY SMTT(30) DEF TypeOK
  <2>2. ServiceInv' /\ EndInv'
    BY DEF ServiceInv, EndInv, Going, Whole
  <2>3. QED
    BY <2>1, <2>2, RequestsAlone DEF Going
<1>7. QED
  BY <1>1, <1>2, <1>3, <1>4, <1>5, <1>6 DEF Next

LEMMA UploadInvariance == Spec => []IInv
BY InitEstablishes, NextPreserves, PTL DEF Spec

\* The parts s_s3_auto_ranged_put_update names in the CompleteMultipartUpload
\* are those of the whole body, each of them stored, and a body found to differ
\* on resume is never completed: for every length of the body, known or not,
\* and however parts, no-ops and reads past the end interleave.
THEOREM UploadedObjectIsTheBody == Spec => []ObjectIsTheBody
<1>1. IInv => ObjectIsTheBody
  BY Requests, Zenon DEF IInv, ObjectIsTheBody, ObjectIsWhole, MismatchNeverCompletes, CompleteInv,
     ServiceInv, InProgress
<1>2. QED
  BY <1>1, UploadInvariance, PTL

\* A finish callback with success means that the object exists (an upload that
\* was not resumed) and that no multipart upload is left open.
THEOREM UploadSuccessIsReal == Spec => []SuccessIsReal
<1>1. IInv => SuccessIsReal
  BY DEF IInv, SuccessIsReal, SuccessMeansObject, SuccessClosesUpload, ServiceInv, EndInv
<1>2. QED
  BY <1>1, UploadInvariance, PTL

\* When the finish callback reports a failure or a cancel the multipart upload
\* is gone or its abort was tried; one that was paused is never aborted.
THEOREM UploadIsLeftAsAsked == Spec => []UploadLeftAsAsked
<1>1. IInv => UploadLeftAsAsked
  BY DEF IInv, UploadLeftAsAsked, FailureAborts, PauseKeepsParts, ServiceInv, EndInv
<1>2. QED
  BY <1>1, UploadInvariance, PTL

\* The counters of synced_data describe the requests: num_parts_pending_read is
\* the number of parts still to be read as long as the upload goes on, and a
\* meta request that finished has no request left but a listing.
THEOREM UploadWorkIsAccounted == Spec => []WorkIsAccounted
<1>1. ASSUME IInv PROVE ReadsCounted
  <2> USE <1>1 DEF IInv
  <2> SUFFICES ASSUME Going PROVE synced.pending_read = Cardinality(Preparing)
    BY DEF ReadsCounted, Going, Preparing
  <2> DEFINE k == synced.started - synced.pending_read
  <2>1. /\ synced.started \in Nat /\ synced.pending_read \in Nat /\ k \in Nat
        /\ synced.started <= MaxPart
    <3>1. synced.started \in 0 .. MaxPart /\ synced.pending_read \in 0 .. MaxPart
      BY DEF TypeOK, SyncedData
    <3>2. synced.pending_read <= synced.started
      BY DEF CountInv
    <3>3. QED
      BY <3>1, <3>2, PutAssumption
  <2>2. Preparing = (k + 1) .. synced.started
    <3>1. \A n \in Part : n \in Preparing <=> k < n /\ n <= synced.started
      BY DEF Preparing, ReadInv
    <3>2. \A n \in (k + 1) .. synced.started : n \in Part
      BY <2>1, Parts
    <3>3. \A n \in Preparing : n \in Part /\ n \in Nat
      BY Parts DEF Preparing
    <3>4. k \in Nat /\ synced.started \in Nat
      BY <2>1
    <3> HIDE <1>1 DEF k, IInv
    <3>5. \A n \in Nat : n \in (k + 1) .. synced.started <=> k < n /\ n <= synced.started
      BY <3>4
    <3>6. \A n \in (k + 1) .. synced.started : n \in Nat
      BY <3>4
    <3>7. QED
      BY <3>1, <3>2, <3>3, <3>5, <3>6, Zenon
  <2>3. k + 1 \in Int /\ synced.started \in Int
    BY <2>1
  <2>4. Cardinality((k + 1) .. synced.started) =
          IF k + 1 > synced.started THEN 0 ELSE synced.started - (k + 1) + 1
    <3> HIDE DEF k
    <3> QED
      BY <2>3, FS_Interval
  <2>5. QED
    BY <2>1, <2>2, <2>4
<1>2. IInv => WorkIsAccounted
  BY <1>1 DEF IInv, WorkIsAccounted, FinishIsQuiet, EndInv
<1>3. QED
  BY <1>2, UploadInvariance, PTL
-----------------------------------------------------------------------------
(***************************************************************************)
(* Products are monotone and distribute: what the solver needs to be told  *)
(* about the multiplications of part numbers by part sizes.                *)
(***************************************************************************)
LEMMA MulMono ==
  ASSUME NEW a \in Int, NEW b \in Int, NEW c \in Nat, a <= b
  PROVE  a * c <= b * c
  BY SMT

LEMMA MulFacts ==
  ASSUME NEW a \in Int, NEW b \in Int, NEW c \in Int
  PROVE  /\ (a + b) * c = a * c + b * c
         /\ (a - b) * c = a * c - b * c
         /\ a * c = c * a
         /\ a * c \in Int
  BY SMT

(***************************************************************************)
(* The quotient and remainder of C's unsigned division, and that they are  *)
(* the only ones. (the / and % of s3_util.c and s_next_part_number_synced) *)
(***************************************************************************)
LEMMA DivMod ==
  ASSUME NEW a \in Nat, NEW b \in Nat \ {0}
  PROVE  /\ a \div b \in Nat
         /\ a % b \in 0 .. b - 1
         /\ a = (a \div b) * b + (a % b)
  BY SMT

LEMMA DivUnique ==
  ASSUME NEW q \in Nat, NEW b \in Nat \ {0}, NEW r \in 0 .. b - 1
  PROVE  /\ (q * b + r) \div b = q
         /\ (q * b + r) % b = r
  BY SMT

(***************************************************************************)
(* Dividing and rounding up gives the least number of pieces of length b   *)
(* that hold a bytes.                                                      *)
(***************************************************************************)
LEMMA CeilDivFits ==
  ASSUME NEW a \in Nat \ {0}, NEW b \in Nat \ {0}
  PROVE  /\ CeilDiv(a, b) \in Nat \ {0}
         /\ (CeilDiv(a, b) - 1) * b < a
         /\ a <= CeilDiv(a, b) * b
<1> DEFINE q == a \div b
           r == a % b
<1>1. q \in Nat /\ r \in 0 .. b - 1 /\ a = q * b + r
  BY DivMod, Zenon
<1> HIDE DEF q, r
<1>2. CeilDiv(a, b) = q + (IF r > 0 THEN 1 ELSE 0)
  BY DEF CeilDiv, q, r
<1>3. (q + 1) * b = q * b + b /\ (q - 1) * b = q * b - b
  BY <1>1, SMT
<1>4. CASE r > 0
  <2>1. CeilDiv(a, b) = q + 1 /\ CeilDiv(a, b) - 1 = q
    BY <1>1, <1>2, <1>4
  <2>2. q * b < a /\ a <= (q + 1) * b
    BY <1>1, <1>3, <1>4, SMT
  <2> QED
    BY <2>1, <2>2, <1>1
<1>5. CASE r = 0
  <2>1. CeilDiv(a, b) = q
    BY <1>1, <1>2, <1>5
  <2>2. q # 0
    BY <1>1, <1>5, SMT
  <2> QED
    BY <2>1, <2>2, <1>1, <1>3, <1>5, SMT
<1> QED
  BY <1>1, <1>4, <1>5

(***************************************************************************)
(* The upload split, for every content length, part size and part limit.   *)
(* (aws_s3_calculate_optimal_mpu_part_size_and_num_parts)                  *)
(***************************************************************************)
LEMMA MpuSplit ==
  ASSUME NEW len \in Nat \ {0}, NEW part \in Nat \ {0}, NEW max \in Nat \ {0}
  PROVE  LET size  == MpuPartSize(len, part, max)
             parts == MpuNumParts(len, part, max)
         IN  /\ parts \in 1 .. max
             /\ (parts - 1) * size < len
             /\ len <= parts * size
<1> DEFINE needed == CeilDiv(len, max)
           chosen == IF needed < part THEN part ELSE needed
           size == MpuPartSize(len, part, max)
           parts == MpuNumParts(len, part, max)
<1>1. needed \in Nat \ {0} /\ len <= needed * max
  BY CeilDivFits
<1>2. size = IF len < chosen THEN len ELSE chosen
  BY DEF MpuPartSize, AtMost
<1>3. parts = CeilDiv(len, size)
  BY DEF MpuNumParts
<1> HIDE DEF needed, size, parts
<1>4. size \in Nat \ {0}
  BY <1>1, <1>2
<1>5. /\ parts \in Nat \ {0}
      /\ (parts - 1) * size < len
      /\ len <= parts * size
  BY <1>3, <1>4, CeilDivFits
<1>6. parts <= max
  <2>1. CASE size >= needed
    <3>1. needed * max <= size * max
      BY <1>1, <1>4, <2>1, MulMono
    <3>2. (parts - 1) * size < max * size
      BY <1>1, <1>4, <1>5, <3>1, SMT
    <3>3. SUFFICES ASSUME parts - 1 >= max PROVE FALSE
      BY <1>5
    <3>4. max * size <= (parts - 1) * size
      BY <1>4, <1>5, <3>3, MulMono
    <3> QED
      BY <3>2, <3>4, <1>4, <1>5, SMT
  <2>2. CASE size < needed
    <3>1. size = len
      BY <1>1, <1>2, <2>2
    <3>2. parts - 1 < 1
      BY <1>4, <1>5, <3>1, SMT
    <3> QED
      BY <3>2, <1>5
  <2> QED
    BY <1>1, <1>4, <2>1, <2>2
<1> QED
  BY <1>5, <1>6 DEF size, parts

\* The parts of the range s .. e follow each other from s to e.
Contiguous(P, F, s, e) ==
    /\ NumParts(P, F, s, e) \in Nat \ {0}
    /\ \A n \in 1 .. NumParts(P, F, s, e) :
          /\ PartFirst(P, F, s, n) \in s .. e
          /\ PartLast(P, F, s, e, n) =
               IF n = NumParts(P, F, s, e) THEN e ELSE PartFirst(P, F, s, n + 1) - 1

(***************************************************************************)
(* The ranges of a download for every range and part size: each part       *)
(* starts inside the range, and ends where the next one starts or, the     *)
(* last one, at the end. (aws_s3_calculate_auto_ranged_get_num_parts and   *)
(* aws_s3_calculate_auto_ranged_get_part_range)                            *)
(***************************************************************************)
LEMMA PartsAreContiguous ==
  ASSUME NEW P \in Nat \ {0}, NEW F \in Nat \ {0}, NEW s \in Nat, NEW e \in Nat, s <= e
  PROVE  Contiguous(P, F, s, e)
<1> DEFINE N == NumParts(P, F, s, e)
           rest == e + 1 - (s + F)
<1>1. CASE s + F > e
  <2>1. N = 1
    BY <1>1 DEF NumParts
  <2> QED
    BY <1>1, <2>1 DEF Contiguous, PartFirst, PartLast, AtMost
<1>2. CASE ~(s + F > e)
  <2>1. rest \in Nat \ {0}
    BY <1>2
  <2>2. N = 1 + CeilDiv(rest, P)
    BY <1>2 DEF NumParts
  <2> DEFINE c == CeilDiv(rest, P)
  <2>3. c \in Nat \ {0} /\ (c - 1) * P < rest /\ rest <= c * P
    BY <2>1, CeilDivFits
  <2> HIDE DEF c
  <2>4. N \in Nat \ {0} /\ N = 1 + c
    BY <2>2, <2>3 DEF c
  <2> HIDE DEF N
  <2>5. ASSUME NEW n \in 1 .. N
        PROVE  /\ PartFirst(P, F, s, n) \in s .. e
               /\ PartLast(P, F, s, e, n) =
                        IF n = N THEN e ELSE PartFirst(P, F, s, n + 1) - 1
    <3>1. CASE n = 1
      <4>1. PartFirst(P, F, s, n) = s /\ PartLast(P, F, s, e, n) = s + F - 1
        BY <1>2, <3>1 DEF PartFirst, PartLast, AtMost
      <4>2. n # N /\ PartFirst(P, F, s, n + 1) = s + F
        BY <2>3, <2>4, <3>1 DEF PartFirst
      <4> QED
        BY <4>1, <4>2
    <3>2. CASE n # 1
      <4> DEFINE t == (n - 2) * P
      <4>1. t \in Nat /\ PartFirst(P, F, s, n) = s + t + F
        BY <3>2, <2>4, MulFacts DEF PartFirst
      <4>2. (n - 1) * P = t + P
        BY <2>4, SMT
      <4>3. t <= (c - 1) * P
        BY <2>3, <2>4, MulMono
      <4>4. PartFirst(P, F, s, n + 1) = s + t + P + F
        <5>1. n + 1 # 1 /\ (n + 1) - 2 = n - 1
          BY <2>4
        <5> QED
          BY <5>1, <4>1, <4>2, <2>4 DEF PartFirst
      <4>5. PartLast(P, F, s, e, n) = AtMost(e, s + t + F + P - 1)
        BY <3>2, <4>1 DEF PartLast
      <4> HIDE DEF t
      <4>6. s + t + F <= e
        BY <4>1, <4>3, <2>3, SMT
      <4>7. CASE n = N
        <5>1. rest <= t + P
          BY <4>2, <2>3, <2>4, <4>7
        <5> QED
          BY <5>1, <4>1, <4>5, <4>6, <4>7 DEF AtMost
      <4>8. CASE n # N
        <5>1. n - 1 <= c - 1 /\ n - 1 \in Int /\ c - 1 \in Int
          BY <2>3, <2>4, <4>8
        <5>2. t + P <= (c - 1) * P
          BY <5>1, <4>2, MulMono
        <5>3. t + P < rest
          BY <5>2, <2>3, <4>1, SMT
        <5> QED
          BY <5>3, <4>1, <4>4, <4>5, <4>6, <4>8 DEF AtMost
      <4> QED
        BY <4>7, <4>8
    <3> QED
      BY <3>1, <3>2
  <2> QED
    BY <2>4, <2>5 DEF Contiguous, N
<1> QED
  BY <1>1, <1>2

(***************************************************************************)
(* Two parts of a job share no byte, none is empty, and every byte of the  *)
(* range belongs to one.                                                   *)
(***************************************************************************)
LEMMA JobTypes ==
  ASSUME NEW j \in Jobs
  PROVE  /\ j.first \in Nat
         /\ j.bytes \in Nat \ {0}
         /\ j.partSize \in Nat \ {0}
         /\ j.firstPartSize \in Nat \ {0}
         /\ j.regions \in Nat \ {0}
         /\ j.discovered \in 0 .. 1
         /\ LastByte(j) \in Nat
         /\ j.first <= LastByte(j)
<1>1. /\ j.first \in FirstBytes
      /\ j.bytes \in 1 .. MaxBytes
      /\ j.partSize \in 1 .. MaxPartSize
      /\ j.firstPartSize \in 1 .. MaxPartSize
      /\ j.regions \in 1 .. MaxRegions
      /\ j.discovered \in 0 .. 1
  BY Zenon DEF Jobs
<1>2. j.first \in Nat
  BY <1>1, HandoutBounds, Zenon
<1>3. MaxBytes \in Nat /\ MaxPartSize \in Nat /\ MaxRegions \in Nat
  BY HandoutBounds, Zenon
<1>4. \A max \in Nat : \A x \in 1 .. max : x \in Nat \ {0}
  OBVIOUS
<1>5. /\ j.bytes \in Nat \ {0}
      /\ j.partSize \in Nat \ {0}
      /\ j.firstPartSize \in Nat \ {0}
      /\ j.regions \in Nat \ {0}
  BY <1>1, <1>3, <1>4, Zenon
<1> QED
  BY <1>1, <1>2, <1>5 DEF LastByte

LEMMA JobParts ==
  ASSUME NEW j \in Jobs
  PROVE  /\ Total(j) \in Nat \ {0}
         /\ \A n \in 1 .. Total(j) :
               /\ PartFirst(j.partSize, j.firstPartSize, j.first, n) \in j.first .. LastByte(j)
               /\ PartLast(j.partSize, j.firstPartSize, j.first, LastByte(j), n) =
                    IF n = Total(j) THEN LastByte(j)
                    ELSE PartFirst(j.partSize, j.firstPartSize, j.first, n + 1) - 1
<1>1. Contiguous(j.partSize, j.firstPartSize, j.first, LastByte(j))
  BY JobTypes, PartsAreContiguous, Zenon
<1> QED
  BY <1>1 DEF Contiguous, Total

LEMMA PartFirstIncreases ==
  ASSUME NEW P \in Nat \ {0}, NEW F \in Nat \ {0}, NEW s \in Nat,
         NEW n \in Nat \ {0}, NEW m \in Nat, n < m
  PROVE  /\ PartFirst(P, F, s, n) \in Nat
         /\ PartFirst(P, F, s, m) \in Nat
         /\ PartFirst(P, F, s, n) < PartFirst(P, F, s, m)
<1>1. (m - 2) * P \in Nat /\ PartFirst(P, F, s, m) = s + (m - 2) * P + F
  BY SMT DEF PartFirst
<1>2. CASE n = 1
  BY <1>1, <1>2 DEF PartFirst
<1>3. CASE n # 1
  <2>1. (n - 2) * P \in Nat /\ PartFirst(P, F, s, n) = s + (n - 2) * P + F
    BY <1>3, SMT DEF PartFirst
  <2>2. (n - 1) * P <= (m - 2) * P
    BY MulMono
  <2>3. (n - 1) * P = (n - 2) * P + P
    BY SMT
  <2> QED
    BY <1>1, <2>1, <2>2, <2>3
<1> QED
  BY <1>2, <1>3

LEMMA JobStarts ==
  ASSUME NEW j \in Jobs
  PROVE  \A n \in Nat \ {0}, m \in Nat : n < m =>
            /\ PartFirst(j.partSize, j.firstPartSize, j.first, n) \in Nat
            /\ PartFirst(j.partSize, j.firstPartSize, j.first, m) \in Nat
            /\ PartFirst(j.partSize, j.firstPartSize, j.first, n)
                 < PartFirst(j.partSize, j.firstPartSize, j.first, m)
  BY JobTypes, PartFirstIncreases, Zenon

LEMMA PartsAreDisjoint ==
  ASSUME NEW j \in Jobs, NEW n \in 1 .. Total(j), NEW m \in 1 .. Total(j), n # m
  PROVE  BytesOf(j, n) \cap BytesOf(j, m) = {}
<1> DEFINE S(i) == PartFirst(j.partSize, j.firstPartSize, j.first, i)
           E(i) == PartLast(j.partSize, j.firstPartSize, j.first, LastByte(j), i)
<1>0. Total(j) \in Nat
  BY JobParts
<1>1. ASSUME NEW a \in 1 .. Total(j), NEW b \in 1 .. Total(j), a < b
      PROVE  /\ S(a) \in Int /\ E(a) \in Int /\ S(b) \in Int /\ E(b) \in Int
             /\ E(a) < S(b)
  <2>1. /\ S(a) \in Int /\ S(b) \in Int /\ LastByte(j) \in Int
        /\ E(a) = S(a + 1) - 1
        /\ E(b) = IF b = Total(j) THEN LastByte(j) ELSE S(b + 1) - 1
    BY <1>0, <1>1, JobParts, JobTypes
  <2> DEFINE Starts == \A x \in Nat \ {0}, y \in Nat : x < y =>
                          S(x) \in Nat /\ S(y) \in Nat /\ S(x) < S(y)
  <2>0. Starts
    BY JobStarts, Zenon
  <2> HIDE DEF S, E
  <2>2. S(b + 1) \in Int /\ S(a + 1) \in Int
    <3>1. a \in Nat \ {0} /\ b \in Nat \ {0} /\ a + 1 \in Nat /\ b + 1 \in Nat /\ a < a + 1 /\ b < b + 1
      BY <1>0
    <3> QED
      BY <2>0, <3>1
  <2>3. S(a + 1) <= S(b)
    <3>1. CASE a + 1 = b
      BY <3>1, <2>1
    <3>2. CASE a + 1 < b
      <4>1. a + 1 \in Nat \ {0} /\ b \in Nat
        BY <1>0
      <4> QED
        BY <2>0, <2>1, <2>2, <3>2, <4>1
    <3> QED
      BY <1>0, <1>1, <3>1, <3>2
  <2> QED
    BY <2>1, <2>2, <2>3
<1>2. BytesOf(j, n) = S(n) .. E(n) /\ BytesOf(j, m) = S(m) .. E(m)
  BY DEF BytesOf
<1> HIDE DEF S, E
<1>3. CASE n < m
  BY <1>1, <1>2, <1>3
<1>4. CASE m < n
  BY <1>1, <1>2, <1>4
<1> QED
  BY <1>0, <1>3, <1>4

LEMMA PartsCover ==
  ASSUME NEW j \in Jobs
  PROVE  /\ \A n \in 1 .. Total(j) : /\ BytesOf(j, n) # {}
                                     /\ BytesOf(j, n) \subseteq j.first .. LastByte(j)
         /\ \A b \in j.first .. LastByte(j) : \E n \in 1 .. Total(j) : b \in BytesOf(j, n)
<1> DEFINE P == j.partSize
           F == j.firstPartSize
           s == j.first
           e == LastByte(j)
           N == Total(j)
           S(i) == PartFirst(P, F, s, i)
           E(i) == PartLast(P, F, s, e, i)
<1>0. /\ P \in Nat \ {0} /\ F \in Nat \ {0} /\ s \in Nat /\ e \in Nat /\ s <= e
      /\ N \in Nat \ {0}
  BY JobTypes, JobParts
<1>1. \A n \in 1 .. N : S(n) \in s .. e /\ E(n) = IF n = N THEN e ELSE S(n + 1) - 1
  BY JobParts
<1>2. \A n \in Nat \ {0} : S(n) < S(n + 1) /\ S(n) \in Nat
  <2> TAKE n \in Nat \ {0}
  <2>1. n + 1 \in Nat /\ n < n + 1
    OBVIOUS
  <2> QED
    BY <2>1, JobStarts, Zenon
<1>3. \A n : BytesOf(j, n) = S(n) .. E(n)
  BY DEF BytesOf
<1>4. \A n \in 1 .. N : S(n) <= E(n) /\ E(n) <= e /\ E(n) \in Int
  <2> HIDE DEF P, F, s, e, N, S, E
  <2> TAKE n \in 1 .. N
  <2>1. n \in Nat \ {0} /\ (n # N => n + 1 \in 1 .. N)
    BY <1>0
  <2> QED
    BY <2>1, <1>0, <1>1, <1>2
<1>5. ASSUME NEW b \in s .. e
      PROVE  \E n \in 1 .. N : b \in S(n) .. E(n)
  <2>1. CASE b < s + F
    <3>1. S(1) = s
      BY DEF PartFirst
    <3>2. N # 1 => S(2) = s + F
      BY <1>0 DEF PartFirst
    <3> HIDE DEF P, F, s, e, N, S, E
    <3>3. b \in S(1) .. E(1)
      BY <1>0, <1>1, <1>4, <2>1, <3>1, <3>2
    <3> QED
      BY <1>0, <3>3
  <2>2. CASE ~(b < s + F)
    <3> DEFINE k == (b - (s + F)) \div P
               r == (b - (s + F)) % P
    <3>1. k \in Nat /\ r \in 0 .. P - 1 /\ b - (s + F) = k * P + r
      <4>1. b - (s + F) \in Nat
        BY <1>0, <2>2
      <4> QED
        BY <1>0, <4>1, DivMod, Zenon
    <3> HIDE DEF k, r
    <3>2. (k + 1) * P = k * P + P /\ k * P \in Nat
      BY <1>0, <3>1, SMT
    <3>3. S(k + 2) = s + k * P + F /\ S(k + 3) = s + (k + 1) * P + F
      <4>1. k + 2 # 1 /\ k + 3 # 1 /\ (k + 2) - 2 = k /\ (k + 3) - 2 = k + 1
        BY <3>1
      <4> QED
        BY <4>1 DEF PartFirst
    <3>4. N = 1 + CeilDiv(e + 1 - (s + F), P)
      BY <1>0, <2>2 DEF Total, NumParts
    <3> DEFINE c == CeilDiv(e + 1 - (s + F), P)
    <3>5. c \in Nat \ {0} /\ e + 1 - (s + F) <= c * P
      <4>1. e + 1 - (s + F) \in Nat \ {0}
        BY <1>0, <2>2
      <4> QED
        BY <1>0, <4>1, CeilDivFits
    <3>6. N = 1 + c
      BY <3>4
    <3> HIDE DEF P, F, s, e, N, S, E, c
    <3>7. k * P < c * P
      BY <1>0, <3>1, <3>2, <3>5, SMT
    <3>8. k < c
      <4>1. SUFFICES ASSUME c <= k PROVE FALSE
        BY <3>1, <3>5
      <4>2. c * P <= k * P
        BY <1>0, <3>1, <3>5, <4>1, MulMono
      <4> QED
        BY <4>2, <3>7, <3>1, <3>5, <1>0, SMT
    <3>9. k + 2 \in 1 .. N
      BY <3>1, <3>5, <3>6, <3>8
    <3>10. (k + 2) + 1 = k + 3
      BY <3>1
    <3>11. b \in S(k + 2) .. E(k + 2)
      <4> DEFINE t == k * P
      <4>1. t \in Nat /\ b = s + F + t + r /\ S(k + 2) = s + t + F /\ S(k + 3) = s + t + P + F
        BY <1>0, <3>1, <3>2, <3>3, SMT
      <4> HIDE DEF t
      <4>2. E(k + 2) = IF k + 2 = N THEN e ELSE S(k + 3) - 1
        BY <1>1, <3>9, <3>10
      <4> QED
        BY <4>1, <4>2, <1>0, <3>1
    <3> QED
      BY <3>9, <3>11
  <2> QED
    BY <2>1, <2>2
<1>6. ASSUME NEW n \in 1 .. N
      PROVE  BytesOf(j, n) # {} /\ BytesOf(j, n) \subseteq s .. e
  <2> HIDE DEF P, F, s, e, N, S, E
  <2>1. S(n) \in s .. e /\ S(n) <= E(n) /\ E(n) <= e /\ E(n) \in Int
    BY <1>1, <1>4
  <2>2. S(n) \in S(n) .. E(n) /\ S(n) .. E(n) \subseteq s .. e
    BY <1>0, <2>1
  <2> QED
    BY <2>2, <1>3, Zenon
<1> HIDE DEF S, E
<1> QED
  BY <1>3, <1>5, <1>6, Zenon
-----------------------------------------------------------------------------
(***************************************************************************)
(* The spread. The parts d + 1 .. N are cut into s.regions regions; the    *)
(* k-th part handed out is the next one of region k % s.regions.           *)
(***************************************************************************)
Grid(s, d, N) ==
    /\ d \in Nat
    /\ N \in Nat
    /\ s.regions \in Nat /\ s.regions >= 2
    /\ s.size \in Nat \ {0}
    /\ s.large \in 0 .. s.regions - 1
    /\ s.first = d + 1
    /\ N - d = s.size * s.regions + s.large

Cell(s, k) == RegionStart(s, k % s.regions) + (k \div s.regions)

RegionSize(q, l, r) == q + (IF r < l THEN 1 ELSE 0)

Start(f, q, l, r) == f + r * q + AtMost(r, l)

(***************************************************************************)
(* Where a region starts, without the case split of the code.              *)
(* (s_next_part_number_synced)                                             *)
(***************************************************************************)
LEMMA RegionStartClosed ==
  ASSUME NEW s, NEW d, NEW N, Grid(s, d, N), NEW r \in Nat
  PROVE  RegionStart(s, r) = Start(d + 1, s.size, s.large, r)
<1> DEFINE q == s.size
           l == s.large
<1>1. q \in Nat /\ l \in Nat /\ d \in Nat /\ s.first = d + 1
  BY DEF Grid
<1>2. RegionStart(s, r) = IF r < l THEN (d + 1) + r * (q + 1)
                          ELSE (d + 1) + l * (q + 1) + (r - l) * q
  BY <1>1 DEF RegionStart
<1> HIDE DEF q, l
<1>3. r * (q + 1) = r * q + r /\ l * (q + 1) = l * q + l /\ (r - l) * q = r * q - l * q
  BY <1>1, SMT
<1>4. r * q \in Int /\ l * q \in Int
  BY <1>1, SMT
<1>5. Start(d + 1, q, l, r) = (d + 1) + r * q + (IF r < l THEN r ELSE l)
  BY DEF Start, AtMost
<1>6. RegionStart(s, r) = Start(d + 1, q, l, r)
  BY <1>1, <1>2, <1>3, <1>4, <1>5
<1> QED
  BY <1>6 DEF q, l

LEMMA StartSteps ==
  ASSUME NEW f \in Nat, NEW q \in Nat, NEW l \in Nat, NEW r \in Nat
  PROVE  /\ Start(f, q, l, r) \in Nat
         /\ Start(f, q, l, r + 1) = Start(f, q, l, r) + RegionSize(q, l, r)
         /\ \A t \in Nat : r <= t => Start(f, q, l, r) <= Start(f, q, l, t)
<1>1. r * q \in Nat /\ (r + 1) * q = r * q + q
  BY SMT
<1>2. Start(f, q, l, r) = f + r * q + (IF r < l THEN r ELSE l)
  BY DEF Start, AtMost
<1>3. Start(f, q, l, r + 1) = f + (r + 1) * q + (IF r + 1 < l THEN r + 1 ELSE l)
  BY DEF Start, AtMost
<1>4. ASSUME NEW t \in Nat, r <= t
      PROVE  Start(f, q, l, r) <= Start(f, q, l, t)
  <2>1. r * q <= t * q /\ t * q \in Nat
    BY <1>4, MulMono, SMT
  <2>2. Start(f, q, l, t) = f + t * q + (IF t < l THEN t ELSE l)
    BY DEF Start, AtMost
  <2> QED
    BY <1>1, <1>2, <1>4, <2>1, <2>2
<1> QED
  BY <1>1, <1>2, <1>3, <1>4 DEF RegionSize

(***************************************************************************)
(* The row and the region of a hand-out: the last row, shorter than the    *)
(* others, only reaches the larger regions.                                *)
(***************************************************************************)
LEMMA RowAndRegion ==
  ASSUME NEW q \in Nat, NEW l \in Nat, NEW w \in Nat \ {0}, l < w,
         NEW o \in Nat, NEW r \in 0 .. w - 1
  PROVE  (o * w + r < q * w + l) <=> o < RegionSize(q, l, r)
<1>1. o * w \in Nat /\ q * w \in Nat
  BY SMT
<1>2. CASE o < q
  <2>1. (o + 1) * w <= q * w
    BY <1>2, MulMono
  <2>2. (o + 1) * w = o * w + w
    BY SMT
  <2> QED
    BY <1>1, <1>2, <2>1, <2>2 DEF RegionSize
<1>3. CASE o = q
  BY <1>1, <1>3 DEF RegionSize
<1>4. CASE o > q
  <2>1. (q + 1) * w <= o * w
    BY <1>4, MulMono
  <2>2. (q + 1) * w = q * w + w
    BY SMT
  <2> QED
    BY <1>1, <1>4, <2>1, <2>2 DEF RegionSize
<1> QED
  BY <1>2, <1>3, <1>4

(***************************************************************************)
(* Regions do not overlap: a part lies in one of them only.                *)
(***************************************************************************)
LEMMA RegionIsUnique ==
  ASSUME NEW s, NEW d, NEW N, Grid(s, d, N), NEW r \in 0 .. s.regions - 1,
         NEW n \in RegionStart(s, r) .. (RegionStart(s, r + 1) - 1)
  PROVE  /\ Region(s, n) = r
         /\ n \in d + 1 .. N
<1>1. /\ d \in Nat /\ N \in Nat /\ s.regions \in Nat /\ s.size \in Nat /\ s.large \in Nat
      /\ s.large < s.regions
      /\ N - d = s.size * s.regions + s.large
  BY DEF Grid
<1> DEFINE A(t) == RegionStart(s, t)
<1>2. \A t \in Nat : A(t) \in Nat /\ \A u \in Nat : t <= u => A(t) <= A(u)
  <2> TAKE t \in Nat
  <2>1. A(t) = Start(d + 1, s.size, s.large, t)
    BY RegionStartClosed
  <2>2. \A u \in Nat : A(u) = Start(d + 1, s.size, s.large, u)
    BY RegionStartClosed
  <2>3. d + 1 \in Nat
    BY <1>1
  <2>4. /\ Start(d + 1, s.size, s.large, t) \in Nat
        /\ \A u \in Nat : t <= u =>
              Start(d + 1, s.size, s.large, t) <= Start(d + 1, s.size, s.large, u)
    BY <1>1, <2>3, StartSteps, Zenon
  <2> HIDE DEF A
  <2> QED
    BY <2>1, <2>2, <2>4, Zenon
<1>3. A(0) = d + 1 /\ A(s.regions) = N + 1
  <2>1. A(0) = Start(d + 1, s.size, s.large, 0)
    BY RegionStartClosed
  <2>2. A(s.regions) = Start(d + 1, s.size, s.large, s.regions)
    BY <1>1, RegionStartClosed
  <2> HIDE DEF A
  <2>3. Start(d + 1, s.size, s.large, 0) = d + 1
    BY <1>1 DEF Start, AtMost
  <2>4. s.regions * s.size = s.size * s.regions /\ s.size * s.regions \in Int
    BY <1>1, MulFacts
  <2>5. AtMost(s.regions, s.large) = s.large
    BY <1>1 DEF AtMost
  <2>6. Start(d + 1, s.size, s.large, s.regions) = (d + 1) + s.regions * s.size + s.large
    BY <2>5 DEF Start
  <2> QED
    BY <1>1, <2>1, <2>2, <2>3, <2>4, <2>6
<1>4. n \in A(r) .. (A(r + 1) - 1)
  OBVIOUS
<1>5. Region(s, n) = CHOOSE t \in 0 .. s.regions - 1 : n \in A(t) .. (A(t + 1) - 1)
  BY DEF Region
<1> HIDE DEF A
<1>6. ASSUME NEW t \in 0 .. s.regions - 1, n \in A(t) .. (A(t + 1) - 1)
      PROVE  t = r
  <2>1. t \in Nat /\ r \in Nat /\ t + 1 \in Nat /\ r + 1 \in Nat
    BY <1>1
  <2>2. A(t) \in Nat /\ A(r) \in Nat /\ A(t + 1) \in Nat /\ A(r + 1) \in Nat
    BY <1>2, <2>1
  <2>3. n \in Nat /\ A(t) <= n /\ n < A(t + 1) /\ A(r) <= n /\ n < A(r + 1)
    BY <1>4, <1>6, <2>2
  <2>4. ~(t + 1 <= r)
    BY <1>2, <2>1, <2>2, <2>3
  <2>5. ~(r + 1 <= t)
    BY <1>2, <2>1, <2>2, <2>3
  <2> QED
    BY <2>1, <2>4, <2>5
<1>7. Region(s, n) = r
  BY <1>4, <1>5, <1>6, Zenon
<1>8. n \in d + 1 .. N
  <2>1. r \in Nat /\ r + 1 \in Nat /\ 0 <= r /\ r + 1 <= s.regions
    BY <1>1
  <2>2. A(0) <= A(r) /\ A(r + 1) <= A(s.regions) /\ A(r) \in Nat /\ A(r + 1) \in Nat
    BY <1>1, <1>2, <2>1
  <2> QED
    BY <1>1, <1>3, <1>4, <2>2
<1> QED
  BY <1>7, <1>8

(***************************************************************************)
(* The k-th hand-out lies in region k % s.regions, and a part is handed    *)
(* out once and not left out. (s_next_part_number_synced)                  *)
(***************************************************************************)
LEMMA CellInRegion ==
  ASSUME NEW s, NEW d, NEW N, Grid(s, d, N), NEW k \in 0 .. N - d - 1
  PROVE  /\ Region(s, Cell(s, k)) = k % s.regions
         /\ Cell(s, k) \in d + 1 .. N
<1> DEFINE w == s.regions
           q == s.size
           l == s.large
           r == k % w
           o == k \div w
<1>1. /\ d \in Nat /\ N \in Nat /\ w \in Nat \ {0} /\ q \in Nat /\ l \in Nat /\ l < w
      /\ N - d = q * w + l
  BY DEF Grid
<1>2. k \in Nat /\ k < q * w + l
  <2>1. q * w + l \in Int
    BY <1>1, MulFacts
  <2> QED
    BY <1>1, <2>1
<1>3. o \in Nat /\ r \in 0 .. w - 1 /\ k = o * w + r
  BY <1>1, <1>2, DivMod, Zenon
<1>4. Cell(s, k) = RegionStart(s, r) + o
  BY DEF Cell
<1> HIDE DEF r, o
<1>5. r \in Nat /\ r + 1 \in Nat
  BY <1>1, <1>3
<1>6. RegionStart(s, r) = Start(d + 1, q, l, r) /\ RegionStart(s, r + 1) = Start(d + 1, q, l, r + 1)
  BY <1>5, RegionStartClosed
<1> HIDE DEF w, q, l
<1>7. o < RegionSize(q, l, r)
  <2>1. (o * w + r < q * w + l) <=> o < RegionSize(q, l, r)
    BY <1>1, <1>3, RowAndRegion
  <2> QED
    BY <1>2, <1>3, <2>1
<1>8. /\ Start(d + 1, q, l, r) \in Nat
      /\ Start(d + 1, q, l, r + 1) = Start(d + 1, q, l, r) + RegionSize(q, l, r)
  <2>1. d + 1 \in Nat
    BY <1>1
  <2> QED
    <3> DEFINE f == d + 1
    <3>1. f \in Nat /\ q \in Nat /\ l \in Nat /\ r \in Nat
      BY <1>1, <1>5, <2>1
    <3> HIDE DEF f
    <3>2. Start(f, q, l, r) \in Nat
      BY <3>1, StartSteps, Zenon
    <3>3. Start(f, q, l, r + 1) = Start(f, q, l, r) + RegionSize(q, l, r)
      BY <3>1, StartSteps, SMT
    <3> QED
      BY <3>2, <3>3 DEF f
<1>9. Cell(s, k) \in RegionStart(s, r) .. (RegionStart(s, r + 1) - 1)
  BY <1>1, <1>3, <1>4, <1>5, <1>6, <1>7, <1>8 DEF RegionSize
<1>10. r \in 0 .. s.regions - 1
  BY <1>3 DEF w
<1>11. Region(s, Cell(s, k)) = r /\ Cell(s, k) \in d + 1 .. N
  BY <1>9, <1>10, RegionIsUnique
<1> QED
  BY <1>11 DEF r, w

LEMMA CellOrder ==
  ASSUME NEW s, NEW d, NEW N, Grid(s, d, N),
         NEW k \in 0 .. N - d - 1, NEW m \in 0 .. N - d - 1, k < m
  PROVE  /\ m - k < s.regions => k % s.regions # m % s.regions
         /\ k % s.regions = m % s.regions => Cell(s, k) < Cell(s, m)
         /\ Cell(s, k) # Cell(s, m)
<1> DEFINE w == s.regions
<1>1. w \in Nat \ {0} /\ d \in Nat /\ N \in Nat /\ k \in Nat /\ m \in Nat
  BY DEF Grid
<1>2. /\ k \div w \in Nat /\ k % w \in Nat /\ k = (k \div w) * w + (k % w)
      /\ m \div w \in Nat /\ m % w \in Nat /\ m = (m \div w) * w + (m % w)
  <2> HIDE DEF w
  <2>1. k \div w \in Nat /\ k % w \in 0 .. w - 1 /\ k = (k \div w) * w + (k % w)
    BY <1>1, DivMod, Zenon
  <2>2. m \div w \in Nat /\ m % w \in 0 .. w - 1 /\ m = (m \div w) * w + (m % w)
    BY <1>1, DivMod, Zenon
  <2>3. \A r \in 0 .. w - 1 : r \in Nat
    BY <1>1
  <2> QED
    BY <2>1, <2>2, <2>3, Zenon
<1>3. Cell(s, k) = RegionStart(s, k % w) + (k \div w) /\ Cell(s, m) = RegionStart(s, m % w) + (m \div w)
  BY DEF Cell
<1>4. Cell(s, k) \in d + 1 .. N /\ Cell(s, m) \in d + 1 .. N
  BY CellInRegion
<1>5. RegionStart(s, k % w) \in Nat
  <2>1. RegionStart(s, k % w) = Start(d + 1, s.size, s.large, k % w)
    BY <1>2, RegionStartClosed
  <2>2. d + 1 \in Nat /\ s.size \in Nat /\ s.large \in Nat
    BY DEF Grid
  <2>3. Start(d + 1, s.size, s.large, k % w) \in Nat
    BY <1>2, <2>2, StartSteps, Zenon
  <2> QED
    BY <2>1, <2>3
<1>6. Region(s, Cell(s, k)) = k % w /\ Region(s, Cell(s, m)) = m % w
  BY CellInRegion
<1>7. ASSUME k % w = m % w
      PROVE  k \div w < m \div w /\ m - k >= w
  <2> DEFINE a == k \div w
             b == m \div w
             r == k % w
  <2>1. a \in Nat /\ b \in Nat /\ r \in Nat /\ k = a * w + r /\ m = b * w + r
    BY <1>2, <1>7
  <2> HIDE DEF a, b, r, w
  <2>2. a * w \in Nat /\ b * w \in Nat
    BY <1>1, <2>1, MulFacts, SMT
  <2>3. a < b
    <3>1. SUFFICES ASSUME b <= a PROVE FALSE
      BY <2>1
    <3>2. b * w <= a * w
      BY <1>1, <2>1, <3>1, MulMono
    <3> QED
      BY <2>1, <2>2, <3>2
  <2>4. (a + 1) * w <= b * w /\ (a + 1) * w = a * w + w
    <3>1. (a + 1) * w <= b * w
      BY <1>1, <2>1, <2>3, MulMono
    <3>2. (a + 1) * w = a * w + w
      BY <1>1, <2>1, SMT
    <3> QED
      BY <3>1, <3>2
  <2>5. m - k >= w
    BY <1>1, <2>1, <2>2, <2>4
  <2> QED
    BY <2>3, <2>5 DEF a, b
<1> HIDE DEF w
<1>8. m - k < w => k % w # m % w
  BY <1>1, <1>7
<1>9. ASSUME k % w = m % w
      PROVE  Cell(s, k) < Cell(s, m)
  <2>1. k \div w < m \div w /\ RegionStart(s, m % w) = RegionStart(s, k % w)
    BY <1>7, <1>9
  <2> QED
    BY <1>2, <1>3, <1>5, <2>1
<1>10. Cell(s, k) # Cell(s, m)
  <2>1. SUFFICES ASSUME Cell(s, k) = Cell(s, m) PROVE FALSE
    OBVIOUS
  <2>2. k % w = m % w
    BY <1>6, <2>1
  <2>3. Cell(s, k) < Cell(s, m)
    BY <1>9, <2>2
  <2> QED
    BY <1>1, <1>4, <2>1, <2>3
<1> QED
  BY <1>8, <1>9, <1>10 DEF w

LEMMA CellOnto ==
  ASSUME NEW s, NEW d, NEW N, Grid(s, d, N), NEW n \in d + 1 .. N
  PROVE  \E k \in 0 .. N - d - 1 : Cell(s, k) = n
<1> DEFINE w == s.regions
           q == s.size
           l == s.large
           x == n - d - 1
<1>1. /\ d \in Nat /\ N \in Nat /\ w \in Nat \ {0} /\ q \in Nat \ {0} /\ l \in Nat /\ l < w
      /\ N - d = q * w + l
  BY DEF Grid
<1>2. x \in Nat /\ x < q * w + l
  <2>1. q * w + l \in Int
    BY <1>1, MulFacts
  <2> QED
    BY <1>1, <2>1
<1>3. n = d + 1 + x
  BY <1>1
<1>4. \A r \in Nat : RegionStart(s, r) = Start(d + 1, q, l, r)
  BY RegionStartClosed
<1>5. \A k : Cell(s, k) = RegionStart(s, k % w) + (k \div w)
  BY DEF Cell
<1> HIDE DEF w, q, l, x
<1>6. \E r \in 0 .. w - 1, o \in Nat :
         /\ x = r * q + AtMost(r, l) + o
         /\ o < RegionSize(q, l, r)
  <2>0. l * q \in Nat /\ l * (q + 1) = l * q + l
    BY <1>1, SMT
  <2>1. CASE x < l * (q + 1)
    <3> DEFINE r == x \div (q + 1)
               o == x % (q + 1)
    <3>1. r \in Nat /\ o \in 0 .. q /\ x = r * (q + 1) + o
      <4>1. q + 1 \in Nat \ {0} /\ (q + 1) - 1 = q
        BY <1>1
      <4> QED
        BY <1>2, <4>1, DivMod, Zenon
    <3> HIDE DEF r, o
    <3>2. r < l
      <4>1. SUFFICES ASSUME l <= r PROVE FALSE
        BY <1>1, <3>1
      <4>2. l * (q + 1) <= r * (q + 1)
        BY <1>1, <3>1, <4>1, MulMono
      <4>3. r * (q + 1) \in Int
        BY <1>1, <3>1, MulFacts
      <4> QED
        BY <1>1, <1>2, <2>0, <2>1, <3>1, <4>2, <4>3
    <3>3. r * (q + 1) = r * q + r /\ r * q \in Int
      BY <1>1, <3>1, SMT
    <3>4. AtMost(r, l) = r
      BY <3>2 DEF AtMost
    <3>5. r \in 0 .. w - 1 /\ o \in Nat /\ o < RegionSize(q, l, r)
      BY <1>1, <3>1, <3>2 DEF RegionSize
    <3> QED
      BY <3>1, <3>3, <3>4, <3>5
  <2>2. CASE ~(x < l * (q + 1))
    <3> DEFINE y == x - l * (q + 1)
               u == y \div q
               o == y % q
    <3>1. y \in Nat /\ y < (w - l) * q
      <4>1. (w - l) * q = q * w - l * q /\ q * w \in Int
        BY <1>1, SMT
      <4> QED
        BY <1>1, <1>2, <2>0, <2>2, <4>1
    <3> HIDE DEF y
    <3>2. u \in Nat /\ o \in 0 .. q - 1 /\ y = u * q + o
      BY <1>1, <3>1, DivMod, Zenon
    <3> HIDE DEF u, o
    <3>3. u < w - l
      <4>1. SUFFICES ASSUME w - l <= u PROVE FALSE
        BY <1>1, <3>2
      <4>2. (w - l) * q <= u * q
        BY <1>1, <3>2, <4>1, MulMono
      <4>3. u * q \in Int /\ (w - l) * q \in Int
        BY <1>1, <3>2, MulFacts
      <4> QED
        BY <1>1, <3>1, <3>2, <4>2, <4>3
    <3>4. (l + u) * q = l * q + u * q /\ u * q \in Int
      BY <1>1, <3>2, MulFacts
    <3>5. AtMost(l + u, l) = l
      BY <1>1, <3>2 DEF AtMost
    <3>6. x = (l + u) * q + AtMost(l + u, l) + o
      BY <1>1, <1>2, <2>0, <3>2, <3>4, <3>5 DEF y
    <3>7. l + u \in 0 .. w - 1 /\ o \in Nat /\ o < RegionSize(q, l, l + u)
      BY <1>1, <3>2, <3>3 DEF RegionSize
    <3> QED
      BY <3>6, <3>7
  <2> QED
    BY <2>1, <2>2
<1>7. PICK r \in 0 .. w - 1, o \in Nat :
         /\ x = r * q + AtMost(r, l) + o
         /\ o < RegionSize(q, l, r)
  BY <1>6
<1> DEFINE k == o * w + r
<1>8. k \in Nat
  BY <1>1, <1>7, SMT
<1>9. k < q * w + l
  BY <1>1, <1>7, RowAndRegion, Zenon
<1>10. k \div w = o /\ k % w = r
  BY <1>1, <1>7, DivUnique, Zenon
<1> HIDE DEF k
<1>11. k \in 0 .. N - d - 1
  <2>1. q * w + l \in Int
    BY <1>1, MulFacts
  <2> QED
    BY <1>1, <1>8, <1>9, <2>1
<1>12. Cell(s, k) = Start(d + 1, q, l, r) + o
  <2>1. r \in Nat
    BY <1>1, <1>7
  <2> QED
    BY <1>4, <1>5, <1>10, <2>1
<1>13. Cell(s, k) = n
  <2>1. Start(d + 1, q, l, r) = (d + 1) + r * q + AtMost(r, l)
    BY DEF Start
  <2>2. r * q \in Int /\ AtMost(r, l) \in Int
    BY <1>1, <1>7, MulFacts DEF AtMost
  <2> QED
    BY <1>1, <1>2, <1>3, <1>7, <1>12, <2>1, <2>2
<1> QED
  BY <1>11, <1>13
-----------------------------------------------------------------------------
(***************************************************************************)
(* The hand-out as a state machine. Cut is the spread a job starts with,   *)
(* PartAt the i-th part a job hands out.                                   *)
(***************************************************************************)
Cut(j) == InitSpread(j.outOfOrder, j.discovered, Total(j), j.regions)

PartAt(j, i) ==
    IF i <= j.discovered \/ Cut(j).regions < 2 THEN i
    ELSE Cell(Cut(j), i - j.discovered - 1)

(***************************************************************************)
(* The spread is off, or cuts all parts left into a grid.                  *)
(* (s_init_spread_synced)                                                  *)
(***************************************************************************)
LEMMA CutIsGrid ==
  ASSUME NEW j \in Jobs
  PROVE  /\ Cut(j).regions < 2 => Cut(j) = NoSpread
         /\ Cut(j).regions \in Nat
         /\ Cut(j).handed = 0
         /\ Cut(j).regions >= 2 => Grid(Cut(j), j.discovered, Total(j))
<1> DEFINE N == Total(j)
           d == j.discovered
           w == j.regions
           rem == N - d
<1>1. N \in Nat \ {0} /\ d \in 0 .. 1 /\ w \in Nat \ {0}
  BY JobTypes, JobParts
<1>2. Cut(j) = IF ~j.outOfOrder \/ d + 1 > N \/ w <= 1 \/ rem <= w
               THEN NoSpread
               ELSE [regions |-> w, size |-> rem \div w, large |-> rem % w,
                     first |-> d + 1, handed |-> 0]
  BY DEF Cut, InitSpread
<1> HIDE DEF N, d, w
<1>3. CASE Cut(j) = NoSpread
  <2>1. Cut(j).regions = 0 /\ Cut(j).handed = 0
    BY <1>3 DEF NoSpread
  <2> QED
    BY <1>3, <2>1
<1>4. CASE Cut(j) # NoSpread
  <2>1. /\ Cut(j) = [regions |-> w, size |-> rem \div w, large |-> rem % w,
                     first |-> d + 1, handed |-> 0]
        /\ ~(w <= 1) /\ ~(rem <= w)
    BY <1>2, <1>4, Zenon
  <2>2. /\ Cut(j).regions = w /\ Cut(j).size = rem \div w /\ Cut(j).large = rem % w
        /\ Cut(j).first = d + 1 /\ Cut(j).handed = 0
    BY <2>1
  <2>3. rem \in Nat /\ rem > w /\ w >= 2
    BY <1>1, <2>1
  <2>4. rem \div w \in Nat /\ rem % w \in 0 .. w - 1 /\ rem = (rem \div w) * w + (rem % w)
    BY <1>1, <2>3, DivMod, Zenon
  <2>5. rem \div w # 0
    BY <1>1, <2>3, <2>4
  <2>6. Grid(Cut(j), d, N)
    BY <1>1, <2>2, <2>3, <2>4, <2>5 DEF Grid
  <2> QED
    BY <1>1, <2>2, <2>3, <2>6 DEF N, d
<1> QED
  BY <1>3, <1>4

(***************************************************************************)
(* A job hands out each of its parts exactly once.                         *)
(***************************************************************************)
LEMMA PartAtOnce ==
  ASSUME NEW j \in Jobs
  PROVE  /\ \A i \in 1 .. Total(j) : PartAt(j, i) \in 1 .. Total(j)
         /\ \A i, k \in 1 .. Total(j) : i # k => PartAt(j, i) # PartAt(j, k)
         /\ \A n \in 1 .. Total(j) : \E i \in 1 .. Total(j) : PartAt(j, i) = n
<1> DEFINE N == Total(j)
           d == j.discovered
           s == Cut(j)
<1>1. N \in Nat \ {0} /\ d \in 0 .. 1
  BY JobTypes, JobParts
<1>2. CASE s.regions < 2
  <2>1. \A i : PartAt(j, i) = i
    BY <1>2 DEF PartAt
  <2> QED
    BY <2>1
<1>3. CASE ~(s.regions < 2)
  <2>1. Grid(s, d, N)
    BY <1>3, CutIsGrid
  <2>2. \A i : PartAt(j, i) = IF i <= d THEN i ELSE Cell(s, i - d - 1)
    BY <1>3 DEF PartAt
  <2>3. \A k \in 0 .. N - d - 1 : Cell(s, k) \in d + 1 .. N
    BY <2>1, CellInRegion
  <2>4. \A k, m \in 0 .. N - d - 1 : k < m => Cell(s, k) # Cell(s, m)
    BY <2>1, CellOrder
  <2>5. \A n \in d + 1 .. N : \E k \in 0 .. N - d - 1 : Cell(s, k) = n
    BY <2>1, CellOnto
  <2> HIDE DEF N, d, s
  <2>6. \A i \in 1 .. N : \/ i <= d /\ i = d /\ PartAt(j, i) = d
                          \/ /\ ~(i <= d)
                             /\ i - d - 1 \in 0 .. N - d - 1
                             /\ PartAt(j, i) = Cell(s, i - d - 1)
                             /\ PartAt(j, i) \in d + 1 .. N
    BY <1>1, <2>2, <2>3
  <2>7. \A i \in 1 .. N : PartAt(j, i) \in 1 .. N
    BY <1>1, <2>6
  <2>8. ASSUME NEW i \in 1 .. N, NEW k \in 1 .. N, i < k
        PROVE  PartAt(j, i) # PartAt(j, k)
    <3>1. ~(k <= d) /\ PartAt(j, k) = Cell(s, k - d - 1) /\ PartAt(j, k) \in d + 1 .. N
      BY <1>1, <2>6, <2>8
    <3>2. CASE i <= d
      BY <1>1, <2>6, <3>1, <3>2
    <3>3. CASE ~(i <= d)
      <4>1. PartAt(j, i) = Cell(s, i - d - 1)
        BY <2>6, <3>3
      <4>2. /\ i - d - 1 \in 0 .. N - d - 1 /\ k - d - 1 \in 0 .. N - d - 1
            /\ i - d - 1 < k - d - 1
        BY <1>1, <2>8, <3>3
      <4> QED
        BY <2>4, <3>1, <4>1, <4>2
    <3> QED
      BY <3>2, <3>3
  <2>9. ASSUME NEW n \in 1 .. N
        PROVE  \E i \in 1 .. N : PartAt(j, i) = n
    <3>1. CASE n <= d
      BY <1>1, <2>2, <3>1
    <3>2. CASE ~(n <= d)
      <4>1. n \in d + 1 .. N
        BY <1>1, <3>2
      <4>2. PICK k \in 0 .. N - d - 1 : Cell(s, k) = n
        BY <2>5, <4>1
      <4>3. k + d + 1 \in 1 .. N /\ ~(k + d + 1 <= d) /\ (k + d + 1) - d - 1 = k
        BY <1>1, <4>2
      <4>4. PartAt(j, k + d + 1) = n
        BY <2>2, <4>2, <4>3
      <4> QED
        BY <4>3, <4>4
    <3> QED
      BY <3>1, <3>2
  <2>10. \A i, k \in 1 .. N : i # k => PartAt(j, i) # PartAt(j, k)
    <3> TAKE i, k \in 1 .. N
    <3>1. i < k \/ k < i \/ i = k
      BY <1>1
    <3> QED
      BY <2>8, <3>1
  <2> QED
    BY <2>7, <2>9, <2>10 DEF N
<1> QED
  BY <1>2, <1>3

(***************************************************************************)
(* The inductive invariant: the parts handed out so far are given by       *)
(* PartAt, and the spread differs from the initial one only in the number  *)
(* of parts it has handed out.                                             *)
(***************************************************************************)
SameRegions(s, t) ==
    s.regions = t.regions /\ s.size = t.size /\ s.large = t.large /\ s.first = t.first

HandoutInv ==
    /\ job \in Jobs
    /\ handed \in Seq(Nat)
    /\ Len(handed) \in job.discovered .. Total(job)
    /\ \A i \in 1 .. Len(handed) : handed[i] = PartAt(job, i)
    /\ spread \in [regions : Int, size : Int, large : Int, first : Int, handed : Int]
    /\ SameRegions(spread, Cut(job))
    /\ spread.regions >= 2 => spread.handed = Len(handed) - job.discovered

LEMMA SameRegionsSameCells ==
  ASSUME NEW s, NEW t, SameRegions(s, t)
  PROVE  /\ \A k : Cell(s, k) = Cell(t, k)
         /\ \A d, N : Grid(t, d, N) => Grid(s, d, N)
<1>1. \A r : RegionStart(s, r) = RegionStart(t, r)
  BY Zenon DEF SameRegions, RegionStart
<1>2. s.regions = t.regions
  BY DEF SameRegions
<1>3. \A k : Cell(s, k) = Cell(t, k)
  BY <1>1, <1>2, Zenon DEF Cell
<1>4. \A d, N : Grid(t, d, N) => Grid(s, d, N)
  BY Zenon DEF Grid, SameRegions
<1> QED
  BY <1>3, <1>4

LEMMA CutType ==
  ASSUME NEW j \in Jobs
  PROVE  Cut(j) \in [regions : Int, size : Int, large : Int, first : Int, handed : Int]
<1> DEFINE rem == Total(j) - j.discovered
           w == j.regions
<1>1. /\ Total(j) \in Nat /\ j.discovered \in 0 .. 1 /\ w \in Nat \ {0} /\ rem \in Int
  BY JobTypes, JobParts
<1>2. rem \div w \in Int /\ rem % w \in Int /\ j.discovered + 1 \in Int /\ 0 \in Int
  BY <1>1
<1>3. NoSpread \in [regions : Int, size : Int, large : Int, first : Int, handed : Int]
  BY DEF NoSpread
<1>4. [regions |-> w, size |-> rem \div w, large |-> rem % w,
       first |-> j.discovered + 1, handed |-> 0]
         \in [regions : Int, size : Int, large : Int, first : Int, handed : Int]
  BY <1>1, <1>2
<1>5. \/ Cut(j) = NoSpread
      \/ Cut(j) = [regions |-> w, size |-> rem \div w, large |-> rem % w,
                   first |-> j.discovered + 1, handed |-> 0]
  BY Zenon DEF Cut, InitSpread
<1> QED
  BY <1>3, <1>4, <1>5, Zenon

LEMMA HandoutInit == InitHandout => HandoutInv
<1> SUFFICES ASSUME InitHandout PROVE HandoutInv
  OBVIOUS
<1>1. job \in Jobs /\ spread = Cut(job)
  BY DEF InitHandout, Cut
<1>2. Total(job) \in Nat \ {0} /\ job.discovered \in 0 .. 1
  BY <1>1, JobParts, JobTypes
<1>3. handed = IF job.discovered = 1 THEN <<1>> ELSE <<>>
  BY DEF InitHandout
<1>4. /\ handed \in Seq(Nat)
      /\ Len(handed) = job.discovered
      /\ \A i \in 1 .. Len(handed) : i <= job.discovered /\ handed[i] = i
  BY <1>2, <1>3
<1>5. \A i \in 1 .. Len(handed) : handed[i] = PartAt(job, i)
  BY <1>4, Zenon DEF PartAt
<1>6. spread \in [regions : Int, size : Int, large : Int, first : Int, handed : Int]
  BY <1>1, CutType
<1>7. SameRegions(spread, Cut(job)) /\ spread.handed = 0
  BY <1>1, CutIsGrid DEF SameRegions
<1>8. Len(handed) \in job.discovered .. Total(job) /\ Len(handed) - job.discovered = 0
  BY <1>2, <1>4
<1> QED
  BY <1>1, <1>4, <1>5, <1>6, <1>7, <1>8 DEF HandoutInv

LEMMA NextIsPartAt ==
  ASSUME HandoutInv, Len(handed) < Total(job)
  PROVE  NextPartNumber(spread, Len(handed)) = PartAt(job, Len(handed) + 1)
<1>1. /\ job \in Jobs /\ Len(handed) \in job.discovered .. Total(job)
      /\ SameRegions(spread, Cut(job))
      /\ spread.regions >= 2 => spread.handed = Len(handed) - job.discovered
  BY DEF HandoutInv
<1>2. spread.regions = Cut(job).regions /\ Cut(job).regions \in Nat
  BY <1>1, CutIsGrid DEF SameRegions
<1>3. Total(job) \in Nat /\ job.discovered \in 0 .. 1 /\ Len(handed) \in Nat
  BY <1>1, JobParts, JobTypes
<1>4. CASE spread.regions < 2
  <2>1. NextPartNumber(spread, Len(handed)) = Len(handed) + 1
    BY <1>4 DEF NextPartNumber
  <2>2. PartAt(job, Len(handed) + 1) = Len(handed) + 1
    BY <1>2, <1>4 DEF PartAt
  <2> QED
    BY <2>1, <2>2
<1>5. CASE ~(spread.regions < 2)
  <2>1. spread.handed = (Len(handed) + 1) - job.discovered - 1 /\ ~(Len(handed) + 1 <= job.discovered)
    BY <1>1, <1>2, <1>3, <1>5
  <2>2. NextPartNumber(spread, Len(handed)) = Cell(spread, spread.handed)
    BY <1>5 DEF NextPartNumber, Cell
  <2>3. Cell(spread, spread.handed) = Cell(Cut(job), spread.handed)
    BY <1>1, SameRegionsSameCells
  <2>4. PartAt(job, Len(handed) + 1) = Cell(Cut(job), (Len(handed) + 1) - job.discovered - 1)
    BY <1>2, <1>5, <2>1, Zenon DEF PartAt
  <2> QED
    BY <2>1, <2>2, <2>3, <2>4
<1> QED
  BY <1>4, <1>5

LEMMA HandoutStep == HandoutInv /\ [NextHandout]_handoutVars => HandoutInv'
<1> SUFFICES ASSUME HandoutInv, [NextHandout]_handoutVars PROVE HandoutInv'
  OBVIOUS
<1>1. CASE RequestNextPart
  <2> DEFINE n == NextPartNumber(spread, Len(handed))
  <2>1. /\ job \in Jobs /\ handed \in Seq(Nat) /\ Len(handed) \in job.discovered .. Total(job)
        /\ \A i \in 1 .. Len(handed) : handed[i] = PartAt(job, i)
        /\ spread \in [regions : Int, size : Int, large : Int, first : Int, handed : Int]
        /\ SameRegions(spread, Cut(job))
        /\ spread.regions >= 2 => spread.handed = Len(handed) - job.discovered
    BY DEF HandoutInv
  <2>2. /\ Len(handed) < Total(job) /\ handed' = Append(handed, n)
        /\ spread' = AfterHandout(spread) /\ job' = job
    BY <1>1 DEF RequestNextPart
  <2>3. Total(job) \in Nat \ {0} /\ job.discovered \in 0 .. 1 /\ Len(handed) \in Nat
    BY <2>1, JobParts, JobTypes
  <2>4. n = PartAt(job, Len(handed) + 1)
    BY <2>2, NextIsPartAt
  <2>5. n \in Nat
    <3>1. Len(handed) + 1 \in 1 .. Total(job)
      BY <2>2, <2>3
    <3>2. n \in 1 .. Total(job)
      BY <2>1, <2>4, <3>1, PartAtOnce
    <3> QED
      BY <2>3, <3>2
  <2> HIDE DEF n
  <2>6. /\ handed' \in Seq(Nat)
        /\ Len(handed') = Len(handed) + 1
        /\ \A i \in 1 .. Len(handed) : handed'[i] = handed[i]
        /\ handed'[Len(handed) + 1] = n
    BY <2>1, <2>2, <2>5
  <2>7. \A i \in 1 .. Len(handed') : handed'[i] = PartAt(job, i)
    <3> TAKE i \in 1 .. Len(handed')
    <3>1. i \in 1 .. Len(handed) \/ i = Len(handed) + 1
      BY <2>3, <2>6
    <3>2. CASE i \in 1 .. Len(handed)
      BY <2>1, <2>6, <3>2, Zenon
    <3>3. CASE i = Len(handed) + 1
      BY <2>4, <2>6, <3>3, Zenon
    <3> QED
      BY <3>1, <3>2, <3>3
  <2>8. Len(handed') \in job.discovered .. Total(job)
    BY <2>1, <2>2, <2>3, <2>6
  <2>9. /\ spread' \in [regions : Int, size : Int, large : Int, first : Int, handed : Int]
        /\ SameRegions(spread', spread)
        /\ spread.regions >= 2 => spread'.handed = spread.handed + 1
    BY <2>1, <2>2 DEF AfterHandout, SameRegions
  <2>10. SameRegions(spread', Cut(job))
    BY <2>1, <2>9, Zenon DEF SameRegions
  <2>11. spread'.regions >= 2 => spread'.handed = Len(handed') - job.discovered
    <3>1. spread'.regions = spread.regions
      BY <2>9 DEF SameRegions
    <3>2. SUFFICES ASSUME spread'.regions >= 2
                   PROVE  spread'.handed = Len(handed') - job.discovered
      OBVIOUS
    <3>3. spread.handed = Len(handed) - job.discovered /\ spread'.handed = spread.handed + 1
      BY <2>1, <2>9, <3>1, <3>2, Zenon
    <3>4. (Len(handed) + 1) - job.discovered = (Len(handed) - job.discovered) + 1
      BY <2>3
    <3> QED
      BY <2>6, <3>3, <3>4, Zenon
  <2>12. Cut(job)' = Cut(job) /\ Total(job)' = Total(job) /\ \A i : PartAt(job, i)' = PartAt(job, i)
    BY <2>2 DEF Cut, Total, PartAt, LastByte
  <2> QED
    BY <2>1, <2>2, <2>6, <2>7, <2>8, <2>9, <2>10, <2>11, <2>12 DEF HandoutInv
<1>2. CASE UNCHANGED handoutVars
  BY <1>2 DEF handoutVars, HandoutInv, Cut, Total, PartAt, LastByte
<1> QED
  BY <1>1, <1>2 DEF NextHandout

(***************************************************************************)
(* What is handed out follows PartAt in every reachable state, whatever    *)
(* the range, the part sizes and the number of connections.                *)
(* (s_init_spread_synced, s_next_part_number_synced)                       *)
(***************************************************************************)
THEOREM HandoutInvariance == HandoutSpec => []HandoutInv
  BY HandoutInit, HandoutStep, PTL DEF HandoutSpec

LEMMA InvTiles == HandoutInv => PartsTileTheRange
<1> SUFFICES ASSUME HandoutInv PROVE PartsTileTheRange
  OBVIOUS
<1> DEFINE N == Total(job)
<1>1. /\ job \in Jobs /\ handed \in Seq(Nat) /\ Len(handed) \in job.discovered .. N
      /\ \A i \in 1 .. Len(handed) : handed[i] = PartAt(job, i)
  BY DEF HandoutInv
<1>2. N \in Nat \ {0} /\ job.discovered \in 0 .. 1 /\ Len(handed) \in Nat /\ DOMAIN handed = 1 .. Len(handed)
  BY <1>1, JobParts, JobTypes
<1>3. \A i \in DOMAIN handed : i \in 1 .. N /\ handed[i] = PartAt(job, i)
  BY <1>1, <1>2
<1>4. /\ \A i \in 1 .. N : PartAt(job, i) \in 1 .. N
      /\ \A i, k \in 1 .. N : i # k => PartAt(job, i) # PartAt(job, k)
      /\ \A n \in 1 .. N : \E i \in 1 .. N : PartAt(job, i) = n
  BY <1>1, PartAtOnce
<1>5. /\ \A n \in 1 .. N : /\ BytesOf(job, n) # {}
                           /\ BytesOf(job, n) \subseteq job.first .. LastByte(job)
      /\ \A b \in job.first .. LastByte(job) : \E n \in 1 .. N : b \in BytesOf(job, n)
  BY <1>1, PartsCover
<1>6. \A n, m \in 1 .. N : n # m => BytesOf(job, n) \cap BytesOf(job, m) = {}
  BY <1>1, PartsAreDisjoint
<1> HIDE DEF N
<1>7. \A i \in DOMAIN handed : handed[i] \in 1 .. N /\ BytesOf(job, handed[i]) # {}
  BY <1>3, <1>4, <1>5, Zenon
<1>8. ASSUME NEW i \in DOMAIN handed, NEW k \in DOMAIN handed, i # k
      PROVE  BytesOf(job, handed[i]) \cap BytesOf(job, handed[k]) = {}
  <2>1. handed[i] \in 1 .. N /\ handed[k] \in 1 .. N
    BY <1>7, Zenon
  <2>2. handed[i] # handed[k]
    BY <1>3, <1>4, <1>8, Zenon
  <2> QED
    BY <1>6, <2>1, <2>2, Zenon
<1>9. ASSUME Len(handed) = N
      PROVE  UNION {BytesOf(job, handed[i]) : i \in DOMAIN handed} = job.first .. LastByte(job)
  <2>1. DOMAIN handed = 1 .. N
    BY <1>2, <1>9
  <2>2. ASSUME NEW b \in job.first .. LastByte(job)
        PROVE  \E i \in DOMAIN handed : b \in BytesOf(job, handed[i])
    <3>1. PICK n \in 1 .. N : b \in BytesOf(job, n)
      BY <1>5, Zenon
    <3>2. PICK i \in 1 .. N : PartAt(job, i) = n
      BY <1>4, Zenon
    <3>3. i \in DOMAIN handed /\ handed[i] = n
      BY <1>3, <2>1, <3>2, Zenon
    <3> QED
      BY <3>1, <3>3, Zenon
  <2>3. \A i \in DOMAIN handed : BytesOf(job, handed[i]) \subseteq job.first .. LastByte(job)
    BY <1>5, <1>7, Zenon
  <2> QED
    BY <2>2, <2>3, Zenon
<1> QED
  BY <1>7, <1>8, <1>9 DEF PartsTileTheRange, N

LEMMA InvRotates == HandoutInv => SpreadRotates
<1> SUFFICES ASSUME HandoutInv, spread.regions >= 2,
                    NEW i \in (job.discovered + 1) .. Len(handed),
                    NEW k \in (job.discovered + 1) .. Len(handed), i < k
             PROVE  /\ (k - i < spread.regions =>
                          Region(spread, handed[i]) # Region(spread, handed[k]))
                    /\ (Region(spread, handed[i]) = Region(spread, handed[k]) =>
                          handed[i] < handed[k])
  BY DEF SpreadRotates
<1> DEFINE N == Total(job)
           d == job.discovered
           a == i - d - 1
           b == k - d - 1
<1>1. /\ job \in Jobs /\ Len(handed) \in d .. N
      /\ \A x \in 1 .. Len(handed) : handed[x] = PartAt(job, x)
      /\ SameRegions(spread, Cut(job))
  BY DEF HandoutInv
<1>2. N \in Nat /\ d \in 0 .. 1 /\ Len(handed) \in Nat
  BY <1>1, JobParts, JobTypes
<1>3. spread.regions = Cut(job).regions /\ Cut(job).regions \in Nat
  BY <1>1, CutIsGrid DEF SameRegions
<1>4. Grid(Cut(job), d, N)
  BY <1>1, <1>3, CutIsGrid
<1>5. Grid(spread, d, N)
  BY <1>1, <1>4, SameRegionsSameCells
<1>6. /\ ~(i <= d) /\ ~(k <= d) /\ ~(Cut(job).regions < 2)
      /\ i \in 1 .. Len(handed) /\ k \in 1 .. Len(handed)
      /\ a \in 0 .. N - d - 1 /\ b \in 0 .. N - d - 1 /\ a < b /\ b - a = k - i
  <2>1. Len(handed) \in Int /\ Len(handed) <= N /\ i \in Int /\ k \in Int
        /\ d + 1 <= i /\ i < k /\ k <= Len(handed)
    BY <1>1, <1>2
  <2>2. /\ ~(i <= d) /\ ~(k <= d) /\ i \in 1 .. Len(handed) /\ k \in 1 .. Len(handed)
    BY <1>2, <2>1
  <2>3. /\ a \in 0 .. N - d - 1 /\ b \in 0 .. N - d - 1 /\ a < b /\ b - a = k - i
    BY <1>2, <2>1
  <2> QED
    BY <1>3, <2>2, <2>3
<1>7. handed[i] = Cell(Cut(job), a) /\ handed[k] = Cell(Cut(job), b)
  BY <1>1, <1>6, Zenon DEF PartAt
<1>8. handed[i] = Cell(spread, a) /\ handed[k] = Cell(spread, b)
  BY <1>1, <1>7, SameRegionsSameCells
<1> HIDE DEF N, d, a, b
<1>9. Region(spread, handed[i]) = a % spread.regions /\ Region(spread, handed[k]) = b % spread.regions
  BY <1>5, <1>6, <1>8, CellInRegion
<1>10. /\ b - a < spread.regions => a % spread.regions # b % spread.regions
       /\ a % spread.regions = b % spread.regions => Cell(spread, a) < Cell(spread, b)
  BY <1>5, <1>6, CellOrder
<1> QED
  BY <1>6, <1>8, <1>9, <1>10

(***************************************************************************)
(* For ranges, part sizes and connection counts of every size: the parts   *)
(* handed out tile the requested range, and the requests in flight rotate  *)
(* over its regions. (s_next_part_number_synced,                           *)
(* aws_s3_calculate_auto_ranged_get_part_range)                            *)
(***************************************************************************)
THEOREM HandoutTilesAndRotates == HandoutSpec => []HandoutIsSound
<1>1. HandoutInv => HandoutIsSound
  BY InvTiles, InvRotates DEF HandoutIsSound
<1> QED
  BY <1>1, HandoutInvariance, PTL

(***************************************************************************)
(* For every content length, part size and part limit, the upload split    *)
(* stays within the limit and covers the content.                          *)
(* (aws_s3_calculate_optimal_mpu_part_size_and_num_parts)                  *)
(***************************************************************************)
THEOREM UploadSplitFits == HandoutSpec => []MpuSplitFits
<1>1. HandoutInv => MpuSplitFits
  <2> SUFFICES ASSUME HandoutInv PROVE MpuSplitFits
    OBVIOUS
  <2>1. job \in Jobs
    BY DEF HandoutInv
  <2>2. job.bytes \in Nat \ {0} /\ job.partSize \in Nat \ {0} /\ MaxUploadParts \in Nat \ {0}
    BY <2>1, JobTypes, HandoutBounds
  <2> QED
    BY <2>2, MpuSplit, Zenon DEF MpuSplitFits
<1> QED
  BY <1>1, HandoutInvariance, PTL
=============================================================================
