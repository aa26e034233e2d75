----------------------------- MODULE AsyncWrite -----------------------------
(***************************************************************************)
(* The asynchronous-write API of an upload (s3_meta_request.c,             *)
(* s3_auto_ranged_put.c).  The user pushes the body with write(), a job    *)
(* that calls poll_write() until its data is taken.  poll_write() fills    *)
(* one pooled buffer; a full buffer, or the end of the body, makes a part  *)
(* request that takes the buffer's ticket over.  A custom buffer pool may  *)
(* grant the ticket later, on the event loop, and by then the meta request *)
(* may have failed, or have finished.                                      *)
(*                                                                         *)
(* Bytes are numbered from 1 in the order they are written, so a body is a *)
(* sequence of naturals.  One poll_write() is one step: it runs under the  *)
(* meta request's lock.  A waker that is invoked puts the job back to      *)
(* "run"; its next poll_write() is a later step, of the thread that woke.  *)
(***************************************************************************)
EXTENDS Integers, SequencesExt

CONSTANTS PartSize,     \* part_size, in bytes
          TotalBytes,   \* bound: bytes the user writes
          MaxWrite,     \* bound: bytes of one write()
          MaxWrites     \* bound: calls of write()

ASSUME AsyncWriteAssumption ==
    /\ {PartSize, MaxWrite, MaxWrites} \subseteq Nat \ {0}
    /\ TotalBytes \in Nat

VARIABLES using_async_writes, \* request_body_using_async_writes
          aw,             \* synced_data.async_write
          writer,         \* the user's write() job
          parts,          \* the part requests made so far, in order
          at_end,         \* is_body_stream_at_end
          outstanding,    \* buffer tickets the pool has granted and not got back
          finish_result,  \* "none", "ok" or "fail"
          meta            \* "live", "finished" or "destroyed"

writeVars == <<using_async_writes, aw, writer, parts, at_end, outstanding,
               finish_result, meta>>

EmptyBuffer == [buffered |-> <<>>, ticket |-> FALSE, future |-> "none",
                waker |-> FALSE, eof |-> FALSE, ready |-> FALSE]
NoSum == [calculated |-> FALSE, value |-> <<>>]
NewPart(content) == [content |-> content, stage |-> "task", ticket |-> TRUE,
                     eof |-> FALSE, sum |-> NoSum, stored |-> <<>>]

Ended == {"done", "noop", "failed"}
HasResult == finish_result # "none"
SetFail == finish_result' = IF HasResult THEN finish_result ELSE "fail"
PendingRead == \E p \in DOMAIN parts : parts[p].stage \in {"task", "read"}

AsyncWriteInit(async, first) ==
    /\ using_async_writes = async
    /\ aw = EmptyBuffer
    /\ writer = [state |-> "idle", data |-> <<>>, eof |-> FALSE,
                 given |-> 0, taken |-> 0, calls |-> 0]
    /\ parts = first /\ outstanding = Len(first)
    /\ at_end = FALSE
    /\ finish_result = "none" /\ meta = "live"

-----------------------------------------------------------------------------
\* aws_s3_meta_request_write: the user makes one call at a time.
Write(n, eof) ==
    /\ meta # "destroyed" /\ writer.state = "idle"
    /\ writer.calls < MaxWrites
    /\ writer.given + n <= TotalBytes
    /\ writer' = [writer EXCEPT !.state = "run", !.eof = eof,
                                !.data = [i \in 1..n |-> writer.given + i],
                                !.given = @ + n, !.calls = @ + 1]
    /\ UNCHANGED <<using_async_writes, aw, parts, at_end, outstanding, finish_result, meta>>

\* The job ends with an error, and what it had left is not written.
JobFails == writer' = [writer EXCEPT !.state = "idle", !.data = <<>>]
JobPends == writer' = [writer EXCEPT !.state = "pending"]

\* The job of a stored waker goes on; without one nothing happens.
Wakes(w) == IF aw.waker THEN [w EXCEPT !.state = "run"] ELSE w

\* The last block of poll_write: copy to the buffer's capacity, and note the
\* end of the body only when all the data has been consumed.
CopyToBuffer ==
    LET n == Min({PartSize - Len(aw.buffered), Len(writer.data)})
        eof == writer.eof /\ n = Len(writer.data)
        full == Len(aw.buffered) + n = PartSize
    IN  /\ aw' = [aw EXCEPT !.ticket = TRUE, !.eof = eof, !.ready = eof \/ full,
                            !.buffered = @ \o SubSeq(writer.data, 1, n)]
        /\ writer' = [writer EXCEPT
             !.data = SubSeq(@, n + 1, Len(@)), !.taken = @ + n,
             !.state = IF n = Len(writer.data) THEN "idle" ELSE "run"]

\* aws_s3_buffer_pool_reserve with can_block: granted, refused or deferred
ReserveBuffer ==
    \/ CopyToBuffer /\ outstanding' = outstanding + 1 /\ UNCHANGED finish_result
    \/ JobFails /\ SetFail /\ UNCHANGED <<aw, outstanding>>
    \/ /\ aw' = [aw EXCEPT !.future = "open", !.waker = TRUE]
       /\ JobPends
       /\ UNCHANGED <<outstanding, finish_result>>

\* aws_s3_meta_request_poll_write and one turn of the write job's loop
LegalWrite == using_async_writes /\ ~aw.waker /\ ~aw.eof
PollWrite ==
    /\ writer.state = "run"
    /\ \/ HasResult /\ JobFails /\ UNCHANGED <<aw, outstanding, finish_result>>
       \/ ~HasResult /\ ~LegalWrite /\ JobFails /\ SetFail /\ UNCHANGED <<aw, outstanding>>
       \/ /\ ~HasResult /\ LegalWrite /\ Len(aw.buffered) = PartSize
          /\ aw' = [aw EXCEPT !.waker = TRUE] /\ JobPends
          /\ UNCHANGED <<outstanding, finish_result>>
       \/ /\ ~HasResult /\ LegalWrite /\ Len(aw.buffered) < PartSize
          /\ IF aw.ticket
             THEN CopyToBuffer /\ UNCHANGED <<outstanding, finish_result>>
             ELSE ReserveBuffer
    /\ UNCHANGED <<using_async_writes, parts, at_end, meta>>

-----------------------------------------------------------------------------
\* A custom pool answers a deferred reservation (not under src/).
PoolAnswers ==
    /\ aw.future = "open"
    /\ \/ aw' = [aw EXCEPT !.future = "granted"] /\ outstanding' = outstanding + 1
       \/ aw' = [aw EXCEPT !.future = "failed"] /\ UNCHANGED outstanding
    /\ UNCHANGED <<using_async_writes, writer, parts, at_end, finish_result, meta>>

\* Mutant: a buffer that comes after the end is not given back.
BufferReservedKeepsLate ==
    /\ aw.future \in {"granted", "failed"}
    /\ aw' = [aw EXCEPT !.future = "none", !.waker = FALSE,
                        !.ticket = aw.future = "granted" /\ ~HasResult]
    /\ IF aw.future = "failed" THEN SetFail ELSE UNCHANGED finish_result
    /\ writer' = Wakes(writer)
    /\ UNCHANGED <<using_async_writes, parts, at_end, outstanding, meta>>

\* s_s3_meta_request_on_async_write_buffer_reserved: the buffer is claimed
\* only while there is no result; otherwise the ticket goes back.
BufferReserved ==
    /\ aw.future \in {"granted", "failed"}
    /\ LET claim == aw.future = "granted" /\ ~HasResult
       IN  /\ aw' = [aw EXCEPT !.future = "none", !.waker = FALSE, !.ticket = claim]
           /\ outstanding' = IF aw.future = "granted" /\ ~claim
                             THEN outstanding - 1 ELSE outstanding
    /\ IF aw.future = "failed" THEN SetFail ELSE UNCHANGED finish_result
    /\ writer' = Wakes(writer)
    /\ UNCHANGED <<using_async_writes, parts, at_end, meta>>

\* s_s3_auto_ranged_put_update for an upload without Content-Length: a part
\* is made once data is ready, and the last part has been read.
UpdatePart ==
    /\ ~HasResult /\ ~at_end
    /\ aw.ready /\ ~PendingRead
    /\ parts' = Append(parts, NewPart(aw.buffered))
    /\ aw' = [aw EXCEPT !.ticket = FALSE]
    /\ UNCHANGED <<using_async_writes, writer, at_end, outstanding, finish_result, meta>>

\* The prepare task drops the part when there is a result.  The request is
\* destroyed and its ticket goes back.
DropPart(p) ==
    /\ parts[p].stage \in {"task", "ready"} /\ HasResult
    /\ parts' = [parts EXCEPT ![p].stage = "failed", ![p].ticket = FALSE]
    /\ outstanding' = IF parts[p].ticket THEN outstanding - 1 ELSE outstanding
    /\ UNCHANGED <<using_async_writes, aw, writer, at_end, finish_result, meta>>

\* s_s3_meta_request_read_from_pending_async_writes
ReadFromPending(p) ==
    /\ parts[p].stage = "task" /\ ~HasResult
    /\ aw' = [aw EXCEPT !.ready = FALSE, !.buffered = <<>>, !.waker = FALSE]
    /\ parts' = [parts EXCEPT ![p].stage = "read", ![p].eof = aw.eof]
    /\ writer' = Wakes(writer)
    /\ UNCHANGED <<using_async_writes, at_end, outstanding, finish_result, meta>>

\* s_s3_prepare_upload_part_on_read_done, s_s3_new_upload_part_info_after_body:
\* an empty part after the first is a no-op, and its request ends at once.
ReadDone(p) ==
    /\ parts[p].stage = "read"
    /\ at_end' = parts[p].eof
    /\ LET noop == p > 1 /\ parts[p].content = <<>>
       IN  /\ parts' = [parts EXCEPT ![p].stage = IF noop THEN "noop" ELSE "ready",
                                     ![p].ticket = ~noop]
           /\ outstanding' = IF noop THEN outstanding - 1 ELSE outstanding
    /\ UNCHANGED <<using_async_writes, aw, writer, finish_result, meta>>

\* aws_s3_meta_request_cancel
Cancel ==
    /\ ~HasResult
    /\ finish_result' = "fail"
    /\ UNCHANGED <<using_async_writes, aw, writer, parts, at_end, outstanding, meta>>

\* Mutant: finishing leaves a writer that waits for the buffer to be sent.
FinishIgnoresWaker ==
    /\ HasResult /\ meta = "live"
    /\ \A p \in DOMAIN parts : parts[p].stage \in Ended
    /\ meta' = "finished"
    /\ aw' = IF aw.future = "open" THEN [aw EXCEPT !.future = "failed"] ELSE aw
    /\ UNCHANGED <<using_async_writes, writer, parts, at_end, outstanding, finish_result>>

\* aws_s3_meta_request_finish_default: an open reservation is failed and its
\* callback wakes the writer, and without a reservation it is woken here.
\* (The wait for the file's read tasks gives up after a minute, so finishing
\* does not depend on it.)
Finish ==
    /\ HasResult /\ meta = "live"
    /\ \A p \in DOMAIN parts : parts[p].stage \in Ended
    /\ meta' = "finished"
    /\ IF aw.future # "none"
       THEN /\ aw' = IF aw.future = "open" THEN [aw EXCEPT !.future = "failed"] ELSE aw
            /\ UNCHANGED writer
       ELSE aw' = [aw EXCEPT !.waker = FALSE] /\ writer' = Wakes(writer)
    /\ UNCHANGED <<using_async_writes, parts, at_end, outstanding, finish_result>>

\* s_s3_meta_request_destroy: the last reference is gone.  The callback of a
\* deferred reservation holds one of its own, the user's job another.
Destroy ==
    /\ meta = "finished" /\ writer.state = "idle" /\ aw.future = "none"
    /\ meta' = "destroyed"
    /\ aw' = [aw EXCEPT !.ticket = FALSE]
    /\ outstanding' = IF aw.ticket THEN outstanding - 1 ELSE outstanding
    /\ UNCHANGED <<using_async_writes, writer, parts, at_end, finish_result>>

WriterActs == \E n \in 0..MaxWrite, eof \in BOOLEAN : Write(n, eof)
AsyncWriteStep ==
    \/ PollWrite \/ PoolAnswers \/ BufferReserved \/ UpdatePart
    \/ \E p \in DOMAIN parts : DropPart(p) \/ ReadFromPending(p) \/ ReadDone(p)
    \/ Finish \/ Destroy

-----------------------------------------------------------------------------
(***************************************************************************)
(* The ticket discipline and the assertions of the update, of              *)
(* read_from_pending_async_writes and of the destructor: data that is      *)
(* ready has a buffer, owned by the meta request until a part takes it     *)
(* over; the part that is about to read owns exactly the buffered bytes;   *)
(* and every ticket the pool granted has one owner, none after the         *)
(* destructor ran.                                                         *)
(***************************************************************************)
TicketHasOneOwner ==
    LET Tick(b) == IF b THEN 1 ELSE 0
    IN  /\ ~HasResult /\ aw.ready /\ ~PendingRead => aw.ticket
        /\ \A p \in DOMAIN parts : parts[p].stage = "task" =>
              ~aw.ticket /\ aw.future = "none" /\ parts[p].content = aw.buffered
        /\ outstanding = Tick(aw.ticket) + Tick(aw.future = "granted")
                         + Len(SelectSeq(parts, LAMBDA q : q.ticket))

(***************************************************************************)
(* No byte is lost, doubled or moved between write() and the parts: what   *)
(* the parts hold, followed by what is buffered and not yet a part, is     *)
(* what poll_write() has taken, in order.                                  *)
(***************************************************************************)
WrittenInOrder ==
    LET made == FlattenSeq([p \in DOMAIN parts |-> parts[p].content])
        rest == IF aw.ticket THEN aw.buffered ELSE <<>>
    IN  using_async_writes /\ meta # "destroyed" =>
          made \o rest = [i \in 1..writer.taken |-> i]
=============================================================================
