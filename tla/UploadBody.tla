----------------------------- MODULE UploadBody -----------------------------
(***************************************************************************)
(* How the body of an upload's part reaches the wire: the parts come from  *)
(* asynchronous writes (AsyncWrite) or one of them is streamed from a file *)
(* (PartStream); aws_s3_message_util_assign_body wraps the part's stream   *)
(* for its checksum (s3_request_messages.c, s3_chunk_stream.c,             *)
(* s3_checksum_stream.c, s3_checksum_context.c); the HTTP library pulls    *)
(* from the stream in pieces of any size; an attempt may fail at any point *)
(* and the part is then prepared and sent again, with the same ticket and  *)
(* the same checksum context.                                              *)
(*                                                                         *)
(* A checksum is modelled by the bytes it was computed over.  The framing  *)
(* text of an aws-chunked body is a number of characters.                  *)
(***************************************************************************)
EXTENDS AsyncWrite, PartStream

CONSTANTS Locations,     \* where checksums go: "none", "review", "header", "trailer"
          FileParts,     \* streamed parts: [offset, size, chunk, page]
          Rooms,         \* room in the destination of one read
          MaxRetries     \* bound: retries of a part

VARIABLES opts,      \* [location, file] of this upload
          sending,   \* the part that has the connection, 0 for none
          body,      \* the body stream of the attempt
          retries    \* retries of the part so far

vars == <<writeVars, streamVars, opts, sending, body, retries>>

FromFile == opts.file # <<>>
TheFile == opts.file[1]
NoBody == [seg |-> "none"]

\* Lengths of the framing: hex length and CRLF, CRLF 0 CRLF, 0 CRLF, the
\* trailer's name and colon, the encoded checksum, and two CRLF
PreLen == 2
FinalLen == 3
EmptyLen == 2
NameLen == 2
SumLen == 2
PostLen == 2

\* aws_s3_meta_request_init_base refuses a checksum in the header of a
\* streamed part, which is not in memory when the header is written.
Accepted(location, streamed) == ~(streamed /\ location = "header")

\* An upload is written to, or one part of it is streamed from a file: its
\* request has been made and its buffer reserved.
Init ==
    /\ \/ AsyncWriteInit(TRUE, <<>>) /\ opts \in [location : Locations, file : {<<>>}]
       \/ \E f \in FileParts :
            LET content == [i \in 1..Min({f.size, FileLen - f.offset}) |-> f.offset + i]
            IN  /\ AsyncWriteInit(FALSE, <<[NewPart(content) EXCEPT !.stage = "ready"]>>)
                /\ opts \in [location : {l \in Locations : Accepted(l, TRUE)}, file : {<<f>>}]
    /\ mem = [h \in 1..2 |-> [i \in 1..(IF FromFile THEN TheFile.chunk ELSE 0) |-> 0]]
    /\ ps = NoStream /\ orphans = {}
    /\ sending = 0 /\ body = NoBody /\ retries = 0

-----------------------------------------------------------------------------
\* aws_s3_upload_request_checksum_context_should_calculate, _should_add_trailer,
\* _should_add_header and _finalize_checksum: the first result stays.
ShouldCalculate(sum) == opts.location # "none" /\ ~sum.calculated
ShouldAddTrailer == opts.location = "trailer"
ShouldAddHeader == opts.location = "header"
FinalizeChecksum(sum, bytes) ==
    IF sum.calculated THEN sum ELSE [calculated |-> TRUE, value |-> bytes]

\* aws_chunk_stream_new: the length it declares
ChunkedLength(n) ==
    (IF n > 0 THEN PreLen + n + FinalLen ELSE EmptyLen) + NameLen + SumLen + PostLen

\* aws_s3_message_util_assign_body: a chunk stream for a trailer, the
\* checksum of the buffer for a header, a checksum stream for the review, or
\* the bare stream.  An HTTP body of length 0 is not read.
AssignBody(sum, n, overlapped) ==
    [seg |-> CASE ShouldAddTrailer /\ n > 0 -> "pre"
               [] ~ShouldAddTrailer /\ n = 0 -> "end"
               [] OTHER -> "body",
     left |-> PreLen, length |-> n,
     declared |-> IF ShouldAddTrailer THEN ChunkedLength(n) ELSE n,
     summing |-> ~ShouldAddHeader /\ ShouldCalculate(sum), sum |-> <<>>,
     payload |-> <<>>, emitted |-> 0,
     checksum |-> IF ShouldAddHeader THEN sum ELSE NoSum,
     overlapped |-> overlapped]

FileStream == StreamNew(TheFile.offset, TheFile.size, TheFile.chunk, TheFile.page)

\* s_s3_prepare_upload_part once the body is in memory, or for a file, and
\* the message of s_s3_prepare_upload_part_finish.  A retry makes a new file
\* stream over the same ticket and reuses the part's checksum context.
PrepareUploadPart(p) ==
    LET n == IF FromFile THEN ps'.total ELSE Len(parts[p].content)
        sum == IF ShouldAddHeader
               THEN FinalizeChecksum(parts[p].sum, parts[p].content) ELSE parts[p].sum
    IN  /\ DestroyStream(ps)
        /\ ps' = IF FromFile THEN FileStream ELSE NoStream
        /\ parts' = [parts EXCEPT ![p].stage = "sending", ![p].sum = sum]
        /\ body' = AssignBody(sum, n, orphans' # {})
        /\ sending' = p

\* The request of a part is destroyed; its file stream keeps the ticket
\* until the stream goes.
EndPart(p, stage, s) ==
    LET kept == orphans # {} \/ s.load.state = "pending"
    IN  /\ DestroyStream(s) /\ ps' = NoStream
        /\ parts' = [parts EXCEPT ![p].stage = stage, ![p].ticket = kept,
                                  ![p].stored = IF stage = "done" THEN body.payload ELSE <<>>]
        /\ outstanding' = IF kept THEN outstanding ELSE outstanding - 1
        /\ sending' = 0 /\ body' = NoBody /\ retries' = 0

\* The part gets the connection and is prepared for the first time.
StartPart(p) ==
    /\ sending = 0 /\ parts[p].stage = "ready" /\ ~HasResult
    /\ PrepareUploadPart(p)
    /\ UNCHANGED <<using_async_writes, aw, writer, at_end, outstanding, finish_result, meta,
                   mem, opts, retries>>

-----------------------------------------------------------------------------
\* s_aws_input_chunk_stream_read on its text before and after the body, with
\* s_set_chunk_stream and s_set_null_stream at the end of each
FrameRead(room) ==
    /\ body.seg \in {"pre", "post"}
    /\ LET n == Min({room, body.left})
       IN  body' = [body EXCEPT !.left = @ - n, !.emitted = @ + n,
                                !.seg = IF n < body.left THEN @
                                        ELSE IF @ = "pre" THEN "body" ELSE "end"]
    /\ UNCHANGED <<writeVars, streamVars, opts, sending, retries>>

\* s_aws_input_checksum_stream_read, and at the end of the body
\* s_set_post_chunk_stream: the trailer holds what the context has by then.
FeedBody(bytes, eos) ==
    LET summed == IF body.summing THEN body.sum \o bytes ELSE <<>>
        sum == IF body.summing /\ eos
               THEN FinalizeChecksum(parts[sending].sum, summed) ELSE parts[sending].sum
        trailer == eos /\ ShouldAddTrailer
    IN  /\ parts' = [parts EXCEPT ![sending].sum = sum]
        /\ body' = [body EXCEPT
             !.payload = @ \o bytes, !.emitted = @ + Len(bytes), !.sum = summed,
             !.seg = IF trailer THEN "post" ELSE IF eos THEN "end" ELSE "body",
             !.left = (IF body.length > 0 THEN FinalLen ELSE EmptyLen) + NameLen
                      + (IF sum.calculated THEN SumLen ELSE 0) + PostLen,
             !.checksum = IF trailer THEN sum ELSE @]

MemoryRead(room) ==
    /\ body.seg = "body" /\ ~FromFile
    /\ LET content == parts[sending].content
           at == Len(body.payload)
           n == Min({room, Len(content) - at})
       IN  FeedBody(SubSeq(content, at + 1, at + n), at + n = Len(content))
    /\ UNCHANGED streamVars

FileRead(room) ==
    /\ body.seg = "body" /\ FromFile
    /\ ~MustWait(ps) /\ ~LoadFailed(ps)
    /\ \E s \in {ReadingHalf(ps)} : \E bytes \in {BytesRead(s, room)} :
          /\ ps' = StreamAfter(s, Len(bytes))
          /\ FeedBody(bytes, EndOfStream(ps'))
    /\ UNCHANGED <<mem, orphans>>

BodyRead(room) ==
    /\ MemoryRead(room) \/ FileRead(room)
    /\ UNCHANGED <<using_async_writes, aw, writer, at_end, outstanding, finish_result,
                   meta, opts, sending, retries>>

LoadStep ==
    /\ LoadCompletes
    /\ UNCHANGED <<writeVars, opts, sending, body, retries>>

\* The last stream of a part that has ended gives its ticket back.
OrphanStep ==
    /\ \E o \in orphans : OrphanCompletes(o)
    /\ IF orphans' = {} /\ parts[1].stage \in Ended
       THEN parts' = [parts EXCEPT ![1].ticket = FALSE] /\ outstanding' = outstanding - 1
       ELSE UNCHANGED <<parts, outstanding>>
    /\ UNCHANGED <<using_async_writes, aw, writer, at_end, finish_result, meta,
                   opts, sending, body, retries>>

-----------------------------------------------------------------------------
\* The service stores a part whose checksum agrees with its bytes.
PartSucceeds ==
    /\ body.seg = "end"
    /\ body.checksum.calculated => body.checksum.value = body.payload
    /\ EndPart(sending, "done", ps)
    /\ UNCHANGED <<using_async_writes, aw, writer, at_end, finish_result, meta, mem, opts>>

\* The attempt fails: the connection drops, a read of the body fails or
\* waits too long, the service answers with an error, the upload is canceled.
AttemptFails ==
    /\ sending # 0
    /\ \/ /\ ~HasResult /\ retries < MaxRetries
          /\ PrepareUploadPart(sending) /\ retries' = retries + 1
          /\ UNCHANGED <<outstanding, finish_result>>
       \/ EndPart(sending, "failed", ps) /\ SetFail
    /\ UNCHANGED <<using_async_writes, aw, writer, at_end, meta, mem, opts>>

\* The multipart upload is completed once the last part is done.
CompleteUpload ==
    /\ ~HasResult /\ parts # <<>>
    /\ at_end \/ ~using_async_writes
    /\ \A p \in DOMAIN parts : parts[p].stage \in {"done", "noop"}
    /\ finish_result' = "ok"
    /\ UNCHANGED <<using_async_writes, aw, writer, parts, at_end, outstanding, meta,
                   streamVars, opts, sending, body, retries>>

sendVars == <<streamVars, opts, sending, body, retries>>
UserStep == (WriterActs \/ Cancel) /\ UNCHANGED sendVars
SystemStep ==
    \/ AsyncWriteStep /\ UNCHANGED sendVars
    \/ \E p \in DOMAIN parts : StartPart(p)
    \/ \E room \in Rooms : FrameRead(room) \/ BodyRead(room)
    \/ LoadStep \/ OrphanStep
    \/ PartSucceeds \/ AttemptFails \/ CompleteUpload
Next == UserStep \/ SystemStep
Spec == Init /\ [][Next]_vars /\ WF_vars(SystemStep)

-----------------------------------------------------------------------------
\* Every variable has its type.
TypeOK ==
    /\ aw.future \in {"none", "open", "granted", "failed"}
    /\ writer.state \in {"idle", "run", "pending"}
    /\ \A p \in DOMAIN parts :
          parts[p].stage \in {"task", "read", "ready", "sending"} \union Ended
    /\ outstanding \in Nat /\ sending \in 0..Len(parts) /\ retries \in 0..MaxRetries
    /\ finish_result \in {"none", "ok", "fail"}
    /\ meta \in {"live", "finished", "destroyed"}
    /\ body.seg \in {"none", "pre", "body", "post", "end"}
    /\ ps.load.state \in {"none", "pending", "done", "failed"}

(***************************************************************************)
(* An attempt that sent its whole body sent exactly what its Content-Length*)
(* declared, the part's bytes in order, and the checksum of those bytes,   *)
(* however the HTTP library cut its reads, whatever the file's page size,  *)
(* and however many attempts went before.  (An attempt that began while a  *)
(* load of an earlier attempt was running is the exception: see            *)
(* RecreatedStreamStoresThePart.)                                          *)
(***************************************************************************)
SentBodyIsThePart ==
    body.seg = "end" /\ ~body.overlapped =>
        /\ body.emitted = body.declared
        /\ body.payload = parts[sending].content
        /\ ShouldAddHeader \/ ShouldAddTrailer =>
              body.checksum = [calculated |-> TRUE, value |-> parts[sending].content]

(***************************************************************************)
(* "If retry happens, just recreate it": with the file stream recreated by *)
(* each attempt, a part the service accepted holds the bytes of the part.  *)
(***************************************************************************)
RecreatedStreamStoresThePart ==
    \A p \in DOMAIN parts :
        parts[p].stage = "done" => parts[p].stored = parts[p].content

(***************************************************************************)
(* A successful upload by asynchronous writes stored every byte the user   *)
(* was told was written, in order, up to the end of the body.              *)
(***************************************************************************)
SuccessStoresWhatWasWritten ==
    finish_result = "ok" /\ using_async_writes =>
        FlattenSeq([p \in DOMAIN parts |-> parts[p].stored])
            = [i \in 1..writer.taken |-> i]

(***************************************************************************)
(* A write() never stays pending: the part it waits for is read, the       *)
(* buffer it waits for comes or is refused, or the end of the meta request *)
(* wakes it.                                                               *)
(***************************************************************************)
EveryWriteReturns == []<>(writer.state = "idle")

(***************************************************************************)
(* The buffer goes from writer to part with all its bytes: one owner of    *)
(* its ticket at every moment, and the bytes written in order.             *)
(***************************************************************************)
BufferHandedOver == TypeOK /\ TicketHasOneOwner /\ WrittenInOrder

(***************************************************************************)
(* What reaches the service is the part: in each attempt that sent its     *)
(* body to the end, and in the object of a successful upload.              *)
(***************************************************************************)
BodyIsThePart == SentBodyIsThePart /\ SuccessStoresWhatWasWritten
=============================================================================
