----------------------------- MODULE PartStream -----------------------------
(***************************************************************************)
(* The stream an upload reads a part from a file with                      *)
(* (s3_part_streaming_input_stream.c), over the file reader that runs its  *)
(* reads on other threads (s3_parallel_input_stream.c).  The part's pooled *)
(* buffer is split in two halves: one is read from while the other is      *)
(* loaded.  A stream that is destroyed during a load does not wait for it: *)
(* it goes when the load ends, and the load still writes into its half of  *)
(* the ticket's memory.                                                    *)
(*                                                                         *)
(* Byte o + 1 of the file stands at offset o.  Lengths are size_t values,  *)
(* and wrap at SizeMax.                                                    *)
(***************************************************************************)
EXTENDS Integers, Sequences, FiniteSetsExt

CONSTANTS FileLen,    \* length of the file
          SizeMax     \* one more than the largest size_t

ASSUME PartStreamAssumption == FileLen \in Nat /\ SizeMax \in Nat /\ SizeMax > 2 * FileLen

VARIABLES ps,       \* the current stream, or NoStream
          mem,      \* the ticket's memory: its two halves
          orphans   \* the pending loads of streams that were destroyed

streamVars == <<ps, mem, orphans>>

NoLoad == [state |-> "none", offset |-> 0, length |-> 0, count |-> 0]
NoStream == [live |-> FALSE, load |-> NoLoad]

\* s_kick_off_next_load: the chunk after the one being read, from the start
\* of its page, and in whole pages when it is shorter than a half.
KickOffNextLoad(s) ==
    LET after == s.read + (s.len - s.in_chunk)
        pad == (s.offset + after) % s.page
        remaining == (s.total - after + pad) % SizeMax
        short == remaining < s.chunk /\ remaining % s.page > 0
        aligned == IF short THEN remaining + s.page - (remaining % s.page) ELSE remaining
        load == [state |-> "pending", offset |-> s.offset + after - pad, count |-> 0,
                 length |-> Min({aligned, s.chunk})]
    IN  [s EXCEPT !.pad = pad,
                  !.load = IF remaining > 0 /\ ~s.eos_loaded THEN load ELSE @]

\* aws_part_streaming_input_stream_new over a claimed ticket
StreamNew(offset, size, chunk, page) ==
    LET total == Min({size, Max({FileLen - offset, 0})})
        s == [live |-> TRUE, offset |-> offset, total |-> total, chunk |-> chunk,
              page |-> page, pad |-> 0, in_chunk |-> 0, read |-> 0, half |-> 2,
              len |-> 0, load |-> NoLoad, eos_loaded |-> FALSE, eos |-> total = 0]
    IN  IF total = 0 THEN s ELSE KickOffNextLoad(s)

\* The ticket's memory after a load wrote count bytes from offset into a half
Loaded(half, offset, count) ==
    [mem EXCEPT ![half] = [i \in DOMAIN @ |-> IF i <= count THEN offset + i ELSE @[i]]]
CountOf(load) == Min({load.length, Max({FileLen - load.offset, 0})})

\* s_s3_parallel_from_file_read_task for the stream's own load: a read that
\* is shorter than asked is the end of the file.
LoadCompletes ==
    /\ ps.load.state = "pending"
    /\ \/ /\ ps' = [ps EXCEPT !.load.state = "done", !.load.count = CountOf(ps.load)]
          /\ mem' = Loaded(3 - ps.half, ps.load.offset, CountOf(ps.load))
       \/ ps' = [ps EXCEPT !.load.state = "failed"] /\ UNCHANGED mem
    /\ UNCHANGED orphans

\* s_part_streaming_input_stream_destroy
DestroyStream(s) ==
    orphans' = IF s.load.state = "pending"
               THEN orphans \union {[half |-> 3 - s.half, offset |-> s.load.offset,
                                     count |-> CountOf(s.load)]}
               ELSE orphans

\* The load of a destroyed stream ends, and the stream with it.
OrphanCompletes(o) ==
    /\ o \in orphans
    /\ mem' = Loaded(o.half, o.offset, o.count)
    /\ orphans' = orphans \ {o}
    /\ UNCHANGED ps

\* s_part_streaming_input_stream_read blocks on the load when the half it
\* reads from is used up.
MustWait(s) == s.len = 0 /\ s.load.state = "pending"
LoadFailed(s) == s.len = 0 /\ s.load.state = "failed"

\* Mutant: the position in a new half ignores the bytes before the part.
SwappedAtStart(s) ==
    KickOffNextLoad([s EXCEPT !.half = 3 - @, !.len = s.load.count, !.load = NoLoad,
                              !.eos_loaded = s.load.count < s.load.length,
                              !.in_chunk = 0, !.pad = 0])

\* The loaded half becomes the one to read, and the next load starts.
Swapped(s) ==
    KickOffNextLoad([s EXCEPT !.half = 3 - @, !.len = s.load.count, !.load = NoLoad,
                              !.eos_loaded = s.load.count < s.load.length,
                              !.in_chunk = s.pad, !.pad = 0])

\* The stream a read takes its bytes from, once no load is waited for
ReadingHalf(s) == IF s.len = 0 /\ s.load.state = "done" THEN Swapped(s) ELSE s

\* The bytes a read returns from that stream into a destination with so much
\* room, and the stream after it
BytesRead(s, room) ==
    SubSeq(mem[s.half], s.in_chunk + 1,
           s.in_chunk + Min({room, s.total - s.read, s.len - s.in_chunk}))
StreamAfter(s, n) ==
    LET at == s.in_chunk + n
        all == s.read + n = s.total
        drained == at = s.len \/ all
    IN  [s EXCEPT !.read = @ + n,
                  !.in_chunk = IF drained THEN 0 ELSE at,
                  !.len = IF drained THEN 0 ELSE @,
                  !.eos = @ \/ (drained /\ (s.eos_loaded \/ all))]

\* s_part_streaming_input_stream_get_status
EndOfStream(s) == s.read = s.total \/ s.eos
=============================================================================
