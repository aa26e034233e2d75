--------------------------- MODULE MCAutoRangedGet ---------------------------
(***************************************************************************)
(* Option sets for checking AutoRangedGet on small objects.                *)
(***************************************************************************)
EXTENDS AutoRangedGet

\* A plain download: in-order body callback, no range, ranged discovery.
Plain == [sink |-> "callback", ooo |-> FALSE, backpressure |-> FALSE, window |-> 0,
          notes |-> FALSE, range |-> "none", range_first |-> 0, range_last |-> 0, hint |-> 0,
          validate |-> "none", part_size |-> 1, optimal |-> 0, capacity |-> 0]

\* In-order delivery to a body callback under read backpressure, with the
\* window closed at first or smaller than a part.
Backpressured ==
    {[Plain EXCEPT !.backpressure = TRUE, !.window = w, !.part_size = 2] : w \in {0, 1, 3}}

\* The same out of order: parts are delivered as they arrive, in chunks. With
\* a hint that is too small, part 1 is requested again with the others.
BackpressuredOutOfOrder ==
    {[o EXCEPT !.ooo = TRUE, !.hint = h] : o \in Backpressured, h \in {0, 2}}

\* A file sink, written by parallel workers or by the delivery task; the
\* library opens the read window itself.
ToFile ==
    {[Plain EXCEPT !.sink = "file", !.ooo = b, !.backpressure = c, !.window = 1, !.part_size = 2] :
        b, c \in BOOLEAN}

Deliveries == Backpressured \cup BackpressuredOutOfOrder \cup ToFile

\* The ways to discover an object: ranges, hints, whole-object checksums, a
\* part size chosen late, a receive buffer that may be too small.
Ranges ==
    {[Plain EXCEPT !.range = "from", !.range_first = f, !.range_last = l] :
        f \in {0, 1}, l \in {0, 2}}
    \cup {[Plain EXCEPT !.range = "suffix", !.range_last = n] : n \in {1, 4}}

Hints == {[Plain EXCEPT !.hint = h, !.part_size = 2, !.ooo = b] : h \in {1, 2, 3}, b \in BOOLEAN}

Validations == {[Plain EXCEPT !.validate = v, !.ooo = b] :
                   v \in {"supplied", "discovered"}, b \in BOOLEAN}

LatePartSizes == {[Plain EXCEPT !.optimal = 2, !.validate = v, !.hint = h] :
                     v \in {"none", "discovered"}, h \in {0, 1}}

ReceiveBuffers == {[Plain EXCEPT !.sink = "recv_buffer", !.capacity = c, !.part_size = 2,
                                 !.backpressure = b, !.window = 1, !.range = r] :
                      c \in {1, 3}, b \in BOOLEAN, r \in {"none", "from"}}

Discoveries ==
    {[o EXCEPT !.notes = TRUE] : o \in Ranges \cup Hints \cup Validations \cup LatePartSizes}
    \cup ReceiveBuffers
    \cup {[Plain EXCEPT !.sink = s, !.ooo = TRUE, !.notes = TRUE] : s \in {"file", "callback_ex"}}

\* Deliveries are of an object of five bytes, discoveries of at most three,
\* with the window opened as far.
ObjectBound ==
    IF opts \in Deliveries
    THEN ~synced.range_empty /\ (synced.range_known => synced.last = 4)
    ELSE synced.last < 3 /\ read_window_running_total <= 3

\* For liveness: any window is reached from one that is closed at first.
Flows ==
    {o \in Deliveries : o.sink = "callback" => o.window = 0}
    \cup {[Plain EXCEPT !.ooo = b, !.part_size = 2] : b \in BOOLEAN}
Downloads == Deliveries \cup Discoveries
=============================================================================
