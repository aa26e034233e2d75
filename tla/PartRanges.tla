----------------------------- MODULE PartRanges -----------------------------
(***************************************************************************)
(* The arithmetic that cuts an object into parts: part count and part      *)
(* range of a ranged download (s3_util.c), part size and count of a        *)
(* multipart upload (s3_util.c), and the block-cyclic order in which an    *)
(* out-of-order download requests its parts (s3_auto_ranged_get.c).        *)
(* Byte ranges are inclusive at both ends, as in the HTTP Range header.    *)
(***************************************************************************)
EXTENDS Integers

AtMost(a, b) == IF a < b THEN a ELSE b

CeilDiv(a, b) == (a \div b) + (IF a % b > 0 THEN 1 ELSE 0)

\* aws_s3_calculate_auto_ranged_get_num_parts
NumParts(partSize, firstPartSize, first, last) ==
    IF firstPartSize = 0 \/ first + firstPartSize > last
    THEN 1
    ELSE 1 + CeilDiv(last + 1 - (first + firstPartSize), partSize)

\* Mutant: the first part is taken to be as long as the others.
PartFirstOfEqualParts(partSize, firstPartSize, first, n) == first + (n - 1) * partSize

\* aws_s3_calculate_auto_ranged_get_part_range
PartFirst(partSize, firstPartSize, first, n) ==
    IF n = 1 THEN first ELSE first + (n - 2) * partSize + firstPartSize

PartLast(partSize, firstPartSize, first, last, n) ==
    AtMost(last, PartFirst(partSize, firstPartSize, first, n)
                   + (IF n = 1 THEN firstPartSize ELSE partSize) - 1)

\* Mutant: the part size needed to stay below the limit is rounded down.
MpuPartSizeRoundedDown(contentLength, clientPartSize, maxParts) ==
    LET needed == contentLength \div maxParts
        chosen == IF needed < clientPartSize THEN clientPartSize ELSE needed
    IN  IF contentLength = 0 THEN 0 ELSE AtMost(contentLength, chosen)

\* aws_s3_calculate_optimal_mpu_part_size_and_num_parts; maxParts is
\* g_s3_max_num_upload_parts.
MpuPartSize(contentLength, clientPartSize, maxParts) ==
    LET needed == CeilDiv(contentLength, maxParts)
        chosen == IF needed < clientPartSize THEN clientPartSize ELSE needed
    IN  IF contentLength = 0 THEN 0 ELSE AtMost(contentLength, chosen)

MpuNumParts(contentLength, clientPartSize, maxParts) ==
    IF contentLength = 0
    THEN 0
    ELSE CeilDiv(contentLength, MpuPartSize(contentLength, clientPartSize, maxParts))

NoSpread == [regions |-> 0, size |-> 0, large |-> 0, first |-> 0, handed |-> 0]

\* s_init_spread_synced: the parts left after `requested` are cut into
\* `regions` contiguous regions, the first `large` of them one part longer.
InitSpread(outOfOrder, requested, total, regions) ==
    LET remaining == total - requested
    IN  IF ~outOfOrder \/ requested + 1 > total \/ regions <= 1 \/ remaining <= regions
        THEN NoSpread
        ELSE [regions |-> regions,
              size    |-> remaining \div regions,
              large   |-> remaining % regions,
              first   |-> requested + 1,
              handed  |-> 0]

\* s_next_part_number_synced, before it counts the part as handed out.
RegionStart(spread, region) ==
    IF region < spread.large
    THEN spread.first + region * (spread.size + 1)
    ELSE spread.first + spread.large * (spread.size + 1)
           + (region - spread.large) * spread.size

NextPartNumber(spread, requested) ==
    IF spread.regions < 2
    THEN requested + 1
    ELSE RegionStart(spread, spread.handed % spread.regions)
           + spread.handed \div spread.regions

AfterHandout(spread) ==
    IF spread.regions < 2 THEN spread ELSE [spread EXCEPT !.handed = @ + 1]
=============================================================================
