---------------------------- MODULE PartHandout -----------------------------
(***************************************************************************)
(* Requesting the parts of one download, one after the other, as the tail  *)
(* of s_s3_auto_ranged_get_update does once the object range is known:     *)
(* NextPartNumber picks the part, PartFirst and PartLast give its range.   *)
(* The first request may already have been made to discover the size.      *)
(* Only the arithmetic is of interest here; AutoRangedGet uses the same    *)
(* operators under the concurrency of the real meta request.               *)
(***************************************************************************)
EXTENDS PartRanges, Sequences, FiniteSets

CONSTANTS
    FirstBytes,      \* offsets at which a requested range starts
    MaxBytes,        \* largest requested range explored, in bytes
    MaxPartSize,     \* largest part size and first part size explored
    MaxRegions,      \* largest connection count explored
    MaxUploadParts   \* g_s3_max_num_upload_parts, scaled down

ASSUME HandoutBounds ==
    /\ FirstBytes \subseteq Nat
    /\ MaxBytes \in Nat \ {0}
    /\ MaxPartSize \in Nat \ {0}
    /\ MaxRegions \in Nat \ {0}
    /\ MaxUploadParts \in Nat \ {0}

VARIABLES
    job,     \* the fixed inputs: range, sizes, connection count
    spread,  \* the spread_* fields of the auto-ranged-get
    handed   \* parts requested so far, in request order

handoutVars == <<job, spread, handed>>

Jobs == [first : FirstBytes, bytes : 1 .. MaxBytes,
         partSize : 1 .. MaxPartSize, firstPartSize : 1 .. MaxPartSize,
         regions : 1 .. MaxRegions, outOfOrder : BOOLEAN, discovered : 0 .. 1]

LastByte(j) == j.first + j.bytes - 1

Total(j) == NumParts(j.partSize, j.firstPartSize, j.first, LastByte(j))

\* A discovering GET has already requested part 1.
InitHandout ==
    /\ job \in Jobs
    /\ handed = IF job.discovered = 1 THEN <<1>> ELSE <<>>
    /\ spread = InitSpread(job.outOfOrder, job.discovered, Total(job), job.regions)

RequestNextPart ==
    /\ Len(handed) < Total(job)
    /\ handed' = Append(handed, NextPartNumber(spread, Len(handed)))
    /\ spread' = AfterHandout(spread)
    /\ UNCHANGED job

NextHandout == RequestNextPart

HandoutSpec == InitHandout /\ [][NextHandout]_handoutVars

BytesOf(j, n) ==
    PartFirst(j.partSize, j.firstPartSize, j.first, n)
      .. PartLast(j.partSize, j.firstPartSize, j.first, LastByte(j), n)

Region(s, n) == CHOOSE r \in 0 .. s.regions - 1 :
    n \in RegionStart(s, r) .. (RegionStart(s, r + 1) - 1)
-----------------------------------------------------------------------------
(***************************************************************************)
(* The parts requested so far are distinct, lie inside the object, are not *)
(* empty and do not overlap; when the last one has been requested they     *)
(* cover every byte of the range. (s_next_part_number_synced together with *)
(* aws_s3_calculate_auto_ranged_get_part_range)                            *)
(***************************************************************************)
PartsTileTheRange ==
    /\ \A i \in DOMAIN handed : /\ handed[i] \in 1 .. Total(job)
                                /\ BytesOf(job, handed[i]) # {}
    /\ \A i, k \in DOMAIN handed :
          i # k => BytesOf(job, handed[i]) \cap BytesOf(job, handed[k]) = {}
    /\ Len(handed) = Total(job) =>
          UNION {BytesOf(job, handed[i]) : i \in DOMAIN handed} = job.first .. LastByte(job)

(***************************************************************************)
(* "The 3 requests in flight at any moment are in 3 different regions of   *)
(* the object, and each region is still fetched front to back": any        *)
(* `regions` consecutive hand-outs come from distinct regions, and a       *)
(* region's parts go out in object order. (s3_auto_ranged_get.h:75-95)     *)
(***************************************************************************)
SpreadRotates ==
    spread.regions >= 2 =>
        \A i, k \in (job.discovered + 1) .. Len(handed) :
            i < k => /\ (k - i < spread.regions =>
                            Region(spread, handed[i]) # Region(spread, handed[k]))
                     /\ (Region(spread, handed[i]) = Region(spread, handed[k]) =>
                            handed[i] < handed[k])

(***************************************************************************)
(* The upload split never exceeds the service's part limit, covers the     *)
(* content exactly, and only the last part is shorter than the part size.  *)
(* (aws_s3_calculate_optimal_mpu_part_size_and_num_parts)                  *)
(***************************************************************************)
MpuSplitFits ==
    LET size  == MpuPartSize(job.bytes, job.partSize, MaxUploadParts)
        parts == MpuNumParts(job.bytes, job.partSize, MaxUploadParts)
    IN  /\ parts \in 1 .. MaxUploadParts
        /\ (parts - 1) * size < job.bytes
        /\ job.bytes <= parts * size

(***************************************************************************)
(* The hand-out is sound: every byte of the range once, with the requests  *)
(* in flight spread over the regions. (s_next_part_number_synced)          *)
(***************************************************************************)
HandoutIsSound == PartsTileTheRange /\ SpreadRotates
=============================================================================
