---------------------------- MODULE MCPutPrepare ----------------------------
(***************************************************************************)
(* Instances of PutPrepare for TLC.  A block is three chunks of two units, *)
(* buffers of up to four units come from primary, the limit is eight.      *)
(***************************************************************************)
EXTENDS PutPrepare

Req(meta, part, kind, size) == [meta |-> meta, part |-> part, kind |-> kind, size |-> size]

\* An upload whose last part is small, and one whose parts nearly fill the pool
Upload == {Req("a", 1, "put", 4), Req("a", 2, "put", 4), Req("a", 3, "put", 1)}
LargeUpload == {Req("b", 1, "put", 7), Req("b", 2, "put", 2)}

\* Downloads of the same part size, too large for primary, and a small one
Download == {Req("c", 1, "get", 5), Req("c", 2, "get", 5)}
OtherDownload == {Req("d", 1, "get", 5)}
SmallDownload == {Req("e", 1, "get", 2), Req("e", 2, "get", 2)}

\* Async writes: together the first two exceed ForcedImpact, the third the limit
Write == {Req("w", 1, "write", 3)}
Writes == Write \cup {Req("x", 1, "write", 5), Req("y", 1, "write", 9)}

AllRequests == UNION {Upload, LargeUpload, Download, OtherDownload, SmallDownload, Writes}

Mixed == {Upload \cup OtherDownload, LargeUpload \cup Download,
          Download \cup OtherDownload \cup Write, SmallDownload \cup Writes}
=============================================================================
