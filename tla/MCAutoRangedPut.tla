--------------------------- MODULE MCAutoRangedPut ---------------------------
(***************************************************************************)
(* Bodies the runs of AutoRangedPut upload.                                *)
(***************************************************************************)
EXTENDS AutoRangedPut

Known(parts, resume) == [known |-> TRUE, body |-> parts, resume |-> resume]
Unknown(parts) == [known |-> FALSE, body |-> parts, resume |-> FALSE]

\* Two or three parts of known length, the two parts also resumed; none or one
\* of unknown length, read two ahead.
Uploads == {Known(2, TRUE), Known(3, FALSE), Unknown(0), Unknown(1)}

\* The resume alone
Resumed == {Known(2, TRUE)}
=============================================================================
