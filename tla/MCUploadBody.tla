---------------------------- MODULE MCUploadBody ----------------------------
(***************************************************************************)
(* Bounds for the bodies of upload parts.  The streamed parts begin at an  *)
(* offset that is or is not on a page, end before or at the end of the     *)
(* file or declare more than it has, and take one load, several, or a last *)
(* load that is rounded up past the part's end; one is empty.              *)
(***************************************************************************)
EXTENDS UploadBody

FilePart(offset, size, chunk, page) ==
    [offset |-> offset, size |-> size, chunk |-> chunk, page |-> page]
MCFileParts == {FilePart(0, 3, 2, 2), FilePart(1, 4, 2, 1), FilePart(3, 4, 2, 2),
                FilePart(3, 3, 3, 2), FilePart(5, 4, 2, 1), FilePart(7, 2, 2, 1)}
=============================================================================
