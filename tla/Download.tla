------------------------------ MODULE Download ------------------------------
(***************************************************************************)
(* What a download promises its caller, without requests, parts, threads   *)
(* or windows: at some point it learns which bytes of the object it is     *)
(* after and whether they come in order; every byte is handed over at most *)
(* once; it ends once, successfully only with all of them.                 *)
(***************************************************************************)
EXTENDS Integers

CONSTANT Byte    \* the byte offsets of objects

VARIABLES
    known,      \* has the object been discovered?
    want,       \* the bytes the download is after
    inOrder,    \* are they handed over in order?
    got,        \* the bytes handed over
    outcome     \* "none" until the caller is told "SUCCESS" or "FAILED"

vars == <<known, want, inOrder, got, outcome>>

Init ==
    /\ known = FALSE
    /\ want = {}
    /\ inOrder = TRUE
    /\ got = {}
    /\ outcome = "none"

\* The object is discovered, at most once.
Learn ==
    /\ ~known
    /\ known' = TRUE
    /\ want' \in SUBSET Byte
    /\ inOrder' \in BOOLEAN
    /\ outcome = "none"
    /\ got = {}
    /\ UNCHANGED <<got, outcome>>

\* The order may be settled before the object is (an empty object is looked
\* at twice).
SettleOrder ==
    /\ ~known
    /\ got = {}
    /\ inOrder' \in BOOLEAN
    /\ UNCHANGED <<known, want, got, outcome>>

\* Bytes are handed over. In order, none is missing before them. A response
\* whose object could not be made out may leave bytes behind before it fails.
Deliver ==
    /\ outcome = "none"
    /\ got' \in SUBSET (IF known THEN want ELSE Byte)
    /\ got \subseteq got'
    /\ inOrder => \A b \in got', a \in want : a < b => a \in got'
    /\ UNCHANGED <<known, want, inOrder, outcome>>

End ==
    /\ outcome = "none"
    /\ outcome' \in {"SUCCESS", "FAILED"}
    /\ outcome' = "SUCCESS" => known /\ got = want
    /\ UNCHANGED <<known, want, inOrder, got>>

Next == Learn \/ SettleOrder \/ Deliver \/ End

Spec == Init /\ [][Next]_vars
=============================================================================
