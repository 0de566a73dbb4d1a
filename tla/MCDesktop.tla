------------------------------ MODULE MCDesktop ------------------------------
(***************************************************************************)
(* Desktop with two directories, one of which has a second name.           *)
(***************************************************************************)
EXTENDS Desktop

CONSTANTS d1, d2, link, f1

MCCanonical == [p \in {d1, d2, link} |-> IF p = d2 THEN d2 ELSE d1]

(* No workspace, one without a mount path, and two.                        *)
MCWorkspaceLists == {<<>>, <<NoPath>>, <<link, d2>>}
=============================================================================
