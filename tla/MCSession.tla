----------------------------- MODULE MCSession -----------------------------
(* Sessions, for TLC. *)
EXTENDS Session

CONSTANTS r1, as1, p1, p2, a, b   \* model values
=============================================================================
