---------------------------- MODULE MCLifecycle ----------------------------
(* The life of the server, for TLC. *)
EXTENDS Lifecycle

CONSTANTS c1, c2, a1, a2, q, r   \* model values
=============================================================================
