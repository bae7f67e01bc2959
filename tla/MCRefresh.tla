----------------------------- MODULE MCRefresh -----------------------------
(* The refresh cycle, for TLC. *)
EXTENDS Refresh

CONSTANTS r1, r2, as1, u1, u2, v1, v2   \* model values

\* r1 expires with the first refresh.
MCExpires == [x \in Roas \cup Customers |-> IF x = r1 THEN 2 ELSE 0]

\* Nothing expires.
MCNoExpiry == [x \in Roas \cup Customers |-> 0]
=============================================================================
