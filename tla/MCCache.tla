------------------------------ MODULE MCCache ------------------------------
(* The cache on its own, for TLC.  MaxHistory is one less than the number  *)
(* of serials, the tightest the assumption allows, so that serials wrap    *)
(* and every record of a full history is told from the current serial.     *)
EXTENDS Cache, TLC

CONSTANTS r1, r2, as1, p1, p2

MCRoas == {r1, r2}
MCCustomers == {as1}
MCProviderLists == {p1, p2}
MCSymmetry == Permutations(MCRoas) \cup Permutations(MCProviderLists)
=============================================================================
