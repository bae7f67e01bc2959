------------------------------ MODULE MakeDiff ------------------------------
(***************************************************************************)
(* The merge loop that compares the new with the old slice: makeDiff       *)
(* (internal/server/roa.go) and makeASPADiff (cache.go).  A step is one    *)
(* iteration.  Indices count from 1.                                       *)
(*                                                                         *)
(* An item has the key by which its slice is sorted: the rank of a ROA's   *)
(* roaKey under Less, or an ASPA's customer ASN.  Its val is what else it  *)
(* carries, which only makeASPADiff compares: a ROA's expiry, or an ASPA's *)
(* provider list.                                                          *)
(***************************************************************************)
EXTENDS Integers, Sequences

CONSTANT Items   \* items that can occur

\* Strictly, as validation leaves a slice: see module Ingest.
Sorted(s) == \A m, n \in 1 .. Len(s) : m < n => s[m].key < s[n].key

Slices == {s \in Seq(Items) : Sorted(s)}

ASSUME ItemsAssumption == \A x \in Items : x.key \in Int

VARIABLES
  new, old,   \* the arguments
  which,      \* "makeDiff" or "makeASPADiff"
  i, j,       \* what comes next in new and in old
  add, del    \* the results

args == <<new, old, which>>
diffVars == <<args, i, j, add, del>>

DiffInit ==
  /\ new \in Slices /\ old \in Slices
  /\ which \in {"makeDiff", "makeASPADiff"}
  /\ i = 1 /\ j = 1
  /\ add = <<>> /\ del = <<>>

InBoth == i <= Len(new) /\ j <= Len(old)

Replaced(x, y) == which = "makeASPADiff" /\ x.val # y.val

Same_OldStays ==
  /\ InBoth
  /\ new[i].key = old[j].key
  /\ IF Replaced(new[i], old[j])
     THEN add' = Append(add, new[i]) /\ del' = Append(del, old[j])
     ELSE UNCHANGED <<add, del>>
  /\ i' = i + 1
  /\ UNCHANGED <<args, j>>

Same_Twice ==
  /\ InBoth
  /\ new[i].key = old[j].key
  /\ i' = i + 2 /\ j' = j + 2
  /\ UNCHANGED <<args, add, del>>

Same ==
  /\ InBoth
  /\ new[i].key = old[j].key
  /\ IF Replaced(new[i], old[j])
     THEN add' = Append(add, new[i]) /\ del' = Append(del, old[j])
     ELSE UNCHANGED <<add, del>>
  /\ i' = i + 1 /\ j' = j + 1
  /\ UNCHANGED args

Added ==
  /\ add' = Append(add, new[i])
  /\ i' = i + 1
  /\ UNCHANGED <<args, j, del>>

Deleted_Twice ==
  /\ del' = del \o <<old[j], old[j]>>
  /\ j' = j + 1
  /\ UNCHANGED <<args, i, add>>

Deleted ==
  /\ del' = Append(del, old[j])
  /\ j' = j + 1
  /\ UNCHANGED <<args, i, add>>

Less == InBoth /\ new[i].key < old[j].key /\ Added
Greater == InBoth /\ old[j].key < new[i].key /\ Deleted

\* The two loops after the first: at most one of them has anything to do.
RestNew == i <= Len(new) /\ j > Len(old) /\ Added
RestOld == j <= Len(old) /\ i > Len(new) /\ Deleted

DiffNext == Same \/ Less \/ Greater \/ RestNew \/ RestOld

DiffSpec == DiffInit /\ [][DiffNext]_diffVars
-----------------------------------------------------------------------------
\* The items of the first n of s that t has no match for: what a diff should hold.
Unmatched(s, n, t) ==
  {s[m] : m \in {l \in 1 .. n :
     \A k \in 1 .. Len(t) : t[k].key = s[l].key => Replaced(s[l], t[k])}}

Elements(s) == {s[m] : m \in 1 .. Len(s)}

\* The indices stay within one past the ends of the slices, and the results hold
\* items of the slices (roa.go:142-168, cache.go:237-262).
TypeOK ==
  /\ new \in Slices /\ old \in Slices
  /\ which \in {"makeDiff", "makeASPADiff"}
  /\ i \in 1 .. Len(new) + 1 /\ j \in 1 .. Len(old) + 1
  /\ add \in Seq(Items) /\ del \in Seq(Items)

\* After each iteration the results are those of the part of the slices that was
\* passed.  At the end they are the difference that module Cache takes them for:
\* nothing is missed, nothing is announced or withdrawn in vain, though each
\* comparison sees one item of each slice (roa.go:146-158, cache.go:238-254).
DiffExact ==
  /\ Elements(add) = Unmatched(new, i - 1, old)
  /\ Elements(del) = Unmatched(old, j - 1, new)

\* The results are sorted as the slices are, so that no item is in them twice: a
\* second copy would count double in the net of getDiffsFrom (cache.go:97-122).
DiffSorted == Sorted(add) /\ Sorted(del)
=============================================================================
