------------------------------ MODULE MCUpdate ------------------------------
(***************************************************************************)
(* A load for TLC: one feed of up to MaxLen entries, in documents of       *)
(* several shapes, and at most one entry of another feed; and any slice of *)
(* entries without expiry in the cache.  Entries have a key of Ranks, one  *)
(* invalid or two valid vals, and no expiry, or expire now or later.       *)
(***************************************************************************)
EXTENDS Update, FiniteSets

CONSTANTS MaxLen, Ranks

MCEntries == [key : Ranks, val : {0, 1, 2}, expires : {0, 2, 3}]
MCValid == {e \in MCEntries : e.val > 0}

MCCached ==
  LET E == {e \in MCValid : e.expires = 0}
  IN  {s \in UNION {[1 .. n -> E] : n \in 0 .. Cardinality(Ranks)} : Sorted(s)}
MCOthers == {<<>>} \cup {<<e>> : e \in MCEntries}

Array(s) == << <<"lbracket">> >> \o [m \in 1 .. Len(s) |-> s[m]] \o << <<"rbracket">> >>
Member(name, value) == [name |-> name, value |-> value]
Doc(members) == [object |-> TRUE, members |-> members]

Lists == UNION {[1 .. n -> {<<"entry", e>> : e \in MCEntries}] : n \in 0 .. MaxLen}
Short == {<<>>, << <<"entry", [key |-> 1, val |-> 1, expires |-> 0]>> >>}

\* What may stand before the array: nothing, the wanted name as a string value, an
\* array of entries under another name.
Before == {<<>>, <<Member("other", << <<"wanted">> >>)>>,
           <<Member("other", Array(<< <<"entry", [key |-> 2, val |-> 2, expires |-> 0]>> >>))>>}

MCDocs ==
  {Doc(<<Member("wanted", Array(s))>>) : s \in Lists}
    \cup {Doc(b \o <<Member("wanted", Array(s))>> \o after) :
            b \in Before, s \in Short, after \in Before}
    \cup {Doc(<<Member("wanted", Array(s \o << <<"bad">> >> \o t))>>) : s \in Short, t \in Short}
    \cup {Doc(b) : b \in Before}
    \cup {Doc(<<Member("wanted", << <<"other">> >>)>>)}
    \cup {[object |-> FALSE, members |-> <<>>]}
=============================================================================
