---------------------------- MODULE UpdateProofs ----------------------------
(***************************************************************************)
(* Proofs about module Update and the modules it is made of, for feeds and *)
(* slices of any length over any entries.                                  *)
(*                                                                         *)
(* Ingest: the invariants of the two loops relate the slice to what it was *)
(* before the loop, src.  StoredKeys needs them carried from loop to loop: *)
(* what the sort leaves (InOrder), what the first loop leaves to the       *)
(* second (Deduped), and the second loop's own invariant (FilterExact).    *)
(*                                                                         *)
(* MakeDiff: DiffExact is not inductive by itself: that old[j] has no      *)
(* match in new is a fact about all of new, of which the loop compared one *)
(* item.  It follows from the Frontier: what was passed in one slice lies  *)
(* below what comes next in the other.                                     *)
(*                                                                         *)
(* Update: the merge may rely on sorted slices because of StoredKeys.      *)
(***************************************************************************)
EXTENDS Update, TLAPS

(* Ingest. *)

NotDecreasing(s) == \A m, n \in 1 .. Len(s) : m < n => s[m].key <= s[n].key

InOrder ==
  /\ NotDecreasing(src)
  /\ \A m \in 1 .. Len(src) : src[m] \in Range(feed)
  /\ \A e \in Range(feed) : \E m \in 1 .. Len(src) : src[m] = e

\* s has the valid keys of the feed, each once, in order.
Deduped(s) ==
  /\ Increasing(s, Len(s))
  /\ \A m \in 1 .. Len(s) : s[m] \in Range(feed) \cap Valid
  /\ ValidKeys(feed, Len(feed)) \subseteq Keys(s, Len(s))

FilterExact ==
  /\ ~cold
  /\ Deduped(src)
  /\ Increasing(list, kept)
  /\ \A m \in 1 .. kept : \E n \in 1 .. next - 1 : list[m] = src[n] /\ Unexpired(src[n])
  /\ \A n \in 1 .. next - 1 : Unexpired(src[n]) => \E m \in 1 .. kept : list[m] = src[n]
  /\ \A m \in next .. Len(list) : list[m] = src[m]

Typed == IngestTypeOK /\ text \in Seq(Symbols) /\ feed \in Seq(Entries) /\ Len(src) = Len(list)

Phase ==
  /\ pc \in {"load", "sort", "done"} => kept = 0 /\ next = 1
  /\ pc = "sort" => list = feed
  /\ pc = "dedup" => InOrder
  /\ pc = "filter" => FilterExact

IngestInv == Typed /\ Phase /\ DedupExact /\ StoredKeys

\* An entry has an integer key and a natural expiry.
LEMMA EntryType ==
  ASSUME NEW e \in Entries
  PROVE  e.key \in Int /\ e.val \in Int /\ e.expires \in Nat
BY FeedAssumption, Zenon

\* The elements of a sequence are in its set.
LEMMA InSequence ==
  ASSUME NEW s \in Seq(Entries)
  PROVE  /\ Len(s) \in Nat
         /\ \A m \in 1 .. Len(s) : s[m] \in Entries /\ s[m].key \in Int /\ s[m].expires \in Nat
         /\ \A m \in 1 .. Len(s) : s[m] \in Range(s)
         /\ \A e \in Range(s) : \E m \in 1 .. Len(s) : s[m] = e
BY EntryType DEF Range

\* Moving an entry down leaves what is before its new place and after its old one.
LEMMA MoveDown ==
  ASSUME NEW s \in Seq(Entries), NEW k \in Nat, NEW n \in 1 .. Len(s), k < n,
         NEW t, t = [s EXCEPT ![k + 1] = s[n]]
  PROVE  /\ t \in Seq(Entries) /\ Len(t) = Len(s)
         /\ \A m \in 1 .. k : t[m] = s[m]
         /\ t[k + 1] = s[n]
         /\ \A m \in n + 1 .. Len(s) : t[m] = s[m]
<1>1. Len(s) \in Nat /\ DOMAIN s = 1 .. Len(s) /\ k + 1 \in 1 .. Len(s)
  OBVIOUS
<1>2. s[n] \in Entries
  OBVIOUS
<1> QED
  BY <1>1, <1>2

\* Cutting a slice keeps its first k.
LEMMA Prefix ==
  ASSUME NEW s \in Seq(Entries), NEW k \in 0 .. Len(s)
  PROVE  /\ SubSeq(s, 1, k) \in Seq(Entries) /\ Len(SubSeq(s, 1, k)) = k
         /\ \A m \in 1 .. k : SubSeq(s, 1, k)[m] = s[m]
OBVIOUS

\* Sequences of entries appended are one.
LEMMA Concat ==
  ASSUME NEW s \in Seq(Entries), NEW t \in Seq(Entries)
  PROVE  s \o t \in Seq(Entries)
OBVIOUS

\* A permuted slice has the same length and the same elements.
LEMMA PermutedElements ==
  ASSUME NEW s \in Seq(Entries), NEW t \in Permuted(s)
  PROVE  /\ t \in Seq(Entries) /\ Len(t) = Len(s)
         /\ \A m \in 1 .. Len(t) : t[m] \in Range(s)
         /\ \A e \in Range(s) : \E m \in 1 .. Len(t) : t[m] = e
<1>1. PICK p \in [1 .. Len(s) -> 1 .. Len(s)] :
        /\ \A k \in 1 .. Len(s) : \E m \in 1 .. Len(s) : p[m] = k
        /\ t = [m \in 1 .. Len(s) |-> s[p[m]]]
  BY Zenon DEF Permuted
<1>2. t \in Seq(Entries) /\ Len(t) = Len(s)
  <2>1. Len(s) \in Nat /\ \A m \in 1 .. Len(s) : s[p[m]] \in Entries
    OBVIOUS
  <2>2. t \in [1 .. Len(s) -> Entries]
    BY <1>1, <2>1, Zenon
  <2> QED
    BY <2>1, <2>2
<1>3. \A m \in 1 .. Len(t) : t[m] = s[p[m]] /\ p[m] \in 1 .. Len(s)
  BY <1>1, <1>2, Zenon
<1>4. \A m \in 1 .. Len(t) : t[m] \in Range(s)
  BY <1>3, InSequence, Zenon
<1>5. ASSUME NEW e \in Range(s)
      PROVE  \E m \in 1 .. Len(t) : t[m] = e
  <2>1. PICK k \in 1 .. Len(s) : s[k] = e
    BY InSequence, Zenon
  <2>2. PICK m \in 1 .. Len(s) : p[m] = k
    BY <1>1, Zenon
  <2> QED
    BY <2>1, <2>2, <1>2, <1>3, Zenon
<1> QED
  BY <1>2, <1>4, <1>5, Zenon

\* Everything holds at the start.
LEMMA IngestInitInv == IngestInit => IngestInv
<1> SUFFICES ASSUME IngestInit PROVE IngestInv
  BY Zenon
<1>1. text \in Seq(Symbols) /\ Len(text) \in Nat
  BY FeedAssumption DEF IngestInit, FeedInit
<1>2. Typed
  BY <1>1 DEF IngestInit, FeedInit, Typed, IngestTypeOK
<1> QED
  BY <1>2, Zenon DEF IngestInit, IngestInv, Phase, DedupExact, StoredKeys

\* The decoder stays within what has arrived.
LEMMA DecodeInv ==
  ASSUME IngestInv, Decode
  PROVE  IngestInv'
<1> USE DEF IngestInv, Decode
<1>1. /\ text \in Seq(Symbols) /\ Len(text) \in Nat
      /\ cut \in 0 .. Len(text) /\ pos \in 0 .. cut /\ got \in Seq(Entries)
  BY DEF Typed, IngestTypeOK
<1>2. /\ UNCHANGED <<text, cut>>
      /\ pos' \in 0 .. cut /\ got' \in Seq(Entries)
      /\ step' \in {"open", "members", "array", "entries", "ok", "error", "dropped"}
  <2> USE DEF Advance, Returns, document, Token
  <2>1. CASE ReadOpen
    BY <1>1, <2>1 DEF ReadOpen
  <2>2. CASE ReadMember
    <3>1. CASE Token({"other"}) /\ Skip
      BY <1>1, <3>1 DEF Skip
    <3>2. CASE pos < cut /\ \E s \in {"array", "members"} : Advance(pos + 1, s)
      BY <1>1, <3>2
    <3>3. CASE Returns("error")
      BY <1>1, <3>3, Zenon
    <3> QED
      BY <2>2, <3>1, <3>2, <3>3, Zenon DEF ReadMember
  <2>3. CASE NoMember
    BY <1>1, <2>3, Zenon DEF NoMember
  <2>4. CASE ReadArray
    BY <1>1, <2>4 DEF ReadArray
  <2>5. CASE ReadEntry
    <3>1. CASE Token({"entry"})
      <4>1. pos + 1 \in 1 .. Len(text) /\ text[pos + 1] \in Symbols /\ text[pos + 1][1] = "entry"
        BY <1>1, <3>1 DEF Kind
      <4>2. text[pos + 1][2] \in Entries
        BY <4>1 DEF Symbols, Delimiters
      <4> QED
        <5>1. /\ got' = Append(got, text[pos + 1][2]) /\ pos' = pos + 1
              /\ UNCHANGED <<text, cut>> /\ step' = "entries"
          BY <2>5, <3>1, Zenon DEF ReadEntry
        <5>2. got' \in Seq(Entries)
          BY <1>1, <4>2, <5>1
        <5> QED
          BY <1>1, <3>1, <5>1, <5>2
    <3> QED
      BY <1>1, <2>5, <3>1, Zenon DEF ReadEntry
  <2>6. CASE EndEntries
    BY <1>1, <2>6, Zenon DEF EndEntries
  <2> QED
    BY <2>1, <2>2, <2>3, <2>4, <2>5, <2>6, Zenon DEF FeedNext
<1>3. Typed'
  BY <1>2, Zenon DEF Typed, IngestTypeOK
<1> QED
  BY <1>3, Zenon DEF Phase, DedupExact, StoredKeys

\* The decoded entries and those of the other feeds are entries.
LEMMA CombineInv ==
  ASSUME IngestInv, Combine
  PROVE  IngestInv'
<1> USE DEF IngestInv, Combine
<1>1. list' \in Seq(Entries)
  <2>1. PICK rest \in Others : list' = (IF step = "ok" THEN got ELSE <<>>) \o rest
    BY Zenon
  <2>2. rest \in Seq(Entries)
    BY IngestAssumption, Zenon
  <2>3. got \in Seq(Entries)
    BY Zenon DEF Typed, IngestTypeOK
  <2>4. CASE step = "ok"
    BY <2>1, <2>2, <2>3, <2>4, Concat, Zenon
  <2>5. CASE step # "ok"
    <3>1. list' = <<>> \o rest
      BY <2>1, <2>5, Zenon
    <3>2. <<>> \in Seq(Entries)
      OBVIOUS
    <3> QED
      BY <2>2, <3>1, <3>2, Concat, Zenon
  <2> QED
    BY <2>4, <2>5, Zenon
<1>2. Typed'
  BY <1>1 DEF Typed, IngestTypeOK, Phase
<1> QED
  BY <1>2, Zenon DEF Phase, DedupExact, StoredKeys

\* The sort leaves every entry of the feed, in order.
LEMMA SortInv ==
  ASSUME IngestInv, Sort
  PROVE  IngestInv'
<1> USE DEF IngestInv, Sort, feedVars, document
<1>1. list \in Seq(Entries) /\ list = feed /\ kept = 0 /\ next = 1
  BY Zenon DEF Typed, IngestTypeOK, Phase
<1>2. /\ list' \in Seq(Entries) /\ Len(list') = Len(list)
      /\ \A m \in 1 .. Len(list') : list'[m] \in Range(list)
      /\ \A e \in Range(list) : \E m \in 1 .. Len(list') : list'[m] = e
  BY <1>1, PermutedElements, Zenon
<1>3. Typed'
  BY <1>1, <1>2, Zenon DEF Typed, IngestTypeOK
<1>4. NotDecreasing(list')
  <2>1. \A m, n \in 1 .. Len(list') : m < n => LessOrSame(list'[m], list'[n])
    BY Zenon
  <2>2. \A m \in 1 .. Len(list') : list'[m].key \in Int
    BY <1>2, InSequence, Zenon
  <2> QED
    BY <2>1, <2>2 DEF NotDecreasing, LessOrSame
<1>5. InOrder'
  BY <1>1, <1>2, <1>4, Zenon DEF InOrder, NotDecreasing
<1>6. DedupExact'
  BY <1>1 DEF DedupExact, Increasing, Keys, ValidKeys
<1> QED
  BY <1>3, <1>5, <1>6, Zenon DEF Phase, StoredKeys

\* One more entry adds its key if it is valid.
LEMMA OneMoreKey ==
  ASSUME NEW s, NEW n \in Nat
  PROVE  /\ Keys(s, n + 1) = Keys(s, n) \cup {s[n + 1].key}
         /\ s[n + 1] \in Valid => ValidKeys(s, n + 1) = ValidKeys(s, n) \cup {s[n + 1].key}
         /\ s[n + 1] \notin Valid => ValidKeys(s, n + 1) = ValidKeys(s, n)
<1>1. 1 .. n + 1 = (1 .. n) \cup {n + 1}
  OBVIOUS
<1> QED
  BY <1>1, Zenon DEF Keys, ValidKeys

\* A key above those kept may be added.
LEMMA OneMoreIncreasing ==
  ASSUME NEW s, NEW t, NEW n \in Nat, Increasing(s, n),
         \A m \in 1 .. n : t[m] = s[m] /\ s[m].key < t[n + 1].key
  PROVE  Increasing(t, n + 1)
<1> SUFFICES ASSUME NEW k \in 1 .. n + 1, NEW m \in 1 .. n + 1, k < m
             PROVE  t[k].key < t[m].key
  BY Zenon DEF Increasing
<1>1. CASE m = n + 1
  BY <1>1
<1>2. CASE m \in 1 .. n
  BY <1>2 DEF Increasing
<1> QED
  BY <1>1, <1>2

\* What a loop's step may rely on.
LEMMA LoopType ==
  ASSUME Typed, next <= Len(list)
  PROVE  /\ list \in Seq(Entries) /\ src \in Seq(Entries) /\ Len(list) \in Nat
         /\ Len(src) = Len(list)
         /\ next \in 1 .. Len(list) /\ kept \in Nat /\ kept < next
         /\ list[next] \in Entries /\ list[next].key \in Int
         /\ \A m \in 1 .. Len(list) : list[m].key \in Int /\ src[m].key \in Int
<1>1. /\ list \in Seq(Entries) /\ src \in Seq(Entries) /\ Len(list) \in Nat
      /\ Len(src) = Len(list)
      /\ next \in 1 .. Len(list) /\ kept \in Nat /\ kept < next
  BY DEF Typed, IngestTypeOK
<1> QED
  BY <1>1, InSequence, Zenon

\* Likewise when it is over.
LEMMA LoopEnd ==
  ASSUME Typed, next > Len(list)
  PROVE  /\ list \in Seq(Entries) /\ Len(list) \in Nat /\ src \in Seq(Entries)
         /\ Len(src) = Len(list) /\ next = Len(list) + 1 /\ kept \in 0 .. Len(list)
         /\ feed \in Seq(Entries)
<1>1. /\ list \in Seq(Entries) /\ src \in Seq(Entries) /\ feed \in Seq(Entries)
      /\ Len(src) = Len(list)
      /\ next \in 1 .. Len(list) + 1 /\ kept \in 0 .. next - 1
  BY Zenon DEF Typed, IngestTypeOK
<1>2. Len(list) \in Nat
  BY <1>1
<1>3. next = Len(list) + 1 /\ kept \in 0 .. Len(list)
  BY <1>1, <1>2
<1> QED
  BY <1>1, <1>2, <1>3, Zenon

\* A step of a loop keeps the types.
LEMMA LookTyped ==
  ASSUME Typed, NEW keep \in BOOLEAN, Look(keep)
  PROVE  Typed'
<1>1. next <= Len(list) /\ next' = next + 1 /\ UNCHANGED <<feedVars, pc, cold, feed, src>>
  BY Zenon DEF Look
<1>2. CASE keep
  <2>1. list' = [list EXCEPT ![kept + 1] = list[next]] /\ kept' = kept + 1
    BY <1>2, Zenon DEF Look
  <2>2. list' \in Seq(Entries) /\ Len(list') = Len(list)
    BY <1>1, <2>1, LoopType, MoveDown
  <2>3. next' \in 1 .. Len(list') + 1 /\ kept' \in 0 .. next' - 1
    BY <1>1, <2>1, <2>2, LoopType
  <2>4. UNCHANGED <<doc, text, cut, torn, pos, step, got, cold, feed, src, pc>>
    BY <1>1, Zenon DEF feedVars, document
  <2> QED
    BY <2>2, <2>3, <2>4, Zenon DEF Typed, IngestTypeOK
<1>3. CASE ~keep
  <2>1. list' = list /\ kept' = kept
    BY <1>3, Zenon DEF Look
  <2>2. next' \in 1 .. Len(list) + 1 /\ kept' \in 0 .. next' - 1
    BY <1>1, <2>1, LoopType
  <2>3. UNCHANGED <<doc, text, cut, torn, pos, step, got, cold, feed, src, pc>>
    BY <1>1, Zenon DEF feedVars, document
  <2> QED
    BY <2>1, <2>2, <2>3, Zenon DEF Typed, IngestTypeOK
<1> QED
  BY <1>2, <1>3, Zenon

\* The key of what was kept last is not above that of an entry still to come.
LEMMA KeptBelow ==
  ASSUME Typed, next <= Len(list), kept > 0, NotDecreasing(src),
         \A m \in 1 .. kept : \E n \in 1 .. next - 1 : list[m] = src[n]
  PROVE  list[kept].key <= src[next].key
<1>1. kept \in 1 .. kept
  BY LoopType
<1>2. PICK n \in 1 .. next - 1 : list[kept] = src[n]
  BY <1>1, Zenon
<1> QED
  BY <1>2, LoopType DEF NotDecreasing

\* The first loop.
LEMMA DedupInv ==
  ASSUME IngestInv, Dedup
  PROVE  IngestInv'
<1> USE DEF IngestInv, Dedup
<1> DEFINE e == list[next]
           keep == e \in Valid /\ First(e)
<1>1. pc = "dedup" /\ pc' = "dedup" /\ next <= Len(list) /\ next' = next + 1
      /\ UNCHANGED <<feed, src>>
  BY Zenon DEF Look
<1>2. Typed'
  BY LookTyped, keep \in BOOLEAN, Zenon
<1>3. InOrder /\ Phase'
  BY <1>1, Zenon DEF Phase, InOrder, NotDecreasing
<1>4. /\ Increasing(list, kept)
      /\ \A m \in 1 .. kept : \E n \in 1 .. next - 1 : list[m] = src[n] /\ src[n] \in Valid
      /\ Keys(list, kept) = ValidKeys(src, next - 1)
      /\ \A m \in next .. Len(list) : list[m] = src[m]
  BY <1>1, Zenon DEF DedupExact
<1>5. e = src[next]
  <2>1. next \in next .. Len(list)
    BY <1>1, LoopType
  <2> QED
    BY <1>4, <2>1, Zenon
<1>6. /\ e \in Valid => ValidKeys(src, next) = ValidKeys(src, next - 1) \cup {e.key}
      /\ e \notin Valid => ValidKeys(src, next) = ValidKeys(src, next - 1)
  <2>1. next - 1 \in Nat /\ (next - 1) + 1 = next
    BY <1>1, LoopType
  <2> DEFINE n == next - 1
  <2>2. /\ src[n + 1] \in Valid => ValidKeys(src, n + 1) = ValidKeys(src, n) \cup {src[n + 1].key}
        /\ src[n + 1] \notin Valid => ValidKeys(src, n + 1) = ValidKeys(src, n)
    <3> HIDE DEF n, IngestInv, Dedup
    <3> QED
      BY <2>1, OneMoreKey, Zenon DEF n
  <2> QED
    BY <1>5, <2>1, <2>2, Zenon
<1>7. CASE keep
  <2>1. list' = [list EXCEPT ![kept + 1] = e] /\ kept' = kept + 1
    BY <1>7, Zenon DEF Look
  <2>2. /\ Len(list') = Len(list)
        /\ \A m \in 1 .. kept : list'[m] = list[m]
        /\ list'[kept + 1] = e
        /\ \A m \in next + 1 .. Len(list) : list'[m] = list[m]
    BY <1>1, <2>1, LoopType, MoveDown
  <2>3. ASSUME NEW m \in 1 .. kept
        PROVE  list[m].key < e.key
    <3>1. kept > 0 /\ kept \in 1 .. Len(list) /\ m \in 1 .. Len(list)
      BY <1>1, LoopType
    <3>2. list[kept].key <= e.key
      BY <1>1, <1>3, <1>4, <1>5, <3>1, KeptBelow, Zenon DEF InOrder
    <3>3. list[kept].key # e.key
      BY <1>7, <3>1 DEF First
    <3>4. m = kept \/ list[m].key < list[kept].key
      <4>1. kept \in Nat /\ m \in 1 .. kept /\ kept \in 1 .. kept /\ Increasing(list, kept)
        BY <1>1, <1>4, <3>1, LoopType
      <4> QED
        BY <4>1 DEF Increasing
    <3> QED
      BY <1>1, <3>1, <3>2, <3>3, <3>4, LoopType
  <2>4. Increasing(list', kept + 1)
    BY <1>1, <1>4, <2>2, <2>3, LoopType, OneMoreIncreasing, Zenon
  <2>5. \A m \in 1 .. kept + 1 : \E n \in 1 .. next : list'[m] = src[n] /\ src[n] \in Valid
    <3>1. ASSUME NEW m \in 1 .. kept
          PROVE  \E n \in 1 .. next : list'[m] = src[n] /\ src[n] \in Valid
      <4>1. PICK n \in 1 .. next - 1 : list[m] = src[n] /\ src[n] \in Valid
        BY <1>4, Zenon
      <4>2. n \in 1 .. next
        BY <1>1, LoopType
      <4> QED
        BY <2>2, <4>1, <4>2, Zenon
    <3>2. list'[kept + 1] = src[next] /\ src[next] \in Valid /\ next \in 1 .. next
      BY <1>1, <1>5, <1>7, <2>2, LoopType
    <3>3. \A m \in 1 .. kept + 1 : m \in 1 .. kept \/ m = kept + 1
      BY <1>1, LoopType
    <3> QED
      BY <3>1, <3>2, <3>3, Zenon
  <2>6. Keys(list', kept + 1) = ValidKeys(src, next)
    <3>1. Keys(list', kept) = Keys(list, kept)
      BY <2>2, Zenon DEF Keys
    <3>2. Keys(list', kept + 1) = Keys(list', kept) \cup {e.key}
      <4>1. kept \in Nat
        BY <1>1, LoopType, Zenon
      <4>2. Keys(list', kept + 1) = Keys(list', kept) \cup {list'[kept + 1].key}
        BY <4>1, OneMoreKey, Zenon
      <4> QED
        BY <2>2, <4>2, Zenon
    <3>3. ValidKeys(src, next) = ValidKeys(src, next - 1) \cup {e.key}
      BY <1>6, <1>7, Zenon
    <3> QED
      BY <1>4, <3>1, <3>2, <3>3, Zenon
  <2>7. \A m \in next + 1 .. Len(list') : list'[m] = src[m]
    BY <1>1, <1>4, <2>2, LoopType
  <2>8. DedupExact'
    <3>1. next' - 1 = next
      BY <1>1, LoopType
    <3> QED
      BY <1>1, <2>1, <2>4, <2>5, <2>6, <2>7, <3>1 DEF DedupExact
  <2> QED
    BY <1>1, <1>2, <1>3, <2>8, Zenon DEF StoredKeys
<1>8. CASE ~keep
  <2>1. UNCHANGED <<list, kept>>
    BY <1>8, Zenon DEF Look
  <2>2. ValidKeys(src, next) = ValidKeys(src, next - 1)
    <3>1. CASE e \notin Valid
      BY <1>6, <3>1, Zenon
    <3>2. CASE e \in Valid
      <4>1. kept \in 1 .. kept /\ e.key = list[kept].key
        BY <1>1, <1>8, <3>2, LoopType DEF First
      <4>2. e.key \in ValidKeys(src, next - 1)
        BY <1>4, <4>1, Zenon DEF Keys
      <4>3. ValidKeys(src, next) = ValidKeys(src, next - 1) \cup {e.key}
        BY <1>6, <3>2, Zenon
      <4> QED
        BY <4>2, <4>3, Zenon
    <3> QED
      BY <3>1, <3>2, Zenon
  <2>3. DedupExact'
    <3>1. next' - 1 = next /\ 1 .. next - 1 \subseteq 1 .. next
          /\ next' .. Len(list) \subseteq next .. Len(list)
      BY <1>1, LoopType
    <3> QED
      BY <1>1, <1>4, <2>1, <2>2, <3>1, Zenon DEF DedupExact
  <2> QED
    BY <1>1, <1>2, <1>3, <2>3, Zenon DEF StoredKeys
<1> QED
  BY <1>7, <1>8, Zenon

\* What the first loop leaves has the valid keys of the feed.
LEMMA DedupLeaves ==
  ASSUME IngestInv, pc = "dedup", next > Len(list), NEW s, s = SubSeq(list, 1, kept)
  PROVE  s \in Seq(Entries) /\ Deduped(s)
<1> USE DEF IngestInv
<1>1. /\ list \in Seq(Entries) /\ Len(list) \in Nat /\ src \in Seq(Entries)
      /\ Len(src) = Len(list) /\ next = Len(list) + 1 /\ kept \in 0 .. Len(list)
      /\ feed \in Seq(Entries)
  BY LoopEnd, Zenon
<1>2. s \in Seq(Entries) /\ Len(s) = kept /\ \A m \in 1 .. kept : s[m] = list[m]
  BY <1>1, Prefix, Zenon
<1>3. /\ Increasing(list, kept)
      /\ \A m \in 1 .. kept : \E n \in 1 .. next - 1 : list[m] = src[n] /\ src[n] \in Valid
      /\ Keys(list, kept) = ValidKeys(src, next - 1)
  BY Zenon DEF DedupExact
<1>4. InOrder
  BY Zenon DEF Phase
<1>5. Increasing(s, kept)
  BY <1>2, <1>3, Zenon DEF Increasing
<1>6. ASSUME NEW m \in 1 .. kept
      PROVE  s[m] \in Range(feed) \cap Valid
  <2>1. PICK n \in 1 .. next - 1 : list[m] = src[n] /\ src[n] \in Valid
    BY <1>3, Zenon
  <2>2. n \in 1 .. Len(src)
    BY <1>1
  <2>3. src[n] \in Range(feed)
    BY <1>4, <2>2, Zenon DEF InOrder
  <2> QED
    BY <1>2, <2>1, <2>3, Zenon
<1>7. ASSUME NEW k \in ValidKeys(feed, Len(feed))
      PROVE  k \in Keys(s, kept)
  <2>1. PICK n \in 1 .. Len(feed) : feed[n] \in Valid /\ k = feed[n].key
    BY Zenon DEF ValidKeys
  <2>2. feed[n] \in Range(feed)
    BY <1>1, InSequence, Zenon
  <2>3. PICK m \in 1 .. Len(src) : src[m] = feed[n]
    BY <1>4, <2>2, Zenon DEF InOrder
  <2>4. k \in ValidKeys(src, Len(src))
    BY <2>1, <2>3, Zenon DEF ValidKeys
  <2>5. k \in Keys(list, kept)
    BY <1>1, <1>3, <2>4
  <2> QED
    BY <1>2, <2>5, Zenon DEF Keys
<1> QED
  BY <1>2, <1>5, <1>6, <1>7, Zenon DEF Deduped

\* The end of the first loop: Start is done, a refresh filters.
LEMMA EndDedupInv ==
  ASSUME IngestInv, EndDedup
  PROVE  IngestInv'
<1> USE DEF IngestInv, EndDedup
<1>1. /\ pc = "dedup" /\ next > Len(list) /\ list' = SubSeq(list, 1, kept)
      /\ src' = list' /\ kept' = 0 /\ next' = 1 /\ UNCHANGED <<feedVars, cold, feed>>
      /\ pc' = IF cold THEN "done" ELSE "filter"
  BY Zenon DEF Cut
<1>2. list' \in Seq(Entries) /\ Deduped(list')
  BY <1>1, DedupLeaves, Zenon
<1>3. Typed'
  BY <1>1, <1>2 DEF Typed, IngestTypeOK, feedVars, document
<1>4. CASE cold
  <2>1. pc' = "done" /\ cold' = cold
    BY <1>1, <1>4, Zenon
  <2>2. StoredKeys'
    <3>1. \A e : Fresh(e)'
      BY <1>4, <2>1, Zenon DEF Fresh
    <3>2. \A k \in Keys(list', Len(list')) : \E e \in Of(k)' : TRUE
      BY <1>1, <1>2, Zenon DEF Deduped, Keys, Of
    <3> QED
      BY <1>1, <1>2, <3>1, <3>2, Zenon DEF StoredKeys, Deduped
  <2> QED
    BY <1>1, <1>3, <2>1, <2>2, Zenon DEF Phase, DedupExact
<1>5. CASE ~cold
  <2>1. pc' = "filter" /\ ~cold'
    BY <1>1, <1>5, Zenon
  <2>2. FilterExact'
    BY <1>1, <1>2, <2>1 DEF FilterExact, Deduped, Increasing
  <2> QED
    BY <1>3, <2>1, <2>2, Zenon DEF Phase, DedupExact, StoredKeys
<1> QED
  BY <1>4, <1>5, Zenon

\* The second loop.
LEMMA FilterInv ==
  ASSUME IngestInv, Filter
  PROVE  IngestInv'
<1> USE DEF IngestInv, Filter
<1> DEFINE e == list[next]
<1>1. pc = "filter" /\ pc' = "filter" /\ next <= Len(list) /\ next' = next + 1
      /\ UNCHANGED <<cold, feed, src>>
  BY Zenon DEF Look
<1>2. Typed'
  BY LookTyped, Unexpired(e) \in BOOLEAN, Zenon DEF Unexpired
<1>3. /\ ~cold /\ Deduped(src)
      /\ Increasing(list, kept)
      /\ \A m \in 1 .. kept : \E n \in 1 .. next - 1 : list[m] = src[n] /\ Unexpired(src[n])
      /\ \A n \in 1 .. next - 1 : Unexpired(src[n]) => \E m \in 1 .. kept : list[m] = src[n]
      /\ \A m \in next .. Len(list) : list[m] = src[m]
  BY <1>1, Zenon DEF Phase, FilterExact
<1>4. e = src[next]
  <2>1. next \in next .. Len(list)
    BY <1>1, LoopType
  <2> QED
    BY <1>3, <2>1, Zenon
<1>5. /\ next' - 1 = next /\ 1 .. next = (1 .. next - 1) \cup {next}
      /\ 1 .. kept + 1 = (1 .. kept) \cup {kept + 1}
      /\ next' .. Len(list) = next + 1 .. Len(list)
      /\ next + 1 .. Len(list) \subseteq next .. Len(list)
  BY <1>1, LoopType
<1>6. ~cold' /\ Deduped(src)'
  BY <1>1, <1>3, Zenon DEF Deduped
<1>7. CASE Unexpired(e)
  <2>1. list' = [list EXCEPT ![kept + 1] = e] /\ kept' = kept + 1
    BY <1>7, Zenon DEF Look
  <2>2. /\ Len(list') = Len(list)
        /\ \A m \in 1 .. kept : list'[m] = list[m]
        /\ list'[kept + 1] = e
        /\ \A m \in next + 1 .. Len(list) : list'[m] = list[m]
    BY <1>1, <2>1, LoopType, MoveDown
  <2>3. ASSUME NEW m \in 1 .. kept
        PROVE  list[m].key < e.key
    <3>1. PICK n \in 1 .. next - 1 : list[m] = src[n]
      BY <1>3, Zenon
    <3>2. n \in 1 .. Len(src) /\ next \in 1 .. Len(src) /\ n < next
      BY <1>1, LoopType
    <3> QED
      BY <1>3, <1>4, <3>1, <3>2, Zenon DEF Deduped, Increasing
  <2>4. Increasing(list', kept + 1)
    BY <1>1, <1>3, <2>2, <2>3, LoopType, OneMoreIncreasing, Zenon
  <2>5. \A m \in 1 .. kept + 1 : \E n \in 1 .. next : list'[m] = src[n] /\ Unexpired(src[n])
    <3>1. ASSUME NEW m \in 1 .. kept
          PROVE  \E n \in 1 .. next : list'[m] = src[n] /\ Unexpired(src[n])
      <4>1. PICK n \in 1 .. next - 1 : list[m] = src[n] /\ Unexpired(src[n])
        BY <1>3, Zenon
      <4>2. n \in 1 .. next
        BY <1>1, LoopType
      <4> QED
        BY <2>2, <4>1, <4>2, Zenon
    <3>2. list'[kept + 1] = src[next] /\ Unexpired(src[next]) /\ next \in 1 .. next
      <4>1. next \in 1 .. next
        BY <1>1, LoopType
      <4> QED
        BY <1>4, <1>7, <2>2, <4>1, Zenon
    <3> QED
      BY <1>5, <3>1, <3>2, Zenon
  <2>6. \A n \in 1 .. next : Unexpired(src[n]) => \E m \in 1 .. kept + 1 : list'[m] = src[n]
    <3>1. \A n \in 1 .. next - 1 :
            Unexpired(src[n]) => \E m \in 1 .. kept + 1 : list'[m] = src[n]
      <4> SUFFICES ASSUME NEW n \in 1 .. next - 1, Unexpired(src[n])
                   PROVE  \E m \in 1 .. kept + 1 : list'[m] = src[n]
        BY Zenon
      <4>1. PICK m \in 1 .. kept : list[m] = src[n]
        BY <1>3, Zenon
      <4> QED
        BY <1>5, <2>2, <4>1, Zenon
    <3>2. list'[kept + 1] = src[next] /\ kept + 1 \in 1 .. kept + 1
      BY <1>4, <1>5, <2>2, Zenon
    <3> QED
      BY <1>5, <3>1, <3>2, Zenon
  <2>7. FilterExact'
    BY <1>1, <1>3, <1>5, <1>6, <2>1, <2>2, <2>4, <2>5, <2>6 DEF FilterExact, Unexpired
  <2> QED
    BY <1>1, <1>2, <2>7, Zenon DEF Phase, DedupExact, StoredKeys
<1>8. CASE ~Unexpired(e)
  <2>1. UNCHANGED <<list, kept>>
    BY <1>8, Zenon DEF Look
  <2>2. \A m \in 1 .. kept : \E n \in 1 .. next : list[m] = src[n] /\ Unexpired(src[n])
    BY <1>3, <1>5, Zenon
  <2>3. \A n \in 1 .. next : Unexpired(src[n]) => \E m \in 1 .. kept : list[m] = src[n]
    BY <1>3, <1>4, <1>5, <1>8, Zenon
  <2>4. FilterExact'
    BY <1>1, <1>3, <1>5, <1>6, <2>1, <2>2, <2>3 DEF FilterExact, Unexpired
  <2> QED
    BY <1>1, <1>2, <2>4, Zenon DEF Phase, DedupExact, StoredKeys
<1> QED
  BY <1>7, <1>8, Zenon

\* The end of the second loop: what is left is what StoredKeys says.
LEMMA EndFilterInv ==
  ASSUME IngestInv, EndFilter
  PROVE  IngestInv'
<1> USE DEF IngestInv, EndFilter
<1>1. /\ pc = "filter" /\ pc' = "done" /\ next > Len(list) /\ list' = SubSeq(list, 1, kept)
      /\ src' = list' /\ kept' = 0 /\ next' = 1 /\ UNCHANGED <<feedVars, cold, feed>>
  BY Zenon DEF Cut
<1>2. /\ list \in Seq(Entries) /\ Len(list) \in Nat /\ src \in Seq(Entries)
      /\ Len(src) = Len(list) /\ next = Len(list) + 1 /\ kept \in 0 .. Len(list)
      /\ feed \in Seq(Entries)
  BY <1>1, LoopEnd, Zenon
<1>3. list' \in Seq(Entries) /\ Len(list') = kept /\ \A m \in 1 .. kept : list'[m] = list[m]
  BY <1>1, <1>2, Prefix, Zenon
<1>4. Typed'
  <2>1. next' \in 1 .. Len(list') + 1 /\ kept' \in 0 .. next' - 1
    BY <1>1, <1>2, <1>3
  <2>2. UNCHANGED <<doc, text, cut, torn, pos, step, got, feed>> /\ Typed
    BY <1>1, Zenon DEF feedVars, document
  <2> QED
    BY <1>1, <1>3, <2>1, <2>2, Zenon DEF Typed, IngestTypeOK
<1>5. FilterExact /\ next - 1 = Len(src)
  BY <1>1, <1>2 DEF Phase
<1> HIDE DEF IngestInv, EndFilter
<1>6. \A n \in 1 .. Len(src) : Unexpired(src[n]) <=> Fresh(src[n])
  <2>1. \A n \in 1 .. Len(src) : src[n].expires \in Nat
    BY <1>2, InSequence, Zenon
  <2>2. ~cold /\ Now \in Nat \ {0}
    BY <1>5, IngestAssumption, Zenon DEF FilterExact
  <2>3. \A x \in Nat : (x = 0 \/ x > Now) <=> x \notin 1 .. Now
    BY <2>2
  <2> QED
    BY <2>1, <2>2, <2>3, Zenon DEF Unexpired, Fresh
<1>7. Increasing(list', kept)
  BY <1>3, <1>5, Zenon DEF FilterExact, Increasing
<1>8. ASSUME NEW k \in Keys(list', kept)
      PROVE  \E e \in Of(k) : Fresh(e)
  <2>1. PICK m \in 1 .. kept : k = list[m].key
    BY <1>3, Zenon DEF Keys
  <2>2. PICK n \in 1 .. Len(src) : list[m] = src[n] /\ Unexpired(src[n])
    BY <1>5, Zenon DEF FilterExact
  <2>3. src[n] \in Range(feed) \cap Valid /\ Fresh(src[n]) /\ src[n].key = k
    BY <1>5, <1>6, <2>1, <2>2, Zenon DEF FilterExact, Deduped
  <2> QED
    BY <2>3, Zenon DEF Of
<1>9. ASSUME NEW k \in ValidKeys(feed, Len(feed)), \A e \in Of(k) : Fresh(e)
      PROVE  k \in Keys(list', kept)
  <2>1. PICK n \in 1 .. Len(src) : k = src[n].key
    BY <1>5, Zenon DEF FilterExact, Deduped, Keys
  <2>2. Unexpired(src[n])
    BY <1>5, <1>6, <1>9, <2>1, Zenon DEF FilterExact, Deduped, Of
  <2>3. PICK m \in 1 .. kept : list[m] = src[n]
    BY <1>5, <2>2, Zenon DEF FilterExact
  <2> QED
    BY <1>3, <2>1, <2>3, Zenon DEF Keys
<1>10. StoredKeys'
  <2>1. \A e : Fresh(e)' <=> Fresh(e)
    BY <1>1, Zenon DEF Fresh
  <2>2. \A k : Of(k)' = Of(k)
    BY <1>1, Zenon DEF Of
  <2> QED
    BY <1>1, <1>3, <1>7, <1>8, <1>9, <2>1, <2>2, Zenon DEF StoredKeys
<1> QED
  BY <1>1, <1>4, <1>10, Zenon DEF IngestInv, Phase, DedupExact

\* Every step of a load preserves the invariant.
LEMMA IngestNextInv == IngestInv /\ [IngestNext]_ingestVars => IngestInv'
<1> SUFFICES ASSUME IngestInv, [IngestNext]_ingestVars PROVE IngestInv'
  BY Zenon
<1>1. CASE NoEntries
  BY <1>1, Zenon DEF NoEntries, IngestInv, Typed, IngestTypeOK, Phase, DedupExact,
         StoredKeys, feedVars, document
<1>2. CASE UNCHANGED ingestVars
  <2>1. UNCHANGED <<feedVars, pc, cold, feed, list, src, kept, next>>
    BY <1>2, Zenon DEF ingestVars
  <2>2. UNCHANGED Typed
    BY <2>1, Zenon DEF Typed, IngestTypeOK, feedVars, document
  <2>3. UNCHANGED <<InOrder, FilterExact>>
    BY <2>1 DEF InOrder, FilterExact, Deduped, Unexpired
  <2>4. UNCHANGED StoredKeys
    BY <2>1, Zenon DEF StoredKeys, Of, Fresh
  <2>5. UNCHANGED DedupExact
    BY <2>1, Zenon DEF DedupExact
  <2> QED
    BY <2>1, <2>2, <2>3, <2>4, <2>5, Zenon DEF IngestInv, Phase
<1> QED
  BY <1>1, <1>2, DecodeInv, CombineInv, SortInv, DedupInv, EndDedupInv, FilterInv,
     EndFilterInv, Zenon DEF IngestNext

\* In a load of a feed of any length, the decoder reads no further than what
\* arrived, and the loops write no entry they have not read (roa.go:93-102,
\* 238-250, 257-262).
THEOREM IngestTypes == IngestSpec => []IngestTypeOK
<1>1. IngestInv => IngestTypeOK
  BY Zenon DEF IngestInv, Typed
<1> QED
  BY IngestInitInv, IngestNextInv, <1>1, PTL DEF IngestSpec

\* Compacting in place keeps each key of the valid entries read so far exactly
\* once, for slices of any length and any order of equal entries (roa.go:93-102).
THEOREM DedupIsExact == IngestSpec => []DedupExact
<1>1. IngestInv => DedupExact
  BY Zenon DEF IngestInv
<1> QED
  BY IngestInitInv, IngestNextInv, <1>1, PTL DEF IngestSpec

\* The slice that reaches the cache has strictly increasing keys, each of a valid
\* and, on a refresh, unexpired entry of the feeds, and misses none whose entries
\* are all so (roa.go:82-107, 255-264, aspa.go:66-100).
THEOREM StoresTheKeys == IngestSpec => []StoredKeys
<1>1. IngestInv => StoredKeys
  BY Zenon DEF IngestInv
<1> QED
  BY IngestInitInv, IngestNextInv, <1>1, PTL DEF IngestSpec
-----------------------------------------------------------------------------
(* MakeDiff. *)

Frontier ==
  /\ \A m \in 1 .. i - 1 : j <= Len(old) => new[m].key < old[j].key
  /\ \A n \in 1 .. j - 1 : i <= Len(new) => old[n].key < new[i].key

DiffInv == TypeOK /\ Frontier /\ DiffExact /\ DiffSorted

\* x has no match in t.
Matchless(x, t) == \A k \in 1 .. Len(t) : t[k].key = x.key => Replaced(x, t[k])

\* A slice in Slices is a sorted sequence of items, and items have integer keys.
LEMMA SliceType ==
  ASSUME NEW s \in Slices
  PROVE  /\ s \in Seq(Items) /\ Sorted(s) /\ Len(s) \in Nat
         /\ \A m \in 1 .. Len(s) : s[m] \in Items /\ s[m].key \in Int
BY ItemsAssumption DEF Slices

\* Appending an item adds it to the elements.
LEMMA AppendElements ==
  ASSUME NEW s \in Seq(Items), NEW x \in Items
  PROVE  /\ Append(s, x) \in Seq(Items)
         /\ Elements(Append(s, x)) = Elements(s) \cup {x}
<1>1. Len(s) \in Nat /\ Len(Append(s, x)) = Len(s) + 1
  OBVIOUS
<1>2. /\ \A m \in 1 .. Len(s) : Append(s, x)[m] = s[m]
      /\ Append(s, x)[Len(s) + 1] = x
  OBVIOUS
<1>3. 1 .. Len(s) + 1 = (1 .. Len(s)) \cup {Len(s) + 1}
  BY <1>1
<1> QED
  BY <1>1, <1>2, <1>3 DEF Elements

\* A sorted slice stays sorted when the item appended is above its elements.
LEMMA AppendSorted ==
  ASSUME NEW s \in Seq(Items), NEW x \in Items, Sorted(s),
         \A y \in Elements(s) : y.key < x.key
  PROVE  Sorted(Append(s, x))
<1>1. Len(s) \in Nat /\ Len(Append(s, x)) = Len(s) + 1
  OBVIOUS
<1>2. /\ \A m \in 1 .. Len(s) : Append(s, x)[m] = s[m] /\ s[m].key < x.key
      /\ Append(s, x)[Len(s) + 1] = x
  BY DEF Elements
<1> SUFFICES ASSUME NEW m \in 1 .. Len(s) + 1, NEW n \in 1 .. Len(s) + 1, m < n
             PROVE  Append(s, x)[m].key < Append(s, x)[n].key
  BY <1>1, Zenon DEF Sorted
<1>3. CASE n = Len(s) + 1
  BY <1>1, <1>2, <1>3
<1>4. CASE n \in 1 .. Len(s)
  BY <1>1, <1>2, <1>4 DEF Sorted
<1> QED
  BY <1>1, <1>3, <1>4

\* One more item of s is passed: it counts if t has no match for it.
LEMMA UnmatchedStep ==
  ASSUME NEW s, NEW n \in Nat \ {0}, NEW t
  PROVE  Unmatched(s, n, t) =
           Unmatched(s, n - 1, t) \cup (IF Matchless(s[n], t) THEN {s[n]} ELSE {})
<1>1. 1 .. n = (1 .. n - 1) \cup {n}
  OBVIOUS
<1> QED
  BY <1>1, Zenon DEF Unmatched, Matchless

\* What was passed of a sorted slice lies below what comes next.
LEMMA UnmatchedBelow ==
  ASSUME NEW s \in Slices, NEW n \in 1 .. Len(s), NEW t,
         NEW y \in Unmatched(s, n - 1, t)
  PROVE  y.key < s[n].key
<1>1. PICK m \in 1 .. n - 1 : y = s[m]
  BY Zenon DEF Unmatched
<1>2. m \in 1 .. Len(s) /\ m < n
  BY SliceType
<1> QED
  BY <1>1, <1>2, SliceType, Zenon DEF Sorted

\* An item of new that lies below the rest of old has no match in old.
LEMMA NewMatchless ==
  ASSUME TypeOK, Frontier, i <= Len(new), j <= Len(old) => new[i].key < old[j].key
  PROVE  Matchless(new[i], old)
<1>1. i \in 1 .. Len(new) /\ j \in Nat /\ new[i].key \in Int
  BY SliceType DEF TypeOK
<1>2. \A k \in 1 .. Len(old) : old[k].key # new[i].key
  <2> SUFFICES ASSUME NEW k \in 1 .. Len(old)
               PROVE  old[k].key # new[i].key
    BY Zenon
  <2>1. old[k].key \in Int /\ Len(old) \in Nat
    BY SliceType, Zenon DEF TypeOK
  <2>2. CASE k < j
    BY <1>1, <2>1, <2>2 DEF Frontier
  <2>3. CASE k >= j
    <3>1. j \in 1 .. Len(old) /\ old[j].key \in Int
      BY <1>1, <2>1, <2>3, SliceType DEF TypeOK
    <3>2. j = k \/ old[j].key < old[k].key
      BY <2>3, <3>1, SliceType DEF TypeOK, Sorted
    <3> QED
      BY <1>1, <2>1, <3>1, <3>2
  <2> QED
    BY <1>1, <2>2, <2>3
<1> QED
  BY <1>2, Zenon DEF Matchless

\* An item of old that lies below the rest of new has no match in new.
LEMMA OldMatchless ==
  ASSUME TypeOK, Frontier, j <= Len(old), i <= Len(new) => old[j].key < new[i].key
  PROVE  Matchless(old[j], new)
<1>1. j \in 1 .. Len(old) /\ i \in Nat /\ old[j].key \in Int
  BY SliceType DEF TypeOK
<1>2. \A k \in 1 .. Len(new) : new[k].key # old[j].key
  <2> SUFFICES ASSUME NEW k \in 1 .. Len(new)
               PROVE  new[k].key # old[j].key
    BY Zenon
  <2>1. new[k].key \in Int /\ Len(new) \in Nat
    BY SliceType, Zenon DEF TypeOK
  <2>2. CASE k < i
    BY <1>1, <2>1, <2>2 DEF Frontier
  <2>3. CASE k >= i
    <3>1. i \in 1 .. Len(new) /\ new[i].key \in Int
      BY <1>1, <2>1, <2>3, SliceType DEF TypeOK
    <3>2. i = k \/ new[i].key < new[k].key
      BY <2>3, <3>1, SliceType DEF TypeOK, Sorted
    <3> QED
      BY <1>1, <2>1, <3>1, <3>2
  <2> QED
    BY <1>1, <2>2, <2>3
<1> QED
  BY <1>2, Zenon DEF Matchless

\* In a sorted slice only one item can match x.
LEMMA OneMatch ==
  ASSUME NEW t \in Slices, NEW n \in 1 .. Len(t), NEW x, t[n].key = x.key
  PROVE  Matchless(x, t) <=> Replaced(x, t[n])
<1>1. \A k \in 1 .. Len(t) : t[k].key = x.key => k = n
  <2> SUFFICES ASSUME NEW k \in 1 .. Len(t), t[k].key = t[n].key, k # n
               PROVE  FALSE
    BY Zenon
  <2>1. t[k].key \in Int /\ t[n].key \in Int /\ Len(t) \in Nat
    BY SliceType, Zenon
  <2>2. k < n \/ n < k
    BY <2>1
  <2>3. t[k].key < t[n].key \/ t[n].key < t[k].key
    BY <2>2, SliceType, Zenon DEF Sorted
  <2> QED
    BY <2>1, <2>3
<1> QED
  BY <1>1, Zenon DEF Matchless

\* The two results after new[i] was passed, and after old[j] was.
AddIs(a) == a \in Seq(Items) /\ Elements(a) = Unmatched(new, i, old) /\ Sorted(a)
DelIs(d) == d \in Seq(Items) /\ Elements(d) = Unmatched(old, j, new) /\ Sorted(d)

\* Passing new[i] is right if it is appended exactly when it has no match.
LEMMA AddStep ==
  ASSUME TypeOK, DiffExact, DiffSorted, i <= Len(new)
  PROVE  IF Matchless(new[i], old) THEN AddIs(Append(add, new[i])) ELSE AddIs(add)
<1>1. /\ new \in Slices /\ i \in 1 .. Len(new) /\ i \in Nat \ {0}
      /\ new[i] \in Items /\ add \in Seq(Items)
  BY SliceType DEF TypeOK
<1>2. /\ Elements(add) = Unmatched(new, i - 1, old)
      /\ Sorted(add)
  BY Zenon DEF DiffExact, DiffSorted
<1>3. Unmatched(new, i, old) =
        Elements(add) \cup (IF Matchless(new[i], old) THEN {new[i]} ELSE {})
  BY <1>1, <1>2, UnmatchedStep
<1>4. \A y \in Elements(add) : y.key < new[i].key
  BY <1>1, <1>2, UnmatchedBelow, Zenon
<1>5. /\ Append(add, new[i]) \in Seq(Items)
      /\ Elements(Append(add, new[i])) = Elements(add) \cup {new[i]}
  BY <1>1, AppendElements, Zenon
<1>6. Sorted(Append(add, new[i]))
  BY <1>1, <1>2, <1>4, AppendSorted, Zenon
<1> QED
  BY <1>1, <1>2, <1>3, <1>5, <1>6, Zenon DEF AddIs

\* Passing old[j] is right if it is appended exactly when it has no match.
LEMMA DelStep ==
  ASSUME TypeOK, DiffExact, DiffSorted, j <= Len(old)
  PROVE  IF Matchless(old[j], new) THEN DelIs(Append(del, old[j])) ELSE DelIs(del)
<1>1. /\ old \in Slices /\ j \in 1 .. Len(old) /\ j \in Nat \ {0}
      /\ old[j] \in Items /\ del \in Seq(Items)
  BY SliceType DEF TypeOK
<1>2. /\ Elements(del) = Unmatched(old, j - 1, new)
      /\ Sorted(del)
  BY Zenon DEF DiffExact, DiffSorted
<1>3. Unmatched(old, j, new) =
        Elements(del) \cup (IF Matchless(old[j], new) THEN {old[j]} ELSE {})
  BY <1>1, <1>2, UnmatchedStep
<1>4. \A y \in Elements(del) : y.key < old[j].key
  BY <1>1, <1>2, UnmatchedBelow, Zenon
<1>5. /\ Append(del, old[j]) \in Seq(Items)
      /\ Elements(Append(del, old[j])) = Elements(del) \cup {old[j]}
  BY <1>1, AppendElements, Zenon
<1>6. Sorted(Append(del, old[j]))
  BY <1>1, <1>2, <1>4, AppendSorted, Zenon
<1> QED
  BY <1>1, <1>2, <1>3, <1>5, <1>6, Zenon DEF DelIs

\* At the start nothing was passed.
LEMMA DiffInitInv == DiffInit => DiffInv
<1> SUFFICES ASSUME DiffInit PROVE DiffInv
  BY Zenon
<1>1. Len(new) \in Nat /\ Len(old) \in Nat
  BY SliceType, Zenon DEF DiffInit
<1>2. TypeOK
  BY <1>1 DEF DiffInit, TypeOK
<1>3. Frontier
  BY DEF DiffInit, Frontier
<1>4. DiffExact
  BY DEF DiffInit, DiffExact, Elements, Unmatched
<1>5. DiffSorted
  BY DEF DiffInit, DiffSorted, Sorted
<1> QED
  BY <1>2, <1>3, <1>4, <1>5, Zenon DEF DiffInv

\* Passing new[i] alone keeps the invariant when it lies below the rest of old.
LEMMA AddedInv ==
  ASSUME DiffInv, i <= Len(new), j <= Len(old) => new[i].key < old[j].key, Added
  PROVE  DiffInv'
<1>1. TypeOK /\ Frontier /\ DiffExact /\ DiffSorted
  BY Zenon DEF DiffInv
<1>2. AddIs(Append(add, new[i]))
  BY <1>1, NewMatchless, AddStep, Zenon
<1>3. /\ new' = new /\ old' = old /\ which' = which /\ j' = j /\ del' = del
      /\ i' = i + 1 /\ add' = Append(add, new[i])
  BY Zenon DEF Added, args
<1>4. i \in 1 .. Len(new) /\ Len(new) \in Nat /\ j \in Nat
  BY <1>1, SliceType DEF TypeOK
<1>5. TypeOK'
  BY <1>1, <1>2, <1>3, <1>4 DEF TypeOK, AddIs
<1>6. DiffExact' /\ DiffSorted'
  <2>1. i' - 1 = i
    BY <1>3, <1>4
  <2>2. Unmatched(new, i - 1, old)' = Unmatched(new, i, old)
    BY <1>3, <2>1, Zenon DEF Unmatched, Replaced
  <2>3. Unmatched(old, j - 1, new)' = Unmatched(old, j - 1, new)
    BY <1>3, <2>1, Zenon DEF Unmatched, Replaced
  <2> QED
    BY <1>1, <1>2, <1>3, <2>2, <2>3, Zenon DEF DiffExact, DiffSorted, AddIs
<1>7. Frontier'
  <2>1. \A m \in 1 .. i : j <= Len(old) => new[m].key < old[j].key
    BY <1>1, <1>4 DEF Frontier
  <2>2. ASSUME NEW n \in 1 .. j - 1, i + 1 <= Len(new)
        PROVE  old[n].key < new[i + 1].key
    <3>1. old[n].key < new[i].key
      BY <1>1, <1>4, Zenon DEF Frontier
    <3>2. new[i].key < new[i + 1].key
      <4>1. Sorted(new)
        BY <1>1, SliceType, Zenon DEF TypeOK
      <4> QED
        BY <1>4, <2>2, <4>1 DEF Sorted
    <3>3. n \in 1 .. Len(old) /\ i + 1 \in 1 .. Len(new)
      BY <1>1, <1>4, <2>2, SliceType DEF TypeOK
    <3>4. old[n].key \in Int /\ new[i].key \in Int /\ new[i + 1].key \in Int
      BY <1>1, <1>4, <3>3, SliceType, Zenon DEF TypeOK
    <3> QED
      BY <3>1, <3>2, <3>4
  <2> QED
    BY <1>3, <1>4, <2>1, <2>2 DEF Frontier
<1> QED
  BY <1>5, <1>6, <1>7, Zenon DEF DiffInv

\* Passing old[j] alone keeps the invariant when it lies below the rest of new.
LEMMA DeletedInv ==
  ASSUME DiffInv, j <= Len(old), i <= Len(new) => old[j].key < new[i].key, Deleted
  PROVE  DiffInv'
<1>1. TypeOK /\ Frontier /\ DiffExact /\ DiffSorted
  BY Zenon DEF DiffInv
<1>2. DelIs(Append(del, old[j]))
  BY <1>1, OldMatchless, DelStep, Zenon
<1>3. /\ new' = new /\ old' = old /\ which' = which /\ i' = i /\ add' = add
      /\ j' = j + 1 /\ del' = Append(del, old[j])
  BY Zenon DEF Deleted, args
<1>4. j \in 1 .. Len(old) /\ Len(old) \in Nat /\ i \in Nat
  BY <1>1, SliceType DEF TypeOK
<1>5. TypeOK'
  BY <1>1, <1>2, <1>3, <1>4 DEF TypeOK, DelIs
<1>6. DiffExact' /\ DiffSorted'
  <2>1. j' - 1 = j
    BY <1>3, <1>4
  <2>2. Unmatched(new, i - 1, old)' = Unmatched(new, i - 1, old)
    BY <1>3, <2>1, Zenon DEF Unmatched, Replaced
  <2>3. Unmatched(old, j - 1, new)' = Unmatched(old, j, new)
    BY <1>3, <2>1, Zenon DEF Unmatched, Replaced
  <2> QED
    BY <1>1, <1>2, <1>3, <2>2, <2>3, Zenon DEF DiffExact, DiffSorted, DelIs
<1>7. Frontier'
  <2>1. \A n \in 1 .. j : i <= Len(new) => old[n].key < new[i].key
    BY <1>1, <1>4 DEF Frontier
  <2>2. ASSUME NEW m \in 1 .. i - 1, j + 1 <= Len(old)
        PROVE  new[m].key < old[j + 1].key
    <3>1. new[m].key < old[j].key
      BY <1>1, <1>4, Zenon DEF Frontier
    <3>2. old[j].key < old[j + 1].key
      <4>1. Sorted(old)
        BY <1>1, SliceType, Zenon DEF TypeOK
      <4> QED
        BY <1>4, <2>2, <4>1 DEF Sorted
    <3>3. m \in 1 .. Len(new) /\ j + 1 \in 1 .. Len(old)
      BY <1>1, <1>4, <2>2, SliceType DEF TypeOK
    <3>4. new[m].key \in Int /\ old[j].key \in Int /\ old[j + 1].key \in Int
      BY <1>1, <1>4, <3>3, SliceType, Zenon DEF TypeOK
    <3> QED
      BY <3>1, <3>2, <3>4
  <2> QED
    BY <1>3, <1>4, <2>1, <2>2 DEF Frontier
<1> QED
  BY <1>5, <1>6, <1>7, Zenon DEF DiffInv

\* Passing a pair with the same key keeps the invariant.
LEMMA SameInv ==
  ASSUME DiffInv, Same
  PROVE  DiffInv'
<1>1. TypeOK /\ Frontier /\ DiffExact /\ DiffSorted
  BY Zenon DEF DiffInv
<1>2. /\ new' = new /\ old' = old /\ which' = which /\ i' = i + 1 /\ j' = j + 1
      /\ i <= Len(new) /\ j <= Len(old) /\ new[i].key = old[j].key
  BY Zenon DEF Same, InBoth, args
<1>3. /\ i \in 1 .. Len(new) /\ Len(new) \in Nat
      /\ j \in 1 .. Len(old) /\ Len(old) \in Nat
      /\ new \in Slices /\ old \in Slices
  BY <1>1, <1>2, SliceType DEF TypeOK
<1>4. AddIs(add') /\ DelIs(del')
  <2>1. Matchless(new[i], old) <=> Replaced(new[i], old[j])
    BY <1>2, <1>3, OneMatch, Zenon
  <2>2. Matchless(old[j], new) <=> Replaced(old[j], new[i])
    BY <1>2, <1>3, OneMatch, Zenon
  <2>3. Replaced(old[j], new[i]) <=> Replaced(new[i], old[j])
    BY Zenon DEF Replaced
  <2>4. IF Matchless(new[i], old) THEN AddIs(Append(add, new[i])) ELSE AddIs(add)
    BY <1>1, <1>2, AddStep, Zenon
  <2>5. IF Matchless(old[j], new) THEN DelIs(Append(del, old[j])) ELSE DelIs(del)
    BY <1>1, <1>2, DelStep, Zenon
  <2>6. CASE Replaced(new[i], old[j])
    <3>1. add' = Append(add, new[i]) /\ del' = Append(del, old[j])
      BY <2>6, Zenon DEF Same
    <3> QED
      BY <2>1, <2>2, <2>3, <2>4, <2>5, <2>6, <3>1, Zenon
  <2>7. CASE ~Replaced(new[i], old[j])
    <3>1. add' = add /\ del' = del
      BY <2>7, Zenon DEF Same
    <3> QED
      BY <2>1, <2>2, <2>3, <2>4, <2>5, <2>7, <3>1, Zenon
  <2> QED
    BY <2>6, <2>7, Zenon
<1>5. TypeOK'
  BY <1>1, <1>2, <1>3, <1>4 DEF TypeOK, AddIs, DelIs
<1>6. DiffExact' /\ DiffSorted'
  <2>1. i' - 1 = i /\ j' - 1 = j
    BY <1>2, <1>3
  <2>2. Unmatched(new, i - 1, old)' = Unmatched(new, i, old)
    BY <1>2, <2>1, Zenon DEF Unmatched, Replaced
  <2>3. Unmatched(old, j - 1, new)' = Unmatched(old, j, new)
    BY <1>2, <2>1, Zenon DEF Unmatched, Replaced
  <2> QED
    BY <1>4, <2>2, <2>3, Zenon DEF DiffExact, DiffSorted, AddIs, DelIs
<1>7. Frontier'
  <2>1. ASSUME NEW m \in 1 .. i, j + 1 <= Len(old)
        PROVE  new[m].key < old[j + 1].key
    <3>1. new[m].key < old[j].key \/ new[m].key = old[j].key
      BY <1>1, <1>2, <1>3 DEF Frontier
    <3>2. old[j].key < old[j + 1].key
      BY <1>3, <2>1, SliceType DEF Sorted
    <3>3. m \in 1 .. Len(new) /\ j + 1 \in 1 .. Len(old)
      BY <1>3, <2>1
    <3>4. new[m].key \in Int /\ old[j].key \in Int /\ old[j + 1].key \in Int
      BY <1>3, <3>3, SliceType, Zenon
    <3> QED
      BY <3>1, <3>2, <3>4
  <2>2. ASSUME NEW n \in 1 .. j, i + 1 <= Len(new)
        PROVE  old[n].key < new[i + 1].key
    <3>1. old[n].key < new[i].key \/ old[n].key = new[i].key
      BY <1>1, <1>2, <1>3 DEF Frontier
    <3>2. new[i].key < new[i + 1].key
      BY <1>3, <2>2, SliceType DEF Sorted
    <3>3. n \in 1 .. Len(old) /\ i + 1 \in 1 .. Len(new)
      BY <1>3, <2>2
    <3>4. old[n].key \in Int /\ new[i].key \in Int /\ new[i + 1].key \in Int
      BY <1>3, <3>3, SliceType, Zenon
    <3> QED
      BY <3>1, <3>2, <3>4
  <2> QED
    BY <1>2, <1>3, <2>1, <2>2 DEF Frontier
<1> QED
  BY <1>5, <1>6, <1>7, Zenon DEF DiffInv

\* Every iteration keeps the invariant.
LEMMA DiffNextInv == DiffInv /\ [DiffNext]_diffVars => DiffInv'
<1> SUFFICES ASSUME DiffInv, [DiffNext]_diffVars PROVE DiffInv'
  BY Zenon
<1>0. i \in Int /\ j \in Int /\ Len(new) \in Int /\ Len(old) \in Int
  BY SliceType DEF DiffInv, TypeOK
<1>1. CASE Same
  BY <1>1, SameInv, Zenon
<1>2. CASE Less
  BY <1>2, AddedInv, Zenon DEF Less, InBoth
<1>3. CASE Greater
  BY <1>3, DeletedInv, Zenon DEF Greater, InBoth
<1>4. CASE RestNew
  <2>1. i <= Len(new) /\ Added /\ ~(j <= Len(old))
    BY <1>0, <1>4 DEF RestNew
  <2> QED
    BY <2>1, AddedInv, Zenon
<1>5. CASE RestOld
  <2>1. j <= Len(old) /\ Deleted /\ ~(i <= Len(new))
    BY <1>0, <1>5 DEF RestOld
  <2> QED
    BY <2>1, DeletedInv, Zenon
<1>6. CASE UNCHANGED diffVars
  <2>1. /\ new' = new /\ old' = old /\ which' = which /\ i' = i /\ j' = j
        /\ add' = add /\ del' = del
    BY <1>6, Zenon DEF diffVars, args
  <2>2. Unmatched(new, i - 1, old)' = Unmatched(new, i - 1, old)
    BY <2>1, Zenon DEF Unmatched, Replaced
  <2>3. Unmatched(old, j - 1, new)' = Unmatched(old, j - 1, new)
    BY <2>1, Zenon DEF Unmatched, Replaced
  <2> QED
    BY <2>1, <2>2, <2>3, Zenon DEF DiffInv, TypeOK, Frontier, DiffExact, DiffSorted
<1> QED
  BY <1>1, <1>2, <1>3, <1>4, <1>5, <1>6, Zenon DEF DiffNext

\* The loop keeps the invariant throughout (roa.go:142-168, cache.go:237-262).
THEOREM LoopInvariant == DiffSpec => []DiffInv
<1> QED
  BY DiffInitInv, DiffNextInv, PTL DEF DiffSpec

\* The indices never leave the slices: no comparison can be out of range.
THEOREM LoopTypeCorrect == DiffSpec => []TypeOK
<1>1. DiffInv => TypeOK
  BY Zenon DEF DiffInv
<1> QED
  BY <1>1, LoopInvariant, PTL

\* For sorted slices of any length, the merge computes the difference: what is new
\* or replaced in one and what is gone or replaced in the other.
THEOREM LoopDiffExact == DiffSpec => []DiffExact
<1>1. DiffInv => DiffExact
  BY Zenon DEF DiffInv
<1> QED
  BY <1>1, LoopInvariant, PTL

\* The results are sorted, hence free of duplicates.
THEOREM LoopDiffSorted == DiffSpec => []DiffSorted
<1>1. DiffInv => DiffSorted
  BY Zenon DEF DiffInv
<1> QED
  BY <1>1, LoopInvariant, PTL
-----------------------------------------------------------------------------
(* Update. *)

\* The merge has not begun.
NotBegun == i = 1 /\ j = 1 /\ add = <<>> /\ del = <<>>

UpdateInv == IngestInv /\ DiffInv /\ (pc # "diff" => NotBegun)

\* Slices before the first comparison.
LEMMA BeginInv ==
  ASSUME new \in Slices, old \in Slices, which \in {"makeDiff", "makeASPADiff"}, NotBegun
  PROVE  DiffInv
BY DiffInitInv, Zenon DEF DiffInit, NotBegun

\* At first there is nothing to compare.
LEMMA InitUpdate == Init => UpdateInv
<1> SUFFICES ASSUME Init PROVE UpdateInv
  BY Zenon
<1>1. <<>> \in Slices
  BY DEF Slices, Sorted
<1>2. DiffInv
  BY <1>1, BeginInv, Zenon DEF Init, NotBegun
<1> QED
  BY <1>2, IngestInitInv, Zenon DEF Init, UpdateInv, NotBegun

\* What was loaded is a sorted slice, so the merge may start.
LEMMA StartInv ==
  ASSUME UpdateInv, StartDiff
  PROVE  UpdateInv'
<1>1. /\ list \in Seq(Entries) /\ Increasing(list, Len(list)) /\ kept = 0 /\ next = 1
      /\ NotBegun
  BY Zenon DEF UpdateInv, IngestInv, Typed, IngestTypeOK, Phase, StoredKeys, StartDiff
<1>2. /\ pc' = "diff" /\ list' = <<>> /\ src' = <<>> /\ feed' = <<>>
      /\ new' = list /\ old' \in Cached /\ which' \in {"makeDiff", "makeASPADiff"}
      /\ UNCHANGED <<kept, next, i, j, add, del>>
      /\ UNCHANGED <<text, cut, pos, step, got>>
  BY Zenon DEF StartDiff, feedVars, document
<1>3. new' \in Slices /\ old' \in Slices
  <2>1. list \in Seq(Items)
    BY <1>1, CachedAssumption
  <2> QED
    BY <1>1, <1>2, <2>1, CachedAssumption, Zenon DEF Slices, Sorted, Increasing
<1>4. DiffInv'
  <2>1. NotBegun'
    BY <1>1, <1>2, Zenon DEF NotBegun
  <2>2. (new \in Slices /\ old \in Slices /\ which \in {"makeDiff", "makeASPADiff"}
           /\ NotBegun => DiffInv)'
    BY BeginInv, PTL
  <2> QED
    BY <1>2, <1>3, <2>1, <2>2, Zenon
<1>5. Typed'
  BY <1>1, <1>2 DEF UpdateInv, IngestInv, Typed, IngestTypeOK
<1>6. IngestInv'
  BY <1>2, <1>5, Zenon DEF IngestInv, Phase, DedupExact, StoredKeys
<1> QED
  BY <1>2, <1>4, <1>6, Zenon DEF UpdateInv

LEMMA NextUpdate == UpdateInv /\ [Next]_vars => UpdateInv'
<1> SUFFICES ASSUME UpdateInv, [Next]_vars PROVE UpdateInv'
  BY Zenon
<1>1. CASE Load
  <2>1. IngestInv' /\ DiffInv'
    BY <1>1, IngestNextInv, DiffNextInv, Zenon DEF Load, UpdateInv
  <2>2. pc # "diff"
    BY <1>1, Zenon DEF Load, IngestNext, Decode, Combine, NoEntries, Sort, Dedup, EndDedup,
           Filter, EndFilter
  <2>3. NotBegun'
    BY <1>1, <2>2, Zenon DEF Load, UpdateInv, NotBegun, diffVars
  <2> QED
    BY <2>1, <2>3, Zenon DEF UpdateInv
<1>2. CASE StartDiff
  BY <1>2, StartInv, Zenon
<1>3. CASE Diff
  <2>1. IngestInv' /\ DiffInv'
    BY <1>3, IngestNextInv, DiffNextInv, Zenon DEF Diff, UpdateInv
  <2>2. pc' = "diff"
    BY <1>3, Zenon DEF Diff, ingestVars
  <2> QED
    BY <2>1, <2>2, Zenon DEF UpdateInv
<1>4. CASE UNCHANGED vars
  <2>1. UNCHANGED ingestVars /\ UNCHANGED diffVars
    BY <1>4, Zenon DEF vars
  <2>2. IngestInv' /\ DiffInv'
    BY <2>1, IngestNextInv, DiffNextInv, Zenon DEF UpdateInv
  <2>3. UNCHANGED <<pc, NotBegun>>
    BY <2>1, Zenon DEF ingestVars, diffVars, NotBegun
  <2> QED
    BY <2>2, <2>3, Zenon DEF UpdateInv
<1> QED
  BY <1>1, <1>2, <1>3, <1>4, Zenon DEF Next

\* From a feed of any length and with any slice in the cache: the slice that a refresh
\* loads is sorted and free of duplicates, so the merge that relies on it computes the
\* exact difference with the cached one, without duplicates of its own (cache.go:226-262,
\* roa.go:82-107, 138-168).
THEOREM LoadedDiffExact == Spec => [](StoredKeys /\ DiffExact /\ DiffSorted)
<1>1. UpdateInv => StoredKeys /\ DiffExact /\ DiffSorted
  BY Zenon DEF UpdateInv, IngestInv, DiffInv
<1> QED
  BY InitUpdate, NextUpdate, <1>1, PTL DEF Spec
=============================================================================
