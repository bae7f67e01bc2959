------------------------------- MODULE Ingest -------------------------------
(***************************************************************************)
(* From a feed to the slice the cache stores: decode it (module Feed),     *)
(* combine it with the other feeds, sort, drop what is invalid or has a    *)
(* duplicate, drop what has expired.  Two loops compact the slice in       *)
(* place: GetSetOfValidatedROAs (roa.go) or DeduplicateASPAsInPlace        *)
(* (aspa.go), then, on a refresh only, filterExpired or                    *)
(* filterExpiredASPAs.  A step is one iteration.  Indices count from 1.    *)
(*                                                                         *)
(* Entries are sorted by key, then val, and duplicates have the same key:  *)
(* the rank of a ROA's roaKey, with the same val throughout, or an ASPA's  *)
(* customer ASN with the rank of its provider list.                        *)
(***************************************************************************)
EXTENDS Feed

CONSTANTS
  Others,    \* what the other feeds may hold, in the order of arrival
  Valid,     \* the entries for which isValid holds
  Now        \* time.Now() in updateCache

ASSUME IngestAssumption ==
  /\ Others \subseteq Seq(Entries)
  /\ Valid \subseteq Entries
  /\ Now \in Nat \ {0}

VARIABLES
  pc,     \* "load", "sort", "dedup", "filter", "done" or "failed"; then "diff"
  cold,   \* TRUE in Start, FALSE in a refresh
  feed,   \* ghost: what was decoded of all the feeds
  list,   \* the slice
  src,    \* ghost: the slice before the loop that is running
  kept,   \* i in both loops: how many were kept
  next    \* the entry to look at next

ingestVars == <<feedVars, pc, cold, feed, list, src, kept, next>>

IngestInit ==
  /\ FeedInit
  /\ pc = "load"
  /\ cold \in BOOLEAN
  /\ feed = <<>> /\ list = <<>> /\ src = <<>>
  /\ kept = 0 /\ next = 1

Decode ==
  /\ pc = "load"
  /\ FeedNext
  /\ UNCHANGED <<pc, cold, feed, list, src, kept, next>>

\* A feed that cannot be decoded adds nothing.  The decoder's state is dropped.
Combine ==
  /\ pc = "load" /\ step \in {"ok", "error"}
  /\ \E rest \in Others : list' = (IF step = "ok" THEN got ELSE <<>>) \o rest
  /\ feed' = list' /\ src' = list'
  /\ pc' = "sort"
  /\ step' = "dropped" /\ pos' = 0 /\ got' = <<>>
  /\ doc' = [object |-> TRUE, members |-> <<>>] /\ text' = <<>> /\ cut' = 0 /\ torn' = FALSE
  /\ UNCHANGED <<cold, kept, next>>

\* loadROAs takes it for a failure when there is no entry at all; loadASPAs does not.
NoEntries ==
  /\ pc = "sort" /\ list = <<>>
  /\ pc' = "failed"
  /\ UNCHANGED <<feedVars, cold, feed, list, src, kept, next>>

LessOrSame(x, y) == x.key < y.key \/ (x.key = y.key /\ x.val <= y.val)

Permuted(s) ==
  LET n == Len(s)
      perms == {p \in [1 .. n -> 1 .. n] : \A k \in 1 .. n : \E m \in 1 .. n : p[m] = k}
  IN  {[m \in 1 .. n |-> s[p[m]]] : p \in perms}

\* sort.Slice is not stable: entries that compare equal end up in any order.
Sort ==
  /\ pc = "sort"
  /\ list' \in {s \in Permuted(list) : \A m, n \in 1 .. Len(s) : m < n => LessOrSame(s[m], s[n])}
  /\ src' = list'
  /\ pc' = "dedup"
  /\ UNCHANGED <<feedVars, cold, feed, kept, next>>

\* One iteration: keep the entry, moving it down, or pass over it.
Look(keep) ==
  /\ next <= Len(list)
  /\ IF keep
     THEN list' = [list EXCEPT ![kept + 1] = list[next]] /\ kept' = kept + 1
     ELSE UNCHANGED <<list, kept>>
  /\ next' = next + 1
  /\ UNCHANGED <<feedVars, pc, cold, feed, src>>

\* Keep what comes first of each key.
First_InSlice(e) == next = 1 \/ e.key # list[next - 1].key

First(e) == kept = 0 \/ e.key # list[kept].key

Dedup == pc = "dedup" /\ Look(list[next] \in Valid /\ First(list[next]))

Cut_NoReset(then) ==
  /\ next > Len(list)
  /\ list' = SubSeq(list, 1, kept)
  /\ src' = list' /\ kept' = kept /\ next' = 1
  /\ pc' = then
  /\ UNCHANGED <<feedVars, cold, feed>>

\* The loop is over: cut the slice.
Cut(then) ==
  /\ next > Len(list)
  /\ list' = SubSeq(list, 1, kept)
  /\ src' = list' /\ kept' = 0 /\ next' = 1
  /\ pc' = then
  /\ UNCHANGED <<feedVars, cold, feed>>

\* Start stores the result as it is.
EndDedup == pc = "dedup" /\ Cut(IF cold THEN "done" ELSE "filter")

Unexpired_AtNow(e) == e.expires = 0 \/ e.expires >= Now

Unexpired(e) == e.expires = 0 \/ e.expires > Now

Filter == pc = "filter" /\ Look(Unexpired(list[next]))

EndFilter == pc = "filter" /\ Cut("done")

IngestNext == Decode \/ Combine \/ NoEntries \/ Sort \/ Dedup \/ EndDedup \/ Filter \/ EndFilter

IngestSpec == IngestInit /\ [][IngestNext]_ingestVars
-----------------------------------------------------------------------------
(* Properties. *)

\* The keys of the first n of s, and of the valid ones among them.
Keys(s, n) == {s[m].key : m \in 1 .. n}
ValidKeys(s, n) == {s[m].key : m \in {l \in 1 .. n : s[l] \in Valid}}

Increasing(s, n) == \A k, m \in 1 .. n : k < m => s[k].key < s[m].key

\* The two indices never cross: a loop writes only what it has read
\* (roa.go:93-102, 257-262, aspa.go:78-86, 93-98).
IngestTypeOK ==
  /\ pc \in {"load", "sort", "dedup", "filter", "done", "failed", "diff"}
  /\ step \in {"open", "members", "array", "entries", "ok", "error", "dropped"}
  /\ pos \in 0 .. cut /\ cut \in 0 .. Len(text) /\ got \in Seq(Entries)
  /\ list \in Seq(Entries) /\ src \in Seq(Entries)
  /\ next \in 1 .. Len(list) + 1
  /\ kept \in 0 .. next - 1

\* Compacting in place loses nothing: after each iteration the kept part has each
\* key of the valid entries read so far once, in order, and the rest is as it was,
\* also when an entry is valid and one of the same key before it is not, as with an
\* ASPA without providers, which sorts first (aspa.go:79-84).
DedupExact ==
  pc = "dedup" =>
    /\ Increasing(list, kept)
    /\ \A m \in 1 .. kept : \E n \in 1 .. next - 1 : list[m] = src[n] /\ src[n] \in Valid
    /\ Keys(list, kept) = ValidKeys(src, next - 1)
    /\ \A m \in next .. Len(list) : list[m] = src[m]

Fresh(e) == cold \/ e.expires \notin 1 .. Now
Of(k) == {e \in Range(feed) \cap Valid : e.key = k}

\* The slice that is stored has strictly increasing keys, as makeDiff assumes
\* (roa.go:138).  It has a key that there are valid entries for and, on a
\* refresh, unexpired ones; of a key with duplicates of which only some have
\* expired, it depends on the order of the sort (roa.go:88, 258).
StoredKeys ==
  pc = "done" =>
    /\ Increasing(list, Len(list))
    /\ \A k \in Keys(list, Len(list)) : \E e \in Of(k) : Fresh(e)
    /\ \A k \in ValidKeys(feed, Len(feed)) :
         (\A e \in Of(k) : Fresh(e)) => k \in Keys(list, Len(list))
=============================================================================
