---------------------------- MODULE CacheProofs ----------------------------
(***************************************************************************)
(* Proofs about module Cache, for every set of ROAs, customers and         *)
(* provider lists, every maxHistory and every width of the serial.         *)
(***************************************************************************)
EXTENDS Cache, FiniteSetTheorems, TLAPS

(* Counting.  Hits(f, i, n, k) are the indices in i .. n at which the      *)
(* family of sets f holds k: the records a net count ranges over.          *)
In(k, S) == IF k \in S THEN 1 ELSE 0

Hits(f, i, n, k) == {j \in i .. n : k \in f[j]}

\* On i .. n, g is f read off positions further on: 0 when a record was only
\* appended, 1 when the oldest was dropped too.
Renumbers(g, f, i, n, off) == \A j \in i .. n : g[j] = f[j + off]

\* Hits are finitely many, so that their number can be calculated with.
LEMMA HitsFinite ==
  ASSUME NEW f, NEW i \in Nat, NEW n \in Int, NEW k
  PROVE  /\ IsFiniteSet(Hits(f, i, n, k))
         /\ Cardinality(Hits(f, i, n, k)) \in Nat
<1>1. IsFiniteSet(i .. n)
  BY FS_Interval
<1>2. Hits(f, i, n, k) \subseteq i .. n
  BY Zenon DEF Hits
<1> QED
  BY <1>1, <1>2, FS_Subset, FS_CardinalityType, Zenon

\* Renumbering records does not change how many of them mention a key.
LEMMA HitsShift ==
  ASSUME NEW f, NEW g, NEW i \in Nat, NEW n \in Int, NEW k, NEW off \in {0, 1},
         Renumbers(g, f, i, n, off)
  PROVE  Cardinality(Hits(g, i, n, k)) = Cardinality(Hits(f, i + off, n + off, k))
<1> DEFINE S == Hits(g, i, n, k)
           T == Hits(f, i + off, n + off, k)
           b == [j \in S |-> j + off]
<1>1. \A j \in S : j \in Int /\ j + off \in T
  BY DEF Hits, Renumbers
<1>2. \A j \in T : j - off \in S /\ j \in Int /\ (j - off) + off = j
  BY DEF Hits, Renumbers
<1>3. b \in Bijection(S, T)
  <2>1. b \in [S -> T]
    BY <1>1, Zenon
  <2>2. \A x, y \in S : b[x] = b[y] => x = y
    <3>1. \A x, y \in Int : x + off = y + off => x = y
      OBVIOUS
    <3>2. \A x \in S : x \in Int /\ b[x] = x + off
      BY <1>1, Zenon
    <3> QED
      BY <3>1, <3>2, Zenon
  <2>3. \A t \in T : \E s \in S : b[s] = t
    BY <1>2, Zenon
  <2> QED
    BY <2>1, <2>2, <2>3, Zenon DEF Bijection, Injection, Surjection, IsInjective
<1>4. IsFiniteSet(S)
  BY HitsFinite, Zenon
<1> HIDE DEF S, T, b
<1>5. ExistsBijection(S, T)
  BY <1>3, Zenon DEF ExistsBijection
<1> QED
  BY <1>4, <1>5, FS_Bijection, Zenon DEF S, T

\* From record i on, g has one record, number m, more than f.
OneMore(g, f, i, m, n, off) ==
  /\ i \in Nat /\ m \in Nat /\ n \in Int /\ off \in {0, 1}
  /\ n = m - 1 /\ i <= m
  /\ Renumbers(g, f, i, n, off)

\* One more record adds one to the count exactly if it mentions the key.
LEMMA HitsStep ==
  ASSUME NEW f, NEW g, NEW i, NEW m, NEW n, NEW k, NEW off,
         OneMore(g, f, i, m, n, off)
  PROVE  Cardinality(Hits(g, i, m, k))
           = Cardinality(Hits(f, i + off, n + off, k)) + In(k, g[m])
<1> USE DEF OneMore
<1> DEFINE S == Hits(g, i, n, k)
<1>1. Cardinality(S) = Cardinality(Hits(f, i + off, n + off, k))
  BY HitsShift
<1>2. IsFiniteSet(S) /\ Cardinality(S) \in Nat
  BY HitsFinite, Zenon
<1>3. CASE k \in g[m]
  <2>1. Hits(g, i, m, k) = S \cup {m} /\ m \notin S
    BY <1>3 DEF Hits
  <2> QED
    BY <1>1, <1>2, <1>3, <2>1, FS_AddElement DEF In
<1>4. CASE k \notin g[m]
  <2>1. Hits(g, i, m, k) = S
    BY <1>4 DEF Hits
  <2> QED
    BY <1>1, <1>2, <1>4, <2>1 DEF In
<1> QED
  BY <1>3, <1>4, Zenon
-----------------------------------------------------------------------------
(* Updating the history. *)

\* uint32 arithmetic: the serial after s.
LEMMA IncrementSerial ==
  ASSUME NEW s \in Serials
  PROVE  incrementSerial(s) = IF s = SerialMod - 1 THEN 0 ELSE s + 1
BY SerialModAssumption, MaxHistoryAssumption DEF Serials, incrementSerial

\* Whether the record appended to h pushes out the oldest.
Evicted(h) == IF Len(h) = MaxHistory THEN 1 ELSE 0

\* t is h with e appended, less the oldest element of h if h was full.
Pushed(t, h, e, S) ==
  /\ t \in Seq(S)
  /\ Evicted(h) \in {0, 1}
  /\ Len(t) = Len(h) + 1 - Evicted(h)
  /\ Len(t) \in 1 .. MaxHistory
  /\ Renumbers(t, h, 1, Len(t) - 1, Evicted(h))
  /\ t[Len(t)] = e

\* updateDiffs keeps the records it does not drop, in order, and the new one last.
LEMMA TrimAppend ==
  ASSUME NEW S, NEW h \in Seq(S), NEW e \in S, Len(h) <= MaxHistory
  PROVE  Pushed(Trim(Append(h, e)), h, e, S)
<1> DEFINE a == Append(h, e)
           t == Trim(a)
<1>1. /\ a \in Seq(S)
      /\ Len(a) = Len(h) + 1
      /\ \A j \in 1 .. Len(h) : a[j] = h[j]
      /\ a[Len(h) + 1] = e
  OBVIOUS
<1>2. Len(h) \in Nat /\ MaxHistory \in Nat /\ MaxHistory > 0
  BY MaxHistoryAssumption
<1> HIDE DEF a, t
<1>3. CASE Len(h) = MaxHistory
  <2>1. t = Tail(a) /\ Evicted(h) = 1
    BY <1>1, <1>2, <1>3 DEF Trim, Evicted, t
  <2>2. /\ t \in Seq(S)
        /\ Len(t) = Len(h)
        /\ \A j \in 1 .. Len(h) : t[j] = a[j + 1]
    BY <1>1, <1>2, <2>1
  <2>3. \A j \in 1 .. Len(h) - 1 : t[j] = h[j + 1]
    BY <1>1, <1>2, <2>2
  <2> QED
    BY <1>1, <1>2, <1>3, <2>1, <2>2, <2>3 DEF Renumbers, Pushed, a, t
<1>4. CASE Len(h) # MaxHistory
  <2>1. t = a /\ Evicted(h) = 0
    BY <1>1, <1>2, <1>4 DEF Trim, Evicted, t
  <2> QED
    BY <1>1, <1>2, <1>4, <2>1 DEF Renumbers, Pushed, a, t
<1> QED
  BY <1>3, <1>4, Zenon
-----------------------------------------------------------------------------
(* The inductive invariant. *)

\* The serial d updates before s.
Behind(s, d) == IF s >= d THEN s - d ELSE s - d + SerialMod

\* Records are numbered backwards from the current serial, without a gap.
SerialsInv ==
  \A i \in 1 .. Len(history) :
    /\ history[i].from = Behind(serial, Len(history) + 1 - i)
    /\ history[i].to = Behind(serial, Len(history) - i)

\* The net count of a key from any record on is whether it is served now, less
\* whether it was served at that record's serial: never outside {-1, 0, 1}.
RoaNetInv ==
  \A i \in 1 .. Len(history) : \A k \in Roas :
    RoaNet(history, i, k) = In(k, roas) - In(k, past[i].roas)

AspaNetInv ==
  \A i \in 1 .. Len(history) : \A c \in Customers :
    AspaNet(history, i, c) = In(c, DOMAIN aspas) - In(c, DOMAIN past[i].aspas)

CacheInv == CacheTypeOK /\ SerialsInv /\ RoaNetInv /\ AspaNetInv

\* What makeASPADiff returns, as far as its customers go.
LEMMA AspaDiffDomains ==
  ASSUME NEW new \in AspaSets, NEW old \in AspaSets
  PROVE  /\ makeASPADiff(new, old).add \in AspaSets
         /\ makeASPADiff(new, old).del \in AspaSets
         /\ \A c : In(c, DOMAIN makeASPADiff(new, old).add)
                     - In(c, DOMAIN makeASPADiff(new, old).del)
                   = In(c, DOMAIN new) - In(c, DOMAIN old)
<1> DEFINE A == {c \in DOMAIN new : c \in DOMAIN old => new[c] # old[c]}
           D == {c \in DOMAIN old : c \in DOMAIN new => new[c] # old[c]}
<1>1. /\ makeASPADiff(new, old).add = [c \in A |-> new[c]]
      /\ makeASPADiff(new, old).del = [c \in D |-> old[c]]
  BY Zenon DEF makeASPADiff, Only
<1>2. /\ DOMAIN new \subseteq Customers /\ \A c \in DOMAIN new : new[c] \in ProviderLists
      /\ DOMAIN old \subseteq Customers /\ \A c \in DOMAIN old : old[c] \in ProviderLists
  BY Zenon DEF AspaSets
<1>3. [c \in A |-> new[c]] \in [A -> ProviderLists] /\ A \in SUBSET Customers
  BY <1>2, Zenon
<1>4. [c \in D |-> old[c]] \in [D -> ProviderLists] /\ D \in SUBSET Customers
  BY <1>2, Zenon
<1>5. \A c : In(c, A) - In(c, D) = In(c, DOMAIN new) - In(c, DOMAIN old)
  BY DEF In
<1>6. DOMAIN makeASPADiff(new, old).add = A /\ DOMAIN makeASPADiff(new, old).del = D
  BY <1>1, Zenon
<1> QED
  BY <1>1, <1>3, <1>4, <1>5, <1>6 DEF AspaSets

\* An update appends one record of the right type, and the data it replaces to
\* the ghost, and may drop the oldest of both.
UpdateEffect(newROAs, newASPAs) ==
  LET rec == newDiff(makeDiff(newROAs, roas), makeASPADiff(newASPAs, aspas))
  IN  /\ roas' = newROAs /\ aspas' = newASPAs
      /\ serial' = incrementSerial(serial) /\ serial' \in Serials
      /\ rec \in diffRecord
      /\ Pushed(history', history, rec, diffRecord)
      /\ Pushed(past', past, [roas |-> roas, aspas |-> aspas], Datasets)
      /\ Evicted(past) = Evicted(history)
      /\ Len(past') = Len(history')

\* What an update does to the state, with its quantifiers packed away.
LEMMA UpdateShape ==
  ASSUME CacheTypeOK, NEW newROAs \in SUBSET Roas, NEW newASPAs \in AspaSets,
         updateCache(newROAs, newASPAs)
  PROVE  UpdateEffect(newROAs, newASPAs)
<1> DEFINE rec == newDiff(makeDiff(newROAs, roas), makeASPADiff(newASPAs, aspas))
           old == [roas |-> roas, aspas |-> aspas]
<1>1. /\ roas' = newROAs /\ aspas' = newASPAs
      /\ serial' = incrementSerial(serial)
      /\ history' = Trim(Append(history, rec))
      /\ past' = Trim(Append(past, old))
  BY Zenon DEF updateCache, updateDiffs
<1>2. incrementSerial(serial) \in Serials
  BY IncrementSerial, SerialModAssumption DEF CacheTypeOK, Serials
<1>3. rec \in diffRecord
  <2>1. makeDiff(newROAs, roas).add \in SUBSET Roas /\ makeDiff(newROAs, roas).del \in SUBSET Roas
    BY Zenon DEF makeDiff, CacheTypeOK
  <2>2. makeASPADiff(newASPAs, aspas).add \in AspaSets /\ makeASPADiff(newASPAs, aspas).del \in AspaSets
    BY AspaDiffDomains, Zenon DEF CacheTypeOK
  <2> QED
    BY <1>2, <2>1, <2>2, Zenon DEF newDiff, diffRecord, CacheTypeOK
<1>4. old \in Datasets
  BY Zenon DEF Datasets, CacheTypeOK
<1>5. /\ history \in Seq(diffRecord) /\ Len(history) <= MaxHistory
      /\ past \in Seq(Datasets) /\ Len(past) = Len(history)
  BY Zenon DEF CacheTypeOK
<1> HIDE DEF rec, old
<1>6. Pushed(history', history, rec, diffRecord)
  BY <1>1, <1>3, <1>5, TrimAppend, Zenon
<1>7. Pushed(past', past, old, Datasets)
  BY <1>1, <1>4, <1>5, TrimAppend, Zenon
<1>8. Evicted(past) = Evicted(history)
  BY <1>5, Zenon DEF Evicted
<1>9. Len(past') = Len(history')
  BY <1>5, <1>6, <1>7, <1>8, Zenon DEF Pushed
<1> QED
  BY <1>1, <1>2, <1>3, <1>6, <1>7, <1>8, <1>9, Zenon DEF UpdateEffect, rec, old

\* The inductive step of both net counts, for the families of sets announced (ga,
\* before: fa) and withdrawn (gd, before: fd): if the count from record x on was
\* now(x) - then(x), and the new record turns old into new, the count from any
\* record of the new history on is right again.
Net(a, d, i, n, k) == Cardinality(Hits(a, i, n, k)) - Cardinality(Hits(d, i, n, k))

\* How one more record moves the net count of a key.
LEMMA NetStep ==
  ASSUME NEW fa, NEW fd, NEW ga, NEW gd, NEW i, NEW m, NEW n, NEW k, NEW off,
         OneMore(ga, fa, i, m, n, off), OneMore(gd, fd, i, m, n, off)
  PROVE  /\ Net(ga, gd, i, m, k)
              = Net(fa, fd, i + off, n + off, k) + (In(k, ga[m]) - In(k, gd[m]))
         /\ i = m => Net(fa, fd, i + off, n + off, k) = 0
<1>1. /\ Cardinality(Hits(ga, i, m, k))
           = Cardinality(Hits(fa, i + off, n + off, k)) + In(k, ga[m])
      /\ Cardinality(Hits(gd, i, m, k))
           = Cardinality(Hits(fd, i + off, n + off, k)) + In(k, gd[m])
  BY HitsStep
<1>2. /\ Cardinality(Hits(fa, i + off, n + off, k)) \in Nat
      /\ Cardinality(Hits(fd, i + off, n + off, k)) \in Nat
  <2>1. i + off \in Nat /\ n + off \in Int
    BY DEF OneMore
  <2> QED
    BY <2>1, HitsFinite, Zenon
<1>3. In(k, ga[m]) \in Nat /\ In(k, gd[m]) \in Nat
  BY Zenon DEF In
<1>4. ASSUME i = m
      PROVE  Hits(fa, i + off, n + off, k) = {} /\ Hits(fd, i + off, n + off, k) = {}
  BY <1>4 DEF Hits, OneMore
<1>5. ASSUME i = m
      PROVE  Net(fa, fd, i + off, n + off, k) = 0
  BY <1>4, <1>5, FS_EmptySet DEF Net
<1> QED
  BY <1>1, <1>2, <1>3, <1>5 DEF Net

\* The sets of keys each record of h announces or withdraws.
RoaAdds(h) == [j \in 1 .. Len(h) |-> h[j].add]
RoaDels(h) == [j \in 1 .. Len(h) |-> h[j].del]
AspaAdds(h) == [j \in 1 .. Len(h) |-> DOMAIN h[j].addAspa]
AspaDels(h) == [j \in 1 .. Len(h) |-> DOMAIN h[j].delAspa]

\* The net counts of the code are counts of hits in these families.
LEMMA NetIsHits ==
  ASSUME NEW h, NEW i \in Nat, NEW k, i > 0
  PROVE  /\ RoaNet(h, i, k) = Net(RoaAdds(h), RoaDels(h), i, Len(h), k)
         /\ AspaNet(h, i, k) = Net(AspaAdds(h), AspaDels(h), i, Len(h), k)
<1>1. /\ {j \in i .. Len(h) : k \in h[j].add}
           = Hits(RoaAdds(h), i, Len(h), k)
      /\ {j \in i .. Len(h) : k \in h[j].del}
           = Hits(RoaDels(h), i, Len(h), k)
  BY DEF Hits, RoaAdds, RoaDels
<1>2. /\ {j \in i .. Len(h) : k \in DOMAIN h[j].addAspa}
           = Hits(AspaAdds(h), i, Len(h), k)
      /\ {j \in i .. Len(h) : k \in DOMAIN h[j].delAspa}
           = Hits(AspaDels(h), i, Len(h), k)
  BY DEF Hits, AspaAdds, AspaDels
<1> QED
  BY <1>1, <1>2, Zenon DEF Net, RoaNet, AspaNet
-----------------------------------------------------------------------------
(* Each part of the invariant is preserved by an update. *)

\* An update keeps the type.
LEMMA UpdateType ==
  ASSUME CacheTypeOK, NEW newROAs \in SUBSET Roas, NEW newASPAs \in AspaSets,
         updateCache(newROAs, newASPAs)
  PROVE  CacheTypeOK'
<1>1. UpdateEffect(newROAs, newASPAs)
  BY UpdateShape, Zenon
<1> QED
  BY <1>1, MaxHistoryAssumption DEF CacheTypeOK, UpdateEffect, Pushed

\* An update keeps the records numbered back from the serial.
LEMMA UpdateSerials ==
  ASSUME CacheTypeOK, SerialsInv,
         NEW newROAs \in SUBSET Roas, NEW newASPAs \in AspaSets,
         updateCache(newROAs, newASPAs)
  PROVE  SerialsInv'
<1> DEFINE L == Len(history)
           m == Len(history')
           off == Evicted(history)
           rec == newDiff(makeDiff(newROAs, roas), makeASPADiff(newASPAs, aspas))
           t == serial'
<1>0. UpdateEffect(newROAs, newASPAs)
  BY UpdateShape, Zenon
<1>1. /\ off \in {0, 1} /\ L \in Nat /\ L <= MaxHistory
      /\ m = L + 1 - off /\ m \in 1 .. MaxHistory
      /\ t = incrementSerial(serial) /\ serial \in Serials
      /\ history'[m] = rec
  BY <1>0 DEF CacheTypeOK, UpdateEffect, Pushed
<1>2. \A j \in 1 .. m - 1 : history'[j] = history[j + off]
  BY <1>0, Zenon DEF UpdateEffect, Pushed, Renumbers
<1>3. rec.from = serial /\ rec.to = t
  BY <1>1, Zenon DEF newDiff
<1>4. t = IF serial = SerialMod - 1 THEN 0 ELSE serial + 1
  BY <1>1, IncrementSerial, Zenon
<1>5. SerialMod \in Nat /\ MaxHistory \in Nat /\ MaxHistory < SerialMod
      /\ serial \in 0 .. SerialMod - 1
  BY <1>1, SerialModAssumption, MaxHistoryAssumption, Zenon DEF Serials
<1>6. SUFFICES ASSUME NEW i \in 1 .. m
               PROVE  /\ history'[i].from = Behind(t, m + 1 - i)
                      /\ history'[i].to = Behind(t, m - i)
  BY Zenon DEF SerialsInv
<1> HIDE DEF L, m, off, rec, t
<1>7. CASE i = m
  BY <1>1, <1>3, <1>4, <1>5, <1>7 DEF Behind
<1>8. CASE i < m
  <2>1. i + off \in 1 .. L /\ history'[i] = history[i + off]
    BY <1>1, <1>2, <1>8
  <2>2. /\ history[i + off].from = Behind(serial, L + 1 - (i + off))
        /\ history[i + off].to = Behind(serial, L - (i + off))
    BY <2>1, Zenon DEF SerialsInv, L
  <2>3. \A d \in 0 .. SerialMod - 1 : d + 1 < SerialMod => Behind(t, d + 1) = Behind(serial, d)
    BY <1>4, <1>5 DEF Behind
  <2>4. /\ m - i \in 0 .. SerialMod - 1 /\ (m - i) + 1 < SerialMod
        /\ L + 1 - (i + off) = m - i
        /\ L - (i + off) = m - i - 1
        /\ m - i - 1 \in 0 .. SerialMod - 1 /\ (m - i - 1) + 1 < SerialMod
        /\ (m - i - 1) + 1 = m - i /\ (m - i) + 1 = m + 1 - i
    BY <1>1, <1>5, <1>8
  <2> QED
    BY <2>1, <2>2, <2>3, <2>4, Zenon
<1> QED
  BY <1>1, <1>7, <1>8

\* An update keeps what the net counts of ROAs mean.
LEMMA UpdateRoaNet ==
  ASSUME CacheTypeOK, RoaNetInv,
         NEW newROAs \in SUBSET Roas, NEW newASPAs \in AspaSets,
         updateCache(newROAs, newASPAs)
  PROVE  RoaNetInv'
<1> DEFINE L == Len(history)
           m == Len(history')
           n == m - 1
           off == Evicted(history)
           rec == newDiff(makeDiff(newROAs, roas), makeASPADiff(newASPAs, aspas))
           fa == RoaAdds(history)
           fd == RoaDels(history)
           ga == RoaAdds(history')
           gd == RoaDels(history')
<1>0. UpdateEffect(newROAs, newASPAs)
  BY UpdateShape, Zenon
<1>1. /\ off \in {0, 1} /\ L \in Nat
      /\ m = L + 1 - off /\ m \in Nat /\ m >= 1 /\ n + off = L
      /\ history'[m] = rec
      /\ past'[m] = [roas |-> roas, aspas |-> aspas]
  BY <1>0, MaxHistoryAssumption DEF CacheTypeOK, UpdateEffect, Pushed
<1>2. \A j \in 1 .. n : j + off \in 1 .. L /\ history'[j] = history[j + off]
                        /\ past'[j] = past[j + off]
  BY <1>0, <1>1 DEF UpdateEffect, Pushed, Renumbers
<1>3. ga[m] = newROAs \ roas /\ gd[m] = roas \ newROAs
  BY <1>1 DEF RoaAdds, RoaDels, newDiff, makeDiff
<1>4. \A k : In(k, ga[m]) - In(k, gd[m]) = In(k, newROAs) - In(k, roas)
  BY <1>3 DEF In
<1>5. SUFFICES ASSUME NEW i \in 1 .. m, NEW k \in Roas
               PROVE  RoaNet(history', i, k) = In(k, newROAs) - In(k, past'[i].roas)
  BY <1>0, Zenon DEF RoaNetInv, UpdateEffect
<1>6. OneMore(ga, fa, i, m, n, off) /\ OneMore(gd, fd, i, m, n, off)
  <2>1. \A j \in i .. n : ga[j] = fa[j + off] /\ gd[j] = fd[j + off]
    BY <1>1, <1>2 DEF RoaAdds, RoaDels
  <2> QED
    BY <1>1, <2>1 DEF OneMore, Renumbers
<1>7. RoaNet(history', i, k) = Net(ga, gd, i, m, k)
  <2>1. i \in Nat /\ i > 0
    BY <1>1
  <2> QED
    BY <2>1, NetIsHits, Zenon
<1> HIDE DEF L, m, n, off, rec, fa, fd, ga, gd
<1>8. /\ Net(ga, gd, i, m, k)
           = Net(fa, fd, i + off, n + off, k) + (In(k, ga[m]) - In(k, gd[m]))
      /\ i = m => Net(fa, fd, i + off, n + off, k) = 0
  BY <1>6, NetStep
<1>9. \A x, S : In(x, S) \in {0, 1}
  BY Zenon DEF In
<1>10. CASE i = m
  <2>1. In(k, past'[i].roas) = In(k, roas)
    BY <1>1, <1>10
  <2> QED
    BY <1>4, <1>7, <1>8, <1>9, <1>10, <2>1
<1>11. CASE i < m
  <2>1. i \in 1 .. n
    BY <1>1, <1>11 DEF n
  <2>2. i + off \in 1 .. L /\ past'[i] = past[i + off]
    BY <1>2, <2>1, Zenon
  <2>3. RoaNet(history, i + off, k) = In(k, roas) - In(k, past[i + off].roas)
    BY <2>2, Zenon DEF RoaNetInv, L
  <2>4. RoaNet(history, i + off, k) = Net(fa, fd, i + off, L, k)
    <3>1. i + off \in Nat /\ i + off > 0
      BY <1>1, <2>2
    <3> QED
      BY <3>1, NetIsHits, Zenon DEF fa, fd, L
  <2> QED
    BY <1>1, <1>4, <1>7, <1>8, <1>9, <2>2, <2>3, <2>4
<1> QED
  BY <1>1, <1>10, <1>11

\* An update keeps what the net counts of ASPA customers mean.
LEMMA UpdateAspaNet ==
  ASSUME CacheTypeOK, AspaNetInv,
         NEW newROAs \in SUBSET Roas, NEW newASPAs \in AspaSets,
         updateCache(newROAs, newASPAs)
  PROVE  AspaNetInv'
<1> DEFINE L == Len(history)
           m == Len(history')
           n == m - 1
           off == Evicted(history)
           rec == newDiff(makeDiff(newROAs, roas), makeASPADiff(newASPAs, aspas))
           fa == AspaAdds(history)
           fd == AspaDels(history)
           ga == AspaAdds(history')
           gd == AspaDels(history')
<1>0. UpdateEffect(newROAs, newASPAs)
  BY UpdateShape, Zenon
<1>1. /\ off \in {0, 1} /\ L \in Nat
      /\ m = L + 1 - off /\ m \in Nat /\ m >= 1 /\ n + off = L
      /\ history'[m] = rec
      /\ past'[m] = [roas |-> roas, aspas |-> aspas]
  BY <1>0, MaxHistoryAssumption DEF CacheTypeOK, UpdateEffect, Pushed
<1>2. \A j \in 1 .. n : j + off \in 1 .. L /\ history'[j] = history[j + off]
                        /\ past'[j] = past[j + off]
  BY <1>0, <1>1 DEF UpdateEffect, Pushed, Renumbers
<1>3. ga[m] = DOMAIN makeASPADiff(newASPAs, aspas).add /\ gd[m] = DOMAIN makeASPADiff(newASPAs, aspas).del
  BY <1>1 DEF AspaAdds, AspaDels, newDiff
<1>4. \A c : In(c, ga[m]) - In(c, gd[m]) = In(c, DOMAIN newASPAs) - In(c, DOMAIN aspas)
  BY <1>3, AspaDiffDomains DEF CacheTypeOK
<1>5. SUFFICES ASSUME NEW i \in 1 .. m, NEW c \in Customers
               PROVE  AspaNet(history', i, c) = In(c, DOMAIN newASPAs) - In(c, DOMAIN past'[i].aspas)
  BY <1>0, Zenon DEF AspaNetInv, UpdateEffect
<1>6. OneMore(ga, fa, i, m, n, off) /\ OneMore(gd, fd, i, m, n, off)
  <2>1. \A j \in i .. n : ga[j] = fa[j + off] /\ gd[j] = fd[j + off]
    BY <1>1, <1>2 DEF AspaAdds, AspaDels
  <2> QED
    BY <1>1, <2>1 DEF OneMore, Renumbers
<1>7. AspaNet(history', i, c) = Net(ga, gd, i, m, c)
  <2>1. i \in Nat /\ i > 0
    BY <1>1
  <2> QED
    BY <2>1, NetIsHits, Zenon
<1> HIDE DEF L, m, n, off, rec, fa, fd, ga, gd
<1>8. /\ Net(ga, gd, i, m, c)
           = Net(fa, fd, i + off, n + off, c) + (In(c, ga[m]) - In(c, gd[m]))
      /\ i = m => Net(fa, fd, i + off, n + off, c) = 0
  BY <1>6, NetStep
<1>9. \A x, S : In(x, S) \in {0, 1}
  BY Zenon DEF In
<1>10. CASE i = m
  <2>1. In(c, DOMAIN past'[i].aspas) = In(c, DOMAIN aspas)
    BY <1>1, <1>10
  <2> QED
    BY <1>4, <1>7, <1>8, <1>9, <1>10, <2>1
<1>11. CASE i < m
  <2>1. i \in 1 .. n
    BY <1>1, <1>11 DEF n
  <2>2. i + off \in 1 .. L /\ past'[i] = past[i + off]
    BY <1>2, <2>1, Zenon
  <2>3. AspaNet(history, i + off, c) = In(c, DOMAIN aspas) - In(c, DOMAIN past[i + off].aspas)
    BY <2>2, Zenon DEF AspaNetInv, L
  <2>4. AspaNet(history, i + off, c) = Net(fa, fd, i + off, L, c)
    <3>1. i + off \in Nat /\ i + off > 0
      BY <1>1, <2>2
    <3> QED
      BY <3>1, NetIsHits, Zenon DEF fa, fd, L
  <2> QED
    BY <1>1, <1>4, <1>7, <1>8, <1>9, <2>2, <2>3, <2>4
<1> QED
  BY <1>1, <1>10, <1>11
-----------------------------------------------------------------------------
(* The theorems. *)

\* The empty history satisfies the invariant.
LEMMA CacheInitInv == CacheInit => CacheInv
<1> SUFFICES ASSUME CacheInit PROVE CacheInv
  BY Zenon
<1>1. history = <<>> /\ Len(history) = 0
  BY Zenon DEF CacheInit
<1>2. CacheTypeOK
  BY SerialModAssumption, MaxHistoryAssumption DEF CacheInit, CacheTypeOK, Serials
<1> QED
  BY <1>1, <1>2 DEF CacheInv, SerialsInv, RoaNetInv, AspaNetInv

\* Every update keeps the invariant.
LEMMA CacheNextInv == CacheInv /\ [CacheNext]_cacheVars => CacheInv'
<1>1. ASSUME CacheInv, CacheNext PROVE CacheInv'
  <2>1. PICK newROAs \in SUBSET Roas, newASPAs \in AspaSets : updateCache(newROAs, newASPAs)
    BY <1>1, Zenon DEF CacheNext
  <2>2. CacheTypeOK /\ SerialsInv /\ RoaNetInv /\ AspaNetInv
    BY <1>1, Zenon DEF CacheInv
  <2>3. CacheTypeOK'
    BY <2>1, <2>2, UpdateType, Zenon
  <2>4. SerialsInv'
    BY <2>1, <2>2, UpdateSerials, Zenon
  <2>5. RoaNetInv'
    BY <2>1, <2>2, UpdateRoaNet, Zenon
  <2>6. AspaNetInv'
    BY <2>1, <2>2, UpdateAspaNet, Zenon
  <2> QED
    BY <2>3, <2>4, <2>5, <2>6, Zenon DEF CacheInv
<1>2. ASSUME CacheInv, UNCHANGED cacheVars PROVE CacheInv'
  BY <1>2, Zenon DEF CacheInv, CacheTypeOK, SerialsInv, RoaNetInv, AspaNetInv, cacheVars
<1> QED
  BY <1>1, <1>2, Zenon

\* The cache always satisfies the inductive invariant: every execution of
\* updateCache numbers its record after the last and keeps every net count.
THEOREM CacheInvariant == CacheSpec => []CacheInv
BY CacheInitInv, CacheNextInv, PTL DEF CacheSpec

\* The history never exceeds maxHistory, and every field keeps its type
\* (cache.go:11-29, 59).
THEOREM CacheTypeCorrect == CacheSpec => []CacheTypeOK
<1>1. CacheInv => CacheTypeOK
  BY Zenon DEF CacheInv
<1> QED
  BY <1>1, CacheInvariant, PTL

\* The chain property follows from the backwards numbering, as there are fewer
\* records than serials.
LEMMA InvChain == CacheInv => HistoryIsChain
<1> SUFFICES ASSUME CacheInv PROVE HistoryIsChain
  BY Zenon
<1> DEFINE L == Len(history)
<1>1. /\ L \in Nat /\ L <= MaxHistory /\ MaxHistory \in Nat
      /\ SerialMod \in Nat /\ MaxHistory < SerialMod /\ serial \in 0 .. SerialMod - 1
  BY SerialModAssumption, MaxHistoryAssumption DEF CacheInv, CacheTypeOK, Serials
<1>2. \A i \in 1 .. L : /\ history[i].from = Behind(serial, L + 1 - i)
                        /\ history[i].to = Behind(serial, L - i)
  BY Zenon DEF CacheInv, SerialsInv
<1>3. Behind(serial, 0) = serial
  BY <1>1 DEF Behind
<1>4. \A d, e \in 0 .. L : Behind(serial, d) = Behind(serial, e) => d = e
  BY <1>1 DEF Behind
<1> HIDE DEF L
<1>5. ASSUME NEW i \in 1 .. L
      PROVE  history[i].to = IF i = L THEN serial ELSE history[i + 1].from
  <2>1. CASE i = L
    <3>1. L - i = 0
      BY <1>1, <2>1
    <3> QED
      BY <1>2, <1>3, <2>1, <3>1, Zenon
  <2>2. CASE i # L
    <3>1. i + 1 \in 1 .. L /\ L + 1 - (i + 1) = L - i
      BY <1>1, <2>2
    <3> QED
      BY <1>2, <2>2, <3>1, Zenon
  <2> QED
    BY <2>1, <2>2, Zenon
<1>6. ASSUME NEW i \in 1 .. L, NEW j \in 1 .. L, history[i].from = history[j].from
      PROVE  i = j
  <2>1. L + 1 - i \in 0 .. L /\ L + 1 - j \in 0 .. L
    BY <1>1
  <2>2. L + 1 - i = L + 1 - j
    BY <1>2, <1>4, <1>6, <2>1, Zenon
  <2> QED
    BY <1>1, <2>2
<1>7. ASSUME NEW i \in 1 .. L
      PROVE  history[i].from # serial
  <2>1. L + 1 - i \in 0 .. L /\ 0 \in 0 .. L /\ L + 1 - i # 0
    BY <1>1
  <2> QED
    BY <1>2, <1>3, <1>4, <2>1, Zenon
<1> QED
  BY <1>5, <1>6, <1>7, Zenon DEF HistoryIsChain, L

\* A Serial Query has at most one record to start from, and the chain from there
\* leads to the current serial, wraparound included (cache.go:79-94).
THEOREM HistoryChain == CacheSpec => []HistoryIsChain
BY CacheInvariant, InvChain, PTL

\* For the serial of record i, getDiffsFrom nets the records from i on.
LEMMA DiffsFromRecord ==
  ASSUME CacheInv, NEW i \in 1 .. Len(history)
  PROVE  LET d == getDiffsFrom(history[i].from)
         IN  /\ d.found
             /\ d.add = {k \in Roas : RoaNet(history, i, k) > 0}
             /\ d.del = {k \in Roas : RoaNet(history, i, k) < 0}
             /\ DOMAIN d.addAspa = {c \in Customers : AspaNet(history, i, c) > 0}
             /\ DOMAIN d.delAspa = {c \in Customers : AspaNet(history, i, c) < 0}
<1> DEFINE s == history[i].from
           start == CHOOSE x \in StartsAt(s) : \A y \in StartsAt(s) : x <= y
<1>1. HistoryIsChain
  BY InvChain, Zenon
<1>2. s # serial /\ StartsAt(s) = {i}
  BY <1>1, Zenon DEF HistoryIsChain, StartsAt
<1>3. start = i
  <2>1. i <= i
    BY DEF CacheInv, CacheTypeOK
  <2> QED
    BY <1>2, <2>1, Zenon
<1>4. StartsAt(s) # {}
  BY <1>2, Zenon
<1> HIDE DEF s
<1> QED
  BY <1>2, <1>3, <1>4, Zenon DEF getDiffsFrom, s

\* What past holds is a dataset.
LEMMA PastType ==
  ASSUME CacheInv, NEW i \in 1 .. Len(history)
  PROVE  past[i].roas \in SUBSET Roas /\ past[i].aspas \in AspaSets
<1>1. past \in Seq(Datasets) /\ i \in 1 .. Len(past)
  BY Zenon DEF CacheInv, CacheTypeOK
<1>2. past[i] \in Datasets
  BY <1>1
<1> QED
  BY <1>2, Zenon DEF Datasets

\* The invariant makes the answer exact for ROAs.
LEMMA InvRoaDiffs == CacheInv => RoaDiffsExact
<1> SUFFICES ASSUME CacheInv, NEW i \in 1 .. Len(history)
             PROVE  /\ getDiffsFrom(history[i].from).found
                    /\ getDiffsFrom(history[i].from).add = roas \ past[i].roas
                    /\ getDiffsFrom(history[i].from).del = past[i].roas \ roas
  BY Zenon DEF RoaDiffsExact
<1>1. roas \subseteq Roas /\ past[i].roas \subseteq Roas
  BY PastType, Zenon DEF CacheInv, CacheTypeOK
<1>2. \A k \in Roas : RoaNet(history, i, k) = In(k, roas) - In(k, past[i].roas)
  BY Zenon DEF CacheInv, RoaNetInv
<1>3. \A k \in Roas : /\ RoaNet(history, i, k) > 0 <=> k \in roas \ past[i].roas
                      /\ RoaNet(history, i, k) < 0 <=> k \in past[i].roas \ roas
  BY <1>2 DEF In
<1>4. /\ {k \in Roas : RoaNet(history, i, k) > 0} = roas \ past[i].roas
      /\ {k \in Roas : RoaNet(history, i, k) < 0} = past[i].roas \ roas
  BY <1>1, <1>3, Zenon
<1> QED
  BY <1>4, DiffsFromRecord, Zenon

\* Every incremental answer carries exactly the ROAs that differ between the data
\* of the client's serial and the data served now (cache.go:75-141).
THEOREM RoaDiffsCorrect == CacheSpec => []RoaDiffsExact
BY CacheInvariant, InvRoaDiffs, PTL

\* The invariant makes the answer exact for the customers of ASPAs.
LEMMA InvAspaCustomers == CacheInv => AspaCustomersExact
<1> SUFFICES ASSUME CacheInv, NEW i \in 1 .. Len(history)
             PROVE  /\ DOMAIN getDiffsFrom(history[i].from).addAspa
                         = DOMAIN aspas \ DOMAIN past[i].aspas
                    /\ DOMAIN getDiffsFrom(history[i].from).delAspa
                         = DOMAIN past[i].aspas \ DOMAIN aspas
  BY Zenon DEF AspaCustomersExact
<1>1. DOMAIN aspas \subseteq Customers /\ DOMAIN past[i].aspas \subseteq Customers
  <2>1. aspas \in AspaSets /\ past[i].aspas \in AspaSets
    BY PastType, Zenon DEF CacheInv, CacheTypeOK
  <2> QED
    BY <2>1, Zenon DEF AspaSets
<1>2. \A c \in Customers :
        AspaNet(history, i, c) = In(c, DOMAIN aspas) - In(c, DOMAIN past[i].aspas)
  BY Zenon DEF CacheInv, AspaNetInv
<1>3. \A c \in Customers :
        /\ AspaNet(history, i, c) > 0 <=> c \in DOMAIN aspas \ DOMAIN past[i].aspas
        /\ AspaNet(history, i, c) < 0 <=> c \in DOMAIN past[i].aspas \ DOMAIN aspas
  BY <1>2 DEF In
<1>4. /\ {c \in Customers : AspaNet(history, i, c) > 0} = DOMAIN aspas \ DOMAIN past[i].aspas
      /\ {c \in Customers : AspaNet(history, i, c) < 0} = DOMAIN past[i].aspas \ DOMAIN aspas
  BY <1>1, <1>3, Zenon
<1> QED
  BY <1>4, DiffsFromRecord, Zenon

\* Every incremental answer announces and withdraws ASPAs of the right customers
\* (cache.go:115-122, 132-138).
THEOREM AspaCustomersCorrect == CacheSpec => []AspaCustomersExact
BY CacheInvariant, InvAspaCustomers, PTL

\* Getting from one state to the next, getDiffsFrom loses at most the oldest serial.
LEMMA NextForgets ==
  ASSUME CacheInv, CacheNext, NEW s \in Serials,
         getDiffsFrom(s).found, ~getDiffsFrom(s)'.found
  PROVE  Len(history) = MaxHistory /\ s = history[1].from
<1>1. PICK newROAs \in SUBSET Roas, newASPAs \in AspaSets : updateCache(newROAs, newASPAs)
  BY Zenon DEF CacheNext
<1>2. CacheTypeOK
  BY Zenon DEF CacheInv
<1>3. UpdateEffect(newROAs, newASPAs)
  BY <1>1, <1>2, UpdateShape, Zenon
<1>4. s = serial \/ \E i \in 1 .. Len(history) : history[i].from = s
  BY Zenon DEF getDiffsFrom, NoDiff, StartsAt
<1>5. \A i \in 1 .. Len(history') : history'[i].from # s
  BY Zenon DEF getDiffsFrom, NoDiff, StartsAt
<1> DEFINE m == Len(history')
           off == Evicted(history)
<1>6. /\ off \in {0, 1} /\ Len(history) \in Nat
      /\ m = Len(history) + 1 - off /\ m \in Nat /\ m >= 1
      /\ history'[m].from = serial
  BY <1>2, <1>3, MaxHistoryAssumption DEF UpdateEffect, Pushed, newDiff, CacheTypeOK
<1>7. \A j \in 1 .. m - 1 : history'[j] = history[j + off]
  BY <1>3, Zenon DEF UpdateEffect, Pushed, Renumbers
<1>8. PICK i \in 1 .. Len(history) : history[i].from = s
  BY <1>4, <1>5, <1>6
<1>9. i - off \notin 1 .. m - 1
  <2> SUFFICES ASSUME i - off \in 1 .. m - 1 PROVE FALSE
    BY Zenon
  <2>1. (i - off) + off = i /\ i - off \in 1 .. m
    BY <1>6
  <2> QED
    BY <1>5, <1>7, <1>8, <2>1, Zenon
<1>10. i = 1 /\ off = 1
  BY <1>6, <1>9
<1> QED
  BY <1>8, <1>10 DEF Evicted

\* An update makes no serial unanswerable but the oldest of a full history
\* (cache.go:59-62).
THEOREM OldestForgottenFirst == CacheSpec => OnlyOldestForgotten
<1>1. CacheInv /\ [CacheNext]_cacheVars
        => [\A s \in Serials : getDiffsFrom(s).found /\ ~getDiffsFrom(s)'.found
              => Len(history) = MaxHistory /\ s = history[1].from]_cacheVars
  BY NextForgets, Zenon
<1> QED
  BY <1>1, CacheInvariant, PTL DEF CacheSpec, OnlyOldestForgotten
=============================================================================
