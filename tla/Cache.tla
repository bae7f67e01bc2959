------------------------------- MODULE Cache -------------------------------
(***************************************************************************)
(* The RTR cache: the validated data the server serves, its serial number, *)
(* and the bounded history of differences from which a Serial Query is     *)
(* answered (internal/server/cache.go).                                    *)
(*                                                                         *)
(* Every operation below runs under cache.mu: updateCache between lock()   *)
(* and unlock(), getDiffsFrom under RLock.  Each is therefore one step.    *)
(*                                                                         *)
(* A ROA is its roaKey (prefix, ASN, max length), so a sorted, duplicate-  *)
(* free []ROA is a set of keys.  An []ASPA without duplicate customers is  *)
(* a function from customer ASNs to provider lists.  The two merge loops   *)
(* that difference sorted slices appear here by what they compute; module  *)
(* MakeDiff models the loop itself.                                        *)
(***************************************************************************)
EXTENDS Integers, Sequences, FiniteSets

CONSTANTS
  Roas,          \* roaKeys that can occur
  Customers,     \* customer ASNs that can occur
  ProviderLists, \* sorted provider lists that can occur
  MaxHistory,    \* maxHistory: how many diffRecords are kept
  SerialMod      \* serials are unsigned, of this many values (2^32)

ASSUME MaxHistoryAssumption == MaxHistory \in Nat \ {0}

\* With as many serials as records, two records could start at one serial.
ASSUME SerialModAssumption == SerialMod \in Nat /\ MaxHistory < SerialMod

VARIABLES
  roas,      \* cache.roas
  aspas,     \* cache.aspas
  serial,    \* cache.serial
  history,   \* cache.history
  past       \* ghost: past[i] is the data that was served at history[i].from

cacheVars == <<roas, aspas, serial, history, past>>

Serials == 0 .. SerialMod - 1

AspaSets == UNION {[D -> ProviderLists] : D \in SUBSET Customers}

Datasets == [roas : SUBSET Roas, aspas : AspaSets]

diffRecord == [from : Serials, to : Serials,
               add : SUBSET Roas, del : SUBSET Roas,
               addAspa : AspaSets, delAspa : AspaSets]

Only(f, S) == [x \in S |-> f[x]]
-----------------------------------------------------------------------------
(* Differences between the new and the old data. *)

makeDiff(new, old) == [add |-> new \ old, del |-> old \ new]

makeASPADiff_KeepsReplaced(new, old) ==
  [add |-> Only(new, {c \in DOMAIN new : c \in DOMAIN old => new[c] # old[c]}),
   del |-> Only(old, DOMAIN old \ DOMAIN new)]

\* A customer whose provider list changed is in both parts.
makeASPADiff(new, old) ==
  [add |-> Only(new, {c \in DOMAIN new : c \in DOMAIN old => new[c] # old[c]}),
   del |-> Only(old, {c \in DOMAIN old : c \in DOMAIN new => new[c] # old[c]})]
-----------------------------------------------------------------------------
(* Updating. *)

incrementSerial_Wider(s) == s + 1

incrementSerial(s) == (s + 1) % SerialMod

\* The oldest record goes when there are more than maxHistory.
Trim_OneTooMany(h) == IF Len(h) >= MaxHistory THEN Tail(h) ELSE h

Trim(h) == IF Len(h) > MaxHistory THEN Tail(h) ELSE h

newDiff_StartsAtNext(roaDiff, aspaDiff) ==
  [from |-> incrementSerial(serial), to |-> incrementSerial(serial),
   add |-> roaDiff.add, del |-> roaDiff.del,
   addAspa |-> aspaDiff.add, delAspa |-> aspaDiff.del]

newDiff(roaDiff, aspaDiff) ==
  [from |-> serial, to |-> incrementSerial(serial),
   add |-> roaDiff.add, del |-> roaDiff.del,
   addAspa |-> aspaDiff.add, delAspa |-> aspaDiff.del]

updateDiffs(roaDiff, aspaDiff) == Trim(Append(history, newDiff(roaDiff, aspaDiff)))

\* Nothing changes, the serial included, when the data is what it was.
updateCache(newROAs, newASPAs) ==
  LET roaDiff  == makeDiff(newROAs, roas)
      aspaDiff == makeASPADiff(newASPAs, aspas)
      hasDiff  == \/ roaDiff.add # {} \/ roaDiff.del # {}
                  \/ DOMAIN aspaDiff.add # {} \/ DOMAIN aspaDiff.del # {}
  IN  /\ hasDiff
      /\ roas' = newROAs
      /\ aspas' = newASPAs
      /\ history' = updateDiffs(roaDiff, aspaDiff)
      /\ serial' = incrementSerial(serial)
      /\ past' = Trim(Append(past, [roas |-> roas, aspas |-> aspas]))
-----------------------------------------------------------------------------
(* Answering a Serial Query. *)

\* The number of records of h, from index start on, that announce one key, less
\* the number that withdraw it.
RoaNet_IgnoresDeletes(h, start, k) ==
  Cardinality({i \in start .. Len(h) : k \in h[i].add})

RoaNet(h, start, k) ==
    Cardinality({i \in start .. Len(h) : k \in h[i].add})
  - Cardinality({i \in start .. Len(h) : k \in h[i].del})

AspaNet(h, start, c) ==
    Cardinality({i \in start .. Len(h) : c \in DOMAIN h[i].addAspa})
  - Cardinality({i \in start .. Len(h) : c \in DOMAIN h[i].delAspa})

\* aspaData: the last record that mentions the customer wins, and in a record
\* the withdrawal, which the second loop writes.
AspaData(h, start, c) ==
  LET mentions == {i \in start .. Len(h) :
                     c \in DOMAIN h[i].addAspa \cup DOMAIN h[i].delAspa}
      last == CHOOSE i \in mentions : \A j \in mentions : j <= i
  IN  IF c \in DOMAIN h[last].delAspa THEN h[last].delAspa[c] ELSE h[last].addAspa[c]

StartsAt(s) == {i \in 1 .. Len(history) : history[i].from = s}

NoDiff(found) == [found |-> found, add |-> {}, del |-> {},
                  addAspa |-> <<>>, delAspa |-> <<>>]

getDiffsFrom(s) ==
  IF s = serial THEN NoDiff(TRUE)
  ELSE IF StartsAt(s) = {} THEN NoDiff(FALSE)
  ELSE LET start == CHOOSE i \in StartsAt(s) : \A j \in StartsAt(s) : i <= j
       IN  [found   |-> TRUE,
            add     |-> {k \in Roas : RoaNet(history, start, k) > 0},
            del     |-> {k \in Roas : RoaNet(history, start, k) < 0},
            addAspa |-> [c \in {d \in Customers : AspaNet(history, start, d) > 0} |->
                           AspaData(history, start, c)],
            delAspa |-> [c \in {d \in Customers : AspaNet(history, start, d) < 0} |->
                           AspaData(history, start, c)]]
-----------------------------------------------------------------------------
(* newCache, then the first load by Start, before any client connects. *)
CacheInit ==
  /\ roas \in SUBSET Roas
  /\ aspas \in AspaSets
  /\ serial = 1
  /\ history = <<>>
  /\ past = <<>>

CacheNext ==
  \E newROAs \in SUBSET Roas, newASPAs \in AspaSets : updateCache(newROAs, newASPAs)

CacheSpec == CacheInit /\ [][CacheNext]_cacheVars
-----------------------------------------------------------------------------
(* Properties. *)

\* The state has its type, and history never holds more than maxHistory
\* records (cache.go:59).
CacheTypeOK ==
  /\ roas \in SUBSET Roas
  /\ aspas \in AspaSets
  /\ serial \in Serials
  /\ history \in Seq(diffRecord)
  /\ Len(history) <= MaxHistory
  /\ past \in Seq(Datasets)
  /\ Len(past) = Len(history)

\* The records form a chain that ends at the current serial, and no serial
\* occurs twice in it, also when the 32-bit serial has wrapped: the search for
\* startIdx in getDiffsFrom (cache.go:84-90) has at most one candidate, and the
\* shortcut for the current serial never hides a record.
HistoryIsChain ==
  /\ \A i \in 1 .. Len(history) :
       history[i].to = (IF i = Len(history) THEN serial ELSE history[i + 1].from)
  /\ \A i, j \in 1 .. Len(history) : history[i].from = history[j].from => i = j
  /\ \A i \in 1 .. Len(history) : history[i].from # serial

\* A Serial Query for any serial still in the history is answered with exactly
\* the ROAs to announce and to withdraw: what the netting of counts over the
\* records (cache.go:97-131) sends is the difference between the data served at
\* that serial and the data served now.
RoaDiffsExact ==
  \A i \in 1 .. Len(history) :
    LET d == getDiffsFrom(history[i].from)
    IN  /\ d.found
        /\ d.add = roas \ past[i].roas
        /\ d.del = past[i].roas \ roas

\* The same for ASPAs, as far as the customer ASNs go: an ASPA is announced only
\* for a customer that had none, and withdrawn only for one that has none left,
\* whatever changed in between (cache.go:115-122, 132-138).
AspaCustomersExact ==
  \A i \in 1 .. Len(history) :
    LET d == getDiffsFrom(history[i].from)
    IN  /\ DOMAIN d.addAspa = DOMAIN aspas \ DOMAIN past[i].aspas
        /\ DOMAIN d.delAspa = DOMAIN past[i].aspas \ DOMAIN aspas

\* The only serial an update makes unanswerable is the oldest of a full history:
\* a client keeps maxHistory updates of grace (cache.go:59-62).
OnlyOldestForgotten ==
  [][\A s \in Serials :
       getDiffsFrom(s).found /\ ~getDiffsFrom(s)'.found
         => Len(history) = MaxHistory /\ s = history[1].from]_cacheVars

\* What README.md:133 says of the incremental update, for ASPAs: a client that
\* applies the net result to the data of its serial has the current data.
AspaDiffsExact ==
  \A i \in 1 .. Len(history) :
    LET d    == getDiffsFrom(history[i].from)
        base == past[i].aspas
    IN  aspas = [c \in (DOMAIN base \cup DOMAIN d.addAspa) \ DOMAIN d.delAspa |->
                   IF c \in DOMAIN d.addAspa THEN d.addAspa[c] ELSE base[c]]
=============================================================================
