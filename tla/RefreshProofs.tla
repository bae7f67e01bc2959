--------------------------- MODULE RefreshProofs ---------------------------
(***************************************************************************)
(* Proofs about module Refresh, for any feeds, data, expiry times and      *)
(* number of cycles.                                                       *)
(*                                                                         *)
(* Both action properties speak of the end of a cycle only.  The invariant *)
(* says at each moment of a load what its goroutines have brought in so    *)
(* far.  That the cache keeps its own invariant is module CacheProofs; it  *)
(* takes data of the right type, and for the merged ASPA feeds that is a   *)
(* question of whether there is a least provider list.                     *)
(***************************************************************************)
EXTENDS Refresh, CacheProofs, WellFoundedInduction

\* The feeds of S that were fetched, in this load if S is being loaded.
Fetched(S) == {u \in S : u \notin todo /\ upstreams[u].LastFetchSuccess}

LoadTypeOK ==
  /\ upstreams \in [Urls -> [LastFetchSuccess : BOOLEAN, ErrorMessage : {"", "error"}]]
  /\ DOMAIN content = Urls
  /\ pc = "roas" => todo \subseteq RoaUrls
  /\ pc = "aspas" => todo \subseteq AspaUrls

\* The ROAs are those of the feeds fetched, and if there was an entry there was a feed.
RoasSoFar ==
  pc \in {"roas", "aspas"} =>
    /\ \A r : r \in gotROAs <=> \E u \in Fetched(RoaUrls) : r \in content[u]
    /\ entries => Fetched(RoaUrls) # {}

AspasSoFar ==
  /\ pc = "roas" => gotASPAs = {}
  /\ pc = "aspas" =>
       /\ entries
       /\ \A f : f \in gotASPAs <=> \E u \in Fetched(AspaUrls) : f = content[u]

Inv == LoadTypeOK /\ RoasSoFar /\ AspasSoFar

LEMMA InitInv == RefreshInit => Inv
<1> SUFFICES ASSUME RefreshInit PROVE Inv
  BY Zenon
<1> USE DEF RefreshInit
<1>1. LoadTypeOK
  BY Zenon DEF LoadTypeOK, Status
<1>2. Fetched(RoaUrls) = {}
  BY Zenon DEF Fetched
<1> QED
  BY <1>1, <1>2, Zenon DEF Inv, RoasSoFar, AspasSoFar

\* A goroutine changes the status and the content of its own feed only.
LEMMA FetchROAsInv ==
  ASSUME Inv, NEW u \in Urls, FetchROAs(u)
  PROVE  Inv'
<1> USE RefreshAssumption DEF Inv, Urls
<1>0. pc = "roas" /\ pc' = "roas" /\ u \in RoaUrls /\ todo' = todo \ {u} /\ u \in todo
  BY Zenon DEF FetchROAs, Finish, LoadTypeOK
<1>1. PICK S \in SUBSET Roas, invalid \in BOOLEAN :
         /\ gotROAs' = gotROAs \cup S
         /\ entries' = (entries \/ S # {} \/ invalid)
         /\ content' = [content EXCEPT ![u] = S]
  BY Zenon DEF FetchROAs
<1>2. upstreams' = [upstreams EXCEPT ![u] = Status(TRUE, "")]
  BY Zenon DEF FetchROAs
<1>3. LoadTypeOK'
  BY <1>0, <1>1, <1>2, Zenon DEF LoadTypeOK, Status
<1>4. Fetched(RoaUrls)' = Fetched(RoaUrls) \cup {u}
  BY <1>0, <1>2, Zenon DEF LoadTypeOK, Fetched, Status
<1>5. u \notin Fetched(RoaUrls)
  BY <1>0, Zenon DEF Fetched
<1>6. content'[u] = S /\ \A v \in Fetched(RoaUrls) : content'[v] = content[v]
  BY <1>1, <1>5, Zenon DEF LoadTypeOK, Fetched
<1>7. RoasSoFar'
  BY <1>0, <1>1, <1>4, <1>6, Zenon DEF RoasSoFar
<1>8. AspasSoFar'
  BY <1>0, Zenon DEF AspasSoFar, FetchROAs
<1> QED
  BY <1>3, <1>7, <1>8, Zenon

LEMMA FetchASPAsInv ==
  ASSUME Inv, NEW u \in Urls, FetchASPAs(u)
  PROVE  Inv'
<1> USE RefreshAssumption DEF Inv, Urls
<1>0. pc = "aspas" /\ pc' = "aspas" /\ u \in AspaUrls /\ todo' = todo \ {u} /\ u \in todo
  BY Zenon DEF FetchASPAs, Finish, LoadTypeOK
<1>1. PICK f \in AspaSets :
         gotASPAs' = gotASPAs \cup {f} /\ content' = [content EXCEPT ![u] = f]
  BY Zenon DEF FetchASPAs
<1>2. upstreams' = [upstreams EXCEPT ![u].LastFetchSuccess = TRUE]
      /\ gotROAs' = gotROAs /\ entries' = entries
  BY Zenon DEF FetchASPAs
<1>3. LoadTypeOK'
  BY <1>0, <1>1, <1>2, Zenon DEF LoadTypeOK
<1>4. Fetched(AspaUrls)' = Fetched(AspaUrls) \cup {u} /\ Fetched(RoaUrls)' = Fetched(RoaUrls)
  <2>1. /\ upstreams'[u].LastFetchSuccess
        /\ \A v \in Urls \ {u} : upstreams'[v] = upstreams[v]
    BY <1>2, Zenon DEF LoadTypeOK
  <2>2. u \notin RoaUrls
    BY <1>0, Zenon
  <2>3. \A v \in Urls : v \in todo' <=> v \in todo /\ v # u
    BY <1>0, Zenon
  <2> QED
    BY <1>0, <2>1, <2>2, <2>3, Zenon DEF Fetched
<1>5. u \notin Fetched(AspaUrls) \cup Fetched(RoaUrls)
  BY <1>0, Zenon DEF Fetched
<1>6. /\ content'[u] = f
      /\ \A v \in Fetched(AspaUrls) \cup Fetched(RoaUrls) : content'[v] = content[v]
  BY <1>1, <1>5, Zenon DEF LoadTypeOK, Fetched
<1>7. RoasSoFar'
  BY <1>0, <1>2, <1>4, <1>6, Zenon DEF RoasSoFar
<1>8. AspasSoFar'
  BY <1>0, <1>1, <1>2, <1>4, <1>6, Zenon DEF AspasSoFar
<1> QED
  BY <1>3, <1>7, <1>8, Zenon

\* A feed that fails does not count, whatever it held when it was last fetched.
LEMMA FetchFailsInv ==
  ASSUME Inv, NEW u \in Urls, FetchFails(u)
  PROVE  Inv'
<1> USE RefreshAssumption DEF Inv, Urls
<1>0. pc' = pc /\ todo' = todo \ {u} /\ u \in todo
  BY Zenon DEF FetchFails, Finish
<1>1. /\ upstreams' = [upstreams EXCEPT ![u] = Status(FALSE, "error")]
      /\ UNCHANGED <<entries, gotROAs, gotASPAs, content>>
  BY Zenon DEF FetchFails
<1>2. LoadTypeOK'
  BY <1>0, <1>1, Zenon DEF LoadTypeOK, Status
<1>3. Fetched(AspaUrls)' = Fetched(AspaUrls) /\ Fetched(RoaUrls)' = Fetched(RoaUrls)
  BY <1>0, <1>1, Zenon DEF LoadTypeOK, Fetched, Status
<1> QED
  BY <1>0, <1>1, <1>2, <1>3, Zenon DEF RoasSoFar, AspasSoFar

LEMMA TickInv == Inv /\ Tick => Inv'
BY Zenon DEF Inv, Tick, LoadTypeOK, RoasSoFar, AspasSoFar, Fetched

LEMMA RoasLoadedInv == Inv /\ RoasLoaded => Inv'
<1> SUFFICES ASSUME Inv, RoasLoaded PROVE Inv'
  BY Zenon
<1> USE RefreshAssumption DEF Inv, RoasLoaded, AllDone, NoEntries
<1>1. LoadTypeOK'
  BY Zenon DEF LoadTypeOK
<1>2. Fetched(RoaUrls)' = Fetched(RoaUrls) /\ Fetched(AspaUrls)' = {}
  BY Zenon DEF Fetched
<1> QED
  BY <1>1, <1>2, Zenon DEF RoasSoFar, AspasSoFar

\* The steps after which nothing is being loaded.
LEMMA EndInv ==
  ASSUME Inv, pc' \notin {"roas", "aspas"}, UNCHANGED <<upstreams, content>>
  PROVE  Inv'
BY Zenon DEF Inv, LoadTypeOK, RoasSoFar, AspasSoFar

\* The steps that leave a load alone.
LEMMA SameInv ==
  ASSUME Inv, UNCHANGED <<pc, todo, entries, gotROAs, gotASPAs, upstreams, content>>
  PROVE  Inv'
BY Zenon DEF Inv, LoadTypeOK, RoasSoFar, AspasSoFar, Fetched

LEMMA NextInv == Inv /\ [RefreshNext]_vars => Inv'
<1> SUFFICES ASSUME Inv, [RefreshNext]_vars PROVE Inv'
  BY Zenon
<1>1. CASE Tick
  BY <1>1, TickInv, Zenon
<1>2. CASE Cancel \/ UNCHANGED vars
  BY <1>2, SameInv, Zenon DEF Cancel, vars, loadVars
<1>3. CASE Exit \/ RoasNotLoaded \/ StartServing \/ UpdateCache \/ NoUpdate
  BY <1>3, EndInv, Zenon DEF Exit, RoasNotLoaded, StartServing, UpdateCache, NoUpdate,
         Loaded
<1>4. CASE RoasLoaded
  BY <1>4, RoasLoadedInv, Zenon
<1>5. CASE \E u \in Urls : FetchROAs(u) \/ FetchASPAs(u) \/ FetchFails(u)
  BY <1>5, FetchROAsInv, FetchASPAsInv, FetchFailsInv, Zenon
<1> QED
  BY <1>1, <1>2, <1>3, <1>4, <1>5, Zenon DEF RefreshNext, Work
-----------------------------------------------------------------------------
\* At the end of both loads, what was fetched is what the feeds that succeeded hold.
LEMMA AllFetched ==
  ASSUME Inv, AllDone("aspas")
  PROVE  /\ gotROAs = UNION {content[u] : u \in Succeeded(RoaUrls)}
         /\ gotASPAs = {content[u] : u \in Succeeded(AspaUrls)}
         /\ Succeeded(RoaUrls) # {}
<1> USE DEF Inv, AllDone
<1>1. Fetched(RoaUrls) = Succeeded(RoaUrls) /\ Fetched(AspaUrls) = Succeeded(AspaUrls)
  BY Zenon DEF Fetched, Succeeded
<1>2. gotROAs = UNION {content[u] : u \in Succeeded(RoaUrls)}
  BY <1>1, Zenon DEF RoasSoFar
<1>3. gotASPAs = {content[u] : u \in Succeeded(AspaUrls)}
  BY <1>1, Zenon DEF AspasSoFar
<1> QED
  BY <1>1, <1>2, <1>3, Zenon DEF RoasSoFar, AspasSoFar

Keeps ==
  Succeeded(RoaUrls) = {} \/ ~entries =>
    /\ Live(roas) \subseteq roas' /\ roas' \subseteq roas
    /\ Live(DOMAIN aspas) \subseteq DOMAIN aspas'
    /\ \A c \in DOMAIN aspas' : c \in DOMAIN aspas /\ aspas'[c] = aspas[c]

\* Only Start and updateCache change what is served, after both loads.
LEMMA KeepsStep == Inv /\ [RefreshNext]_vars => [Keeps]_vars
<1> SUFFICES ASSUME Inv, RefreshNext, Succeeded(RoaUrls) = {} \/ ~entries
             PROVE  Keeps
  BY Zenon DEF Keeps
<1>1. ~AllDone("aspas")
  BY AllFetched, Zenon DEF Inv, AspasSoFar, AllDone
<1>2. roas' = roas /\ aspas' = aspas
  BY <1>1, Zenon DEF RefreshNext, Work, Tick, Cancel, Exit, RoasLoaded, RoasNotLoaded,
         StartServing, UpdateCache, NoUpdate, Loaded, FetchROAs, FetchASPAs, FetchFails, Finish,
         cacheVars
<1> QED
  BY <1>2, Zenon DEF Keeps, Live

Ends ==
  AllDone("aspas") /\ pc' = "idle" /\ cycle > 0 =>
    /\ roas' = Live(UNION {content[u] : u \in Succeeded(RoaUrls)})
    /\ DOMAIN aspas' = Live(UNION {DOMAIN content[u] : u \in Succeeded(AspaUrls)})

LEMMA EndsStep == Inv /\ [RefreshNext]_vars => [Ends]_vars
<1> SUFFICES ASSUME Inv, RefreshNext, AllDone("aspas"), pc' = "idle", cycle > 0
             PROVE  /\ roas' = Live(UNION {content[u] : u \in Succeeded(RoaUrls)})
                    /\ DOMAIN aspas' = Live(UNION {DOMAIN content[u] : u \in Succeeded(AspaUrls)})
  BY Zenon DEF Ends
<1>1. UpdateCache \/ NoUpdate
  <2>1. ~StartServing
    BY DEF StartServing
  <2> QED
    BY <2>1, Zenon DEF RefreshNext, Work, Tick, Cancel, Exit, RoasLoaded, RoasNotLoaded,
           FetchROAs, FetchASPAs, FetchFails, Finish, AllDone
<1>2. roas' = liveROAs /\ aspas' = liveASPAs
  BY <1>1, Zenon DEF UpdateCache, NoUpdate, updateCache, cacheVars
<1>3. DOMAIN newASPAs = UNION {DOMAIN content[u] : u \in Succeeded(AspaUrls)}
  <2>1. DOMAIN newASPAs = UNION {DOMAIN f : f \in gotASPAs}
    BY Zenon DEF newASPAs
  <2> QED
    BY <2>1, AllFetched
<1>4. DOMAIN liveASPAs = Live(DOMAIN newASPAs)
  BY Zenon DEF liveASPAs, Only
<1> QED
  BY <1>2, <1>3, <1>4, AllFetched, Zenon DEF liveROAs

\* With any number of feeds, while no ROA feed can be fetched or has an entry, nothing is
\* withdrawn that has not expired, and nothing announced or replaced (roa.go:332,
\* cache.go:188).
THEOREM FailureKeeps == RefreshSpec => TotalFailureKeeps
<1>1. Inv /\ [RefreshNext]_vars => [Keeps]_vars
  BY KeepsStep, Zenon
<1> QED
  BY InitInv, NextInv, <1>1, PTL DEF RefreshSpec, TotalFailureKeeps, Keeps

\* What is served after a cycle is what the feeds held in that very cycle and has not
\* expired, whichever of them failed (roa.go:278, 319-329, cache.go:203-204).
THEOREM ServesFetched == RefreshSpec => ServedIsFetched
<1>1. Inv /\ [RefreshNext]_vars => [Ends]_vars
  BY EndsStep, Zenon
<1> QED
  BY InitInv, NextInv, <1>1, PTL DEF RefreshSpec, ServedIsFetched, Ends
-----------------------------------------------------------------------------
(* Types, and the cache under the data that refreshes bring. *)

LEMMA LeastRank ==
  ASSUME NEW T, T \subseteq Nat, T # {}
  PROVE  \E p \in T : \A q \in T : p <= q
<1> DEFINE R == OpToRel(<, Nat)
<1>1. IsWellFoundedOn(R, Nat)
  BY NatLessThanWellFounded, Zenon
<1>2. \A x, y \in Nat : <<y, x>> \in R <=> y < x
  BY SMT DEF OpToRel
<1> HIDE DEF R
<1>3. PICK p \in T : \A q \in T : ~ (<<q, p>> \in R)
  BY <1>1, WFMin, Zenon
<1>4. ASSUME NEW q \in T PROVE p <= q
  <2>1. p \in Nat /\ q \in Nat /\ ~ (<<q, p>> \in R)
    BY <1>3, Zenon
  <2>2. ~ (q < p)
    BY <1>2, <2>1, Zenon
  <2> QED
    BY <2>1, <2>2
<1> QED
  BY <1>4, Zenon

LEMMA NoMapping ==
  ASSUME NEW P
  PROVE  <<>> \in [{} -> P]
<1>1. <<>> \in Seq({}) /\ Len(<<>>) = 0
  OBVIOUS
<1>2. \A s \in Seq({}) : s \in [1 .. Len(s) -> {}]
  OBVIOUS
<1>3. \A s \in Seq({}) : Len(s) = 0 => s \in [{} -> P]
  BY <1>2, Zenon
<1> QED
  BY <1>1, <1>3, Zenon

LEMMA AspaSetsType ==
  /\ \A f \in AspaSets : DOMAIN f \subseteq Customers /\ \A c \in DOMAIN f : f[c] \in ProviderLists
  /\ \A D \in SUBSET Customers : [D -> ProviderLists] \subseteq AspaSets
BY Zenon DEF AspaSets

\* Merging feeds gives ASPAs of customers and lists that occur.
LEMMA MergedType ==
  ASSUME gotASPAs \subseteq AspaSets
  PROVE  newASPAs \in AspaSets
<1> DEFINE D == UNION {DOMAIN f : f \in gotASPAs}
           Lists(c) == {f[c] : f \in {g \in gotASPAs : c \in DOMAIN g}}
           Least(c) == CHOOSE p \in Lists(c) : \A q \in Lists(c) : p <= q
<1>1. D \in SUBSET Customers
  BY AspaSetsType, Zenon
<1>2. ASSUME NEW c \in D
      PROVE  Least(c) \in ProviderLists
  <2>1. Lists(c) \subseteq ProviderLists /\ Lists(c) # {}
    BY AspaSetsType, Zenon
  <2>2. Lists(c) \subseteq Nat
    BY <2>1, RefreshAssumption, Zenon
  <2> HIDE DEF Lists
  <2>3. \E p \in Lists(c) : \A q \in Lists(c) : p <= q
    BY <2>1, <2>2, LeastRank, Zenon
  <2>4. Least(c) \in Lists(c)
    BY <2>3, Zenon
  <2> QED
    BY <2>1, <2>4, Zenon
<1>3. newASPAs = [c \in D |-> Least(c)]
  BY Zenon DEF newASPAs
<1> HIDE DEF D, Least
<1>4. newASPAs \in [D -> ProviderLists]
  BY <1>2, <1>3, Zenon
<1> QED
  BY <1>1, <1>4, AspaSetsType, Zenon

LEMMA LiveType ==
  ASSUME gotROAs \subseteq Roas, gotASPAs \subseteq AspaSets
  PROVE  liveROAs \in SUBSET Roas /\ liveASPAs \in AspaSets
<1>1. newASPAs \in AspaSets
  BY MergedType, Zenon
<1> DEFINE L == Live(DOMAIN newASPAs)
<1>2. L \subseteq DOMAIN newASPAs /\ liveROAs \subseteq gotROAs
  BY Zenon DEF Live, liveROAs
<1>3. L \in SUBSET Customers /\ \A c \in L : newASPAs[c] \in ProviderLists
  BY <1>1, <1>2, AspaSetsType, Zenon
<1>4. liveASPAs = [c \in L |-> newASPAs[c]]
  BY Zenon DEF liveASPAs, Only
<1> HIDE DEF L
<1>5. liveASPAs \in [L -> ProviderLists]
  BY <1>3, <1>4, Zenon
<1> QED
  BY <1>2, <1>3, <1>5, AspaSetsType, Zenon

\* What a load and its status consist of.
LoadOK ==
  /\ pc \in {"roas", "aspas", "idle", "down", "ended"}
  /\ cancelled \in BOOLEAN /\ late \in BOOLEAN /\ (late => cancelled)
  /\ cycle \in 0 .. MaxCycles /\ lastUpdate \in 0 .. cycle
  /\ todo \subseteq (CASE pc = "roas" -> RoaUrls [] pc = "aspas" -> AspaUrls [] OTHER -> {})
  /\ entries \in BOOLEAN /\ gotROAs \subseteq Roas /\ gotASPAs \subseteq AspaSets

\* There is no history before the first refresh: Start may store any data.
CacheKept == CacheInv /\ (cycle = 0 => history = <<>> /\ past = <<>>)

LEMMA LoadInit == RefreshInit => LoadOK /\ CacheKept
<1> SUFFICES ASSUME RefreshInit PROVE LoadOK /\ CacheKept
  BY Zenon
<1>1. LoadOK
  <2>0. cycle = 0 /\ lastUpdate = 0
    BY Zenon DEF RefreshInit
  <2>1. cycle \in 0 .. MaxCycles /\ lastUpdate \in 0 .. cycle
    BY <2>0, RefreshAssumption
  <2>2. cancelled \in BOOLEAN /\ late \in BOOLEAN /\ (late => cancelled) /\ entries \in BOOLEAN
    BY Zenon DEF RefreshInit
  <2> QED
    BY <2>1, <2>2, Zenon DEF RefreshInit, LoadOK
<1>2. aspas \in [{} -> ProviderLists]
  BY NoMapping, Zenon DEF RefreshInit
<1>3. CacheInit
  BY <1>2, Zenon DEF RefreshInit, CacheInit, AspaSets
<1> QED
  BY <1>1, <1>3, CacheInitInv, Zenon DEF CacheKept, RefreshInit

LEMMA LoadNext == LoadOK /\ [RefreshNext]_vars => LoadOK'
<1> SUFFICES ASSUME LoadOK, [RefreshNext]_vars PROVE LoadOK'
  BY Zenon
<1> USE RefreshAssumption DEF LoadOK
<1>1. CASE Tick
  <2>1. cancelled' \in BOOLEAN /\ late' \in BOOLEAN /\ (late' => cancelled')
    BY <1>1, Zenon DEF Tick
  <2>2. cycle' \in 0 .. MaxCycles /\ lastUpdate' \in 0 .. cycle'
    BY <1>1 DEF Tick
  <2> QED
    BY <1>1, <2>1, <2>2, Zenon DEF Tick
<1>2. CASE Cancel \/ Exit
  <2>1. cancelled' \in BOOLEAN /\ late' \in BOOLEAN /\ (late' => cancelled')
    BY <1>2, Zenon DEF Cancel, Exit
  <2> QED
    BY <1>2, <2>1, Zenon DEF Cancel, Exit
<1>3. CASE RoasLoaded \/ RoasNotLoaded
  BY <1>3 DEF RoasLoaded, RoasNotLoaded, AllDone
<1>4. CASE StartServing \/ NoUpdate
  BY <1>4 DEF StartServing, NoUpdate, Loaded, AllDone
<1>5. CASE UpdateCache
  BY <1>5 DEF UpdateCache, Loaded, AllDone
<1>6. ASSUME NEW u \in Urls, FetchROAs(u) \/ FetchASPAs(u) \/ FetchFails(u)
      PROVE  LoadOK'
  <2>1. /\ pc' = pc /\ todo' \subseteq todo
        /\ UNCHANGED <<cycle, lastUpdate, cancelled, late>>
    BY <1>6, Zenon DEF FetchROAs, FetchASPAs, FetchFails, Finish
  <2>2. entries' \in BOOLEAN
    BY <1>6, Zenon DEF FetchROAs, FetchASPAs, FetchFails
  <2>3. gotROAs' \subseteq Roas
    BY <1>6, Zenon DEF FetchROAs, FetchASPAs, FetchFails
  <2>4. gotASPAs' \subseteq AspaSets
    BY <1>6, Zenon DEF FetchROAs, FetchASPAs, FetchFails
  <2> QED
    BY <2>1, <2>2, <2>3, <2>4, Zenon
<1>7. CASE UNCHANGED vars
  BY <1>7, Zenon DEF vars, loadVars
<1> QED
  BY <1>1, <1>2, <1>3, <1>4, <1>5, <1>6, <1>7, Zenon DEF RefreshNext, Work

\* A cache without a history may be given any data.
LEMMA StoreInv ==
  ASSUME CacheInv, history = <<>>, past = <<>>, UNCHANGED <<serial, history, past>>,
         roas' \in SUBSET Roas, aspas' \in AspaSets
  PROVE  CacheInv'
<1>1. CacheTypeOK'
  BY Zenon DEF CacheInv, CacheTypeOK
<1>2. Len(history') = 0
  BY Zenon
<1> QED
  BY <1>1, <1>2 DEF CacheInv, SerialsInv, RoaNetInv, AspaNetInv

LEMMA CacheKeptNext == LoadOK /\ CacheKept /\ [RefreshNext]_vars => CacheKept'
<1> SUFFICES ASSUME LoadOK, CacheKept, [RefreshNext]_vars PROVE CacheKept'
  BY Zenon
<1>0. gotROAs \subseteq Roas /\ gotASPAs \subseteq AspaSets /\ cycle \in Nat
  BY RefreshAssumption DEF LoadOK
<1>1. CASE StartServing
  <2>1. newASPAs \in AspaSets
    BY <1>0, MergedType, Zenon
  <2>2. /\ CacheInv /\ history = <<>> /\ past = <<>> /\ UNCHANGED <<serial, history, past>>
        /\ roas' \in SUBSET Roas /\ aspas' \in AspaSets
    BY <1>0, <1>1, <2>1, Zenon DEF StartServing, CacheKept
  <2> QED
    BY <2>2, StoreInv, Zenon DEF CacheKept
<1>2. CASE UpdateCache
  <2>1. CacheNext
    BY <1>0, <1>2, LiveType, Zenon DEF UpdateCache, CacheNext
  <2>2. cycle' # 0
    BY <1>0, <1>2 DEF UpdateCache, Loaded
  <2> QED
    BY <2>1, <2>2, CacheNextInv, Zenon DEF CacheKept
<1>3. CASE UNCHANGED cacheVars /\ (cycle' = 0 => cycle = 0)
  BY <1>3, CacheNextInv, Zenon DEF CacheKept, cacheVars
<1>4. CASE Tick
  <2>1. UNCHANGED cacheVars /\ (cycle' = 0 => cycle = 0)
    BY <1>0, <1>4 DEF Tick
  <2> QED
    BY <1>3, <2>1, Zenon
<1>5. CASE Cancel \/ Exit \/ RoasLoaded \/ RoasNotLoaded \/ NoUpdate \/ UNCHANGED vars
  BY <1>3, <1>5, Zenon DEF Cancel, Exit, RoasLoaded, RoasNotLoaded, NoUpdate, Loaded, vars, loadVars
<1>6. CASE \E u \in Urls : FetchROAs(u) \/ FetchASPAs(u) \/ FetchFails(u)
  BY <1>3, <1>6, Zenon DEF FetchROAs, FetchASPAs, FetchFails, Finish
<1> QED
  BY <1>1, <1>2, <1>4, <1>5, <1>6, Zenon DEF RefreshNext, Work

\* The state of a refresh has its type, with any number of feeds: a load waits for its
\* own URLs only, and what is merged, filtered and stored is data the cache can hold
\* (aspa.go:216-220, cache.go:183-218).
THEOREM RefreshTypes == RefreshSpec => []RefreshTypeOK
<1>1. Inv /\ LoadOK /\ CacheKept => RefreshTypeOK
  BY Zenon DEF Inv, LoadTypeOK, LoadOK, CacheKept, CacheInv, RefreshTypeOK
<1> QED
  BY <1>1, InitInv, NextInv, LoadInit, LoadNext, CacheKeptNext, PTL DEF RefreshSpec

\* What module CacheProofs shows of an arbitrary sequence of updates holds for the
\* updates that Start and TriggerRefresh make: Serial Queries are answered exactly
\* whichever feeds fail, change or expire (cache.go:75-141, 183-254).
THEOREM RefreshKeepsDiffsExact ==
  RefreshSpec => [](HistoryIsChain /\ RoaDiffsExact /\ AspaCustomersExact)
<1>1. CacheKept => HistoryIsChain /\ RoaDiffsExact /\ AspaCustomersExact
  BY InvChain, InvRoaDiffs, InvAspaCustomers, Zenon DEF CacheKept
<1> QED
  BY <1>1, LoadInit, LoadNext, CacheKeptNext, PTL DEF RefreshSpec
=============================================================================
