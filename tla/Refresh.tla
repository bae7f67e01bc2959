------------------------------ MODULE Refresh ------------------------------
(***************************************************************************)
(* The refresh cycle: Start's first load, then TriggerRefresh on every     *)
(* tick of periodicROAUpdater (cache.go).  loadROAs and loadASPAs (roa.go, *)
(* aspa.go) start a goroutine per URL and wait for all of them; each       *)
(* records how its fetch went under upstreamsMu.                           *)
(*                                                                         *)
(* What a feed holds is external: any data at any fetch, or a failure.     *)
(* Stop ends the cycle by cancelling its context, at any moment.           *)
(*                                                                         *)
(* Entries have the same expiry in every feed and no duplicates: module    *)
(* Ingest has the rest.                                                    *)
(***************************************************************************)
EXTENDS Cache

CONSTANTS
  RoaUrls,    \* Server.urls
  AspaUrls,   \* Server.aspaURLs
  Expires,    \* of each ROA and customer: the time, 0 if none
  MaxCycles   \* bound: refresh cycles after the first load

Urls == RoaUrls \cup AspaUrls

\* Provider lists are their ranks under ASPA.Less.
ASSUME RefreshAssumption ==
  /\ ProviderLists \subseteq Nat
  /\ RoaUrls \cap AspaUrls = {} /\ RoaUrls # {}
  /\ Expires \in [Roas \cup Customers -> Nat]
  /\ MaxCycles \in Nat

VARIABLES
  pc,          \* "roas" or "aspas" while one of them loads, "idle"; "down" when
               \* Start has failed, "ended" when periodicROAUpdater has returned
  cycle,       \* 0 during Start
  todo,        \* URLs whose goroutine has not finished
  entries,     \* whether a ROA feed had any entry, valid or not
  gotROAs,     \* the valid entries of the ROA feeds fetched so far
  gotASPAs,    \* the ASPA feeds fetched so far
  upstreams,   \* Server.upstreams
  lastUpdate,  \* cache.lastUpdate: the cycle instead of the time
  content,     \* ghost: what each feed held when last fetched
  cancelled,   \* whether Stop has called cancelBackground
  late         \* whether the load that is running began after that

loadVars == <<pc, cycle, todo, entries, gotROAs, gotASPAs, cancelled, late>>
vars == <<cacheVars, loadVars, upstreams, lastUpdate, content>>

\* A URL that has no status yet is given the zero value.
Status(success, error) == [LastFetchSuccess |-> success, ErrorMessage |-> error]

RefreshInit ==
  /\ roas = {} /\ aspas = <<>> /\ serial = 1 /\ history = <<>> /\ past = <<>>
  /\ pc = "roas" /\ cycle = 0 /\ todo = RoaUrls
  /\ entries = FALSE /\ gotROAs = {} /\ gotASPAs = {}
  /\ upstreams = [u \in Urls |-> Status(FALSE, "")]
  /\ lastUpdate = 0
  /\ content = [u \in Urls |-> IF u \in RoaUrls THEN {} ELSE <<>>]
  /\ cancelled = FALSE /\ late = FALSE
-----------------------------------------------------------------------------
Tick_KeepsResults ==
  /\ pc = "idle" /\ cycle < MaxCycles
  /\ pc' = "roas" /\ cycle' = cycle + 1 /\ todo' = RoaUrls
  /\ entries' = FALSE /\ late' = cancelled
  /\ UNCHANGED <<cacheVars, gotROAs, gotASPAs, upstreams, lastUpdate, content, cancelled>>

\* select takes either case when both are ready.
Tick ==
  /\ pc = "idle" /\ cycle < MaxCycles
  /\ pc' = "roas" /\ cycle' = cycle + 1 /\ todo' = RoaUrls
  /\ entries' = FALSE /\ gotROAs' = {} /\ gotASPAs' = {} /\ late' = cancelled
  /\ UNCHANGED <<cacheVars, upstreams, lastUpdate, content, cancelled>>

Exit_BreaksSelect ==
  /\ pc = "idle" /\ cancelled
  /\ UNCHANGED vars

Exit ==
  /\ pc = "idle" /\ cancelled
  /\ pc' = "ended"
  /\ UNCHANGED <<cacheVars, cycle, todo, entries, gotROAs, gotASPAs, upstreams, lastUpdate,
                 content, cancelled, late>>

\* Stop.  Start's own load has a context that nothing cancels.
Cancel ==
  /\ ~cancelled
  /\ pc = "idle" \/ cycle > 0
  /\ cancelled' = TRUE
  /\ UNCHANGED <<cacheVars, pc, cycle, todo, entries, gotROAs, gotASPAs, upstreams,
                 lastUpdate, content, late>>

Finish(u, during) ==
  /\ pc = during /\ u \in todo
  /\ todo' = todo \ {u}
  /\ UNCHANGED <<cacheVars, pc, cycle, lastUpdate, cancelled, late>>

\* A fetch that is under way when its context is cancelled may still end well; one
\* that begins then does not.  A feed may hold no entry, or only invalid ones.
FetchROAs(u) ==
  /\ Finish(u, "roas")
  /\ ~late
  /\ \E S \in SUBSET Roas, invalid \in BOOLEAN :
       /\ gotROAs' = gotROAs \cup S
       /\ entries' = (entries \/ S # {} \/ invalid)
       /\ content' = [content EXCEPT ![u] = S]
  /\ upstreams' = [upstreams EXCEPT ![u] = Status(TRUE, "")]
  /\ UNCHANGED gotASPAs

\* The status of an ASPA feed is changed in place, and ErrorMessage left.
FetchASPAs(u) ==
  /\ Finish(u, "aspas")
  /\ ~late
  /\ \E f \in AspaSets :
       /\ gotASPAs' = gotASPAs \cup {f}
       /\ content' = [content EXCEPT ![u] = f]
  /\ upstreams' = [upstreams EXCEPT ![u].LastFetchSuccess = TRUE]
  /\ UNCHANGED <<entries, gotROAs>>

\* The request, the status code or the decoding of either kind of feed fails.
FetchFails(u) ==
  /\ Finish(u, "roas") \/ Finish(u, "aspas")
  /\ upstreams' = [upstreams EXCEPT ![u] = Status(FALSE, "error")]
  /\ UNCHANGED <<entries, gotROAs, gotASPAs, content>>

AllDone_WhenFetched(during) ==
  /\ pc = during /\ todo = {}
  /\ \A u \in RoaUrls : upstreams[u].LastFetchSuccess

\* wg.Wait: every goroutine is done, however its fetch went.
AllDone(during) == pc = during /\ todo = {}

NoEntries_NeverFails == FALSE

NoEntries == ~entries

RoasLoaded_WaitsForRoas ==
  /\ AllDone("roas")
  /\ ~NoEntries
  /\ pc' = "aspas" /\ todo' = RoaUrls /\ late' = cancelled
  /\ UNCHANGED <<cacheVars, cycle, entries, gotROAs, gotASPAs, upstreams, lastUpdate, content,
                 cancelled>>

RoasLoaded ==
  /\ AllDone("roas")
  /\ ~NoEntries
  /\ pc' = "aspas" /\ todo' = AspaUrls /\ late' = cancelled
  /\ UNCHANGED <<cacheVars, cycle, entries, gotROAs, gotASPAs, upstreams, lastUpdate, content,
                 cancelled>>

\* loadROAs returns an error: a refresh is given up, a start fails.
RoasNotLoaded ==
  /\ AllDone("roas")
  /\ NoEntries
  /\ pc' = IF cycle = 0 THEN "down" ELSE "idle"
  /\ UNCHANGED <<cacheVars, cycle, todo, entries, gotROAs, gotASPAs, upstreams, lastUpdate,
                 content, cancelled, late>>

\* The feeds merged: of several ASPAs for a customer the least is kept.
newASPAs ==
  [c \in UNION {DOMAIN f : f \in gotASPAs} |->
     LET lists == {f[c] : f \in {g \in gotASPAs : c \in DOMAIN g}}
     IN  CHOOSE p \in lists : \A q \in lists : p <= q]

\* loadASPAs never returns an error, so TriggerRefresh goes on to updateCache
\* however the ASPA feeds did.
Loaded ==
  /\ AllDone("aspas")
  /\ pc' = "idle"
  /\ UNCHANGED <<cycle, todo, entries, gotROAs, gotASPAs, upstreams, content, cancelled, late>>

\* One cycle is one unit of time, and Start runs at time 1.
now == cycle + 1
Live(S) == {x \in S : Expires[x] = 0 \/ Expires[x] > now}

\* filterExpired and filterExpiredASPAs.
liveROAs == Live(gotROAs)
liveASPAs == Only(newASPAs, Live(DOMAIN newASPAs))

\* Start stores the data as the data of the first serial, what has expired included.
StartServing ==
  /\ cycle = 0
  /\ Loaded
  /\ roas' = gotROAs /\ aspas' = newASPAs
  /\ UNCHANGED <<serial, history, past, lastUpdate>>

UpdateCache ==
  /\ cycle > 0
  /\ Loaded
  /\ updateCache(liveROAs, liveASPAs)
  /\ lastUpdate' = cycle

NoUpdate ==
  /\ cycle > 0
  /\ Loaded
  /\ liveROAs = roas /\ liveASPAs = aspas
  /\ UNCHANGED <<cacheVars, lastUpdate>>

\* What the goroutines of a load do.
Work ==
  \/ RoasLoaded \/ RoasNotLoaded
  \/ StartServing \/ UpdateCache \/ NoUpdate
  \/ \E u \in Urls : FetchROAs(u) \/ FetchASPAs(u) \/ FetchFails(u)

RefreshNext == Tick \/ Cancel \/ Exit \/ Work

\* Every request has a timeout, so every fetch ends, one way or the other; and
\* select does not pass over the same case for ever.
RefreshSpec ==
  /\ RefreshInit /\ [][RefreshNext]_vars
  /\ WF_vars(Work) /\ SF_vars(Exit)
-----------------------------------------------------------------------------
(* Properties. *)

\* The state has its type; a load waits for its own URLs only (aspa.go:216-220).
RefreshTypeOK ==
  /\ CacheTypeOK
  /\ pc \in {"roas", "aspas", "idle", "down", "ended"}
  /\ cancelled \in BOOLEAN /\ late \in BOOLEAN /\ (late => cancelled)
  /\ cycle \in 0 .. MaxCycles /\ lastUpdate \in 0 .. cycle
  /\ todo \subseteq (CASE pc = "roas" -> RoaUrls [] pc = "aspas" -> AspaUrls [] OTHER -> {})
  /\ entries \in BOOLEAN /\ gotROAs \subseteq Roas /\ gotASPAs \subseteq AspaSets
  /\ upstreams \in [Urls -> [LastFetchSuccess : BOOLEAN, ErrorMessage : {"", "error"}]]

Succeeded(S) == {u \in S : upstreams[u].LastFetchSuccess}

\* While no ROA feed can be fetched, or none has an entry, nothing is withdrawn that has
\* not expired, ROA or ASPA, and nothing is announced or replaced (roa.go:332,
\* cache.go:188).  Of what has expired it says nothing: see ExpiryEnforced.
TotalFailureKeeps ==
  [][Succeeded(RoaUrls) = {} \/ ~entries =>
       /\ Live(roas) \subseteq roas' /\ roas' \subseteq roas
       /\ Live(DOMAIN aspas) \subseteq DOMAIN aspas'
       /\ \A c \in DOMAIN aspas' : c \in DOMAIN aspas /\ aspas'[c] = aspas[c]]_vars

\* What is served after a cycle is what the feeds held in that very cycle and has not
\* expired: nothing is left of an earlier one, of whichever feeds failed then, and
\* what expires is withdrawn though the feeds still have it (roa.go:278, 319-329,
\* cache.go:203-204).
ServedIsFetched ==
  [][AllDone("aspas") /\ pc' = "idle" /\ cycle > 0 =>
       /\ roas' = Live(UNION {content[u] : u \in Succeeded(RoaUrls)})
       /\ DOMAIN aspas' = Live(UNION {DOMAIN content[u] : u \in Succeeded(AspaUrls)})]_vars

\* Every load comes to an end, whichever feeds fail (roa.go:282, aspa.go:194).
CycleEnds == pc \in {"roas", "aspas"} ~> pc \in {"idle", "down"}

\* The updater returns once its context is cancelled, wherever in a load that finds
\* it, so that Stop does not wait for it in vain (cache.go:174, server.go:191).
UpdaterEnds == cancelled ~> pc = "ended"

\* README.md:75: "`rpkirtr2` filters out expired entries on every refresh cycle and on
\* cold start, preventing stale data from reaching routers if the upstream validator
\* pipeline stalls."  So no ROA that has expired is served after a load of either kind.
\* The code does not filter when all ROA feeds fail or are empty (cache.go:188), nor when
\* it starts (server.go:83).
ExpiryEnforced ==
  [][pc' = "idle" /\ pc \in {"roas", "aspas"} => roas' \subseteq Live(roas')]_vars

\* README.md:77: "If one upstream fails, the server retains the previous dataset for
\* that feed rather than issuing mass withdrawals for a transient error."
FailedFeedRetained ==
  [][AllDone("aspas") /\ pc' = "idle" =>
       /\ \A u \in RoaUrls \ Succeeded(RoaUrls) : content[u] \subseteq roas'
       /\ \A u \in AspaUrls \ Succeeded(AspaUrls) : DOMAIN content[u] \subseteq DOMAIN aspas']_vars
=============================================================================
