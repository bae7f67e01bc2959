# TLA+ model of rpkirtr2

rpkirtr2 is an RPKI-to-Router (RTR) server: it fetches validated ROAs and ASPAs from
HTTP feeds, keeps them under a serial number, and serves them to routers, in full or
as the difference from the serial a router has.

This directory models the server in TLA+, checks the models with TLC, and proves with
TLAPS what can be proved for every instance: the algorithms that incremental updates
rest on, that sessions implement what a router is promised, the bounds of the decoder,
and the bookkeeping of start and stop. Paths are
relative to the repository; `cache.go`, `roa.go`, `aspa.go`, `client_handler.go`,
`server.go` and `grpc.go` are in `internal/server`, `marshal.go`, `decode.go`, `pdu.go` and
`negotiate.go` in `internal/protocol`.

## Inventory

| Part | State | Operations | Met by |
|---|---|---|---|
| Cache and history (`cache.go`) | `roas`, `aspas`, `serial`, `session`, up to 10 `diffRecord`s, `lastUpdate` | `updateCache`, `updateDiffs`, `getDiffsFrom`, `getState`, all under `cache.mu` | updater writes, sessions and notifiers read |
| Merge loops (`makeDiff`, `makeASPADiff`) | two indices, two result slices | one pass over two sorted slices | `updateCache` |
| Feeds (`roa.go`, `aspa.go`) | a JSON decoder on an HTTP body | `decodeROAsJSON`, `decodeASPAsJSON` | refresh |
| Ingestion (`roa.go`, `aspa.go`) | one slice, compacted in place | sort, validate, deduplicate, filter expired | refresh |
| Refresh (`cache.go`, `roa.go`, `aspa.go`, `server.go`) | `upstreams`, channels of results | `Start`'s first load, `TriggerRefresh` on every tick, a goroutine per URL | cache |
| Sessions (`client_handler.go`, `negotiate.go`) | per client: `version`, `closed`, `writeMu`, reader and writer | `Handle`, `dispatchPDU`, `handleSerialQuery`, `send*`, `Close` | cache, notifiers, router |
| Notifications (`notifyClients`, `notify`) | a copy of the clients per goroutine | one goroutine per update | cache, `writeMu` of each client |
| Server lifecycle (`server.go`, `main.go`) | `clients`, `listener`, `wg`, `shuttingDown` | `Start`, `ServeListener`, `handleConnection`, `Stop` | everything |
| PDU codec (`marshal.go`, `decode.go`, `pdu.go`) | what was read of a PDU | `GetPDU`, the `Write` methods and functions | sessions |
| gRPC statistics (`grpc.go`) | none | `GetStats` | reads cache, clients, upstreams |
| Configuration, logging | none after start | | |

What is hard about it:

- the handler of a connection, the notifier goroutines and the updater share the cache
  and a client's connection, through two kinds of mutex, and a handler reads the cache
  more than once while it answers one query;
- a router builds its data from a chain of differences over hours, so one wrong
  difference stays;
- the history is bounded, the serial wraps, the server restarts, connections break in
  the middle of a response;
- feeds fail one by one, and may break off in the middle;
- a signal may come at any time: while `Start` is not through, a refresh is loading, or
  connections are being set up;
- lengths come from the peer and are added as 32-bit integers.

So what should hold: a router that applied what it was sent has the data of the serial
it was given; responses are not mixed with notifications; serials do not go back; a
router that stays connected catches up; clients that are gone are released; a failed
refresh does no damage; `Stop` returns and leaves nothing behind that it waited for; a PDU is read as it was
written, and nothing that is read makes the decoder panic. `PROJECT.json` lists the hazards line by line.

## Modules

| Module | Models | Checked by |
|---|---|---|
| `Cache` | data, serial, history; the answer to a Serial Query | `MCCache`, `CacheProofs` |
| `Feed` | the JSON decoders, a step per token | `MCUpdate`, `UpdateProofs` |
| `Ingest` (extends `Feed`) | sorting and both in-place loops, a step per iteration | `MCUpdate`, `UpdateProofs` |
| `MakeDiff` | both merge loops, a step per iteration | `MCUpdate`, `UpdateProofs` |
| `Update` (extends `Ingest`, `MakeDiff`) | one load, from a feed to the difference | `MCUpdate`, `UpdateProofs` |
| `Refresh` (extends `Cache`) | first load, ticks, concurrent fetches, expiry, cancellation | `MCRefresh`, `RefreshProofs` |
| `Session` (extends `Cache`) | handlers, notifiers, updates, routers, restarts | `MCSession`, `SessionProofs`, `SessionReplicaProofs` |
| `SessionInv` (extends `Session`) | nothing more: the invariants of sessions | `SessionProofs`, `SessionDataProofs` |
| `Replica` | what the server promises a router | `MCSession` (as `ImplementsReplica`), `SessionReplicaProofs` |
| `Lifecycle` | `main`, `Start`, the accept loop, `handleConnection`, `Stop` | `MCLifecycle`, `LifecycleProofs` |
| `Codec` | the octets of every PDU, written and read | `MCCodec`, `CodecProofs` |

**Cache.** A ROA is its `roaKey`; a sorted slice without duplicates is a set of them. A
slice of ASPAs is a function from customers to provider lists. `updateCache` is the
part of the Go function under the lock, and is disabled where the Go function finds no
difference. `getDiffsFrom` counts announcements and withdrawals as the code does.
`past`, a ghost, remembers the data of each serial in the history. `Cache` takes
`makeDiff` by what it computes; `MakeDiff` shows that the loop computes it, `Ingest`
that the slices are sorted as the loop needs them, and `Update` puts the two together.

**MakeDiff.** Entries have a key and a value: a ROA has a key only, an ASPA its customer
as key and the provider list as value. `which` says which loop it is.

**Feed.** A document is a sequence of tokens, of which any number arrives, the last one
perhaps in part. `json.Decoder` is external: `Token` and `Decode` fail where the document
has broken off, `More` then answers false, as it does at the end of an array. So a feed
that breaks off between two entries is taken for whole, and one that breaks off inside
an entry is an error. `DecodesFeed` says so.

**Ingest.** Entries have a key, a rank among equal keys (`val`), and an expiry.
`sort.Slice` is unstable, so `Sort` is any sorted permutation. `Start` does not call
`filterExpired`, so `cold` skips it.

**Refresh.** Fetches end in any order with any data, or fail. A cycle is a unit of time,
for `lastUpdate` and for what expires. Upstream status is recorded as the code does,
which differs between ROA and ASPA feeds. `Cancel` is `Stop` cancelling the context at any
moment: a fetch under way may still succeed, one that begins later does not (`late`).

**Session.** A step is what one goroutine does between two points at which another
could see the difference: taking `cache.mu` or `writeMu`, reading or writing a PDU. A
handler is in one of these places:

| `pc` | Where in the code |
|---|---|
| `accepted` | `handleConnection`, before the client is registered |
| `negotiate` | `Handle`, in `Negotiate` |
| `first`, `loop` | in `GetPDU`, for the first PDU or a later one |
| `diffs` | `handleSerialQuery`, between `getState` and `getDiffsFrom` |
| `respond` | in `sendAllData`, `sendDiffs` or `sendCacheReset` |
| `failing` | in `sendAndCloseError` |
| `leaving`, `returned` | `Handle` returns; `handleConnection` after it |

The PDUs that one loop writes are one message with a set of payloads. The router and the
TCP connection are external: the router follows RFC 8210, takes over data at End of
Data, may hang up at any time, and may dial again. `tainted` and `asOf` are ghosts that
mark a response whose data is newer than its serial; `served` remembers all data, and
`since` the latest version when a router asked.
A router has one connection at a time. The read deadline is `ReadFails`.

**Replica.** The promise, without connections, PDUs, differences or locks: the server
publishes versions, each start of it a new log of them; a router asks, and an answer
takes it to a version that is no older than the latest when it asked, with exactly the
data of that version. `Raced` is the exception the code has: when a version was published
meanwhile, or the router's data was raced before, nothing is said of the data. `Session`
implements `Replica` with `log` taken from `served`, a router's version from its session
and the position of its serial in the log, and its data from what it holds
(`Promise` in `Session`). Of ASPAs the customers are compared, not the provider lists,
for the reason `cache_aspa` shows.

**Lifecycle.** `serve` is where the goroutine of `Start` is, `stop` where that of `main`
is, `handler` where each connection is. `fields` are the fields of `Server` that `Start`
has set so far: `Stop` does not wait for `Start`, and skips what is not set. `clients` is
keyed by remote address, as in the code, and `Deregister` takes out whatever is entered
under the address. `Handle` is one step that may happen at any time (`Session` has its
inside), and the updater ends once it is cancelled (`UpdaterEnds` of `Refresh`).

`wait` is where the goroutine is that calls `wg.Wait` for `Stop`. That the counter drops
to zero, that `Wait` returns and that `Stop` sees it are three steps, and `ServeListener`
may call `wg.Add` between them: before `Wait` has returned this makes it panic
(`WaitPanics`, as `sync.WaitGroup` does when it is reused too early), after it the
goroutine is not waited for. `late`, a history variable, has the goroutines counted after
the return. `Streams` are calls of the reflection service that `Start` registers
(`server.go:100`): unlike calls of `GetStats` they last for as long as the caller likes,
and `GracefulStop` waits for both. `shared`, another history variable, has the
connections that were registered while one from the same address was not deregistered,
or that were there when this happened.

**Codec.** A PDU is a record of what its constructor takes, its octets a sequence.
Octets have `Base` values, so that TLC can go to the limits of a length field; with
`Base = 256` the integers are those of the code. `Slices` are the slices that
`decipherPDU` takes, as far as its checks let it come, and one beyond the data is a
panic. Two functions write prefixes and two write ASPAs; `Written` has both.

## Runs

Passing runs, with the number of distinct states:

| Run | Question | Bounds | States |
|---|---|---|---|
| `cache` | Is the net difference exact from every serial of the history, with the history full and the serial wrapped? | 2 ROAs, a customer with 2 provider lists, 3 records, 4 serials | 17 thousand |
| `update` | Does a feed that may break off anywhere end up as the right slice, and that in the right difference? | a feed of up to 2 entries, one of another; 3 keys, 2 valid values and an invalid one, 3 expiries; any cached slice | 457 thousand |
| `refresh` | Does every cycle end, with the right data, whichever feeds fail and whatever expires; and the updater, when cancelled? | 2 ROAs, 2 ROA feeds, 2 ASPA feeds, 2 cycles | 722 thousand |
| `session` | Do sessions implement `Replica`, in whole responses? | 1 router, a ROA; 3 updates, 2 connections, a restart, 4 serials | 769 thousand |
| `session_live` | Does a router that stays connected catch up, with the right data, and is a closed client released? | a customer, versions 1 to 3, PDUs that are bad, unexpected or of the wrong version; 2 updates, 2 connections, 3 serials | 240 thousand |
| `lifecycle` | Does `Stop` return, what can be left after a clean stop, and does `clients` have what is being served? | 2 connections from 1 or 2 addresses, a call of `GetStats`, a reflection stream | 222 thousand |
| `codec` | Is every PDU read back as written, and can octets make the decoder panic or lose step? | 2 PDUs or frames in a row, `Base` 16 | 408 thousand |

Runs that are expected to find a violation, because the code does not do what its
documentation says:

| Run | What TLC shows | Documentation |
|---|---|---|
| `cache_aspa` | A changed provider list is announced and withdrawn in one record, nets to zero and is never sent (`cache.go:115`). | README.md:133 |
| `session_race` | An update between `getState` and `getDiffsFrom` sends newer data under an older serial; later updates can then leave a router at the current serial with a ROA that was withdrawn (`client_handler.go:162`, 176). | README.md:133 |
| `session_stalled` | A router that stops reading in the middle of a response blocks its handler with `writeMu` held. The notifier waits for that mutex, and routers after it are never notified (`cache.go:302`). | README.md:126 |
| `refresh_failed` | What a failed feed supplied is withdrawn (`roa.go:321`, `cache.go:192`). | README.md:77 |
| `refresh_expired` | In a refresh in which no ROA feed has an entry, `TriggerRefresh` returns before anything is filtered, and what has expired is served on (`cache.go:188`). | README.md:75, 349 |

Other differences from README.md that the models contain but no run is about, each a
single line of code: of duplicates from two feeds an expired one may be kept and then dropped,
though the other has no expiry (`roa.go:98`; README.md:351); an ASPA feed that recovered
keeps its error message (`aspa.go:209`; README.md:304); `last_update` does not move when
a refresh finds no change (`cache.go:215`; README.md:294); a client that has not
negotiated is notified in version 0 (`client_handler.go:389`; README.md:359); a malformed
PDU in mid-session is answered with CorruptData, and an unexpected one not at all
(`client_handler.go:117`, 153; README.md:396); `Start` stores expired entries, which are
served until the first refresh (`server.go:83`; README.md:347); `Stop` closes clients at
once, in the middle of a response or not (`server.go:185`; README.md:79), and may report
that all connections were closed cleanly while the one accepted last is being set up
(`server.go:135`, 197); and a client is not counted while an earlier connection from the
same address and port was removed after it came (`server.go:158`; README.md:292).

`TotalFailureKeeps` and `refresh_expired` are the two sides of a refresh without ROAs:
what has not expired stays, as it should, and so does the rest. `ExpiryEnforced` names
both points at which README.md has expiry enforced, the refresh and the first load; TLC
shows the refresh.

### Why the bounds are enough

A net difference treats every key by itself, so one ROA and one customer with two
provider lists show every case of `getDiffsFrom`; the history is full after 2 or 3
updates and the serial wraps after a few more.

In `session`, updates fall into every gap of a handler, and while another is being
notified; two connections have the second start from the data of the first; three
updates overflow a history of two and reach serial 0; a restart has a router ask with a
serial of the earlier session that the new one has as well; one slot in the socket
buffer makes every write a point at which the others run. ROAs and ASPAs go through the
same steps, so `session` has a ROA and `session_live` a customer; an instance with both,
6.4 million states, has been checked too. `session_race` needs three updates: one before
the router asks, one in the gap, one that takes the first back.

In `update`, three entries in all are enough for an invalid one to come before two
duplicates of its key (an ASPA without providers sorts first among those of a customer),
and for duplicates of which one has expired; documents have other members
before and after the wanted one, with its name as a value or with an array. In
`refresh`, two feeds of each kind have one succeed and the other fail, and two cycles
have data expire and a failed feed recover. In `lifecycle`, two connections are enough
for one to be entered under the address of another that is on its way out, and for one
to be registered after `Stop` has closed the clients; with one that has ended the second
is counted before, between or after the steps in which `Wait` returns. In `codec`, PDUs have the longest
length and one more, and inner lengths are at the edges and around the wrap; a second
PDU shows whether the reader is in step after the first.

Runs with `CHECK_DEADLOCK FALSE` may stop, since updates, connections and cycles are
bounded.

### Fairness

Weak fairness for what goroutines do by themselves: the Go scheduler runs every
goroutine that can run. Strong fairness for a notifier that waits for `writeMu`: a Go
mutex starves no waiter. A router is taken to read what it is sent (unless it is one of
`Stalled`), to ask after a notification, and to see a closed connection. A read on a
connection that is gone fails in the end. Nothing is assumed of updates, of dialling, of
hanging up, or of read deadlines; only `session_stalled` adds that a stalled router meets
its read deadline, which strengthens what it shows.

In `Refresh` all fetches end, since `http.Client` has a timeout of a minute; ticks are not
fair; and a `select` with both a tick and the cancelled context ready picks the latter
in the end (strong fairness of `Exit`), as Go chooses at random. In `Lifecycle`, `Start`'s
goroutine and `Stop` go on, the timer of `Stop` fires, and calls of `GetStats`, which only
read, end; nothing is assumed of routers, of handlers or of the updater. Nor is anything
assumed of those who call the reflection service: `StopReturns` is an implication, whose
premise is that the streams `GracefulStop` waits for are ended.

## Theorems

For every set of ROAs, customers and provider lists, every `MaxHistory` at least 1 and
every `SerialMod` greater than `MaxHistory` (in the code 10 and 2^32), `CacheProofs`
proves

- `CacheTypeCorrect`: the types, and that the history keeps its bound;
- `HistoryChain`: the records form a chain that ends at the current serial, with
  distinct starting points, across a wrap as well;
- `RoaDiffsCorrect`, `AspaCustomersCorrect`: from each serial in the history, the net
  counts yield the ROAs, and the customers of ASPAs, to announce and to withdraw;
- `OldestForgottenFirst`: an update makes only the oldest serial of a full history
  unanswerable.

The argument: the properties are not inductive by themselves, because they speak of
the sign of a net count and of where neighbouring records join. The invariant,
`CacheInv`, is stronger. `SerialsInv` numbers the records backwards from the current
serial, modulo `SerialMod`; that their starts are distinct follows with
`MaxHistory < SerialMod`. `RoaNetInv` and `AspaNetInv` say that the net count of a key,
from any record on, is 1 if the key is served now, less 1 if it was served at that
record's start. An update changes the count by exactly what it changes of the first
term; trimming drops the first record and shifts the others.

`UpdateProofs` proves for sorted slices of any length

- `LoopTypeCorrect`: the indices stay in range;
- `LoopDiffExact`: what was added and deleted is the difference of the parts read so
  far, and so, at the end, that of the slices;
- `LoopDiffSorted`: the results are sorted without duplicates.

The invariant adds `Frontier`: every key read from one slice is smaller than the next
key of the other.

It also proves for feeds of any length, any entries and any order that the sort
may leave equal entries in

- `IngestTypes`: the decoder stays within what has arrived, and both loops within the
  slice, writing only what they have read;
- `DedupIsExact`: the part that was compacted has the valid keys read so far, each once
  and in order;
- `StoresTheKeys`: the slice that reaches the cache is strictly sorted and has the keys
  it should.

The invariant ties the phases together: `Sorted`, that what the first loop starts from is
sorted and has exactly the elements of the feeds; `Deduped`, what the first loop leaves to
the second; `FilterExact`, the second loop's own invariant. `StoredKeys` speaks of the
feeds and follows at the end only. The assumption is that documents consist of tokens
the decoder knows (`FeedAssumption`).

- `LoadedDiffExact` puts the two together, for a whole load from the feeds to the
  difference: the slice that a refresh stores has what the merge needs of it, so the
  difference is exact. The link is that both slices of the merge are sorted without
  duplicates, the new one by `StoredKeys`, the cached one because an earlier load made it
  (`CachedAssumption`).

`RefreshProofs` proves for any feeds, data, expiry times and number of cycles

- `RefreshTypes`: the types;
- `RefreshKeepsDiffsExact`: the updates a refresh makes are updates as `Cache` has them,
  so what `CacheProofs` shows holds for a server that refreshes;
- `FailureKeeps`: while no ROA feed can be fetched or has an entry, nothing is added and
  nothing that has not expired is withdrawn;
- `ServesFetched`: after a cycle, what the feeds held in it and has not expired is served.

The last two speak of the end of a cycle. The invariant says at each moment of a load what has
come in so far: `RoasSoFar` and `AspasSoFar` are the data of the feeds whose goroutine has
finished with success, and no others. That a feed which fails now may have succeeded in
the cycle before does not matter, because its goroutine has yet to finish. When two
feeds have ASPAs of one customer, the list that sorts first is kept; so that there is a
first one, provider lists are taken by their rank in that order, a number
(`RefreshAssumption`).

`LifecycleProofs` proves for any finite set of connections and any addresses and calls

- `LifecycleTypes`: the types, so that `wg` never drops below zero;
- `ClientsAreExact`: `clients` has what is being served, but for connections that
  overlapped with another from the same address;
- `StopsCleanly`: when `Stop` reports a clean stop, the updater and the handlers that `wg`
  had counted when `Wait` returned are through, their connections closed and their
  clients gone; with the listener closed, at most one goroutine was counted later.

The invariant adds `Counted`: `wg` is the number of handlers that run, plus one for the
updater. So when `Wait` returns none does, and `RunsLate` carries this on to the report:
what runs after the return was counted after it. `OneLate` bounds that: with the listener
closed nothing is accepted any more, and `ServeListener` can count only what it was about
to. This needs that the listener is closed only once it was set (`ListenerSet`), and that
nothing is late before `Wait` has returned (`WaitLast`). `SharedBoth` says that of two
connections served under one address both are in `shared`. `UpdaterOnce` (there is one
updater) and `ClosedAfter` (a handler that is through with `Handle` has closed its
connection) complete it.

`CodecProofs` proves for any `Base` greater than 11, 256 included, and any octets

- `CodecTypes`: the reader takes no more than the longest PDU;
- `NeverPanics`: no slice goes beyond the data.

The point is `NoWrap`: the length of a PDU is less than `Base^2`, so a sum of a few
numbers that were checked against it does not wrap around at `Base^4`; where the checks
are missing it may (the mutant `PduLenOK_SumOnly`). The invariant carries the range of
the length from the header to the payload.

`SessionProofs` proves for any routers, data, socket buffers and number of updates,
connections and restarts

- `ResponsesWhole`: a router sees the PDUs of a response without any other between them
  (`WellFramed`).

`WellFramed` speaks of what was written. The invariant `Fits` adds what is yet to be
written: while a connection is open, what was written last calls for another PDU exactly
when the handler holds `writeMu` and is in the middle of its reply. So a notifier that
has `writeMu` finds no response open, and a handler that gives up in the middle of one
must leave the connection closed or find the router gone. That every reply begins with a
PDU that opens it and ends with one that closes it follows from how `sendAllData` and
`sendDiffs` put it together.

`SessionReplicaProofs` proves, for the same instances with any `MaxUpdates` below
`SerialMod` (so that within one run of the server no serial is used twice)

- `SessionTypes`: the types;
- `RoutersExact`: a router holds the data of its session and serial, unless an update
  fell between the two reads of the cache by `handleSerialQuery` (`ExactUnlessRaced`);
- `SessionImplementsReplica`: every step of `Session` is a step of `Replica` or a stutter;
- `NeverBack`: so no router goes back to an earlier version;
- `OnlyPublished`: and what it holds is the data of its version, unless it was raced.

`ExactUnlessRaced` looks at a router that has taken over a response. A response is
computed in one step, written PDU by PDU while the cache moves on, lost with a
connection, and applied PDU by PDU, so the invariant `DataInv` (in `SessionInv`) follows
it on the way. Its parts:

- `LogInv` ties the cache to the log of what was served: the serial is the position of
  the current data in the log of this session, and each record of the history starts
  from an entry of it. With `CacheInv` of `CacheProofs` this makes `getDiffsFrom` the
  difference of two entries of the log;
- `Awaits`: at most one query is under way, and the serial that a handler has read for it
  was served after the query was sent;
- `Pending`: of the PDUs on the wire and those yet to be written, taken as sets, what is
  announced and withdrawn leads from what the router has to the entry of the log that
  the End of Data stands for (`Leads`). Receiving a PDU moves it from one side to the
  other. That a response never announces and withdraws the same entry makes the order
  of its PDUs irrelevant, which is why sets are enough;
- `Closing`: after the End of Data there are only notifications and errors, so nothing of
  one response is left when the next begins;
- `Holds`: between responses, the router has the data of its serial.

`SessionDataProofs` shows that each step keeps `DataInv`, given the framing invariant;
`SessionProofs` has the framing, and what follows for a router from `Replica` alone:
there, `Ordered` says that the version a router is at is not after its question, and its
question not after the latest version. The refinement then takes one lemma per kind of
step: an update publishes, a restart starts a log, a query asks, a lost connection gives
up, an End of Data answers (or is raced), and everything else stutters.

Only model-checked:

- all liveness, which is out of the prover's reach (fairness, `ENABLED`);
- `DecodesFeed`, `InStep` and `RoundTrip`, which speak of flattened sequences: what a
  recursive definition computes takes induction over data, which the installed provers
  cannot do;
- the step from a slice to a set of keys between `Update` and `Cache`.

## Not modelled

- `UpdateROAs`, `UpdateASPAs`, `LoadROAs` and calls of `TriggerRefresh` from outside the
  updater: tests use them, the program does not;
- two sessions with the same number: `Session` numbers the starts of the server, where
  the code takes the time modulo 2^16. The mutant `MustReset_IgnoresSession` shows what
  equal numbers would lead to;
- HTTP, but for the outcome of a fetch and where a body breaks off; and what a JSON
  value decodes to (`asnToUint32`, `UnmarshalJSON`): functions of one value without state;
- what `GetStats` puts into its answer. It reads `clients`, the cache and `upstreams`,
  which `Lifecycle`, `Cache` and `Refresh` have;
- what the gRPC reflection service answers, which is code of the library;
- configuration, read once by a library before anything runs; logging; the test client.

## Running

    tlc -config MCSession.cfg MCSession     # any cfg with its module
    tlapm CacheProofs.tla                   # likewise the other *Proofs modules
