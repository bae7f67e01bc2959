------------------------------ MODULE Session ------------------------------
(***************************************************************************)
(* RTR sessions: the goroutine that handles each router's connection       *)
(* (internal/server/client_handler.go), the goroutines that notify routers *)
(* after an update (cache.go, notifyClients), and the cache both read.     *)
(*                                                                         *)
(* A step is what one goroutine does between two points at which another   *)
(* can see the difference: taking cache.mu or writeMu, reading a PDU,      *)
(* writing a PDU.  Routers, the TCP connection and the passage of time are *)
(* external: a router follows RFC 8210, keeps what it was sent when an     *)
(* End of Data arrives, and may hang up at any moment.                     *)
(*                                                                         *)
(* A run of prefix or ASPA PDUs written by one loop is one message with    *)
(* the set of its payloads.                                                *)
(***************************************************************************)
EXTENDS Cache

CONSTANTS
  Routers,       \* each has at most one connection at a time
  Versions,      \* the protocol versions that routers speak
  Stalled,       \* routers that stop reading their connection
  OddQueries,    \* the ill-behaved PDUs a router may send: see Blunder
  WireCap,       \* PDUs the socket buffers hold before a write blocks
  MaxUpdates,    \* bound: changes of the data, by an update or a restart
  MaxDials,      \* bound: connections each router makes
  MaxRestarts    \* bound: restarts of the server

ASSUME SessionAssumption ==
  /\ Versions \subseteq Nat
  /\ Stalled \subseteq Routers
  /\ OddQueries \subseteq {"bad", "other", "version"}
  /\ WireCap \in Nat \ {0}
  /\ MaxUpdates \in Nat /\ MaxDials \in Nat /\ MaxRestarts \in Nat
  /\ MaxUpdates < SerialMod   \* the serial wraps to 0 but is not used twice

VARIABLES
  session,   \* cache.session: each start of the server has its own
  served,    \* ghost: served[x][i] is the i-th data that session x served
  updater,   \* "idle", or "notify" between updateCache and notifyClients
  updates,   \* how many changes of the data there were
  clients,   \* Server.clients
  notifier,  \* the goroutine that notifyClients started after each update
  conn,      \* the Client of each router's connection, and where its handler is
  inbox,     \* PDUs from the router, not yet read
  wire,      \* PDUs to the router, not yet read
  router     \* external: the router's side

updateVars == <<cacheVars, session, served, updater, updates>>
vars == <<updateVars, clients, notifier, conn, inbox, wire, router>>

Sessions == 1 .. MaxRestarts + 1

\* Serial s is the Position(s)-th of its session: the first is 1, and 0 comes last.
Position(s) == IF s = 0 THEN SerialMod ELSE s

Data(rs, as) == [roas |-> rs, aspas |-> as]

\* A handler: its place in Handle; Client.version, 0 before negotiation; the
\* Serial Query it is handling, with the serial getState returned; the PDUs it
\* has yet to write; whether it holds writeMu; Client.closed.
NoClient == [pc |-> "none", version |-> 0, query |-> 0, state |-> 0,
             reply |-> <<>>, writeMu |-> FALSE, closed |-> TRUE]

Idle == [todo |-> {}, to |-> {}, pdu |-> <<>>]
-----------------------------------------------------------------------------
(* PDUs the server sends. *)

CacheResponse == [type |-> "CacheResponse"]
CacheReset == [type |-> "CacheReset"]
Prefixes(flag, rs) == [type |-> flag, roas |-> rs]
Aspas(flag, as) == [type |-> flag, aspas |-> as]
ErrorReport(code) == [type |-> "ErrorReport", code |-> code]
SerialNotify(v, s) == [type |-> "SerialNotify", version |-> v, serial |-> s]

\* asOf is ghost: the serial of the data that the response leads to.
EndOfData(x, s, asOf) ==
  [type |-> "EndOfData", session |-> x, serial |-> s, asOf |-> asOf]

IfAny(S, pdu) == IF S = {} THEN <<>> ELSE <<pdu>>

IfAspa_AnyVersion(c, as, pdu) == IfAny(DOMAIN as, pdu)

\* Only version 2 and later has ASPA PDUs.
IfAspa(c, as, pdu) == IF conn[c].version >= 2 THEN IfAny(DOMAIN as, pdu) ELSE <<>>

\* getState and sendAllData: the whole data, its session and its serial are
\* read under one lock.
sendAllData(c) ==
  <<CacheResponse>>
    \o IfAny(roas, Prefixes("Announce", roas))
    \o IfAspa(c, aspas, Aspas("AnnounceAspa", aspas))
    \o <<EndOfData(session, serial, serial)>>

EodSerial_OneBehind(s) == IF history = <<>> THEN s ELSE history[Len(history)].from

EodSerial(s) == s

sendDiffs(c, d, s) ==
  <<CacheResponse>>
    \o IfAny(d.add, Prefixes("Announce", d.add))
    \o IfAspa(c, d.addAspa, Aspas("AnnounceAspa", d.addAspa))
    \o IfAny(d.del, Prefixes("Withdraw", d.del))
    \o IfAspa(c, d.delAspa, Aspas("WithdrawAspa", d.delAspa))
    \o <<EndOfData(session, EodSerial(s), serial)>>
-----------------------------------------------------------------------------
(* The updater goroutine and the notifications. *)

Update ==
  /\ updater = "idle"
  /\ updates < MaxUpdates
  /\ CacheNext
  /\ updates' = updates + 1
  /\ updater' = "notify"
  /\ served' = [served EXCEPT ![session] = Append(@, Data(roas', aspas'))]
  /\ UNCHANGED <<session, clients, notifier, conn, inbox, wire, router>>

Recipients_Ready == {c \in clients : conn[c].pc \in {"none", "first", "loop"}}

Recipients == clients

\* The clients are copied after cache.mu was released; the copy is walked, in
\* the order of a Go map, by a goroutine of its own.
notifyClients ==
  /\ updater = "notify"
  /\ updater' = "idle"
  /\ notifier' = [notifier EXCEPT ![updates].todo = Recipients]
  /\ UNCHANGED <<cacheVars, session, served, updates, clients, conn, inbox, wire, router>>

\* notify, up to writeMu: the PDU is built from what the cache holds now.
NotifyNext(n, c) ==
  /\ notifier[n].to = {}
  /\ c \in notifier[n].todo
  /\ notifier' = [notifier EXCEPT ![n] =
       IF conn[c].closed
       THEN [todo |-> @.todo \ {c}, to |-> {}, pdu |-> <<>>]
       ELSE [todo |-> @.todo \ {c}, to |-> {c},
             pdu |-> <<SerialNotify(conn[c].version, serial)>>]]
  /\ UNCHANGED <<updateVars, clients, conn, inbox, wire, router>>

\* A write blocks while the buffers are full.  After a router has hung up it may
\* still succeed, and be lost, or it fails; after our own Close it fails.
CanWrite(c) == ~conn[c].closed /\ (router[c].link => Len(wire[c]) < WireCap)
Gone(c) == conn[c].closed \/ ~router[c].link
Written(c, pdus) ==
  wire' = [wire EXCEPT ![c] = IF router[c].link THEN @ \o pdus ELSE @]

NotifyMay_Unlocked(c) == TRUE

NotifyMay(c) == ~conn[c].writeMu

\* notify, under writeMu: write and flush; close the connection if that fails.
NotifyWrite(n, c) ==
  /\ notifier[n].to = {c}
  /\ NotifyMay(c)
  /\ \/ /\ CanWrite(c)
        /\ Written(c, notifier[n].pdu)
        /\ UNCHANGED conn
     \/ /\ Gone(c)
        /\ conn' = [conn EXCEPT ![c].closed = TRUE]
        /\ UNCHANGED wire
  /\ notifier' = [notifier EXCEPT ![n].to = {}, ![n].pdu = <<>>]
  /\ UNCHANGED <<updateVars, clients, inbox, router>>
-----------------------------------------------------------------------------
(* The handler of one connection. *)

\* handleConnection, up to Handle: the client is notified of updates from now on.
handleConnection(c) ==
  /\ conn[c].pc = "accepted"
  /\ conn' = [conn EXCEPT ![c].pc = "negotiate"]
  /\ clients' = clients \cup {c}
  /\ UNCHANGED <<updateVars, notifier, inbox, wire, router>>

handlerOnly == <<updateVars, clients, notifier, wire, router>>

\* sendAndCloseError: one Error Report, then Close.
Fail(c, code) ==
  conn' = [conn EXCEPT ![c].pc = "failing", ![c].reply = <<ErrorReport(code)>>]

Respond(c, pdus) ==
  conn' = [conn EXCEPT ![c].pc = "respond", ![c].reply = pdus,
                       ![c].query = 0, ![c].state = 0]

supportedVersions_Any == Nat

supportedVersions == {1, 2}

\* The version byte is peeked at, not consumed.
Negotiate(c) ==
  /\ conn[c].pc = "negotiate"
  /\ inbox[c] # <<>>
  /\ LET v == Head(inbox[c]).version
     IN  IF v \in supportedVersions
         THEN conn' = [conn EXCEPT ![c].pc = "first", ![c].version = v]
         ELSE Fail(c, "UnsupportedVersion")
  /\ UNCHANGED <<handlerOnly, inbox>>

\* isDisconnectError: in the main loop, a failed read counts as a disconnect, but
\* not if the end of file comes in the middle of a PDU (io.ErrUnexpectedEOF).
Disconnects(c) == conn' = [conn EXCEPT ![c].pc = "leaving"]
BreaksOff(c) == ~router[c].link /\ Fail(c, "CorruptData")

\* A read that returns no PDU: end of file or reset, our own Close, or the read
\* deadline.
ReadFails(c) ==
  /\ inbox[c] = <<>> \/ Gone(c)
  /\ \/ conn[c].pc = "negotiate" /\ Fail(c, "UnsupportedVersion")
     \/ conn[c].pc = "first" /\ Fail(c, "InvalidRequest")
     \/ conn[c].pc = "loop" /\ (Disconnects(c) \/ BreaksOff(c))
  /\ UNCHANGED <<handlerOnly, inbox>>

Reads(c, kind) ==
  /\ conn[c].pc \in {"first", "loop"}
  /\ inbox[c] # <<>>
  /\ Head(inbox[c]).kind = kind
  /\ inbox' = [inbox EXCEPT ![c] = Tail(@)]
  /\ UNCHANGED handlerOnly

\* GetPDU cannot decode it.
ReadMalformed(c) ==
  /\ Reads(c, "bad")
  /\ Fail(c, IF conn[c].pc = "first" THEN "InvalidRequest" ELSE "CorruptData")

VersionAgrees(c) == Head(inbox[c]).version = conn[c].version

ReadVersionMismatch(c) ==
  /\ \E kind \in {"reset", "serial", "other"} : Reads(c, kind)
  /\ ~VersionAgrees(c)
  /\ Fail(c, "UnexpectedVersion")

ReadResetQuery(c) ==
  /\ Reads(c, "reset")
  /\ VersionAgrees(c)
  /\ Respond(c, sendAllData(c))

MustReset_IgnoresSession(q) == q.serial = 0

MustReset(q) == q.session # session \/ q.serial = 0

\* handleSerialQuery, up to getDiffsFrom: the session and the serial are read.
ReadSerialQuery(c) ==
  /\ Reads(c, "serial")
  /\ VersionAgrees(c)
  /\ LET q == Head(inbox[c])
     IN  IF MustReset(q)
         THEN Respond(c, <<CacheReset>>)
         ELSE conn' = [conn EXCEPT ![c].pc = "diffs", ![c].query = q.serial,
                                   ![c].state = serial]

\* handleSerialQuery, from getDiffsFrom on: the lock is taken a second time.
AnswerSerialQuery(c) ==
  /\ conn[c].pc = "diffs"
  /\ LET d == getDiffsFrom(conn[c].query)
     IN  Respond(c, IF d.found THEN sendDiffs(c, d, conn[c].state) ELSE <<CacheReset>>)
  /\ UNCHANGED <<handlerOnly, inbox>>

\* Any other PDU: the connection is closed, and the loop goes on to read.
ReadUnexpected(c) ==
  /\ Reads(c, "other")
  /\ VersionAgrees(c)
  /\ conn' = [conn EXCEPT ![c].pc = "loop", ![c].closed = TRUE]

LockWriteMu(c) ==
  /\ conn[c].pc \in {"respond", "failing"}
  /\ ~conn[c].writeMu
  /\ conn' = [conn EXCEPT ![c].writeMu = TRUE]
  /\ UNCHANGED <<handlerOnly, inbox>>

\* The response is finished: on to the next PDU, or out after an Error Report.
Finished(c, closes) ==
  conn' = [conn EXCEPT ![c].reply = <<>>, ![c].writeMu = FALSE,
                       ![c].closed = @ \/ closes,
                       ![c].pc = IF @ = "failing" THEN "leaving" ELSE "loop"]

WritePDU(c) ==
  /\ conn[c].writeMu
  /\ CanWrite(c)
  /\ Written(c, <<Head(conn[c].reply)>>)
  /\ IF Len(conn[c].reply) = 1
     THEN Finished(c, FALSE)
     ELSE conn' = [conn EXCEPT ![c].reply = Tail(@)]
  /\ UNCHANGED <<updateVars, clients, notifier, inbox, router>>

\* The rest of the response is dropped and the connection closed, at once unless
\* it was a Cache Reset or an Error Report.
WriteError(c) ==
  /\ conn[c].writeMu
  /\ Gone(c)
  /\ Finished(c, conn[c].pc = "respond" /\ conn[c].reply # <<CacheReset>>)
  /\ UNCHANGED <<handlerOnly, inbox>>

\* Handle returns; this or sendAndCloseError before it closes the connection.
Return(c) ==
  /\ conn[c].pc = "leaving"
  /\ conn' = [conn EXCEPT ![c].pc = "returned", ![c].closed = TRUE]
  /\ UNCHANGED <<handlerOnly, inbox>>

Deregister_Keeps(c) ==
  /\ conn[c].pc = "returned"
  /\ conn' = [conn EXCEPT ![c].pc = "none"]
  /\ UNCHANGED <<updateVars, clients, notifier, inbox, wire, router>>

\* handleConnection, after Handle.
Deregister(c) ==
  /\ conn[c].pc = "returned"
  /\ conn' = [conn EXCEPT ![c].pc = "none"]
  /\ clients' = clients \ {c}
  /\ UNCHANGED <<updateVars, notifier, inbox, wire, router>>
-----------------------------------------------------------------------------
(* The routers, and the network between.  External. *)

routerOnly == <<updateVars, clients>>

Empty == Data({}, <<>>)

\* A router that has not heard from the server.  Two fields are ghost: tainted, its
\* data went through a response whose data was newer than the serial it carried;
\* since, the last data served when it sent the query it awaits the answer to.
NewRouter(v) == [version |-> v, link |-> FALSE, session |-> 0, serial |-> 0,
                 data |-> Empty, tainted |-> FALSE, stage |-> <<>>, asked |-> "none",
                 since |-> <<0, 0>>, dirty |-> FALSE, dials |-> 0]

Now == <<session, Len(served[session])>>

\* A goroutine that still holds the Client of an earlier connection finds it
\* closed: it is as if it had passed over it.
Dial(c) ==
  /\ ~router[c].link
  /\ conn[c].pc = "none"
  /\ router[c].dials < MaxDials
  /\ router' = [router EXCEPT ![c].link = TRUE, ![c].dials = @ + 1, ![c].dirty = TRUE]
  /\ conn' = [conn EXCEPT ![c] = [NoClient EXCEPT !.pc = "accepted", !.closed = FALSE]]
  /\ inbox' = [inbox EXCEPT ![c] = <<>>]
  /\ notifier' = [n \in DOMAIN notifier |->
       IF notifier[n].to = {c} THEN [Idle EXCEPT !.todo = notifier[n].todo]
       ELSE [notifier[n] EXCEPT !.todo = @ \ {c}]]
  /\ UNCHANGED <<routerOnly, wire>>

Sends(c, kind, v) ==
  inbox' = [inbox EXCEPT ![c] = Append(@, [kind |-> kind, version |-> v,
              session |-> router[c].session, serial |-> router[c].serial])]

\* Ask for everything at first, then for what changed.
Ask(c) ==
  /\ router[c].link /\ router[c].asked = "none" /\ router[c].dirty
  /\ LET kind == IF router[c].session = 0 THEN "reset" ELSE "serial"
     IN  /\ Sends(c, kind, router[c].version)
         /\ router' = [router EXCEPT ![c].asked = kind, ![c].since = Now,
                                     ![c].dirty = FALSE]
  /\ UNCHANGED <<routerOnly, notifier, conn, wire>>

\* One PDU that is out of order: undecodable, of a type only a cache may send,
\* or of protocol version 0.
Blunder(c) ==
  /\ router[c].link /\ router[c].asked = "none"
  /\ \E kind \in OddQueries :
       IF kind = "version" THEN Sends(c, "reset", 0) ELSE Sends(c, kind, router[c].version)
  /\ router' = [router EXCEPT ![c].asked = "odd"]
  /\ UNCHANGED <<routerOnly, notifier, conn, wire>>

Unlinked(r) == [r EXCEPT !.link = FALSE, !.stage = <<>>, !.asked = "none",
                         !.since = <<0, 0>>]

\* What is in flight is lost, and with it a response that had begun to arrive.
HangUp(c) ==
  /\ router[c].link
  /\ router' = [router EXCEPT ![c] = Unlinked(@)]
  /\ wire' = [wire EXCEPT ![c] = <<>>]
  /\ UNCHANGED <<routerOnly, notifier, conn, inbox>>

SeeClose(c) == conn[c].closed /\ HangUp(c)

Without(f, S) == Only(f, DOMAIN f \ S)
With(f, g) == [x \in DOMAIN f \cup DOMAIN g |-> IF x \in DOMAIN g THEN g[x] ELSE f[x]]

\* What a response amounts to so far.
Staged(r, rs, as) == [r EXCEPT !.stage = <<Data(rs, as)>>]

\* What a router makes of one PDU.
Applied(r, p) ==
  CASE p.type = "CacheResponse" ->
         [r EXCEPT !.stage = <<IF r.asked = "reset" THEN Empty ELSE r.data>>]
    [] p.type = "Announce" -> Staged(r, r.stage[1].roas \cup p.roas, r.stage[1].aspas)
    [] p.type = "Withdraw" -> Staged(r, r.stage[1].roas \ p.roas, r.stage[1].aspas)
    [] p.type = "AnnounceAspa" -> Staged(r, r.stage[1].roas, With(r.stage[1].aspas, p.aspas))
    [] p.type = "WithdrawAspa" ->
         Staged(r, r.stage[1].roas, Without(r.stage[1].aspas, DOMAIN p.aspas))
    [] p.type = "EndOfData" ->
         [r EXCEPT !.session = p.session, !.serial = p.serial, !.data = r.stage[1],
                   !.tainted = (r.asked = "serial" /\ @) \/ p.asOf # p.serial,
                   !.stage = <<>>, !.asked = "none", !.since = <<0, 0>>]
    [] p.type = "CacheReset"   -> [r EXCEPT !.asked = "reset", !.since = Now]
    [] p.type = "SerialNotify" -> [r EXCEPT !.dirty = TRUE]
    [] p.type = "ErrorReport"  -> r

\* A Cache Reset is followed by a Reset Query at once.
Receive(c) ==
  /\ router[c].link /\ wire[c] # <<>>
  /\ c \notin Stalled
  /\ router' = [router EXCEPT ![c] = Applied(@, Head(wire[c]))]
  /\ wire' = [wire EXCEPT ![c] = Tail(@)]
  /\ IF Head(wire[c]).type = "CacheReset" THEN Sends(c, "reset", router[c].version)
     ELSE UNCHANGED inbox
  /\ UNCHANGED <<routerOnly, notifier, conn>>

\* The server starts again with a new session, serial 1, no history, and
\* whatever data it loads.  Every connection is lost.  The session of the code is the
\* time modulo 2^16; starts are taken to be at times that differ modulo 2^16.
Restart ==
  /\ session <= MaxRestarts
  /\ updates < MaxUpdates
  /\ updates' = updates + 1
  /\ session' = session + 1
  /\ roas' \in SUBSET Roas /\ aspas' \in AspaSets
  /\ serial' = 1 /\ history' = <<>> /\ past' = <<>>
  /\ served' = [served EXCEPT ![session'] = <<Data(roas', aspas')>>]
  /\ updater' = "idle" /\ clients' = {}
  /\ notifier' = [n \in DOMAIN notifier |-> Idle]
  /\ conn' = [c \in Routers |-> NoClient]
  /\ inbox' = [c \in Routers |-> <<>>] /\ wire' = [c \in Routers |-> <<>>]
  /\ router' = [c \in Routers |-> Unlinked(router[c])]
-----------------------------------------------------------------------------
Init ==
  /\ CacheInit
  /\ session = 1
  /\ served = [x \in Sessions |-> IF x = 1 THEN <<Data(roas, aspas)>> ELSE <<>>]
  /\ updater = "idle" /\ updates = 0 /\ clients = {}
  /\ notifier = [n \in 1 .. MaxUpdates |-> Idle]
  /\ conn = [c \in Routers |-> NoClient]
  /\ inbox = [c \in Routers |-> <<>>] /\ wire = [c \in Routers |-> <<>>]
  /\ router \in [Routers -> {NewRouter(v) : v \in Versions}]

\* What a handler does by itself.
Handler(c) ==
  \/ handleConnection(c) \/ Negotiate(c)
  \/ ReadMalformed(c) \/ ReadVersionMismatch(c) \/ ReadUnexpected(c)
  \/ ReadResetQuery(c) \/ ReadSerialQuery(c) \/ AnswerSerialQuery(c)
  \/ LockWriteMu(c) \/ WritePDU(c) \/ WriteError(c)
  \/ Return(c) \/ Deregister(c)

Next ==
  \/ Update \/ notifyClients \/ Restart
  \/ \E c \in Routers :
       \/ Handler(c) \/ ReadFails(c)
       \/ Dial(c) \/ Ask(c) \/ Blunder(c) \/ HangUp(c) \/ Receive(c)
       \/ \E n \in 1 .. MaxUpdates : NotifyNext(n, c) \/ NotifyWrite(n, c)

Spec == Init /\ [][Next]_vars

\* Goroutines keep running, a Go mutex starves none of its waiters, and a router
\* reads what it is sent, asks when it has reason to, and sees a connection
\* close.  That a refresh finds new data, that a deadline passes, that a router
\* dials or hangs up, is up to chance.
Fairness ==
  /\ WF_vars(notifyClients)
  /\ \A c \in Routers :
       /\ WF_vars(Handler(c))
       /\ WF_vars(ReadFails(c) /\ Gone(c))
       /\ WF_vars(Ask(c)) /\ WF_vars(Receive(c)) /\ WF_vars(SeeClose(c))
       /\ \A n \in 1 .. MaxUpdates :
            WF_vars(NotifyNext(n, c)) /\ SF_vars(NotifyWrite(n, c))

FairSpec == Spec /\ Fairness

\* As FairSpec, and a router that has stalled runs into the read deadline whenever
\* its handler waits for a PDU.
DeadlineSpec == FairSpec /\ \A c \in Stalled : WF_vars(ReadFails(c))
-----------------------------------------------------------------------------
(* Properties. *)

\* The state has its type; in particular a handler that is past negotiation
\* speaks a version the server supports (negotiate.go:10).
SessionTypeOK ==
  /\ CacheTypeOK
  /\ session \in Sessions
  /\ updater \in {"idle", "notify"} /\ updates \in 0 .. MaxUpdates
  /\ clients \subseteq Routers
  /\ \A n \in 1 .. MaxUpdates : notifier[n].todo \subseteq Routers
  /\ \A c \in Routers :
       /\ conn[c].pc \in {"none", "accepted", "negotiate", "first", "loop", "diffs",
                          "respond", "failing", "leaving", "returned"}
       /\ conn[c].version \in {0, 1, 2}
       /\ conn[c].pc \in {"first", "loop", "diffs", "respond"} => conn[c].version # 0
       /\ conn[c].writeMu => conn[c].reply # <<>>

\* PDUs that stand in a response after another, and those that another must follow.
Inside(p) == p.type \in {"Announce", "Withdraw", "AnnounceAspa", "WithdrawAspa", "EndOfData"}
Opens(p) == p.type \in {"CacheResponse", "Announce", "Withdraw", "AnnounceAspa", "WithdrawAspa"}

\* Responses arrive whole and apart: between a Cache Response and its End of Data
\* the router sees the PDUs of that response only, no notification of a
\* concurrent update and no second response (writeMu, client_handler.go:199, 391).
WellFramed ==
  \A c \in Routers : \A i \in 1 .. Len(wire[c]) :
    Inside(wire[c][i]) <=> IF i = 1 THEN router[c].stage # <<>> ELSE Opens(wire[c][i - 1])

\* r holds the ROAs that the server served at r's serial, and ASPAs of the same
\* customers (module Cache shows what their provider lists may be); none below
\* version 2.
HoldsData(c) ==
  LET r == router[c]
      d == served[r.session][Position(r.serial)]
  IN  /\ r.data.roas = d.roas
      /\ DOMAIN r.data.aspas = IF r.version < 2 THEN {} ELSE DOMAIN d.aspas

\* A router holds the data of its serial, through any sequence of full and
\* incremental responses, lost connections and restarts of the server, unless an
\* update fell between the two reads of the cache by handleSerialQuery
\* (client_handler.go:162 and 176).
ExactUnlessRaced ==
  \A c \in Routers : router[c].session # 0 /\ ~router[c].tainted => HoldsData(c)

\* README.md:133: a Serial Query is answered with the net result of the diffs "from
\* that serial forward".  So a router that has the server's own session and serial
\* would hold the server's data.
CurrentRouterExact ==
  \A c \in Routers :
    router[c].session = session /\ router[c].serial = serial => HoldsData(c)

Holdings(d) == [roas |-> d.roas, customers |-> DOMAIN d.aspas]

\* The state of module Replica: every version served, the version and the data of
\* each router, and where the question it awaits an answer to was asked.
Published == [x \in 1 .. session |-> [i \in DOMAIN served[x] |-> Holdings(served[x][i])]]

ViewOf(r) ==
  [at   |-> IF r.session = 0 THEN <<0, 0>> ELSE <<r.session, Position(r.serial)>>,
   aspa |-> r.version >= 2,
   data |-> IF r.tainted THEN {} ELSE {Holdings(r.data)}]

Views == [c \in Routers |-> ViewOf(router[c])]

Questions == [c \in Routers |-> router[c].since]

Contents == [roas : SUBSET Roas, customers : SUBSET Customers]

Promise == INSTANCE Replica WITH
  log <- Published, view <- Views, asked <- Questions

\* Handlers, notifications, updates, lost connections and restarts together keep the
\* promise of module Replica: a router moves only in answer to its own query, to a
\* version that was served, at least as new as the data when it asked, so never
\* back, also across a wrap of the serial; and it holds that version's data unless
\* an update fell between the two reads of the cache by handleSerialQuery
\* (client_handler.go:162-184, 296-330).
ImplementsReplica == Promise!Spec

\* A router that stays connected ends up with the last serial by acting on
\* notifications alone, without its refresh timer: none is lost to a response in
\* progress, to a connection being set up, or to the order in which the goroutines
\* of several updates run (cache.go:287-307, client_handler.go:384-398).
Converges ==
  \A c \in Routers \ Stalled :
    <>[](router[c].link /\ router[c].asked # "odd")
      => <>[](router[c].session = session /\ router[c].serial = serial)

\* A connection that is closed is given up: its handler returns, whatever it was
\* doing, and the server forgets the client (server.go:156-158).
Released == \A c \in Routers : conn[c].closed ~> c \notin clients

\* README.md:126, of an update: "All connected clients receive a Serial Notify PDU."
\* So every client that stays connected has its turn in the loop of notifyClients
\* (cache.go:302).
AllNotified ==
  \A n \in 1 .. MaxUpdates, c \in Routers :
    c \in notifier[n].todo ~> c \notin notifier[n].todo \/ Gone(c)
=============================================================================
