----------------------------- MODULE SessionInv -----------------------------
(***************************************************************************)
(* The inductive invariants of module Session.                             *)
(*                                                                         *)
(* Inv: WellFramed looks at what has been written.  Inv adds what is yet   *)
(* to be written: the reply of a handler continues what is on the wire     *)
(* exactly when the handler holds writeMu.                                 *)
(*                                                                         *)
(* DataInv: ExactUnlessRaced speaks of a router when it has taken over a   *)
(* response.  DataInv follows the response there: what is on the wire and  *)
(* in the reply of the handler, added to what the router has of it         *)
(* already, gives the data that the serial of its End of Data stands for.  *)
(***************************************************************************)
EXTENDS Session

(* Framing. *)

PduTypes == {"CacheResponse", "CacheReset", "Announce", "Withdraw", "AnnounceAspa",
             "WithdrawAspa", "EndOfData", "SerialNotify", "ErrorReport"}

IsSeq(s) == \E S : s \in Seq(S)

IsPdus(s) == IsSeq(s) /\ \A i \in 1 .. Len(s) : s[i].type \in PduTypes

\* A response or the rest of one: all but the first are inside, all but the last
\* call for another.
IsReply(s) ==
  /\ IsPdus(s)
  /\ \A i \in 1 .. Len(s) : (i > 1 => Inside(s[i])) /\ (Opens(s[i]) <=> i < Len(s))

IsWhole(s) == IsReply(s) /\ Len(s) >= 1 /\ ~Inside(s[1])

ConnFields == {"pc", "version", "query", "state", "reply", "writeMu", "closed"}

\* A handler has a reply while it responds, a whole one until it has writeMu.
Handles(k) ==
  /\ DOMAIN k = ConnFields
  /\ k.writeMu \in BOOLEAN /\ k.closed \in BOOLEAN
  /\ IsReply(k.reply)
  /\ k.pc \in {"respond", "failing"} => Len(k.reply) >= 1
  /\ k.pc \in {"respond", "failing"} /\ ~k.writeMu => ~Inside(k.reply[1])
  /\ k.writeMu => k.pc \in {"respond", "failing"}

\* The wire w of a router that has taken over a part of a response, or not.
Framed(w, stage) ==
  /\ IsPdus(w)
  /\ \A i \in 1 .. Len(w) :
       Inside(w[i]) <=> IF i = 1 THEN stage # <<>> ELSE Opens(w[i - 1])

OpenEnd(w, stage) == IF Len(w) = 0 THEN stage # <<>> ELSE Opens(w[Len(w)])

Midway(k) == k.writeMu /\ Inside(k.reply[1])

\* What the handler writes next fits what was written last.
Fits(w, k, link, stage) ==
  /\ Handles(k)
  /\ Framed(w, stage)
  /\ ~link => Len(w) = 0 /\ stage = <<>>
  /\ link /\ ~k.closed => (OpenEnd(w, stage) <=> Midway(k))

RouterFields == {"version", "link", "session", "serial", "data", "tainted", "stage", "asked",
                 "since", "dirty", "dials"}

Records ==
  /\ DOMAIN wire = Routers /\ DOMAIN conn = Routers /\ DOMAIN router = Routers
  /\ \A c \in Routers : DOMAIN router[c] = RouterFields /\ router[c].link \in BOOLEAN

\* A notifier that has turned to a client has a notification for it.
Notifies(m) ==
  /\ DOMAIN m = {"todo", "to", "pdu"}
  /\ m.to # {} => \E p : m.pdu = <<p>> /\ p.type = "SerialNotify"

Inv ==
  /\ Records
  /\ DOMAIN notifier = 1 .. MaxUpdates
  /\ \A n \in 1 .. MaxUpdates : Notifies(notifier[n])
  /\ \A c \in Routers : Fits(wire[c], conn[c], router[c].link, router[c].stage)

\* The handler is writing a response, or the error that ends one.
Responding == {"respond", "failing"}
-----------------------------------------------------------------------------
(* What is on its way to a router. *)

Elems(s) == {s[i] : i \in 1 .. Len(s)}

InFlight(w, k) == Elems(w) \cup Elems(k.reply)

Of(S, type) == {p \in S : p.type = type}

\* The ROAs, and the customers of the ASPAs, that are yet to be announced and withdrawn.
Adds(S) == UNION {p.roas : p \in Of(S, "Announce")}
Dels(S) == UNION {p.roas : p \in Of(S, "Withdraw")}
AddsAspa(S) == UNION {DOMAIN p.aspas : p \in Of(S, "AnnounceAspa")}
DelsAspa(S) == UNION {DOMAIN p.aspas : p \in Of(S, "WithdrawAspa")}

\* PDUs that a router may be sent without having asked.
Quiet(p) == p.type \in {"SerialNotify", "ErrorReport"}
AllQuiet(S) == \A p \in S : Quiet(p)

\* The data that a response goes on from.
Base(r) ==
  IF r.stage # <<>> THEN r.stage[1] ELSE IF r.asked = "reset" THEN Empty ELSE r.data

\* The customers of d, for a router of version v.
CustomersFor(v, d) == IF v < 2 THEN {} ELSE DOMAIN d.aspas

\* When r has taken over the PDUs of S it holds the data d.
Leads(r, S, d) ==
  /\ Adds(S) \cap Dels(S) = {} /\ AddsAspa(S) \cap DelsAspa(S) = {}
  /\ (Base(r).roas \cup Adds(S)) \ Dels(S) = d.roas
  /\ (DOMAIN Base(r).aspas \cup AddsAspa(S)) \ DelsAspa(S) = CustomersFor(r.version, d)

Served(log, s) == s \in Serials /\ Position(s) \in 1 .. Len(log)

\* An End of Data e on its way: its serial is no older than the query, its data no
\* older than its serial, and that data is what the response leads to.
Answers(r, S, log, x, e) ==
  /\ r.asked \in {"reset", "serial"}
  /\ e.session = x /\ Served(log, e.serial) /\ Served(log, e.asOf)
  /\ r.since[2] <= Position(e.serial) /\ Position(e.serial) <= Position(e.asOf)
  /\ (r.asked = "serial" /\ r.tainted) \/ Leads(r, S, log[Position(e.asOf)])

Pending(S, r, log, x) == \A e \in Of(S, "EndOfData") : Answers(r, S, log, x, e)

\* Nothing but notifications and errors comes after the end of a response.
Ends(p) == p.type \in {"EndOfData", "CacheReset"}
Closing(w, reply) ==
  \A i \in 1 .. Len(w) : Ends(w[i]) =>
    AllQuiet(Elems(reply)) /\ \A j \in i + 1 .. Len(w) : Quiet(w[j])

\* A PDU from r that has not been read yet.
Asks(r, m) ==
  \/ /\ r.asked \in {"reset", "serial"} /\ m.kind = r.asked /\ m.version = r.version
     /\ m.session = r.session /\ m.serial = r.serial
  \/ r.asked = "odd" /\ m.kind \in {"bad", "other"} /\ m.version = r.version
  \/ r.asked = "odd" /\ m.kind = "reset" /\ m.version = 0

\* At most one query is under way; the serial a handler has read is one it served
\* after the query.
Awaits(k, q, r, log, x) ==
  /\ q = <<>> \/ \E m : q = <<m>> /\ Asks(r, m)
  /\ k.pc = "diffs" =>
       /\ q = <<>> /\ r.asked = "serial" /\ r.session = x /\ k.query = r.serial
       /\ Served(log, k.state) /\ r.since[2] <= Position(k.state)
  /\ r.asked = "serial" => r.session # 0
  /\ r.asked \in {"reset", "serial"} => r.since[1] = x /\ r.since[2] \in 1 .. Len(log)
  /\ k.version = 0 \/ k.version = r.version

Unanswered(k, q, r) == q # <<>> \/ r.asked \in {"none", "odd"} \/ k.pc = "diffs"

\* The connection of a router that is linked.
Converses(w, k, q, r, log, x) ==
  /\ Awaits(k, q, r, log, x)
  /\ Unanswered(k, q, r) => AllQuiet(InFlight(w, k)) /\ r.stage = <<>>
  /\ Closing(w, k.reply)
  /\ Pending(InFlight(w, k), r, log, x)

Places == {"none", "accepted", "negotiate", "first", "loop", "diffs", "respond", "failing",
           "leaving", "returned"}

\* A handler past negotiation has a version; it has a reply only while it responds.
Placed(k) ==
  /\ k.pc \in Places /\ k.version \in {0, 1, 2}
  /\ k.pc \in {"first", "loop", "diffs", "respond"} => k.version # 0
  /\ k.pc \notin Responding => k.reply = <<>>

\* What a router holds was served.
Holds(r, sv, x) ==
  /\ r.version \in Nat /\ r.tainted \in BOOLEAN
  /\ r.asked \in {"none", "odd", "reset", "serial"}
  /\ ~r.link => r.asked = "none"
  /\ r.session = 0 => r.data = Empty /\ r.tainted = FALSE
  /\ r.session # 0 =>
       /\ r.session \in 1 .. x /\ Served(sv[r.session], r.serial)
       /\ ~r.tainted =>
            /\ r.data.roas = sv[r.session][Position(r.serial)].roas
            /\ DOMAIN r.data.aspas
                 = CustomersFor(r.version, sv[r.session][Position(r.serial)])

\* The log of what was served, and the place of the cache in it.
LogInv ==
  /\ session \in Sessions /\ updates \in 0 .. MaxUpdates
  /\ DOMAIN served = Sessions
  /\ \A x \in Sessions : served[x] \in Seq(Datasets)
  /\ \A x \in 1 .. session : Len(served[x]) >= 1
  /\ Len(served[session]) <= updates + 1
  /\ Position(serial) = Len(served[session])
  /\ served[session][Len(served[session])] = Data(roas, aspas)
  /\ \A i \in 1 .. Len(history) :
       /\ Served(served[session], history[i].from)
       /\ past[i] = served[session][Position(history[i].from)]

\* What module CacheProofs shows of the cache.
CacheExact == CacheTypeOK /\ RoaDiffsExact /\ AspaCustomersExact

DataInv ==
  /\ CacheExact /\ LogInv
  /\ DOMAIN inbox = Routers
  /\ \A c \in Routers :
       /\ Placed(conn[c])
       /\ Holds(router[c], served, session)
       /\ router[c].link =>
            Converses(wire[c], conn[c], inbox[c], router[c], served[session], session)

Grows(log, more) ==
  /\ Len(log) \in Nat /\ Len(more) \in Nat /\ Len(log) <= Len(more)
  /\ \A i \in 1 .. Len(log) : more[i] = log[i]

\* Only clients that are registered are notified.
Registered ==
  /\ updater \in {"idle", "notify"} /\ clients \subseteq Routers
  /\ \A n \in 1 .. MaxUpdates : notifier[n].todo \subseteq Routers
=============================================================================
