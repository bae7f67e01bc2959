--------------------------- MODULE SessionProofs ---------------------------
(***************************************************************************)
(* Proofs about module Session, for any routers, data, buffers, and        *)
(* numbers of updates, connections and restarts: a response arrives whole, *)
(* and no notification in the middle of it.  Then what follows from the    *)
(* invariants of module SessionInv, for what routers hold and for the      *)
(* state of module Replica.                                                *)
(***************************************************************************)
EXTENDS SessionInv, TLAPS
-----------------------------------------------------------------------------
(* Sequences of anything. *)

LEMMA EmptySeq == IsSeq(<<>>) /\ Len(<<>>) = 0
BY DEF IsSeq

LEMMA Single ==
  ASSUME NEW x
  PROVE  IsSeq(<<x>>) /\ Len(<<x>>) = 1 /\ <<x>>[1] = x
<1>1. <<x>> \in Seq({x})
  OBVIOUS
<1> QED
  BY <1>1, Zenon DEF IsSeq

LEMMA Joined ==
  ASSUME NEW s, NEW t, IsSeq(s), IsSeq(t)
  PROVE  /\ Len(s) \in Nat /\ Len(t) \in Nat
         /\ IsSeq(s \o t) /\ Len(s \o t) = Len(s) + Len(t)
         /\ \A i \in 1 .. Len(s) : (s \o t)[i] = s[i]
         /\ \A i \in 1 .. Len(t) : (s \o t)[Len(s) + i] = t[i]
<1>1. PICK S : s \in Seq(S)
  BY Zenon DEF IsSeq
<1>2. PICK T : t \in Seq(T)
  BY Zenon DEF IsSeq
<1>3. s \in Seq(S \cup T) /\ t \in Seq(S \cup T)
  BY <1>1, <1>2
<1> QED
  BY <1>3 DEF IsSeq

LEMMA Appended ==
  ASSUME NEW s, IsSeq(s), NEW x
  PROVE  /\ Len(s) \in Nat
         /\ IsSeq(s \o <<x>>) /\ Len(s \o <<x>>) = Len(s) + 1
         /\ \A i \in 1 .. Len(s) : (s \o <<x>>)[i] = s[i]
         /\ (s \o <<x>>)[Len(s) + 1] = x
BY Single, Joined

LEMMA Dropped ==
  ASSUME NEW s, IsSeq(s), Len(s) >= 1
  PROVE  /\ Len(s) \in Nat
         /\ IsSeq(Tail(s)) /\ Len(Tail(s)) = Len(s) - 1
         /\ \A i \in 1 .. Len(s) - 1 : Tail(s)[i] = s[i + 1]
         /\ Head(s) = s[1]
<1>1. PICK S : s \in Seq(S)
  BY Zenon DEF IsSeq
<1> QED
  BY <1>1 DEF IsSeq

LEMMA NonEmpty ==
  ASSUME NEW s, IsSeq(s), s # <<>>
  PROVE  Len(s) \in Nat /\ Len(s) >= 1 /\ Head(s) = s[1]
<1>1. PICK S : s \in Seq(S)
  BY Zenon DEF IsSeq
<1> QED
  BY <1>1
-----------------------------------------------------------------------------
(* Replies. *)

LEMMA WholeSingle ==
  ASSUME NEW p, p.type \in {"CacheReset", "ErrorReport"}
  PROVE  IsWhole(<<p>>)
BY Single DEF IsWhole, IsReply, IsPdus, Inside, Opens, PduTypes

\* What may stand between a Cache Response and its End of Data.
IsBody(s) == IsSeq(s) /\ \A i \in 1 .. Len(s) : Inside(s[i]) /\ Opens(s[i])

LEMMA BodyPart ==
  ASSUME NEW S, NEW p, Inside(p), Opens(p)
  PROVE  IsBody(IfAny(S, p))
BY EmptySeq, Single DEF IsBody, IfAny

LEMMA BodyAspaPart ==
  ASSUME NEW c, NEW as, NEW p, Inside(p), Opens(p)
  PROVE  IsBody(IfAspa(c, as, p))
<1>1. IsBody(<<>>)
  BY EmptySeq DEF IsBody
<1> QED
  BY <1>1, BodyPart, Zenon DEF IfAspa

\* A response without its End of Data.
IsBegun(s) ==
  /\ IsSeq(s) /\ Len(s) >= 1 /\ s[1] = CacheResponse
  /\ \A i \in 2 .. Len(s) : Inside(s[i]) /\ Opens(s[i])

LEMMA Ended ==
  ASSUME NEW s, IsBegun(s), NEW e, e.type = "EndOfData", NEW t, t = s \o <<e>>
  PROVE  IsWhole(t)
<1> USE DEF IsBegun
<1>1. /\ IsSeq(t) /\ Len(t) = Len(s) + 1 /\ Len(s) \in Nat
      /\ t[Len(s) + 1] = e
      /\ \A i \in 1 .. Len(s) : t[i] = s[i]
  BY Appended
<1>2. Opens(CacheResponse) /\ ~Inside(CacheResponse)
  BY Zenon DEF CacheResponse, Opens, Inside
<1>3. ASSUME NEW i \in 1 .. Len(t)
      PROVE  t[i].type \in PduTypes /\ (i > 1 => Inside(t[i])) /\ (Opens(t[i]) <=> i < Len(t))
  BY <1>1, <1>2 DEF Opens, Inside, PduTypes
<1> QED
  BY <1>1, <1>2, <1>3 DEF IsWhole, IsReply, IsPdus

LEMMA Begun == IsBegun(<<CacheResponse>>)
BY Single DEF IsBegun

LEMMA Continued ==
  ASSUME NEW s, NEW b, IsBegun(s), IsBody(b)
  PROVE  IsBegun(s \o b)
BY Joined DEF IsBegun, IsBody

\* The two that are built of several parts.
LEMMA WholeAllData ==
  ASSUME NEW c
  PROVE  IsWhole(sendAllData(c))
<1> DEFINE p == IfAny(roas, Prefixes("Announce", roas))
           q == IfAspa(c, aspas, Aspas("AnnounceAspa", aspas))
           e == EndOfData(session, serial, serial)
<1>1. IsBody(p)
  BY BodyPart DEF Prefixes, Inside, Opens
<1>2. IsBody(q)
  BY BodyAspaPart DEF Aspas, Inside, Opens
<1>3. e.type = "EndOfData"
  BY Zenon DEF EndOfData
<1>4. sendAllData(c) = <<CacheResponse>> \o p \o q \o <<e>>
  BY Zenon DEF sendAllData
<1> HIDE DEF p, q, e
<1> QED
  BY <1>1, <1>2, <1>3, <1>4, Begun, Continued, Ended, Zenon

LEMMA WholeDiffs ==
  ASSUME NEW c, NEW d, NEW s
  PROVE  IsWhole(sendDiffs(c, d, s))
<1> DEFINE p == IfAny(d.add, Prefixes("Announce", d.add))
           q == IfAspa(c, d.addAspa, Aspas("AnnounceAspa", d.addAspa))
           r == IfAny(d.del, Prefixes("Withdraw", d.del))
           t == IfAspa(c, d.delAspa, Aspas("WithdrawAspa", d.delAspa))
           e == EndOfData(session, EodSerial(s), serial)
<1>1. IsBody(p) /\ IsBody(r)
  BY BodyPart DEF Prefixes, Inside, Opens
<1>2. IsBody(q) /\ IsBody(t)
  BY BodyAspaPart DEF Aspas, Inside, Opens
<1>3. e.type = "EndOfData"
  BY Zenon DEF EndOfData
<1>4. sendDiffs(c, d, s) = <<CacheResponse>> \o p \o q \o r \o t \o <<e>>
  BY Zenon DEF sendDiffs
<1> HIDE DEF p, q, r, t, e
<1> QED
  BY <1>1, <1>2, <1>3, <1>4, Begun, Continued, Ended, Zenon
-----------------------------------------------------------------------------
(* What a step does to one connection. *)

LEMMA AppendFrames ==
  ASSUME NEW w, NEW stage, Framed(w, stage), NEW p, p.type \in PduTypes,
         Inside(p) <=> OpenEnd(w, stage), NEW v, v = w \o <<p>>
  PROVE  Framed(v, stage) /\ (OpenEnd(v, stage) <=> Opens(p)) /\ Len(v) # 0
<1>1. /\ IsSeq(v) /\ Len(v) = Len(w) + 1 /\ Len(w) \in Nat /\ v[Len(w) + 1] = p
      /\ \A i \in 1 .. Len(w) : v[i] = w[i]
  BY Appended DEF Framed, IsPdus
<1>2. ASSUME NEW i \in 1 .. Len(v)
      PROVE  /\ v[i].type \in PduTypes
             /\ Inside(v[i]) <=> IF i = 1 THEN stage # <<>> ELSE Opens(v[i - 1])
  BY <1>1 DEF Framed, IsPdus, OpenEnd
<1> QED
  BY <1>1, <1>2 DEF OpenEnd, Framed, IsPdus

LEMMA ReceiveFrames ==
  ASSUME NEW w, NEW stage, Framed(w, stage), Len(w) >= 1, NEW next, (next # <<>>) <=> Opens(w[1])
  PROVE  Framed(Tail(w), next) /\ (OpenEnd(Tail(w), next) <=> OpenEnd(w, stage))
<1> DEFINE v == Tail(w)
<1>1. /\ IsSeq(v) /\ Len(v) = Len(w) - 1 /\ Len(w) \in Nat
      /\ \A i \in 1 .. Len(w) - 1 : v[i] = w[i + 1]
  BY Dropped, Zenon DEF Framed, IsPdus
<1> HIDE DEF v
<1>2. ASSUME NEW i \in 1 .. Len(v)
      PROVE  /\ v[i].type \in PduTypes
             /\ Inside(v[i]) <=> IF i = 1 THEN next # <<>> ELSE Opens(v[i - 1])
  BY <1>1 DEF Framed, IsPdus
<1>3. OpenEnd(v, next) <=> OpenEnd(w, stage)
  BY <1>1 DEF OpenEnd
<1> QED
  BY <1>1, <1>2, <1>3, Zenon DEF v, Framed, IsPdus

\* The handler goes on, or the connection is closed.
LEMMA KeepsReply ==
  ASSUME NEW w, NEW k, NEW link, NEW stage, Fits(w, k, link, stage), NEW l,
         DOMAIN l = ConnFields, l.reply = k.reply, l.writeMu = k.writeMu,
         l.closed \in BOOLEAN, k.closed => l.closed,
         l.pc = k.pc \/ (l.pc \notin Responding /\ k.pc \notin Responding)
  PROVE  Fits(w, l, link, stage)
BY Zenon DEF Fits, Handles, Midway, Responding

\* It has a reply to send.
LEMMA TakesReply ==
  ASSUME NEW w, NEW k, NEW link, NEW stage, Fits(w, k, link, stage), NEW l,
         DOMAIN l = ConnFields, IsWhole(l.reply), l.writeMu = k.writeMu, l.closed = k.closed,
         k.pc \notin Responding, l.pc \in Responding
  PROVE  Fits(w, l, link, stage)
BY Zenon DEF Fits, Handles, Midway, Responding, IsWhole

LEMMA TakesLock ==
  ASSUME NEW w, NEW k, NEW link, NEW stage, Fits(w, k, link, stage), NEW l,
         DOMAIN l = ConnFields, l.reply = k.reply, l.writeMu = TRUE, ~k.writeMu,
         l.closed = k.closed, k.pc \in Responding, l.pc = k.pc
  PROVE  Fits(w, l, link, stage)
BY Zenon DEF Fits, Handles, Midway, Responding

LEMMA EmptyReply == IsReply(<<>>)
BY EmptySeq DEF IsReply, IsPdus

\* It gives up on a connection that is gone.
LEMMA GivesUp ==
  ASSUME NEW w, NEW k, NEW link, NEW stage, Fits(w, k, link, stage), NEW l,
         DOMAIN l = ConnFields, l.reply = <<>>, l.writeMu = FALSE, l.closed \in BOOLEAN,
         k.closed \/ ~link, k.closed => l.closed, l.pc \notin Responding
  PROVE  Fits(w, l, link, stage)
BY EmptyReply, Zenon DEF Fits, Handles, Responding

\* Of a reply, the rest is one that must continue it.
LEMMA RestOfReply ==
  ASSUME NEW s, IsReply(s), Len(s) >= 1, NEW t, t = Tail(s)
  PROVE  /\ Head(s).type \in PduTypes /\ Head(s) = s[1]
         /\ Len(s) = 1 => ~Opens(Head(s))
         /\ Len(s) # 1 => Opens(Head(s)) /\ IsReply(t) /\ Len(t) >= 1 /\ Inside(t[1])
<1>1. /\ Head(s) = s[1] /\ Len(s) \in Nat /\ IsSeq(t) /\ Len(t) = Len(s) - 1
      /\ \A i \in 1 .. Len(s) - 1 : t[i] = s[i + 1]
  BY Dropped, Zenon DEF IsReply, IsPdus
<1>2. ASSUME NEW i \in 1 .. Len(t)
      PROVE  t[i].type \in PduTypes /\ Inside(t[i]) /\ (Opens(t[i]) <=> i < Len(t))
  BY <1>1 DEF IsReply, IsPdus
<1>3. Len(s) # 1 => Len(t) >= 1 /\ 1 < Len(s) /\ 1 \in 1 .. Len(t)
  <2> DEFINE m == Len(s)
             n == Len(t)
  <2>1. m \in Nat /\ m >= 1 /\ n = m - 1
    BY <1>1, Zenon
  <2> HIDE DEF m, n
  <2>2. m # 1 => n >= 1 /\ 1 < m /\ 1 \in 1 .. n
    BY <2>1
  <2> QED
    BY <2>2, Zenon DEF m, n
<1> QED
  BY <1>1, <1>2, <1>3 DEF IsReply, IsPdus

\* It writes the next PDU of its reply.
LEMMA WritesReply ==
  ASSUME NEW w, NEW k, NEW stage, Fits(w, k, TRUE, stage), ~k.closed, k.writeMu, NEW l,
         DOMAIN l = ConnFields, l.closed = k.closed,
         \/ Len(k.reply) = 1 /\ l.reply = <<>> /\ l.writeMu = FALSE /\ l.pc \notin Responding
         \/ Len(k.reply) # 1 /\ l.reply = Tail(k.reply) /\ l.writeMu = k.writeMu /\ l.pc = k.pc,
         NEW p, p = Head(k.reply)
  PROVE  Fits(w \o <<p>>, l, TRUE, stage)
<1>1. IsReply(k.reply) /\ Len(k.reply) >= 1 /\ k.pc \in Responding
  BY Zenon DEF Fits, Handles, Responding
<1>2. /\ p.type \in PduTypes /\ p = k.reply[1]
      /\ Len(k.reply) = 1 => ~Opens(p)
      /\ Len(k.reply) # 1 =>
           Opens(p) /\ IsReply(Tail(k.reply)) /\ Len(Tail(k.reply)) >= 1
                    /\ Inside(Tail(k.reply)[1])
  BY <1>1, RestOfReply, Zenon
<1>3. Inside(p) <=> OpenEnd(w, stage)
  BY <1>2, Zenon DEF Fits, Midway
<1>4. Framed(w \o <<p>>, stage) /\ (OpenEnd(w \o <<p>>, stage) <=> Opens(p))
  BY <1>2, <1>3, AppendFrames, Zenon DEF Fits
<1>5. Handles(l) /\ (Midway(l) <=> Opens(p))
  BY <1>1, <1>2, EmptyReply, Zenon DEF Fits, Handles, Midway, Responding
<1> QED
  BY <1>4, <1>5, Zenon DEF Fits

\* It writes to a router that has hung up.
LEMMA GivesOn ==
  ASSUME NEW w, NEW k, NEW stage, Fits(w, k, FALSE, stage), k.writeMu, NEW l,
         DOMAIN l = ConnFields, l.closed = k.closed,
         \/ Len(k.reply) = 1 /\ l.reply = <<>> /\ l.writeMu = FALSE /\ l.pc \notin Responding
         \/ Len(k.reply) # 1 /\ l.reply = Tail(k.reply) /\ l.writeMu = k.writeMu /\ l.pc = k.pc
  PROVE  Fits(w, l, FALSE, stage)
BY EmptyReply, RestOfReply, Zenon DEF Fits, Handles, Responding

\* A notifier that has writeMu writes its notification.
LEMMA WritesNotify ==
  ASSUME NEW w, NEW k, NEW stage, Fits(w, k, TRUE, stage), ~k.closed, ~k.writeMu,
         NEW p, p.type = "SerialNotify"
  PROVE  Fits(w \o <<p>>, k, TRUE, stage)
<1>1. ~Midway(k) /\ ~OpenEnd(w, stage)
  BY Zenon DEF Fits, Midway
<1>2. ~Inside(p) /\ ~Opens(p) /\ p.type \in PduTypes
  BY Zenon DEF Inside, Opens, PduTypes
<1>3. Framed(w \o <<p>>, stage) /\ ~OpenEnd(w \o <<p>>, stage)
  BY <1>1, <1>2, AppendFrames, Zenon DEF Fits
<1> QED
  BY <1>1, <1>3, Zenon DEF Fits

\* A connection begins, or there is none.
LEMMA NothingSent ==
  ASSUME NEW w, IsSeq(w), Len(w) = 0, NEW link, NEW k,
         DOMAIN k = ConnFields, k.reply = <<>>, k.writeMu = FALSE, k.closed \in BOOLEAN,
         k.pc \notin Responding
  PROVE  Fits(w, k, link, <<>>)
<1>1. Handles(k) /\ ~Midway(k)
  BY EmptyReply, Zenon DEF Handles, Midway, Responding
<1> QED
  BY <1>1 DEF Fits, Framed, IsPdus, OpenEnd

LEMMA IdleFits == Fits(<<>>, NoClient, FALSE, <<>>)
BY EmptySeq, NothingSent, Zenon DEF NoClient, ConnFields, Responding

\* What is on the wire is lost.
LEMMA LosesWire ==
  ASSUME NEW w, NEW k, NEW link, NEW stage, Fits(w, k, link, stage)
  PROVE  Fits(<<>>, k, FALSE, <<>>)
BY EmptySeq DEF Framed, IsPdus, Fits

\* The router is in a response after a PDU that another must follow.
LEMMA AppliedStage ==
  ASSUME NEW r, DOMAIN r = RouterFields, NEW p, p.type \in PduTypes,
         Inside(p) <=> r.stage # <<>>
  PROVE  /\ DOMAIN Applied(r, p) = RouterFields
         /\ Applied(r, p).link = r.link
         /\ Applied(r, p).stage # <<>> <=> Opens(p)
<1> USE DEF RouterFields
<1>1. \A x : <<x>> # <<>>
  BY Zenon
<1>2. CASE p.type = "CacheResponse"
  <2>1. Applied(r, p) = [r EXCEPT !.stage = <<IF r.asked = "reset" THEN Empty ELSE r.data>>]
    BY <1>2, Zenon DEF Applied
  <2> QED
    BY <1>1, <1>2, <2>1 DEF Opens
<1>3. CASE p.type \in {"Announce", "Withdraw", "AnnounceAspa", "WithdrawAspa"}
  BY <1>1, <1>3, Zenon DEF Applied, Opens, Staged
<1>4. CASE p.type = "EndOfData"
  <2>1. Applied(r, p) =
         [r EXCEPT !.session = p.session, !.serial = p.serial, !.data = r.stage[1],
                   !.tainted = (r.asked = "serial" /\ @) \/ p.asOf # p.serial,
                   !.stage = <<>>, !.asked = "none", !.since = <<0, 0>>]
    BY <1>4, Zenon DEF Applied
  <2> QED
    BY <1>4, <2>1, Zenon DEF Opens
<1>5. CASE p.type \in {"CacheReset", "SerialNotify", "ErrorReport"}
  BY <1>5, Zenon DEF Inside, Opens, Applied
<1> QED
  BY <1>2, <1>3, <1>4, <1>5, Zenon DEF PduTypes
-----------------------------------------------------------------------------
(* The invariant. *)

\* Only the handler of c goes on.
LEMMA OneConn ==
  ASSUME Inv, NEW c \in Routers, UNCHANGED <<notifier, wire, router>>,
         DOMAIN conn' = Routers, \A d \in Routers : d # c => conn'[d] = conn[d],
         Fits(wire[c], conn'[c], router[c].link, router[c].stage)
  PROVE  Inv'
BY Zenon DEF Inv, Records

LEMMA FailInv ==
  ASSUME Inv, NEW c \in Routers, UNCHANGED <<notifier, wire, router>>,
         conn[c].pc \notin Responding, NEW code, Fail(c, code)
  PROVE  Inv'
<1>1. DOMAIN conn = Routers /\ DOMAIN conn[c] = ConnFields
      /\ Fits(wire[c], conn[c], router[c].link, router[c].stage)
  BY Zenon DEF Inv, Records, Fits, Handles
<1>2. /\ DOMAIN conn' = Routers /\ \A d \in Routers : d # c => conn'[d] = conn[d]
      /\ DOMAIN conn'[c] = ConnFields /\ conn'[c].reply = <<ErrorReport(code)>>
      /\ conn'[c].writeMu = conn[c].writeMu /\ conn'[c].closed = conn[c].closed
      /\ conn'[c].pc \in Responding
  BY <1>1, Zenon DEF Fail, ConnFields, Responding
<1>3. IsWhole(conn'[c].reply)
  BY <1>2, WholeSingle DEF ErrorReport
<1> QED
  BY <1>1, <1>2, <1>3, TakesReply, OneConn, Zenon

LEMMA RespondInv ==
  ASSUME Inv, NEW c \in Routers, UNCHANGED <<notifier, wire, router>>,
         conn[c].pc \notin Responding, NEW pdus, IsWhole(pdus), Respond(c, pdus)
  PROVE  Inv'
<1>1. DOMAIN conn = Routers /\ DOMAIN conn[c] = ConnFields
      /\ Fits(wire[c], conn[c], router[c].link, router[c].stage)
  BY Zenon DEF Inv, Records, Fits, Handles
<1>2. /\ DOMAIN conn' = Routers /\ \A d \in Routers : d # c => conn'[d] = conn[d]
      /\ DOMAIN conn'[c] = ConnFields /\ conn'[c].reply = pdus
      /\ conn'[c].writeMu = conn[c].writeMu /\ conn'[c].closed = conn[c].closed
      /\ conn'[c].pc \in Responding
  BY <1>1, Zenon DEF Respond, ConnFields, Responding
<1> QED
  BY <1>1, <1>2, TakesReply, OneConn, Zenon

\* The handler goes from one place to another, neither of them a response.
LEMMA MoveInv ==
  ASSUME Inv, NEW c \in Routers, UNCHANGED <<notifier, wire, router>>,
         DOMAIN conn' = DOMAIN conn, \A d \in Routers : d # c => conn'[d] = conn[d],
         DOMAIN conn'[c] = DOMAIN conn[c], conn'[c].reply = conn[c].reply,
         conn'[c].writeMu = conn[c].writeMu,
         conn'[c].closed = conn[c].closed \/ conn'[c].closed = TRUE,
         conn[c].pc \notin Responding, conn'[c].pc \notin Responding
  PROVE  Inv'
<1>1. /\ DOMAIN conn = Routers /\ DOMAIN conn[c] = ConnFields /\ conn[c].closed \in BOOLEAN
      /\ Fits(wire[c], conn[c], router[c].link, router[c].stage)
  BY Zenon DEF Inv, Records, Fits, Handles
<1>2. conn'[c].closed \in BOOLEAN /\ (conn[c].closed => conn'[c].closed)
  BY <1>1, Zenon
<1> QED
  BY <1>1, <1>2, KeepsReply, OneConn, Zenon

LEMMA Fields ==
  ASSUME Inv, NEW c \in Routers
  PROVE  /\ DOMAIN conn = Routers /\ DOMAIN conn[c] = ConnFields
         /\ DOMAIN wire = Routers /\ DOMAIN router = Routers /\ DOMAIN router[c] = RouterFields
         /\ conn[c].writeMu \in BOOLEAN /\ conn[c].closed \in BOOLEAN
         /\ router[c].link \in BOOLEAN
         /\ Fits(wire[c], conn[c], router[c].link, router[c].stage)
BY Zenon DEF Inv, Records, Fits, Handles

LEMMA FinishedConn ==
  ASSUME Inv, NEW c \in Routers, NEW closes \in BOOLEAN, Finished(c, closes)
  PROVE  /\ DOMAIN conn' = Routers /\ \A d \in Routers : d # c => conn'[d] = conn[d]
         /\ DOMAIN conn'[c] = ConnFields /\ conn'[c].reply = <<>> /\ conn'[c].writeMu = FALSE
         /\ conn'[c].closed = (conn[c].closed \/ closes) /\ conn'[c].pc \notin Responding
BY Fields, Zenon DEF Finished, ConnFields, Responding

LEMMA WriteErrorInv ==
  ASSUME Inv, NEW c \in Routers, WriteError(c)
  PROVE  Inv'
<1> DEFINE closes == conn[c].pc = "respond" /\ conn[c].reply # <<CacheReset>>
<1>1. /\ UNCHANGED <<notifier, wire, router>> /\ Finished(c, closes) /\ closes \in BOOLEAN
      /\ conn[c].closed \/ ~router[c].link
  BY Zenon DEF WriteError, handlerOnly, Gone
<1> HIDE DEF closes
<1>2. /\ DOMAIN conn' = Routers /\ \A d \in Routers : d # c => conn'[d] = conn[d]
      /\ DOMAIN conn'[c] = ConnFields /\ conn'[c].reply = <<>> /\ conn'[c].writeMu = FALSE
      /\ conn'[c].closed = (conn[c].closed \/ closes) /\ conn'[c].pc \notin Responding
  BY <1>1, FinishedConn, Zenon
<1>3. Fits(wire[c], conn'[c], router[c].link, router[c].stage)
  BY <1>1, <1>2, Fields, GivesUp, Zenon
<1> QED
  BY <1>1, <1>2, <1>3, OneConn, Zenon

\* Something is written to c, or it is lost because c has hung up.
LEMMA OneWrite ==
  ASSUME Inv, NEW c \in Routers, UNCHANGED router, NEW pdus, Written(c, pdus),
         DOMAIN conn' = Routers, \A d \in Routers : d # c => conn'[d] = conn[d],
         DOMAIN notifier' = 1 .. MaxUpdates, \A n \in 1 .. MaxUpdates : Notifies(notifier'[n]),
         router[c].link => Fits(wire[c] \o pdus, conn'[c], TRUE, router[c].stage),
         ~router[c].link => Fits(wire[c], conn'[c], FALSE, router[c].stage)
  PROVE  Inv'
BY Fields, Zenon DEF Written, Inv, Records

LEMMA WritePDUInv ==
  ASSUME Inv, NEW c \in Routers, WritePDU(c)
  PROVE  Inv'
<1>1. /\ conn[c].writeMu /\ ~conn[c].closed /\ Written(c, <<Head(conn[c].reply)>>)
      /\ UNCHANGED <<notifier, router>>
  BY Zenon DEF WritePDU, CanWrite
<1>2. /\ DOMAIN conn' = Routers /\ \A d \in Routers : d # c => conn'[d] = conn[d]
      /\ DOMAIN conn'[c] = ConnFields /\ conn'[c].closed = conn[c].closed
      /\ \/ /\ Len(conn[c].reply) = 1 /\ conn'[c].reply = <<>> /\ conn'[c].writeMu = FALSE
            /\ conn'[c].pc \notin Responding
         \/ /\ Len(conn[c].reply) # 1 /\ conn'[c].reply = Tail(conn[c].reply)
            /\ conn'[c].writeMu = conn[c].writeMu /\ conn'[c].pc = conn[c].pc
  <2>1. CASE Len(conn[c].reply) = 1
    BY <2>1, Fields, FinishedConn, Zenon DEF WritePDU
  <2>2. CASE Len(conn[c].reply) # 1
    <3>1. conn' = [conn EXCEPT ![c].reply = Tail(@)]
      BY <2>2, Zenon DEF WritePDU
    <3> QED
      BY <2>2, <3>1, Fields, Zenon DEF ConnFields
  <2> QED
    BY <2>1, <2>2, Zenon
<1>3. router[c].link =>
        Fits(wire[c] \o <<Head(conn[c].reply)>>, conn'[c], TRUE, router[c].stage)
  <2>1. SUFFICES ASSUME router[c].link
                 PROVE  Fits(wire[c] \o <<Head(conn[c].reply)>>, conn'[c], TRUE, router[c].stage)
    BY Zenon
  <2> QED
    BY <1>1, <1>2, <2>1, Fields, WritesReply, Zenon
<1>4. ~router[c].link => Fits(wire[c], conn'[c], FALSE, router[c].stage)
  BY <1>1, <1>2, Fields, GivesOn, Zenon
<1> QED
  BY <1>1, <1>2, <1>3, <1>4, OneWrite, Zenon DEF Inv

LEMMA HandlerInv ==
  ASSUME Inv, NEW c \in Routers, Handler(c) \/ ReadFails(c)
  PROVE  Inv'
<1> USE DEF ConnFields, Responding
<1>1. DOMAIN conn = Routers /\ DOMAIN conn[c] = ConnFields
  BY Fields, Zenon
<1>2. CASE handleConnection(c)
  BY <1>1, <1>2, MoveInv, Zenon DEF handleConnection
<1>3. CASE Negotiate(c)
  <2>1. UNCHANGED <<notifier, wire, router>> /\ conn[c].pc = "negotiate"
    BY <1>3, Zenon DEF Negotiate, handlerOnly
  <2>2. CASE Fail(c, "UnsupportedVersion")
    BY <2>1, <2>2, FailInv, Zenon
  <2>3. CASE \E v : conn' = [conn EXCEPT ![c].pc = "first", ![c].version = v]
    <3>1. /\ DOMAIN conn' = DOMAIN conn /\ \A d \in Routers : d # c => conn'[d] = conn[d]
          /\ DOMAIN conn'[c] = DOMAIN conn[c] /\ conn'[c].reply = conn[c].reply
          /\ conn'[c].writeMu = conn[c].writeMu /\ conn'[c].closed = conn[c].closed
          /\ conn'[c].pc \notin Responding
      BY <1>1, <2>3
    <3> QED
      BY <2>1, <3>1, MoveInv, Zenon
  <2> QED
    BY <1>3, <2>2, <2>3, Zenon DEF Negotiate
<1>4. CASE ReadFails(c)
  <2>1. UNCHANGED <<notifier, wire, router>> /\ conn[c].pc \in {"negotiate", "first", "loop"}
    BY <1>4, Zenon DEF ReadFails, handlerOnly
  <2>2. CASE \E code : Fail(c, code)
    BY <2>1, <2>2, FailInv, Zenon
  <2>3. CASE Disconnects(c)
    BY <1>1, <2>1, <2>3, MoveInv, Zenon DEF Disconnects
  <2> QED
    BY <1>4, <2>2, <2>3, Zenon DEF ReadFails, BreaksOff
<1>5. ASSUME NEW kind, Reads(c, kind)
      PROVE  UNCHANGED <<notifier, wire, router>> /\ conn[c].pc \in {"first", "loop"}
  BY <1>5, Zenon DEF Reads, handlerOnly
<1>6. CASE ReadMalformed(c)
  BY <1>5, <1>6, FailInv, Zenon DEF ReadMalformed
<1>7. CASE ReadVersionMismatch(c)
  BY <1>5, <1>7, FailInv, Zenon DEF ReadVersionMismatch
<1>8. CASE ReadUnexpected(c)
  BY <1>1, <1>5, <1>8, MoveInv, Zenon DEF ReadUnexpected
<1>9. CASE ReadResetQuery(c)
  BY <1>5, <1>9, WholeAllData, RespondInv, Zenon DEF ReadResetQuery
<1>10. IsWhole(<<CacheReset>>)
  BY WholeSingle DEF CacheReset
<1>11. CASE ReadSerialQuery(c)
  <2>1. UNCHANGED <<notifier, wire, router>> /\ conn[c].pc \in {"first", "loop"}
    BY <1>5, <1>11, Zenon DEF ReadSerialQuery
  <2>2. CASE Respond(c, <<CacheReset>>)
    BY <1>10, <2>1, <2>2, RespondInv, Zenon
  <2>3. CASE \E x : conn' = [conn EXCEPT ![c].pc = "diffs", ![c].query = x, ![c].state = serial]
    <3>1. /\ DOMAIN conn' = DOMAIN conn /\ \A d \in Routers : d # c => conn'[d] = conn[d]
          /\ DOMAIN conn'[c] = DOMAIN conn[c] /\ conn'[c].reply = conn[c].reply
          /\ conn'[c].writeMu = conn[c].writeMu /\ conn'[c].closed = conn[c].closed
          /\ conn'[c].pc \notin Responding
      BY <1>1, <2>3
    <3> QED
      BY <2>1, <3>1, MoveInv, Zenon
  <2> QED
    BY <1>11, <2>2, <2>3, Zenon DEF ReadSerialQuery
<1>12. CASE AnswerSerialQuery(c)
  <2>1. PICK d : Respond(c, IF d.found THEN sendDiffs(c, d, conn[c].state) ELSE <<CacheReset>>)
    BY <1>12, Zenon DEF AnswerSerialQuery
  <2> QED
    BY <1>10, <1>12, <2>1, WholeDiffs, RespondInv, Zenon DEF AnswerSerialQuery, handlerOnly
<1>13. CASE LockWriteMu(c)
  <2>1. /\ UNCHANGED <<notifier, wire, router>> /\ conn[c].pc \in Responding /\ ~conn[c].writeMu
        /\ conn' = [conn EXCEPT ![c].writeMu = TRUE]
    BY <1>13, Zenon DEF LockWriteMu, handlerOnly
  <2>2. /\ DOMAIN conn' = Routers /\ \A d \in Routers : d # c => conn'[d] = conn[d]
        /\ DOMAIN conn'[c] = ConnFields /\ conn'[c].reply = conn[c].reply
        /\ conn'[c].writeMu = TRUE /\ conn'[c].closed = conn[c].closed
        /\ conn'[c].pc = conn[c].pc
    BY <1>1, <2>1, Zenon
  <2>3. Fits(wire[c], conn'[c], router[c].link, router[c].stage)
    BY <2>1, <2>2, Fields, TakesLock, Zenon
  <2> QED
    BY <2>1, <2>2, <2>3, OneConn, Zenon
<1>14. CASE Return(c)
  BY <1>1, <1>14, MoveInv, Zenon DEF Return, handlerOnly
<1>15. CASE Deregister(c)
  BY <1>1, <1>15, MoveInv, Zenon DEF Deregister
<1>16. CASE WriteError(c)
  BY <1>16, WriteErrorInv, Zenon
<1>17. CASE WritePDU(c)
  BY <1>17, WritePDUInv, Zenon
<1> QED
  BY <1>2, <1>3, <1>4, <1>6, <1>7, <1>8, <1>9, <1>11, <1>12, <1>13, <1>14, <1>15, <1>16, <1>17,
     Zenon DEF Handler

\* A notifier goes on.
LEMMA NotifierInv ==
  ASSUME Inv, UNCHANGED <<conn, wire, router>>, DOMAIN notifier' = 1 .. MaxUpdates,
         \A n \in 1 .. MaxUpdates : Notifies(notifier'[n])
  PROVE  Inv'
BY Zenon DEF Inv, Records

LEMMA NotifyInv ==
  ASSUME Inv, NEW n \in 1 .. MaxUpdates, NEW c \in Routers,
         NotifyNext(n, c) \/ NotifyWrite(n, c)
  PROVE  Inv'
<1>1. /\ DOMAIN notifier = 1 .. MaxUpdates /\ DOMAIN notifier[n] = {"todo", "to", "pdu"}
      /\ \A m \in 1 .. MaxUpdates : Notifies(notifier[m])
  BY Zenon DEF Inv, Notifies
<1>2. CASE NotifyNext(n, c)
  BY <1>1, <1>2, NotifierInv DEF Notifies, SerialNotify, NotifyNext
<1>3. CASE NotifyWrite(n, c)
  <2>1. /\ notifier[n].to = {c} /\ ~conn[c].writeMu /\ UNCHANGED router
        /\ notifier' = [notifier EXCEPT ![n].to = {}, ![n].pdu = <<>>]
    BY <1>3, Zenon DEF NotifyWrite, NotifyMay
  <2>2. PICK p : notifier[n].pdu = <<p>> /\ p.type = "SerialNotify"
    BY <1>1, <2>1, Zenon DEF Notifies
  <2>3. DOMAIN notifier' = 1 .. MaxUpdates /\ \A m \in 1 .. MaxUpdates : Notifies(notifier'[m])
    BY <1>1, <2>1, Zenon DEF Notifies
  <2>4. CASE CanWrite(c) /\ Written(c, notifier[n].pdu) /\ UNCHANGED conn
    <3>1. ~conn[c].closed /\ Written(c, <<p>>)
      BY <2>2, <2>4, Zenon DEF CanWrite
    <3>2. router[c].link => Fits(wire[c] \o <<p>>, conn[c], TRUE, router[c].stage)
      <4>1. SUFFICES ASSUME router[c].link
                     PROVE  Fits(wire[c] \o <<p>>, conn[c], TRUE, router[c].stage)
        BY Zenon
      <4> QED
        BY <2>1, <2>2, <3>1, <4>1, Fields, WritesNotify, Zenon
    <3> QED
      BY <2>1, <2>3, <2>4, <3>1, <3>2, Fields, OneWrite, Zenon
  <2>5. CASE conn' = [conn EXCEPT ![c].closed = TRUE] /\ UNCHANGED wire
    BY <2>1, <2>3, <2>5, Fields, KeepsReply, Zenon DEF ConnFields, Inv, Records
  <2> QED
    BY <1>3, <2>4, <2>5, Zenon DEF NotifyWrite
<1> QED
  BY <1>2, <1>3, Zenon

\* The router c, its connection and its wire change.
LEMMA OneRouter ==
  ASSUME Inv, NEW c \in Routers,
         DOMAIN conn' = Routers, \A d \in Routers : d # c => conn'[d] = conn[d],
         DOMAIN wire' = Routers, \A d \in Routers : d # c => wire'[d] = wire[d],
         DOMAIN router' = Routers, \A d \in Routers : d # c => router'[d] = router[d],
         DOMAIN router'[c] = RouterFields, router'[c].link \in BOOLEAN,
         DOMAIN notifier' = 1 .. MaxUpdates, \A n \in 1 .. MaxUpdates : Notifies(notifier'[n]),
         Fits(wire'[c], conn'[c], router'[c].link, router'[c].stage)
  PROVE  Inv'
BY Zenon DEF Inv, Records

LEMMA DialInv ==
  ASSUME Inv, NEW c \in Routers, Dial(c)
  PROVE  Inv'
<1>1. /\ DOMAIN conn' = Routers /\ \A d \in Routers : d # c => conn'[d] = conn[d]
      /\ DOMAIN conn'[c] = ConnFields /\ conn'[c].reply = <<>> /\ conn'[c].writeMu = FALSE
      /\ conn'[c].closed = FALSE /\ conn'[c].pc \notin Responding
  BY Fields, Zenon DEF Dial, NoClient, ConnFields, Responding
<1>2. /\ DOMAIN router' = Routers /\ \A d \in Routers : d # c => router'[d] = router[d]
      /\ DOMAIN router'[c] = RouterFields /\ router'[c].link = TRUE
      /\ router'[c].stage = router[c].stage /\ router[c].link = FALSE
  BY Fields, Zenon DEF Dial, RouterFields
<1>3. DOMAIN wire' = Routers /\ \A d \in Routers : wire'[d] = wire[d]
  BY Fields, Zenon DEF Dial
<1>4. IsSeq(wire[c]) /\ Len(wire[c]) = 0 /\ router[c].stage = <<>>
  BY <1>2, Fields, Zenon DEF Fits, Framed, IsPdus
<1>5. Fits(wire'[c], conn'[c], router'[c].link, router'[c].stage)
  BY <1>1, <1>2, <1>3, <1>4, NothingSent, Zenon
<1>6. DOMAIN notifier' = 1 .. MaxUpdates /\ \A n \in 1 .. MaxUpdates : Notifies(notifier'[n])
  BY Zenon DEF Inv, Notifies, Dial, Idle
<1> QED
  BY <1>1, <1>2, <1>3, <1>5, <1>6, OneRouter, Zenon

\* The router asks for something.
LEMMA AskInv ==
  ASSUME Inv, NEW c \in Routers, Ask(c) \/ Blunder(c)
  PROVE  Inv'
<1>1. /\ UNCHANGED <<notifier, conn, wire>>
      /\ DOMAIN router' = Routers /\ \A d \in Routers : d # c => router'[d] = router[d]
      /\ DOMAIN router'[c] = RouterFields /\ router'[c].link = router[c].link
      /\ router'[c].stage = router[c].stage
  BY Fields DEF Ask, Blunder, RouterFields
<1> QED
  BY <1>1, Fields, OneRouter, Zenon DEF Inv

LEMMA HangUpInv ==
  ASSUME Inv, NEW c \in Routers, HangUp(c)
  PROVE  Inv'
BY Fields, LosesWire, OneRouter, Zenon DEF HangUp, Unlinked, RouterFields, Inv

LEMMA ReceiveInv ==
  ASSUME Inv, NEW c \in Routers, Receive(c)
  PROVE  Inv'
<1> DEFINE p == Head(wire[c])
           r == router[c]
<1>1. /\ UNCHANGED <<notifier, conn>> /\ r.link /\ wire[c] # <<>>
      /\ router' = [router EXCEPT ![c] = Applied(r, p)]
      /\ wire' = [wire EXCEPT ![c] = Tail(wire[c])]
  BY Zenon DEF Receive
<1>2. /\ Fits(wire[c], conn[c], TRUE, r.stage) /\ r.link = TRUE
      /\ DOMAIN r = RouterFields
  BY <1>1, Fields, Zenon
<1>3. Len(wire[c]) >= 1 /\ Len(wire[c]) \in Nat /\ p = wire[c][1]
  BY <1>1, <1>2, NonEmpty, Zenon DEF Fits, Framed, IsPdus
<1> HIDE DEF p, r
<1>4. /\ DOMAIN Applied(r, p) = RouterFields /\ Applied(r, p).link = r.link
      /\ Applied(r, p).stage # <<>> <=> Opens(p)
  BY <1>2, <1>3, AppliedStage DEF Fits, Framed, IsPdus
<1>5. /\ DOMAIN router' = Routers /\ \A d \in Routers : d # c => router'[d] = router[d]
      /\ DOMAIN wire' = Routers /\ \A d \in Routers : d # c => wire'[d] = wire[d]
      /\ router'[c] = Applied(r, p) /\ wire'[c] = Tail(wire[c])
  BY <1>1, Fields, Zenon
<1>6. DOMAIN conn' = Routers /\ \A d \in Routers : conn'[d] = conn[d]
  BY <1>1, Fields, Zenon
<1>7. DOMAIN router'[c] = RouterFields /\ router'[c].link = TRUE
  BY <1>2, <1>4, <1>5, Zenon
<1>8. Fits(wire'[c], conn'[c], router'[c].link, router'[c].stage)
  BY <1>2, <1>3, <1>4, <1>5, <1>6, <1>7, ReceiveFrames DEF Fits
<1> QED
  BY <1>1, <1>5, <1>6, <1>7, <1>8, OneRouter, Zenon DEF Inv

LEMMA RestartInv ==
  ASSUME Inv, Restart
  PROVE  Inv'
BY Fields, IdleFits, Zenon DEF Restart, Unlinked, RouterFields, Notifies, Idle, Inv, Records

LEMMA InitInv == Init => Inv
<1> SUFFICES ASSUME Init PROVE Inv
  BY Zenon
<1>1. /\ conn = [c \in Routers |-> NoClient] /\ wire = [c \in Routers |-> <<>>]
      /\ router \in [Routers -> {NewRouter(v) : v \in Versions}]
      /\ notifier = [n \in 1 .. MaxUpdates |-> Idle]
  BY Zenon DEF Init
<1>2. ASSUME NEW c \in Routers
      PROVE  /\ DOMAIN router[c] = RouterFields /\ router[c].link = FALSE
             /\ router[c].stage = <<>>
  BY <1>1 DEF NewRouter, RouterFields
<1>3. ASSUME NEW c \in Routers
      PROVE  Fits(wire[c], conn[c], router[c].link, router[c].stage)
  BY <1>1, <1>2, IdleFits, Zenon
<1>4. Records
  BY <1>1, <1>2, Zenon DEF Records
<1> QED
  BY <1>1, <1>3, <1>4, Zenon DEF Inv, Notifies, Idle

LEMMA NextInv == Inv /\ [Next]_vars => Inv'
<1> SUFFICES ASSUME Inv, [Next]_vars PROVE Inv'
  BY Zenon
<1>1. CASE Update
  BY <1>1, NotifierInv, Zenon DEF Update, Inv
<1>2. CASE notifyClients
  BY <1>2, NotifierInv, Zenon DEF notifyClients, Inv, Notifies
<1>3. CASE Restart
  BY <1>3, RestartInv, Zenon
<1>4. ASSUME NEW c \in Routers,
             \/ Handler(c) \/ ReadFails(c)
             \/ Dial(c) \/ Ask(c) \/ Blunder(c) \/ HangUp(c) \/ Receive(c)
             \/ \E n \in 1 .. MaxUpdates : NotifyNext(n, c) \/ NotifyWrite(n, c)
      PROVE  Inv'
  BY <1>4, HandlerInv, DialInv, AskInv, HangUpInv, ReceiveInv, NotifyInv, Zenon
<1>5. CASE UNCHANGED vars
  BY <1>5, NotifierInv, Zenon DEF vars, Inv
<1> QED
  BY <1>1, <1>2, <1>3, <1>4, <1>5, Zenon DEF Next
-----------------------------------------------------------------------------
\* Whatever routers, updates, notifications and restarts there are, a router sees the
\* PDUs of a response without another between them: handlers and notifiers write
\* under writeMu, and one that fails in the middle of a response closes the
\* connection (client_handler.go:199-208, 292-301, 391).
THEOREM ResponsesWhole == Spec => []WellFramed
<1>1. Inv => WellFramed
  BY Zenon DEF Inv, Fits, Framed, WellFramed
<1> QED
  BY <1>1, InitInv, NextInv, PTL DEF Spec
-----------------------------------------------------------------------------
(* The first state, and the types. *)

LEMMA InitData ==
  ASSUME Init, CacheExact
  PROVE  DataInv
<1> DEFINE d == Data(roas, aspas)
           one == <<d>>
<1>1. /\ CacheInit /\ session = 1 /\ updates = 0
      /\ served = [x \in Sessions |-> IF x = 1 THEN one ELSE <<>>]
      /\ conn = [c \in Routers |-> NoClient] /\ inbox = [c \in Routers |-> <<>>]
      /\ router \in [Routers -> {NewRouter(v) : v \in Versions}]
  BY Zenon DEF Init
<1>2. serial = 1 /\ history = <<>>
  BY <1>1, Zenon DEF CacheInit
<1>3. one \in Seq(Datasets) /\ Len(one) = 1 /\ one[1] = d /\ <<>> \in Seq(Datasets)
  BY <1>1 DEF CacheInit, Data, Datasets
<1>4. 1 \in Sessions /\ 0 \in 0 .. MaxUpdates
  BY SessionAssumption DEF Sessions
<1> HIDE DEF d, one
<1>5. LogInv
  <2>1. /\ DOMAIN served = Sessions /\ served[1] = one
        /\ \A x \in Sessions : served[x] \in Seq(Datasets)
    BY <1>1, <1>3, <1>4, Zenon
  <2>2. /\ \A x \in 1 .. session : Len(served[x]) >= 1
        /\ Len(served[session]) <= updates + 1
        /\ Position(serial) = Len(served[session])
    <3>1. Len(served[1]) = 1
      BY <1>3, <2>1, Zenon
    <3>2. Len(served[session]) = 1 /\ Position(serial) = 1 /\ updates = 0
      BY <1>1, <1>2, <3>1 DEF Position
    <3>3. \A x \in 1 .. session : Len(served[x]) = 1
      BY <1>1, <3>1
    <3> HIDE DEF LogInv
    <3> QED
      BY <3>2, <3>3
  <2> QED
    BY <1>1, <1>2, <1>3, <1>4, <2>1, <2>2 DEF LogInv, d
<1>6. ASSUME NEW c \in Routers
      PROVE  Placed(conn[c]) /\ Holds(router[c], served, session) /\ ~router[c].link
  <2>1. PICK v \in Versions : router[c] = NewRouter(v)
    BY <1>1, Zenon
  <2>2. /\ router[c].link = FALSE /\ router[c].version = v /\ router[c].tainted = FALSE
        /\ router[c].session = 0 /\ router[c].data = Empty /\ router[c].asked = "none"
    BY <2>1 DEF NewRouter
  <2>3. v \in Nat
    BY SessionAssumption, Zenon
  <2>4. Holds(router[c], served, session)
    BY <2>2, <2>3, Zenon DEF Holds
  <2> QED
    BY <1>1, <2>2, <2>4, Zenon DEF NoClient, Placed, Places, Responding
<1> QED
  BY <1>1, <1>5, <1>6, Zenon DEF DataInv

LEMMA InitRegistered == Init => Registered
BY DEF Init, Registered, Idle

LEMMA NextRegistered == Inv /\ Registered /\ [Next]_vars => Registered'
<1> SUFFICES ASSUME Inv, Registered, [Next]_vars PROVE Registered'
  BY Zenon
<1>1. /\ DOMAIN notifier = 1 .. MaxUpdates
      /\ \A n \in 1 .. MaxUpdates : DOMAIN notifier[n] = {"todo", "to", "pdu"}
  BY Zenon DEF Inv, Notifies
<1>2. CASE UNCHANGED notifier /\ updater' \in {"idle", "notify"} /\ clients' \subseteq Routers
  BY <1>2, Zenon DEF Registered
<1>3. CASE notifyClients
  BY <1>1, <1>3, Zenon DEF notifyClients, Recipients, Registered
<1>4. CASE Restart
  BY <1>1, <1>4, Zenon DEF Restart, Registered, Idle
<1>5. ASSUME UNCHANGED <<updater, clients>>,
             \A n \in 1 .. MaxUpdates : notifier'[n].todo \subseteq notifier[n].todo
      PROVE  Registered'
  BY <1>5, Zenon DEF Registered
<1>6. ASSUME NEW c \in Routers, Dial(c)
      PROVE  Registered'
  <2>1. \A n \in 1 .. MaxUpdates : notifier'[n] =
          IF notifier[n].to = {c} THEN [Idle EXCEPT !.todo = notifier[n].todo]
          ELSE [notifier[n] EXCEPT !.todo = @ \ {c}]
    BY <1>1, <1>6, Zenon DEF Dial
  <2>2. \A n \in 1 .. MaxUpdates : notifier'[n].todo \subseteq notifier[n].todo
    <3> TAKE n \in 1 .. MaxUpdates
    <3>1. CASE notifier[n].to = {c}
      <4>1. notifier'[n] = [Idle EXCEPT !.todo = notifier[n].todo]
        BY <2>1, <3>1, Zenon
      <4> QED
        BY <4>1, Zenon DEF Idle
    <3>2. CASE notifier[n].to # {c}
      <4>1. notifier'[n] = [notifier[n] EXCEPT !.todo = @ \ {c}]
        BY <2>1, <3>2, Zenon
      <4> QED
        BY <1>1, <4>1, Zenon
    <3> QED
      BY <3>1, <3>2, Zenon
  <2> QED
    BY <1>5, <1>6, <2>2, Zenon DEF Dial, routerOnly, updateVars
<1>7. ASSUME NEW c \in Routers, NEW n \in 1 .. MaxUpdates, NotifyNext(n, c) \/ NotifyWrite(n, c)
      PROVE  Registered'
  <2>1. CASE NotifyNext(n, c)
    BY <1>1, <1>5, <2>1, Zenon DEF NotifyNext, updateVars
  <2>2. CASE NotifyWrite(n, c)
    BY <1>1, <1>5, <2>2, Zenon DEF NotifyWrite, updateVars
  <2> QED
    BY <1>7, <2>1, <2>2, Zenon
<1>8. ASSUME NEW c \in Routers, Handler(c) \/ ReadFails(c)
      PROVE  Registered'
  <2>1. UNCHANGED <<notifier, updater>> /\ clients' \subseteq clients \cup {c}
    <3>1. CASE handleConnection(c)
      BY <3>1, Zenon DEF handleConnection, updateVars
    <3>2. CASE Deregister(c)
      BY <3>2, Zenon DEF Deregister, updateVars
    <3>3. CASE UNCHANGED handlerOnly
      BY <3>3, Zenon DEF handlerOnly, updateVars
    <3>4. CASE WritePDU(c)
      BY <3>4, Zenon DEF WritePDU, updateVars
    <3> QED
      BY <1>8, <3>1, <3>2, <3>3, <3>4, Zenon DEF Handler, Negotiate, ReadFails,
             ReadMalformed, ReadVersionMismatch, ReadUnexpected, ReadResetQuery,
             ReadSerialQuery, Reads, AnswerSerialQuery, LockWriteMu, WriteError, Return
  <2> QED
    BY <1>2, <2>1, Zenon DEF Registered
<1>9. ASSUME NEW c \in Routers, Ask(c) \/ Blunder(c) \/ HangUp(c) \/ Receive(c)
      PROVE  Registered'
  BY <1>2, <1>9, Zenon DEF Ask, Blunder, HangUp, Receive, routerOnly, updateVars, Registered
<1>10. CASE Update
  BY <1>2, <1>10, Zenon DEF Update, Registered
<1>11. CASE UNCHANGED vars
  BY <1>2, <1>11, Zenon DEF vars, updateVars, Registered
<1> QED
  BY <1>3, <1>4, <1>6, <1>7, <1>8, <1>9, <1>10, <1>11, Zenon DEF Next

LEMMA InvTypes == Inv /\ DataInv /\ Registered => SessionTypeOK
<1> SUFFICES ASSUME Inv, DataInv, Registered PROVE SessionTypeOK
  BY Zenon
<1>1. ASSUME NEW c \in Routers
      PROVE  /\ conn[c].pc \in Places /\ conn[c].version \in {0, 1, 2}
             /\ conn[c].pc \in {"first", "loop", "diffs", "respond"} => conn[c].version # 0
             /\ conn[c].writeMu => conn[c].reply # <<>>
  BY Fields DEF Fits, Handles, DataInv, Placed
<1> QED
  BY <1>1, Zenon DEF SessionTypeOK, Registered, Places, DataInv, CacheExact, LogInv

LEMMA InvExact == Inv /\ DataInv => ExactUnlessRaced
<1> SUFFICES ASSUME Inv, DataInv PROVE ExactUnlessRaced
  BY Zenon
<1>1. ASSUME NEW c \in Routers, router[c].session # 0, ~router[c].tainted
      PROVE  HoldsData(c)
  BY <1>1, Zenon DEF DataInv, Holds, HoldsData, CustomersFor
<1> QED
  BY <1>1, Zenon DEF ExactUnlessRaced

LEMMA StepCache ==
  ASSUME [Next]_vars
  PROVE  UNCHANGED cacheVars \/ Update \/ Restart
<1>1. ASSUME NEW c \in Routers, Handler(c) \/ ReadFails(c)
      PROVE  UNCHANGED cacheVars
  BY <1>1, Zenon DEF Handler, handleConnection, Deregister, WritePDU, Negotiate, ReadFails,
         ReadMalformed, ReadVersionMismatch, ReadUnexpected, ReadResetQuery,
         ReadSerialQuery, Reads, AnswerSerialQuery, LockWriteMu, WriteError, Return,
         handlerOnly, updateVars
<1>2. ASSUME NEW c \in Routers,
             \/ Dial(c) \/ Ask(c) \/ Blunder(c) \/ HangUp(c) \/ Receive(c)
             \/ \E n \in 1 .. MaxUpdates : NotifyNext(n, c) \/ NotifyWrite(n, c)
      PROVE  UNCHANGED cacheVars
  BY <1>2, Zenon DEF Dial, Ask, Blunder, HangUp, Receive, NotifyNext, NotifyWrite,
         routerOnly, updateVars
<1> QED
  BY <1>1, <1>2, Zenon DEF Next, vars, notifyClients, updateVars

LEMMA SameGrows ==
  ASSUME NEW S, NEW log \in Seq(S)
  PROVE  Grows(log, log)
BY DEF Grows
-----------------------------------------------------------------------------
(* The state of module Replica. *)

Shown(s) == [i \in DOMAIN s |-> Holdings(s[i])]

LEMMA HoldingsContents ==
  ASSUME NEW d \in Datasets
  PROVE  Holdings(d) \in Contents
<1>1. PICK D \in SUBSET Customers : d.aspas \in [D -> ProviderLists]
  BY Zenon DEF Datasets, AspaSets
<1> QED
  BY <1>1, Zenon DEF Datasets, Holdings, Contents

LEMMA ShownSeq ==
  ASSUME NEW s \in Seq(Datasets)
  PROVE  /\ Shown(s) \in Seq(Contents) /\ Len(Shown(s)) = Len(s)
         /\ \A i \in 1 .. Len(s) : Shown(s)[i] = Holdings(s[i])
BY HoldingsContents DEF Shown

LEMMA ShownOne ==
  ASSUME NEW d \in Datasets
  PROVE  Shown(<<d>>) = <<Holdings(d)>> /\ Holdings(d) \in Contents
BY HoldingsContents DEF Shown

LEMMA AppendMore ==
  ASSUME NEW S, NEW a \in Seq(S), NEW h \in S
  PROVE  LET u == Append(a, h)
         IN  /\ u = [i \in 1 .. Len(a) + 1 |-> u[i]] /\ u[Len(a) + 1] = h
             /\ \A i \in 1 .. Len(a) : u[i] = a[i]
<1> DEFINE u == Append(a, h)
<1>1. /\ u \in Seq(S) /\ Len(u) = Len(a) + 1 /\ u[Len(a) + 1] = h
      /\ \A i \in 1 .. Len(a) : u[i] = a[i]
  OBVIOUS
<1> HIDE DEF u
<1>2. u = [i \in 1 .. Len(u) |-> u[i]]
  BY <1>1
<1> QED
  BY <1>1, <1>2, Zenon DEF u

LEMMA ShownAppend ==
  ASSUME NEW s \in Seq(Datasets), NEW d \in Datasets
  PROVE  Shown(Append(s, d)) = Append(Shown(s), Holdings(d))
<1> DEFINE t == Append(s, d)
<1>1. /\ t \in Seq(Datasets) /\ Len(t) = Len(s) + 1 /\ t[Len(s) + 1] = d /\ Len(s) \in Nat
      /\ \A i \in 1 .. Len(s) : t[i] = s[i]
  OBVIOUS
<1> HIDE DEF t
<1>2. /\ Shown(t) \in Seq(Contents) /\ Len(Shown(t)) = Len(s) + 1
      /\ \A i \in 1 .. Len(s) + 1 : Shown(t)[i] = Holdings(t[i])
  BY <1>1, ShownSeq, Zenon
<1>3. /\ Shown(s) \in Seq(Contents) /\ Len(Shown(s)) = Len(s)
      /\ \A i \in 1 .. Len(s) : Shown(s)[i] = Holdings(s[i])
  BY ShownSeq, Zenon
<1> DEFINE u == Append(Shown(s), Holdings(d))
<1>4. /\ u[Len(s) + 1] = Holdings(d) /\ \A i \in 1 .. Len(s) : u[i] = Shown(s)[i]
      /\ u = [i \in 1 .. Len(s) + 1 |-> u[i]]
  <2> DEFINE a == Shown(s)
             h == Holdings(d)
  <2> HIDE DEF a, h
  <2> QED
    BY <1>3, HoldingsContents, AppendMore DEF a, h
<1> HIDE DEF u
<1>5. ASSUME NEW i \in 1 .. Len(s) + 1
      PROVE  Shown(t)[i] = u[i]
  <2>1. CASE i = Len(s) + 1
    BY <1>1, <1>2, <1>4, <2>1, Zenon
  <2>2. CASE i \in 1 .. Len(s)
    BY <1>1, <1>2, <1>3, <1>4, <2>2, Zenon
  <2> QED
    BY <1>1, <2>1, <2>2
<1> QED
  BY <1>1, <1>2, <1>4, <1>5 DEF t, u

LEMMA PublishedLog ==
  ASSUME LogInv
  PROVE  /\ session \in Nat \ {0}
         /\ Published \in Seq(Seq(Contents)) /\ Len(Published) = session
         /\ \A x \in 1 .. session :
              /\ Published[x] = Shown(served[x]) /\ served[x] \in Seq(Datasets)
              /\ Len(Published[x]) = Len(served[x])
         /\ Promise!Latest = Now
BY SessionAssumption, ShownSeq DEF LogInv, Sessions, Published, Shown, Promise!Latest, Now

LEMMA UpdatePublishes ==
  ASSUME LogInv, LogInv', Update
  PROVE  Promise!Publish
<1> DEFINE d == Data(roas', aspas')
           more == Append(served[session], d)
<1>1. /\ session' = session /\ router' = router
      /\ roas' \in SUBSET Roas /\ aspas' \in AspaSets
      /\ served' = [served EXCEPT ![session] = more]
  BY Zenon DEF Update, CacheNext, updateCache
<1>2. d \in Datasets
  BY <1>1, Zenon DEF Data, Datasets
<1> HIDE DEF d
<1>3. /\ session \in Nat \ {0} /\ session \in 1 .. session
      /\ Published \in Seq(Seq(Contents)) /\ Len(Published) = session
      /\ \A x \in 1 .. session :
           Published[x] = Shown(served[x]) /\ served[x] \in Seq(Datasets)
  BY <1>1, PublishedLog
<1>4. Shown(more) = Append(Published[session], Holdings(d))
  BY <1>2, <1>3, ShownAppend, Zenon
<1>5. Holdings(d) \in Contents
  BY <1>2, HoldingsContents, Zenon
<1> HIDE DEF more
<1>6. served'[session] = more /\ \A x \in 1 .. session : x # session => served'[x] = served[x]
  BY <1>1, SessionAssumption DEF LogInv, Sessions
<1>7. Published' = [x \in 1 .. session |-> Shown(served'[x])]
  BY <1>1, Zenon DEF Published, Shown
<1>8. DOMAIN Published = 1 .. session
  BY <1>3
<1>9. Published' = [Published EXCEPT ![session] = Append(@, Holdings(d))]
  BY <1>3, <1>4, <1>6, <1>7, <1>8, Zenon
<1>10. UNCHANGED <<Views, Questions>>
  BY <1>1, Zenon DEF Views, Questions
<1> QED
  BY <1>3, <1>5, <1>9, <1>10, Zenon DEF Promise!Publish, Contents

LEMMA RestartRestarts ==
  ASSUME Inv, LogInv, LogInv', Restart
  PROVE  Promise!Restart
<1> DEFINE d == Data(roas', aspas')
<1>1. /\ session' = session + 1 /\ session \in Nat
      /\ \A x \in 1 .. session : served'[x] = served[x]
      /\ served'[session + 1] = <<d>>
      /\ roas' \in SUBSET Roas /\ aspas' \in AspaSets
  BY SessionAssumption DEF LogInv, Sessions, Restart
<1>2. d \in Datasets
  BY <1>1, Zenon DEF Data, Datasets
<1> HIDE DEF d
<1>3. /\ Published \in Seq(Seq(Contents)) /\ Len(Published) = session
      /\ \A x \in 1 .. session : Published[x] = Shown(served[x])
  BY <1>1, PublishedLog, Zenon
<1>4. Shown(<<d>>) = <<Holdings(d)>> /\ Holdings(d) \in Contents
  BY <1>2, ShownOne, Zenon
<1> DEFINE more == Append(Published, <<Holdings(d)>>)
<1>5. /\ more = [x \in 1 .. session + 1 |-> more[x]] /\ more[session + 1] = <<Holdings(d)>>
      /\ \A x \in 1 .. session : more[x] = Published[x]
  BY <1>1, <1>3, <1>4
<1> HIDE DEF more
<1>6. ASSUME NEW x \in 1 .. session + 1
      PROVE  Shown(served'[x]) = more[x]
  <2>1. CASE x = session + 1
    BY <1>1, <1>4, <1>5, <2>1, Zenon
  <2>2. CASE x \in 1 .. session
    BY <1>1, <1>3, <1>5, <2>2, Zenon
  <2> QED
    BY <1>1, <2>1, <2>2
<1>7. Published' = more
  BY <1>1, <1>5, <1>6, Zenon DEF Published, Shown
<1>8. ASSUME NEW c \in Routers
      PROVE  router'[c].since = <<0, 0>> /\ ViewOf(router'[c]) = ViewOf(router[c])
  BY Fields, Zenon DEF Restart, Unlinked, RouterFields, ViewOf
<1> QED
  BY <1>4, <1>7, <1>8, Zenon DEF Promise!Restart, Contents, more, Views, Questions,
         Promise!None

LEMMA SameReplica ==
  ASSUME UNCHANGED <<session, served>>,
         \A c \in Routers : /\ router'[c].since = router[c].since
                            /\ ViewOf(router'[c]) = ViewOf(router[c])
  PROVE  UNCHANGED Promise!vars
BY Zenon DEF Published, Views, Questions, Promise!vars

LEMMA SameRouters ==
  ASSUME UNCHANGED <<session, served, router>>
  PROVE  UNCHANGED Promise!vars
BY SameReplica, Zenon

\* What of a router shows in the promise.
LEMMA ViewSame ==
  ASSUME NEW r, NEW s, s.version = r.version, s.tainted = r.tainted, s.session = r.session,
         s.serial = r.serial, s.data = r.data
  PROVE  ViewOf(s) = ViewOf(r)
BY Zenon DEF ViewOf

\* A question, or one that is given up.
LEMMA AskReplica ==
  ASSUME DataInv, UNCHANGED <<session, served>>, NEW c \in Routers,
         \A d \in Routers : d # c => router'[d] = router[d],
         ViewOf(router'[c]) = ViewOf(router[c]), router'[c].since \in {Now, <<0, 0>>}
  PROVE  Promise!Ask(c) \/ Promise!GiveUp(c)
BY PublishedLog, Zenon DEF Published, Views, Questions, DataInv, Promise!Ask,
       Promise!GiveUp, Promise!None

\* An answer.
LEMMA AnswerReplica ==
  ASSUME DataInv, UNCHANGED <<session, served>>, NEW c \in Routers,
         \A d \in Routers : d # c => router'[d] = router[d],
         NEW r, r = router[c], NEW s, s = router'[c],
         s.version = r.version, s.session = session, s.since = <<0, 0>>,
         Holds(s, served, session),
         r.since[1] = session, r.since[2] \in Nat, r.since[2] <= Position(s.serial),
         s.tainted => r.tainted \/ r.since # Now
  PROVE  Promise!Answer(c) \/ Promise!Raced(c)
<1> DEFINE i == Position(s.serial)
           v == <<session, i>>
           must == IF s.tainted THEN {} ELSE {Holdings(s.data)}
           d == served[session][i]
<1>1. /\ session \in Nat \ {0} /\ Len(Published) = session
      /\ Published[session] = Shown(served[session]) /\ served[session] \in Seq(Datasets)
      /\ Len(Published[session]) = Len(served[session])
      /\ Promise!Latest = Now
  BY PublishedLog DEF DataInv
<1>2. /\ s.version \in Nat /\ s.tainted \in BOOLEAN
      /\ Served(served[session], s.serial)
      /\ ~s.tainted => /\ s.data.roas = d.roas
                       /\ DOMAIN s.data.aspas = CustomersFor(s.version, d)
  BY <1>1, Zenon DEF Holds
<1>3. i \in 1 .. Len(served[session])
  BY <1>2, Zenon DEF Served
<1>4. Published[session][i] = Holdings(d)
  BY <1>1, <1>3, ShownSeq, Zenon
<1>5. Questions[c] # Promise!None /\ Promise!NotBefore(v, Questions[c])
  BY <1>1, <1>3 DEF Questions, Promise!NotBefore, Promise!None
<1>6. ViewOf(s) = [at |-> v, aspa |-> r.version >= 2, data |-> must]
  BY <1>1, Zenon DEF ViewOf
<1>7. /\ DOMAIN Views = Routers /\ Views[c] = ViewOf(r) /\ Views[c].aspa = (r.version >= 2)
      /\ Views[c].data = IF r.tainted THEN {} ELSE {Holdings(r.data)}
  BY Zenon DEF Views, ViewOf
<1> HIDE DEF v, must, d, i
<1>8. Views' = [Views EXCEPT ![c].at = v, ![c].data = must]
  <2> DEFINE At == {ViewOf(router[y]).at : y \in Routers}
             Is == {ViewOf(router[y]).data : y \in Routers}
  <2>1. Views \in [Routers -> [at : At, aspa : BOOLEAN, data : Is]]
    <3>1. ASSUME NEW y \in Routers
          PROVE  ViewOf(router[y]) \in [at : At, aspa : BOOLEAN, data : Is]
      <4>1. ViewOf(router[y]).at \in At /\ ViewOf(router[y]).data \in Is
        BY Zenon
      <4> HIDE DEF At, Is
      <4> QED
        BY <4>1 DEF ViewOf
    <3> HIDE DEF At, Is
    <3> QED
      BY <3>1, Zenon DEF Views
  <2> HIDE DEF At, Is
  <2> DEFINE g == [Views EXCEPT ![c].at = v, ![c].data = must]
  <2>2. g[c] = [at |-> v, aspa |-> Views[c].aspa, data |-> must]
    BY <2>1, Zenon
  <2>3. g = [y \in Routers |-> g[y]] /\ \A y \in Routers : y # c => g[y] = Views[y]
    BY <2>1, Zenon
  <2> HIDE DEF g
  <2> QED
    BY <1>6, <1>7, <2>2, <2>3 DEF g, Views
<1>9. Promise!Moves(c, v, must)
  BY <1>5, <1>8, Zenon DEF Promise!Moves, Published, Questions, Promise!None
<1>10. session \in 1 .. Len(Published) /\ i \in 1 .. Len(Published[session])
  BY <1>1, <1>3
<1>11. CASE s.tainted
  BY <1>1, <1>7, <1>9, <1>10, <1>11, Zenon DEF must, Questions, Promise!Raced, v
<1>12. CASE ~s.tainted
  <2>1. Holdings(s.data) = [roas |-> d.roas, customers |-> CustomersFor(s.version, d)]
    BY <1>2, <1>12, Zenon DEF Holdings
  <2>2. Promise!Visible(c, Published[session][i])
          = IF r.version >= 2 THEN Holdings(d) ELSE [Holdings(d) EXCEPT !.customers = {}]
    BY <1>4, <1>7, Zenon DEF Promise!Visible
  <2>3. ASSUME r.version >= 2
        PROVE  Holdings(s.data) = Promise!Visible(c, Published[session][i])
    BY <1>2, <2>1, <2>2, <2>3 DEF CustomersFor, Holdings
  <2>4. ASSUME ~(r.version >= 2)
        PROVE  Holdings(s.data) = Promise!Visible(c, Published[session][i])
    <3>1. [Holdings(d) EXCEPT !.customers = {}] = [roas |-> d.roas, customers |-> {}]
      BY DEF Holdings
    <3> QED
      BY <1>2, <2>1, <2>2, <2>4, <3>1 DEF CustomersFor
  <2> QED
    BY <1>9, <1>10, <1>12, <2>3, <2>4, Zenon DEF Promise!Answer, v, must
<1> QED
  BY <1>2, <1>11, <1>12, Zenon

LEMMA InitReplica == Init => Promise!Init
<1> SUFFICES ASSUME Init PROVE Promise!Init
  BY Zenon
<1> DEFINE d == Data(roas, aspas)
<1>1. d \in Datasets
  BY Zenon DEF Init, CacheInit, Data, Datasets
<1> HIDE DEF d
<1>2. session = 1 /\ served[1] = <<d>>
  BY SessionAssumption DEF Init, d, Sessions
<1>3. Shown(<<d>>) = <<Holdings(d)>> /\ Holdings(d) \in Contents
  BY <1>1, ShownOne, Zenon
<1>4. Published = << <<Holdings(d)>> >>
  BY <1>2, <1>3 DEF Published, Shown
<1>5. ASSUME NEW c \in Routers
      PROVE  /\ router[c].since = <<0, 0>>
             /\ ViewOf(router[c]) \in [at : {Promise!None}, aspa : BOOLEAN,
                                       data : {{[roas |-> {}, customers |-> {}]}}]
  <2>1. PICK v \in Versions : router[c] = NewRouter(v)
    BY Zenon DEF Init
  <2>2. /\ router[c].since = <<0, 0>> /\ router[c].tainted = FALSE /\ router[c].session = 0
        /\ router[c].data = Empty
    BY <2>1 DEF NewRouter
  <2> QED
    BY <2>2 DEF Promise!None, ViewOf, Empty, Data, Holdings
<1> QED
  BY <1>3, <1>4, <1>5, Zenon DEF Promise!Init, Contents, Views, Questions, Promise!None

\* What a handler or a notifier does shows in no router, until it receives it.
LEMMA HandlerReplica ==
  ASSUME NEW c \in Routers, Handler(c) \/ ReadFails(c) \/ Dial(c) \/ Blunder(c)
         \/ \E n \in 1 .. MaxUpdates : NotifyNext(n, c) \/ NotifyWrite(n, c)
  PROVE  UNCHANGED <<session, served>>
BY Zenon DEF Handler, handleConnection, Deregister, WritePDU, Negotiate, ReadFails,
       ReadMalformed, ReadVersionMismatch, ReadUnexpected, ReadResetQuery, ReadSerialQuery,
       Reads, AnswerSerialQuery, LockWriteMu, WriteError, Return, Dial, Blunder, NotifyNext,
       NotifyWrite, handlerOnly, routerOnly, updateVars

LEMMA HandlerRouters ==
  ASSUME NEW c \in Routers, Handler(c) \/ ReadFails(c)
         \/ \E n \in 1 .. MaxUpdates : NotifyNext(n, c) \/ NotifyWrite(n, c)
  PROVE  UNCHANGED router
BY Zenon DEF Handler, handleConnection, Deregister, WritePDU, Negotiate, ReadFails,
       ReadMalformed, ReadVersionMismatch, ReadUnexpected, ReadResetQuery, ReadSerialQuery,
       Reads, AnswerSerialQuery, LockWriteMu, WriteError, Return, NotifyNext, NotifyWrite,
       handlerOnly
-----------------------------------------------------------------------------
(* What follows from the promise of module Replica, for the state of this one. *)

\* The order of versions is transitive.
LEMMA OrderTransitive ==
  ASSUME NEW u \in Promise!Position, NEW v \in Promise!Position, NEW w \in Promise!Position,
         Promise!NotBefore(u, v), Promise!NotBefore(v, w)
  PROVE  Promise!NotBefore(u, w)
BY DEF Promise!Position, Promise!NotBefore

\* A version in the Published is not after the latest.
LEMMA LoggedBeforeLatest ==
  ASSUME Promise!ReplicaTypeOK, NEW e \in 1 .. Len(Published), NEW i \in 1 .. Len(Published[e])
  PROVE  <<e, i>> \in Promise!Position /\ Promise!Latest \in Promise!Position /\ Promise!NotBefore(Promise!Latest, <<e, i>>)
BY DEF Promise!ReplicaTypeOK, Promise!Position, Promise!Latest, Promise!NotBefore

\* The Published only grows: Promise!Latest is not before what it was, and a version keeps its data.
LEMMA PublishedGrows ==
  ASSUME Promise!ReplicaTypeOK, Promise!Publish \/ Promise!Restart
  PROVE  /\ Published' \in Seq(Seq(Contents)) /\ Len(Published') >= 1
         /\ \A e \in 1 .. Len(Published') : Len(Published'[e]) >= 1
         /\ Promise!Latest \in Promise!Position /\ Promise!Latest' \in Promise!Position /\ Promise!NotBefore(Promise!Latest', Promise!Latest)
         /\ \A e \in 1 .. Len(Published) : \A i \in 1 .. Len(Published[e]) :
              /\ e \in 1 .. Len(Published') /\ i \in 1 .. Len(Published'[e])
              /\ Published'[e][i] = Published[e][i]
<1>1. Len(Published) \in Nat /\ Len(Published) >= 1 /\ Published \in Seq(Seq(Contents))
  BY DEF Promise!ReplicaTypeOK
<1>2. \A e \in 1 .. Len(Published) : Published[e] \in Seq(Contents) /\ Len(Published[e]) \in Nat
  BY <1>1
<1>3. Promise!Latest \in Promise!Position
  BY <1>1, <1>2 DEF Promise!Latest, Promise!Position
<1>4. CASE Promise!Publish
  <2>1. PICK d \in Contents : Published' = [Published EXCEPT ![Len(Published)] = Append(@, d)]
    BY <1>4, Zenon DEF Promise!Publish
  <2> DEFINE last == Published[Len(Published)]
             more == Append(last, d)
  <2>2. /\ more \in Seq(Contents) /\ Len(more) = Len(last) + 1
        /\ \A i \in 1 .. Len(last) : more[i] = last[i]
    BY <1>1, <1>2
  <2> HIDE DEF more
  <2>3. /\ Published' \in Seq(Seq(Contents)) /\ Len(Published') = Len(Published) /\ Published'[Len(Published)] = more
        /\ \A e \in 1 .. Len(Published) : e # Len(Published) => Published'[e] = Published[e]
    BY <1>1, <2>1, <2>2 DEF more
  <2>4. \A e \in 1 .. Len(Published) : \A i \in 1 .. Len(Published[e]) :
          i \in 1 .. Len(Published'[e]) /\ Published'[e][i] = Published[e][i]
    <3> SUFFICES ASSUME NEW e \in 1 .. Len(Published), NEW i \in 1 .. Len(Published[e])
                 PROVE  i \in 1 .. Len(Published'[e]) /\ Published'[e][i] = Published[e][i]
      BY Zenon
    <3>1. CASE e = Len(Published)
      BY <1>1, <1>2, <2>2, <2>3, <3>1
    <3>2. CASE e # Len(Published)
      BY <2>3, <3>2, Zenon
    <3> QED
      BY <3>1, <3>2, Zenon
  <2>5. ASSUME NEW e \in 1 .. Len(Published')
        PROVE  Len(Published'[e]) >= 1
    <3>1. CASE e = Len(Published)
      BY <1>1, <1>2, <2>2, <2>3, <3>1
    <3>2. CASE e # Len(Published)
      BY <2>3, <3>2, Zenon DEF Promise!ReplicaTypeOK
    <3> QED
      BY <3>1, <3>2, Zenon
  <2> QED
    BY <1>1, <1>2, <1>3, <2>2, <2>3, <2>4, <2>5 DEF Promise!Latest, Promise!Position,
           Promise!NotBefore
<1>5. CASE Promise!Restart
  <2>1. PICK d \in Contents : Published' = Append(Published, <<d>>)
    BY <1>5, Zenon DEF Promise!Restart
  <2>2. <<d>> \in Seq(Contents) /\ Len(<<d>>) = 1
    OBVIOUS
  <2>3. /\ Published' \in Seq(Seq(Contents)) /\ Len(Published') = Len(Published) + 1
        /\ Published'[Len(Published) + 1] = <<d>>
        /\ \A e \in 1 .. Len(Published) : Published'[e] = Published[e]
    BY <1>1, <2>1, <2>2
  <2>4. \A e \in 1 .. Len(Published') : Len(Published'[e]) >= 1
    <3> SUFFICES ASSUME NEW e \in 1 .. Len(Published) + 1
                 PROVE  Len(Published'[e]) >= 1
      BY <2>3, Zenon
    <3>1. CASE e = Len(Published) + 1
      <4>1. Published'[e] = <<d>>
        BY <2>3, <3>1, Zenon
      <4> QED
        BY <2>2, <4>1
    <3>2. CASE e \in 1 .. Len(Published)
      BY <2>3, <3>2, Zenon DEF Promise!ReplicaTypeOK
    <3> QED
      BY <1>1, <3>1, <3>2
  <2> QED
    BY <1>1, <1>3, <2>2, <2>3, <2>4 DEF Promise!Latest, Promise!Position, Promise!NotBefore
<1> QED
  BY <1>4, <1>5, Zenon

\* The first version is published and no router is at one.
LEMMA PromiseInit == Promise!Init => Promise!ReplicaInv
<1> SUFFICES ASSUME Promise!Init PROVE Promise!ReplicaInv
  BY Zenon
<1>1. PICK d \in Contents : Published = << <<d>> >>
  BY Zenon DEF Promise!Init
<1>2. <<d>> \in Seq(Contents) /\ Len(<<d>>) = 1
  OBVIOUS
<1>3. Published \in Seq(Seq(Contents)) /\ Len(Published) = 1 /\ Published[1] = <<d>>
  BY <1>1, <1>2
<1>4. Promise!None \in Promise!Position
  BY Zenon DEF Promise!None, Promise!Position
<1>5. \A c \in Routers : /\ Views[c] \in [at : Promise!Position, aspa : BOOLEAN, data : SUBSET Promise!Shown]
                          /\ Views[c].at = Promise!None /\ Views[c].data = {Promise!Nothing}
  BY <1>4, Zenon DEF Promise!Init, Promise!Nothing, Promise!Shown
<1>6. Promise!ReplicaTypeOK
  BY <1>2, <1>3, <1>4, <1>5 DEF Promise!Init, Promise!ReplicaTypeOK
<1> QED
  BY <1>2, <1>3, <1>5, <1>6 DEF Promise!ReplicaInv, Promise!HoldsPublished, Promise!Matches,
         Promise!Latest, Promise!NotBefore, Promise!None, Promise!Init, Promise!Ordered

\* An answer takes a router on, to a version of the Published.
LEMMA PromiseMoves ==
  ASSUME Promise!ReplicaInv, NEW c \in Routers, NEW e \in 1 .. Len(Published), NEW i \in 1 .. Len(Published[e]),
         NEW must \in {{}, {Promise!Visible(c, Published[e][i])}}, Promise!Moves(c, <<e, i>>, must)
  PROVE  Promise!ReplicaInv' /\ Promise!NotBack
<1> DEFINE v == <<e, i>>
<1>1. /\ v \in Promise!Position /\ Promise!Latest \in Promise!Position /\ Promise!NotBefore(Promise!Latest, v)
  BY LoggedBeforeLatest, Zenon DEF Promise!ReplicaInv
<1>2. /\ Questions[c] # Promise!None /\ Promise!NotBefore(v, Questions[c])
      /\ Questions' = [Questions EXCEPT ![c] = Promise!None]
      /\ Views' = [Views EXCEPT ![c].at = v, ![c].data = must]
      /\ Published' = Published
  BY Zenon DEF Promise!Moves
<1>3. /\ Views \in [Routers -> [at : Promise!Position, aspa : BOOLEAN, data : SUBSET Promise!Shown]]
      /\ Questions \in [Routers -> Promise!Position]
  BY Zenon DEF Promise!ReplicaInv, Promise!ReplicaTypeOK
<1>4. must \in SUBSET Promise!Shown
  BY DEF Promise!Visible, Promise!Shown, Promise!ReplicaInv, Promise!ReplicaTypeOK
<1>5. /\ Views'[c] = [at |-> v, aspa |-> Views[c].aspa, data |-> must]
      /\ \A x \in Routers : x # c => Views'[x] = Views[x]
  BY <1>2, <1>3, Zenon
<1>6. /\ Questions'[c] = Promise!None /\ \A x \in Routers : x # c => Questions'[x] = Questions[x]
      /\ Questions' \in [Routers -> Promise!Position]
  BY <1>2, <1>3, Zenon DEF Promise!None, Promise!Position
<1>7. Views' \in [Routers -> [at : Promise!Position, aspa : BOOLEAN, data : SUBSET Promise!Shown]]
  BY <1>1, <1>2, <1>3, <1>4, Zenon
<1>8. \A x \in Routers : Views[x].at \in Promise!Position /\ Promise!NotBefore(Views[x].at, Views[x].at)
  BY <1>3 DEF Promise!Position, Promise!NotBefore
<1>9. Promise!NotBack
  BY <1>1, <1>2, <1>3, <1>5, <1>8, OrderTransitive DEF Promise!NotBack, Promise!ReplicaInv,
         Promise!Ordered
<1>10. Promise!Ordered'
  <2>1. Promise!Latest' = Promise!Latest
    BY <1>2, Zenon DEF Promise!Latest
  <2> SUFFICES ASSUME NEW x \in Routers
               PROVE  /\ Promise!NotBefore(Promise!Latest, Views'[x].at)
                      /\ Questions'[x] # Promise!None => Promise!NotBefore(Questions'[x], Views'[x].at)
    BY <2>1, Zenon DEF Promise!Ordered
  <2>2. CASE x = c
    BY <1>1, <1>5, <1>6, <2>2
  <2>3. CASE x # c
    BY <1>5, <1>6, <2>3, Zenon DEF Promise!ReplicaInv, Promise!Ordered
  <2> QED
    BY <2>2, <2>3, Zenon
<1>11. Promise!HoldsPublished'
  <2> SUFFICES ASSUME NEW x \in Routers
               PROVE  Promise!Matches(Published, Views'[x])
    BY <1>2, Zenon DEF Promise!HoldsPublished
  <2>1. CASE x = c
    <3>1. Promise!Logged(Published, v) /\ v[1] = e /\ v[2] = i
      BY Zenon DEF Promise!Logged
    <3>2. must = {} \/ must = {Promise!Shows(Views[c].aspa, Published[e][i])}
      BY Zenon DEF Promise!Visible, Promise!Shows
    <3> HIDE DEF v
    <3> QED
      BY <1>5, <2>1, <3>1, <3>2 DEF Promise!Matches
  <2>2. CASE x # c
    BY <1>5, <2>2, Zenon DEF Promise!ReplicaInv, Promise!HoldsPublished
  <2> QED
    BY <2>1, <2>2, Zenon
<1> QED
  BY <1>2, <1>6, <1>7, <1>9, <1>10, <1>11, Zenon DEF Promise!ReplicaInv,
         Promise!ReplicaTypeOK

\* Publishing and restarting move no router and forget no version.
LEMMA PromiseGrows ==
  ASSUME Promise!ReplicaInv, Promise!Publish \/ Promise!Restart
  PROVE  Promise!ReplicaInv' /\ Promise!NotBack
<1>1. Views' = Views /\ (Questions' = Questions \/ Questions' = [c \in Routers |-> Promise!None])
  BY Zenon DEF Promise!Publish, Promise!Restart
<1>2. /\ Views \in [Routers -> [at : Promise!Position, aspa : BOOLEAN, data : SUBSET Promise!Shown]]
      /\ Questions \in [Routers -> Promise!Position]
      /\ Questions' \in [Routers -> Promise!Position]
  <2>1. Promise!None \in Promise!Position
    BY Zenon DEF Promise!None, Promise!Position
  <2> QED
    BY <1>1, <2>1, Zenon DEF Promise!ReplicaInv, Promise!ReplicaTypeOK
<1>3. \A c \in Routers : Views[c].at \in Promise!Position /\ Promise!NotBefore(Views[c].at, Views[c].at)
  BY <1>2 DEF Promise!Position, Promise!NotBefore
<1>4. Promise!Ordered'
  <2> SUFFICES ASSUME NEW c \in Routers
               PROVE  /\ Promise!NotBefore(Promise!Latest', Views[c].at)
                      /\ Questions'[c] # Promise!None => Promise!NotBefore(Questions'[c], Views[c].at)
    BY <1>1, Zenon DEF Promise!Ordered
  <2> QED
    BY <1>1, <1>3, PublishedGrows, OrderTransitive, Zenon DEF Promise!ReplicaInv,
           Promise!Ordered
<1>5. Promise!HoldsPublished'
  <2> SUFFICES ASSUME NEW c \in Routers
               PROVE  Promise!Matches(Published', Views[c])
    BY <1>1, Zenon DEF Promise!HoldsPublished
  <2> DEFINE v == Views[c].at
  <2>1. Promise!Logged(Published, v) => Promise!Logged(Published', v) /\ Published'[v[1]][v[2]] = Published[v[1]][v[2]]
    BY PublishedGrows, Zenon DEF Promise!ReplicaInv, Promise!Logged
  <2> QED
    BY <2>1, Zenon DEF Promise!Matches, Promise!ReplicaInv, Promise!HoldsPublished
<1> QED
  BY <1>1, <1>2, <1>3, <1>4, <1>5, PublishedGrows, Zenon DEF Promise!ReplicaInv,
         Promise!ReplicaTypeOK, Promise!NotBack

\* Every step keeps the invariant and takes no router back.
LEMMA PromiseNext ==
  ASSUME Promise!ReplicaInv, [Promise!Next]_(Promise!vars)
  PROVE  Promise!ReplicaInv' /\ [Promise!NotBack]_(Promise!vars)
<1>1. CASE Promise!Publish \/ Promise!Restart
  BY <1>1, PromiseGrows, Zenon
<1>2. ASSUME NEW c \in Routers, Promise!Ask(c) \/ Promise!GiveUp(c)
      PROVE  Promise!ReplicaInv' /\ Promise!NotBack
  <2>1. /\ Published' = Published /\ Views' = Views
        /\ Questions' \in {[Questions EXCEPT ![c] = Promise!Latest], [Questions EXCEPT ![c] = Promise!None]}
    BY <1>2, Zenon DEF Promise!Ask, Promise!GiveUp
  <2>2. Promise!Latest \in Promise!Position /\ Promise!None \in Promise!Position
    BY DEF Promise!ReplicaInv, Promise!ReplicaTypeOK, Promise!Latest, Promise!None,
           Promise!Position
  <2>3. Promise!ReplicaTypeOK'
    BY <2>1, <2>2, Zenon DEF Promise!ReplicaInv, Promise!ReplicaTypeOK
  <2>4. \A x \in Routers : Questions'[x] \in {Questions[x], Promise!Latest, Promise!None}
    BY <2>1, Zenon DEF Promise!ReplicaInv, Promise!ReplicaTypeOK
  <2>5. Promise!NotBack
    BY <2>1 DEF Promise!ReplicaInv, Promise!ReplicaTypeOK, Promise!NotBack,
           Promise!NotBefore, Promise!Position
  <2> QED
    BY <2>1, <2>3, <2>4, <2>5, Zenon DEF Promise!ReplicaInv, Promise!HoldsPublished,
           Promise!Ordered, Promise!Latest
<1>3. ASSUME NEW c \in Routers, Promise!Answer(c) \/ Promise!Raced(c)
      PROVE  Promise!ReplicaInv' /\ Promise!NotBack
  BY <1>3, PromiseMoves, Zenon DEF Promise!Answer, Promise!Raced
<1>4. CASE UNCHANGED Promise!vars
  BY <1>4, Zenon DEF Promise!vars, Promise!ReplicaInv, Promise!ReplicaTypeOK,
                     Promise!Ordered, Promise!Latest, Promise!HoldsPublished
<1> QED
  BY <1>1, <1>2, <1>3, <1>4, Zenon DEF Promise!Next
=============================================================================
