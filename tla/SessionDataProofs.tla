------------------------- MODULE SessionDataProofs -------------------------
(***************************************************************************)
(* What a response amounts to, on its way from the cache to a router: the  *)
(* steps of module Session keep that what is still on the wire and in the  *)
(* reply of the handler, added to what the router has of it already, gives *)
(* the data of the serial that its End of Data will carry.                 *)
(*                                                                         *)
(* That there is one response at a time, and whole, is Inv of module       *)
(* SessionInv; that the diffs are right when they are read is CacheExact.  *)
(***************************************************************************)
EXTENDS SessionInv, TLAPS
-----------------------------------------------------------------------------
(* PDUs as sets. *)

LEMMA ElemsShort ==
  /\ IsSeq(<<>>) /\ Elems(<<>>) = {}
  /\ \A x : IsSeq(<<x>>) /\ Len(<<x>>) = 1 /\ <<x>>[1] = x /\ Elems(<<x>>) = {x}
<1>1. ASSUME NEW x
      PROVE  IsSeq(<<x>>) /\ Len(<<x>>) = 1 /\ <<x>>[1] = x /\ Elems(<<x>>) = {x}
  <2>1. <<x>> \in Seq({x}) /\ Len(<<x>>) = 1 /\ <<x>>[1] = x
    OBVIOUS
  <2>2. IsSeq(<<x>>)
    BY <2>1, Zenon DEF IsSeq
  <2> QED
    BY <2>2 DEF Elems
<1> QED
  BY <1>1 DEF IsSeq, Elems

LEMMA ElemsJoin ==
  ASSUME NEW s, NEW t, IsSeq(s), IsSeq(t)
  PROVE  /\ IsSeq(s \o t) /\ Len(s) \in Nat /\ Len(s \o t) = Len(s) + Len(t)
         /\ \A i \in 1 .. Len(s) : (s \o t)[i] = s[i]
         /\ \A i \in 1 .. Len(t) : (s \o t)[Len(s) + i] = t[i]
         /\ Elems(s \o t) = Elems(s) \cup Elems(t)
<1> DEFINE u == s \o t
<1>1. /\ Len(s) \in Nat /\ Len(t) \in Nat /\ IsSeq(u) /\ Len(u) = Len(s) + Len(t)
      /\ \A i \in 1 .. Len(s) : u[i] = s[i]
      /\ \A i \in 1 .. Len(t) : u[Len(s) + i] = t[i]
  <2>1. PICK S : s \in Seq(S)
    BY Zenon DEF IsSeq
  <2>2. PICK T : t \in Seq(T)
    BY Zenon DEF IsSeq
  <2>3. u \in Seq(S \cup T)
    BY <2>1, <2>2
  <2> QED
    BY <2>3 DEF IsSeq
<1> HIDE DEF u
<1>2. \A i \in 1 .. Len(u) : i \in 1 .. Len(s) \/ \E j \in 1 .. Len(t) : i = Len(s) + j
  <2>1. ASSUME NEW i \in 1 .. Len(u), i \notin 1 .. Len(s)
        PROVE  i - Len(s) \in 1 .. Len(t) /\ i = Len(s) + (i - Len(s))
    BY <1>1, <2>1
  <2> QED
    BY <2>1, Zenon
<1>3. ASSUME NEW i \in 1 .. Len(u)
      PROVE  u[i] \in Elems(s) \cup Elems(t)
  <2>1. CASE i \in 1 .. Len(s)
    BY <1>1, <2>1, Zenon DEF Elems
  <2>2. CASE \E j \in 1 .. Len(t) : i = Len(s) + j
    BY <1>1, <2>2, Zenon DEF Elems
  <2> QED
    BY <1>2, <2>1, <2>2, Zenon
<1>4. Elems(u) \subseteq Elems(s) \cup Elems(t)
  BY <1>3, Zenon DEF Elems
<1> QED
  BY <1>1, <1>4 DEF u, Elems

LEMMA ElemsAppend ==
  ASSUME NEW s, IsSeq(s), NEW p
  PROVE  /\ IsSeq(s \o <<p>>) /\ Len(s) \in Nat /\ Len(s \o <<p>>) = Len(s) + 1
         /\ \A i \in 1 .. Len(s) : (s \o <<p>>)[i] = s[i]
         /\ (s \o <<p>>)[Len(s) + 1] = p
         /\ Elems(s \o <<p>>) = Elems(s) \cup {p}
<1> DEFINE t == <<p>>
<1> HIDE DEF t
<1> QED
  BY ElemsShort, ElemsJoin DEF t

LEMMA ElemsTail ==
  ASSUME NEW s, IsSeq(s), Len(s) >= 1
  PROVE  /\ IsSeq(Tail(s)) /\ Len(s) \in Nat /\ Len(Tail(s)) = Len(s) - 1 /\ Head(s) = s[1]
         /\ \A i \in 1 .. Len(s) - 1 : Tail(s)[i] = s[i + 1]
         /\ Elems(s) = {Head(s)} \cup Elems(Tail(s))
<1> DEFINE t == Tail(s)
<1>1. /\ Len(s) \in Nat /\ Len(t) = Len(s) - 1 /\ Head(s) = s[1] /\ IsSeq(t)
      /\ \A i \in 1 .. Len(s) - 1 : t[i] = s[i + 1]
  <2>1. PICK S : s \in Seq(S)
    BY Zenon DEF IsSeq
  <2> QED
    BY DEF IsSeq
<1> HIDE DEF t
<1>2. \A i \in 1 .. Len(s) : i = 1 \/ \E j \in 1 .. Len(t) : i = j + 1
  BY <1>1
<1>3. 1 \in 1 .. Len(s) /\ \A j \in 1 .. Len(t) : j + 1 \in 1 .. Len(s) /\ t[j] = s[j + 1]
  BY <1>1
<1>4. ASSUME NEW i \in 1 .. Len(s)
      PROVE  s[i] \in {Head(s)} \cup Elems(t)
  BY <1>2, <1>3 DEF Elems
<1> QED
  BY <1>1, <1>3, <1>4 DEF t, Elems

\* The net contents of a set of PDUs.
Nets(S, a, d, aa, da) ==
  Adds(S) = a /\ Dels(S) = d /\ AddsAspa(S) = aa /\ DelsAspa(S) = da

Payloads == {"Announce", "Withdraw", "AnnounceAspa", "WithdrawAspa"}

LEMMA NetsNothing ==
  ASSUME NEW S, \A p \in S : p.type \notin Payloads
  PROVE  Nets(S, {}, {}, {}, {})
BY Zenon DEF Nets, Adds, Dels, AddsAspa, DelsAspa, Of, Payloads

LEMMA NetsJoin ==
  ASSUME NEW S, NEW T
  PROVE  /\ Adds(S \cup T) = Adds(S) \cup Adds(T) /\ Dels(S \cup T) = Dels(S) \cup Dels(T)
         /\ AddsAspa(S \cup T) = AddsAspa(S) \cup AddsAspa(T)
         /\ DelsAspa(S \cup T) = DelsAspa(S) \cup DelsAspa(T)
BY Zenon DEF Of, Adds, Dels, AddsAspa, DelsAspa

LEMMA NetsOne ==
  ASSUME NEW p
  PROVE  /\ p.type = "Announce" => Nets({p}, p.roas, {}, {}, {})
         /\ p.type = "Withdraw" => Nets({p}, {}, p.roas, {}, {})
         /\ p.type = "AnnounceAspa" => Nets({p}, {}, {}, DOMAIN p.aspas, {})
         /\ p.type = "WithdrawAspa" => Nets({p}, {}, {}, {}, DOMAIN p.aspas)
BY Zenon DEF Nets, Adds, Dels, AddsAspa, DelsAspa, Of

LEMMA QuietMore ==
  ASSUME NEW S, NEW T, AllQuiet(T)
  PROVE  /\ AllQuiet(S) <=> AllQuiet(S \cup T)
         /\ Adds(S \cup T) = Adds(S) /\ Dels(S \cup T) = Dels(S)
         /\ AddsAspa(S \cup T) = AddsAspa(S) /\ DelsAspa(S \cup T) = DelsAspa(S)
         /\ Of(S \cup T, "EndOfData") = Of(S, "EndOfData")
<1>1. /\ Adds(S \cup T) = Adds(S) /\ Dels(S \cup T) = Dels(S)
      /\ AddsAspa(S \cup T) = AddsAspa(S) /\ DelsAspa(S \cup T) = DelsAspa(S)
  <2>1. Adds(T) = {} /\ Dels(T) = {} /\ AddsAspa(T) = {} /\ DelsAspa(T) = {}
    BY NetsNothing, Zenon DEF Nets, AllQuiet, Quiet, Payloads
  <2>2. Adds(S \cup T) = Adds(S) \cup Adds(T) /\ Dels(S \cup T) = Dels(S) \cup Dels(T)
    BY NetsJoin, Zenon
  <2>3. /\ AddsAspa(S \cup T) = AddsAspa(S) \cup AddsAspa(T)
        /\ DelsAspa(S \cup T) = DelsAspa(S) \cup DelsAspa(T)
    BY NetsJoin, Zenon
  <2> QED
    BY <2>1, <2>2, <2>3, Zenon
<1> QED
  BY <1>1, Zenon DEF Of, AllQuiet, Quiet

\* Quiet PDUs make no difference to what a response leads to.
LEMMA QuietPending ==
  ASSUME NEW S, NEW T, AllQuiet(T), NEW r, NEW log, NEW x
  PROVE  Pending(S, r, log, x) <=> Pending(S \cup T, r, log, x)
BY QuietMore, Zenon DEF Leads, Answers, Pending

LEMMA QuietNone ==
  ASSUME NEW S, AllQuiet(S), NEW r, NEW log, NEW x
  PROVE  Pending(S, r, log, x)
BY Zenon DEF Pending, Of, AllQuiet, Quiet
-----------------------------------------------------------------------------
(* What a step does to one connection. *)

LEMMA ServedGrows ==
  ASSUME NEW log, NEW more, Grows(log, more), NEW s, Served(log, s)
  PROVE  Served(more, s) /\ more[Position(s)] = log[Position(s)]
<1> DEFINE n == Position(s)
<1> HIDE DEF n
<1> QED
  BY DEF Served, n, Grows

LEMMA ConversesGrows ==
  ASSUME NEW w, NEW k, NEW q, NEW r, NEW log, NEW x, Converses(w, k, q, r, log, x),
         NEW more, Grows(log, more)
  PROVE  Converses(w, k, q, r, more, x)
<1>1. \A s : Served(log, s) => Served(more, s)
  BY ServedGrows, Zenon
<1>2. ASSUME NEW S, NEW e, Answers(r, S, log, x, e)
      PROVE  Answers(r, S, more, x, e)
  BY <1>1, <1>2, ServedGrows DEF Answers
<1> QED
  BY <1>1, <1>2 DEF Converses, Pending, Awaits, Grows

LEMMA HoldsGrows ==
  ASSUME NEW r, NEW sv, NEW tv, NEW x \in Nat, NEW z \in Nat, x <= z,
         \A y \in 1 .. x : Grows(sv[y], tv[y]), Holds(r, sv, x)
  PROVE  Holds(r, tv, z)
BY ServedGrows DEF Holds

\* The handler goes on, with the same reply.
LEMMA ConversesMoves ==
  ASSUME NEW w, NEW k, NEW q, NEW r, NEW log, NEW x, Converses(w, k, q, r, log, x),
         NEW l, l.reply = k.reply, l.version = k.version,
         l.pc # "diffs" \/ (l.pc = k.pc /\ l.query = k.query /\ l.state = k.state)
  PROVE  Converses(w, l, q, r, log, x)
BY Zenon DEF InFlight, Converses, Awaits, Unanswered

\* It had no reply, and has at most an Error Report; it may have read a PDU.
LEMMA ConversesQuiet ==
  ASSUME NEW w, NEW k, NEW q, NEW r, NEW log, NEW x, Converses(w, k, q, r, log, x),
         k.reply = <<>>, NEW l, AllQuiet(Elems(l.reply)), l.pc # "diffs",
         l.version = k.version \/ l.version = r.version, NEW p, p = q \/ p = <<>>
  PROVE  Converses(w, l, p, r, log, x)
<1> DEFINE S == InFlight(w, k)
           T == InFlight(w, l)
           E == Elems(l.reply)
<1>1. T = S \cup E
  BY ElemsShort, Zenon DEF InFlight
<1>2. Pending(S, r, log, x) /\ (Unanswered(k, q, r) => AllQuiet(S) /\ r.stage = <<>>)
  BY Zenon DEF Converses
<1> HIDE DEF S, T, E
<1>3. Pending(T, r, log, x) /\ (AllQuiet(S) => AllQuiet(T))
  BY <1>1, <1>2, QuietPending, QuietMore, Zenon DEF E
<1> QED
  BY <1>2, <1>3, Zenon DEF Converses, T, Awaits, Unanswered, Closing

\* It answers the query that r has sent.
LEMMA ConversesResponds ==
  ASSUME NEW w, NEW k, NEW q, NEW r, NEW log, NEW x, Converses(w, k, q, r, log, x),
         Unanswered(k, q, r), r.asked \in {"reset", "serial"},
         NEW l, l.pc # "diffs", l.version = k.version, Pending(Elems(l.reply), r, log, x)
  PROVE  Converses(w, l, <<>>, r, log, x)
<1>1. AllQuiet(Elems(w))
  BY Zenon DEF Converses, InFlight, AllQuiet
<1>2. Closing(w, l.reply)
  BY <1>1, Zenon DEF Closing, Elems, AllQuiet, Quiet, Ends
<1> QED
  BY <1>1, <1>2, QuietPending DEF Converses, Awaits, Unanswered, InFlight

LEMMA ClosingWrites ==
  ASSUME NEW w, IsSeq(w), NEW p, NEW reply, NEW rest, Closing(w, reply),
         AllQuiet(Elems(reply)) => AllQuiet(Elems(rest)) /\ Quiet(p),
         Ends(p) => AllQuiet(Elems(rest)), NEW v, v = w \o <<p>>
  PROVE  Closing(v, rest)
BY DEF Closing

\* It writes the next PDU of its reply.
LEMMA ConversesWrites ==
  ASSUME NEW w, NEW k, NEW q, NEW r, NEW log, NEW x, Converses(w, k, q, r, log, x),
         IsSeq(w), IsReply(k.reply), Len(k.reply) >= 1, k.pc # "diffs",
         NEW l, l.version = k.version, l.pc # "diffs",
         \/ Len(k.reply) = 1 /\ l.reply = <<>>
         \/ Len(k.reply) # 1 /\ l.reply = Tail(k.reply),
         NEW p, p = Head(k.reply)
  PROVE  Converses(w \o <<p>>, l, q, r, log, x)
<1> DEFINE v == w \o <<p>>
<1>1. Elems(k.reply) = {p} \cup Elems(l.reply)
  <2>1. Elems(k.reply) = {p} \cup Elems(Tail(k.reply))
    BY ElemsTail, Zenon DEF IsReply, IsPdus
  <2>2. CASE Len(k.reply) # 1 /\ l.reply = Tail(k.reply)
    BY <2>1, <2>2, Zenon
  <2>3. CASE Len(k.reply) = 1 /\ l.reply = <<>>
    BY <2>1, <2>3, ElemsShort DEF Elems
  <2> QED
    BY <2>2, <2>3, Zenon
<1>2. InFlight(v, l) = InFlight(w, k)
  BY <1>1, ElemsAppend DEF InFlight
<1>3. Ends(p) => l.reply = <<>>
  <2> DEFINE n == Len(k.reply)
  <2>1. n \in Nat /\ n >= 1 /\ p = k.reply[1]
    OBVIOUS
  <2>2. \A i \in 1 .. n : Opens(k.reply[i]) <=> i < n
    BY Zenon DEF IsReply
  <2>3. n # 1 => Opens(p)
    <3> HIDE DEF n
    <3> QED
      BY <2>1, <2>2
  <2> QED
    BY <2>3, Zenon DEF n, Opens, Ends
<1>4. Closing(v, l.reply)
  BY <1>1, <1>3, ElemsShort, ClosingWrites, Zenon DEF Converses, AllQuiet
<1> QED
  BY <1>2, <1>4, Zenon DEF Converses, Awaits, Unanswered

\* It drops the rest of its reply.
LEMMA ConversesDrops ==
  ASSUME NEW w, NEW k, NEW q, NEW r, NEW log, NEW x, Converses(w, k, q, r, log, x),
         NEW l, l.reply = <<>>, l.version = k.version, l.pc # "diffs"
  PROVE  Converses(w, l, q, r, log, x)
<1>1. InFlight(w, l) = Elems(w)
  BY ElemsShort, Zenon DEF InFlight
<1>2. Unanswered(l, q, r) => AllQuiet(Elems(w)) /\ r.stage = <<>>
  BY Zenon DEF Unanswered, AllQuiet, InFlight, Converses
<1>3. Pending(Elems(w), r, log, x)
  <2>1. CASE Of(Elems(w), "EndOfData") = {}
    BY <2>1, Zenon DEF Pending
  <2>2. CASE Of(Elems(w), "EndOfData") # {}
    <3>1. AllQuiet(Elems(k.reply))
      BY <2>2, Zenon DEF Converses, Closing, Of, Elems, Ends
    <3> QED
      BY <3>1, QuietPending, Zenon DEF Converses, InFlight
  <2> QED
    BY <2>1, <2>2, Zenon
<1> QED
  BY <1>1, <1>2, <1>3, ElemsShort, Zenon DEF Converses, Awaits, Closing, AllQuiet

\* A notification is written.
LEMMA ConversesNotify ==
  ASSUME NEW w, NEW k, NEW q, NEW r, NEW log, NEW x, Converses(w, k, q, r, log, x),
         IsSeq(w), NEW p, Quiet(p)
  PROVE  Converses(w \o <<p>>, k, q, r, log, x)
<1> DEFINE v == w \o <<p>>
           S == InFlight(w, k)
<1>1. InFlight(v, k) = S \cup {p}
  BY ElemsAppend DEF InFlight
<1>2. AllQuiet({p})
  BY Zenon DEF AllQuiet
<1>3. Pending(S, r, log, x) /\ (Unanswered(k, q, r) => AllQuiet(S) /\ r.stage = <<>>)
  BY Zenon DEF Converses
<1> HIDE DEF S
<1> QED
  BY <1>1, <1>2, <1>3, QuietPending, QuietMore, ClosingWrites, Zenon DEF Converses, Quiet,
         Ends

\* A connection begins.
LEMMA ConversesFresh ==
  ASSUME NEW w, Len(w) = 0, NEW k, k.reply = <<>>, k.pc # "diffs", k.version = 0,
         NEW r, r.asked = "none", r.stage = <<>>, NEW log, NEW x
  PROVE  Converses(w, k, <<>>, r, log, x)
BY ElemsShort, QuietNone DEF Elems, InFlight, AllQuiet, Closing, Awaits, Converses

\* The router sends a PDU.
LEMMA ConversesAsk ==
  ASSUME NEW w, NEW k, NEW q, NEW r, NEW log, NEW x, Converses(w, k, q, r, log, x),
         r.asked = "none", NEW s, s.asked # "none", s.stage = r.stage,
         s.version = r.version, s.asked = "serial" => s.session # 0,
         s.asked \in {"reset", "serial"} => s.since[1] = x /\ s.since[2] \in 1 .. Len(log),
         NEW m, Asks(s, m)
  PROVE  q = <<>> /\ Converses(w, k, <<m>>, s, log, x)
BY QuietNone, Zenon DEF Asks, Converses, Awaits, Unanswered

\* The fields that a PDU within a response leaves alone.
SameQuery(r, s) ==
  /\ s.asked = r.asked /\ s.version = r.version /\ s.session = r.session
  /\ s.serial = r.serial /\ s.since = r.since /\ s.tainted = r.tainted

LEMMA AwaitsSame ==
  ASSUME NEW k, NEW q, NEW r, NEW log, NEW x, Awaits(k, q, r, log, x),
         NEW s, SameQuery(r, s)
  PROVE  Awaits(k, q, s, log, x) /\ (Unanswered(k, q, s) <=> Unanswered(k, q, r))
BY Zenon DEF Asks, SameQuery, Awaits, Unanswered

\* The first PDU leaves the wire.
LEMMA ReceiveFlight ==
  ASSUME NEW w, IsSeq(w), Len(w) >= 1, NEW k
  PROVE  /\ InFlight(w, k) = {Head(w)} \cup InFlight(Tail(w), k)
         /\ Closing(w, k.reply) => Closing(Tail(w), k.reply)
         /\ Closing(w, k.reply) /\ Ends(Head(w)) => AllQuiet(InFlight(Tail(w), k))
<1> DEFINE p == Head(w)
           v == Tail(w)
<1>1. /\ IsSeq(v) /\ Len(v) = Len(w) - 1 /\ Len(w) \in Nat /\ p = w[1]
      /\ \A i \in 1 .. Len(w) - 1 : v[i] = w[i + 1]
  BY ElemsTail, Zenon
<1> HIDE DEF p, v
<1>2. ASSUME Closing(w, k.reply)
      PROVE  Closing(v, k.reply)
  BY <1>1, <1>2 DEF Closing
<1>3. ASSUME Closing(w, k.reply), Ends(p)
      PROVE  AllQuiet(InFlight(v, k))
  BY <1>1, <1>3, SMTT(20) DEF Closing, AllQuiet, InFlight, Elems
<1> QED
  BY <1>2, <1>3, ElemsTail DEF p, v, InFlight

\* A PDU that no response is made of.
LEMMA ReceiveQuiet ==
  ASSUME NEW w, IsSeq(w), Len(w) >= 1, NEW k, NEW q, NEW r, NEW log, NEW x,
         Converses(w, k, q, r, log, x), NEW p, p = Head(w), Quiet(p),
         NEW s, SameQuery(r, s), s.stage = r.stage, s.data = r.data
  PROVE  Converses(Tail(w), k, q, s, log, x)
<1> DEFINE S == InFlight(w, k)
           T == InFlight(Tail(w), k)
<1>1. S = {p} \cup T /\ Closing(Tail(w), k.reply)
  BY ReceiveFlight, Zenon DEF Converses
<1>2. Pending(S, r, log, x) /\ (Unanswered(k, q, r) => AllQuiet(S) /\ r.stage = <<>>)
  BY Zenon DEF Converses
<1> HIDE DEF S, T
<1>3. AllQuiet({p}) /\ S = T \cup {p}
  BY <1>1, Zenon DEF AllQuiet
<1>4. Pending(T, r, log, x) /\ (AllQuiet(S) => AllQuiet(T))
  BY <1>2, <1>3, QuietPending, QuietMore, Zenon
<1>5. Pending(T, s, log, x)
  BY <1>4, Zenon DEF Pending, Answers, Leads, SameQuery, Base
<1> QED
  BY <1>1, <1>2, <1>4, <1>5, AwaitsSame, Zenon DEF Converses, T

\* A PDU that another follows.
LEMMA ReceivePart ==
  ASSUME NEW w, IsSeq(w), Len(w) >= 1, NEW k, NEW q, NEW r, NEW log, NEW x,
         Converses(w, k, q, r, log, x), NEW p, p = Head(w), ~Quiet(p),
         NEW s, SameQuery(r, s), NEW T, T = InFlight(Tail(w), k),
         \A d : Leads(r, {p} \cup T, d) => Leads(s, T, d)
  PROVE  Converses(Tail(w), k, q, s, log, x)
<1>1. InFlight(w, k) = {p} \cup T /\ Closing(Tail(w), k.reply)
  BY ReceiveFlight, Zenon DEF Converses
<1>2. ASSUME NEW e \in Of(T, "EndOfData")
      PROVE  Answers(s, T, log, x, e)
  BY <1>1, Zenon DEF Of, Pending, Answers, SameQuery, Converses
<1> QED
  BY <1>1, <1>2, AwaitsSame, Zenon DEF Converses, AllQuiet, Pending

LEMMA NetsFirst ==
  ASSUME NEW p, NEW T, NEW a, NEW d, NEW aa, NEW da, Nets({p}, a, d, aa, da)
  PROVE  Nets({p} \cup T, a \cup Adds(T), d \cup Dels(T), aa \cup AddsAspa(T),
              da \cup DelsAspa(T))
BY NetsJoin, Zenon DEF Nets

\* How far each kind of PDU takes a router.
LEMMA LeadsResponse ==
  ASSUME NEW r, r.stage = <<>>, NEW p, p.type = "CacheResponse", NEW T, NEW d,
         Leads(r, {p} \cup T, d), NEW s, SameQuery(r, s), s.stage = <<Base(r)>>
  PROVE  Leads(s, T, d)
<1>1. Base(s) = Base(r)
  BY DEF Base
<1>2. /\ Adds({p} \cup T) = Adds(T) /\ Dels({p} \cup T) = Dels(T)
      /\ AddsAspa({p} \cup T) = AddsAspa(T) /\ DelsAspa({p} \cup T) = DelsAspa(T)
  <2>1. Nets({p} \cup T, {} \cup Adds(T), {} \cup Dels(T), {} \cup AddsAspa(T),
             {} \cup DelsAspa(T))
    BY NetsNothing, NetsFirst, Zenon DEF Payloads
  <2> QED
    BY <2>1, Zenon DEF Nets
<1> QED
  BY <1>1, <1>2, Zenon DEF Leads, SameQuery

LEMMA LeadsMoves ==
  ASSUME NEW r, NEW s, SameQuery(r, s), NEW p, NEW T, NEW d, Leads(r, {p} \cup T, d),
         NEW a, NEW dl, NEW aa, NEW da, Nets({p}, a, dl, aa, da),
         Base(s).roas = (Base(r).roas \cup a) \ dl,
         DOMAIN Base(s).aspas = (DOMAIN Base(r).aspas \cup aa) \ da
  PROVE  Leads(s, T, d)
<1> DEFINE S == {p} \cup T
<1>1. /\ Adds(S) = a \cup Adds(T) /\ Dels(S) = dl \cup Dels(T)
      /\ AddsAspa(S) = aa \cup AddsAspa(T) /\ DelsAspa(S) = da \cup DelsAspa(T)
  <2>1. Nets(S, a \cup Adds(T), dl \cup Dels(T), aa \cup AddsAspa(T), da \cup DelsAspa(T))
    BY NetsFirst, Zenon
  <2> QED
    BY <2>1, Zenon DEF Nets
<1> HIDE DEF S
<1>2. /\ Adds(S) \cap Dels(S) = {} /\ AddsAspa(S) \cap DelsAspa(S) = {}
      /\ (Base(r).roas \cup Adds(S)) \ Dels(S) = d.roas
      /\ (DOMAIN Base(r).aspas \cup AddsAspa(S)) \ DelsAspa(S) = CustomersFor(r.version, d)
  BY Zenon DEF Leads, S
<1> QED
  BY <1>1, <1>2, Zenon DEF Leads, SameQuery

LEMMA AppliedPart ==
  ASSUME NEW r, DOMAIN r = RouterFields, NEW p, p.type \in Payloads \cup {"CacheResponse"}
  PROVE  /\ SameQuery(r, Applied(r, p)) /\ Applied(r, p).data = r.data
         /\ Applied(r, p).link = r.link
<1> USE DEF RouterFields, SameQuery
<1>1. CASE p.type = "CacheResponse"
  BY <1>1, Zenon DEF Applied
<1>2. CASE p.type \in Payloads
  <2>1. \E rs, as : Applied(r, p) = Staged(r, rs, as)
    BY <1>2, Zenon DEF Applied, Payloads
  <2> QED
    BY <2>1, Zenon DEF Staged
<1> QED
  BY <1>1, <1>2, Zenon

LEMMA AppliedPayload ==
  ASSUME NEW r, DOMAIN r = RouterFields, r.stage # <<>>, NEW p, p.type \in Payloads,
         NEW T, NEW d, Leads(r, {p} \cup T, d)
  PROVE  Leads(Applied(r, p), T, d)
<1> DEFINE s == Applied(r, p)
           b == r.stage[1]
<1>1. SameQuery(r, s)
  BY AppliedPart, Zenon
<1>2. Base(r) = b
  BY Zenon DEF Base
<1>3. ASSUME NEW rs, NEW as, s = Staged(r, rs, as)
      PROVE  Base(s).roas = rs /\ Base(s).aspas = as
  <2>1. s.stage # <<>> /\ s.stage[1] = Data(rs, as)
    BY <1>3 DEF Staged, RouterFields
  <2> QED
    BY <2>1 DEF Data, Base
<1>4. CASE p.type = "Announce"
  <2>1. s = Staged(r, b.roas \cup p.roas, b.aspas)
    BY <1>4, Zenon DEF Applied
  <2> HIDE DEF s, b
  <2>2. Base(s).roas = b.roas \cup p.roas /\ Base(s).aspas = b.aspas
    BY <1>3, <2>1, Zenon
  <2>3. /\ Base(s).roas = (Base(r).roas \cup p.roas) \ {}
        /\ DOMAIN Base(s).aspas = (DOMAIN Base(r).aspas \cup {}) \ {}
    BY <1>2, <2>2
  <2> QED
    BY <1>1, <1>4, <2>3, NetsOne, LeadsMoves, Zenon DEF s
<1>5. CASE p.type = "Withdraw"
  <2>1. s = Staged(r, b.roas \ p.roas, b.aspas)
    BY <1>5, Zenon DEF Applied
  <2> HIDE DEF s, b
  <2>2. Base(s).roas = b.roas \ p.roas /\ Base(s).aspas = b.aspas
    BY <1>3, <2>1, Zenon
  <2>3. /\ Base(s).roas = (Base(r).roas \cup {}) \ p.roas
        /\ DOMAIN Base(s).aspas = (DOMAIN Base(r).aspas \cup {}) \ {}
    BY <1>2, <2>2
  <2> QED
    BY <1>1, <1>5, <2>3, NetsOne, LeadsMoves, Zenon DEF s
<1>6. CASE p.type = "AnnounceAspa"
  <2>1. s = Staged(r, b.roas, With(b.aspas, p.aspas))
    BY <1>6, Zenon DEF Applied
  <2> HIDE DEF s, b
  <2>2. /\ Base(s).roas = (Base(r).roas \cup {}) \ {}
        /\ DOMAIN Base(s).aspas = (DOMAIN Base(r).aspas \cup DOMAIN p.aspas) \ {}
    BY <1>2, <1>3, <2>1 DEF With
  <2> QED
    BY <1>1, <1>6, <2>2, NetsOne, LeadsMoves, Zenon DEF s
<1>7. CASE p.type = "WithdrawAspa"
  <2>1. s = Staged(r, b.roas, Without(b.aspas, DOMAIN p.aspas))
    BY <1>7, Zenon DEF Applied
  <2> HIDE DEF s, b
  <2>2. /\ Base(s).roas = (Base(r).roas \cup {}) \ {}
        /\ DOMAIN Base(s).aspas = (DOMAIN Base(r).aspas \cup {}) \ DOMAIN p.aspas
    BY <1>2, <1>3, <2>1 DEF Without, Only
  <2> QED
    BY <1>1, <1>7, <2>2, NetsOne, LeadsMoves, Zenon DEF s
<1> QED
  BY <1>4, <1>5, <1>6, <1>7, Zenon DEF Payloads

\* The PDU that ends a response leaves nothing of it behind.
LEMMA ReceiveLast ==
  ASSUME NEW w, IsSeq(w), Len(w) >= 1, NEW k, NEW q, NEW r, NEW log, NEW x,
         Converses(w, k, q, r, log, x), NEW p, p = Head(w), Ends(p)
  PROVE  /\ InFlight(w, k) = {p} \cup InFlight(Tail(w), k)
         /\ AllQuiet(InFlight(Tail(w), k)) /\ Closing(Tail(w), k.reply)
         /\ q = <<>> /\ k.pc # "diffs" /\ r.asked \notin {"none", "odd"}
BY ReceiveFlight DEF Converses, Ends, Quiet, AllQuiet, Unanswered

\* An End of Data: the router holds the data that the response led to.
LEMMA ReceiveEnd ==
  ASSUME NEW w, IsSeq(w), Len(w) >= 1, NEW k, NEW q, NEW r, NEW log, NEW x,
         Converses(w, k, q, r, log, x), NEW p, p = Head(w), p.type = "EndOfData",
         NEW s, s.asked = "none", s.stage = <<>>, s.version = r.version
  PROVE  Converses(Tail(w), k, q, s, log, x)
BY ReceiveLast, QuietNone DEF Ends, Converses, Awaits

\* What a router r becomes at an End of Data p.
TakesOver(r, p, s) ==
  /\ s.version = r.version /\ s.link = r.link /\ s.session = p.session
  /\ s.serial = p.serial /\ s.data = r.stage[1] /\ s.asked = "none" /\ s.stage = <<>>
  /\ s.tainted = ((r.asked = "serial" /\ r.tainted) \/ p.asOf # p.serial)

LEMMA HoldsEnd ==
  ASSUME NEW w, IsSeq(w), Len(w) >= 1, NEW k, NEW q, NEW r, NEW sv, NEW x \in Nat \ {0},
         Converses(w, k, q, r, sv[x], x), Holds(r, sv, x), r.stage # <<>>,
         NEW p, p = Head(w), p.type = "EndOfData", NEW s, TakesOver(r, p, s)
  PROVE  Holds(s, sv, x)
<1> DEFINE S == InFlight(w, k)
           T == InFlight(Tail(w), k)
<1>1. /\ s.version = r.version /\ s.link = r.link /\ s.session = p.session
      /\ s.serial = p.serial /\ s.data = r.stage[1] /\ s.asked = "none"
      /\ s.tainted = ((r.asked = "serial" /\ r.tainted) \/ p.asOf # p.serial)
  BY Zenon DEF TakesOver
<1>2. S = {p} \cup T /\ AllQuiet(T)
  BY ReceiveLast, Zenon DEF Ends
<1>3. p \in Of(S, "EndOfData")
  BY <1>2, Zenon DEF Of
<1>4. Answers(r, S, sv[x], x, p)
  BY <1>3, Zenon DEF Converses, Pending
<1> HIDE DEF S, T
<1>5. p.session = x /\ Served(sv[x], p.serial)
  BY <1>4, Zenon DEF Answers
<1>6. ASSUME ~s.tainted
      PROVE  /\ s.data.roas = sv[x][Position(p.serial)].roas
             /\ DOMAIN s.data.aspas = CustomersFor(s.version, sv[x][Position(p.serial)])
  BY <1>1, <1>2, <1>4, <1>6, NetsNothing, Zenon DEF Answers, Base, Leads, Nets, AllQuiet,
         Quiet, Payloads
<1>7. s.session \in 1 .. x /\ s.session # 0 /\ s.session = x
  BY <1>1, <1>5
<1>8. s.version \in Nat
  BY <1>1, Zenon DEF Holds
<1> QED
  BY <1>1, <1>5, <1>6, <1>7, <1>8, Zenon DEF Holds

\* A Cache Reset: the router asks again.
LEMMA ReceiveReset ==
  ASSUME NEW w, IsSeq(w), Len(w) >= 1, NEW k, NEW q, NEW r, NEW log, NEW x,
         Converses(w, k, q, r, log, x), NEW p, p = Head(w), p.type = "CacheReset",
         r.stage = <<>>, NEW s, s.asked = "reset", s.stage = r.stage, s.version = r.version,
         s.since[1] = x, s.since[2] \in 1 .. Len(log), NEW m, Asks(s, m)
  PROVE  q = <<>> /\ Converses(Tail(w), k, <<m>>, s, log, x)
BY ReceiveLast, QuietNone DEF Converses, Awaits, Ends
-----------------------------------------------------------------------------
(* What the responses contain. *)

\* A part of a response that does not end it.
IsPart(s, a, d, aa, da) ==
  IsSeq(s) /\ Nets(Elems(s), a, d, aa, da) /\ Of(Elems(s), "EndOfData") = {}

LEMMA PartJoin ==
  ASSUME NEW s, NEW a, NEW d, NEW aa, NEW da, IsPart(s, a, d, aa, da),
         NEW t, NEW b, NEW f, NEW bb, NEW fa, IsPart(t, b, f, bb, fa)
  PROVE  IsPart(s \o t, a \cup b, d \cup f, aa \cup bb, da \cup fa)
<1> DEFINE S == Elems(s)
           T == Elems(t)
<1>1. IsSeq(s \o t) /\ Elems(s \o t) = S \cup T
  BY ElemsJoin, Zenon DEF IsPart
<1>2. Adds(S \cup T) = Adds(S) \cup Adds(T) /\ Dels(S \cup T) = Dels(S) \cup Dels(T)
  BY NetsJoin, Zenon
<1>3. /\ AddsAspa(S \cup T) = AddsAspa(S) \cup AddsAspa(T)
      /\ DelsAspa(S \cup T) = DelsAspa(S) \cup DelsAspa(T)
  BY NetsJoin, Zenon
<1>4. Nets(S \cup T, a \cup b, d \cup f, aa \cup bb, da \cup fa)
  BY <1>2, <1>3, Zenon DEF IsPart, Nets
<1> QED
  BY <1>1, <1>4, Zenon DEF IsPart, Of

LEMMA PartEnd ==
  ASSUME NEW s, NEW a, NEW d, NEW aa, NEW da, IsPart(s, a, d, aa, da),
         NEW e, e.type = "EndOfData"
  PROVE  Nets(Elems(s \o <<e>>), a, d, aa, da) /\ Of(Elems(s \o <<e>>), "EndOfData") = {e}
<1> DEFINE S == Elems(s)
<1>1. Elems(s \o <<e>>) = S \cup {e}
  BY ElemsAppend, Zenon DEF IsPart
<1>2. Nets({e}, {}, {}, {}, {})
  BY NetsNothing, Zenon DEF Payloads
<1>3. Adds(S \cup {e}) = Adds(S) \cup Adds({e}) /\ Dels(S \cup {e}) = Dels(S) \cup Dels({e})
  BY NetsJoin, Zenon
<1>4. /\ AddsAspa(S \cup {e}) = AddsAspa(S) \cup AddsAspa({e})
      /\ DelsAspa(S \cup {e}) = DelsAspa(S) \cup DelsAspa({e})
  BY NetsJoin, Zenon
<1>5. Nets(S \cup {e}, a, d, aa, da)
  BY <1>2, <1>3, <1>4, Zenon DEF IsPart, Nets
<1>6. Of(S \cup {e}, "EndOfData") = {e}
  BY Zenon DEF IsPart, Of
<1> QED
  BY <1>1, <1>5, <1>6, Zenon

LEMMA PartNothing == IsPart(<<>>, {}, {}, {}, {})
BY ElemsShort, NetsNothing, Zenon DEF IsPart, Of

LEMMA PartOne ==
  ASSUME NEW p, p.type # "EndOfData", NEW a, NEW d, NEW aa, NEW da, Nets({p}, a, d, aa, da)
  PROVE  IsPart(<<p>>, a, d, aa, da)
BY ElemsShort DEF Of, IsPart

LEMMA PartResponse == IsPart(<<CacheResponse>>, {}, {}, {}, {})
<1>1. Nets({CacheResponse}, {}, {}, {}, {})
  BY NetsNothing DEF CacheResponse, Payloads
<1> QED
  BY <1>1, PartOne, Zenon DEF CacheResponse

LEMMA PartPrefixes ==
  ASSUME NEW rs
  PROVE  /\ IsPart(IfAny(rs, Prefixes("Announce", rs)), rs, {}, {}, {})
         /\ IsPart(IfAny(rs, Prefixes("Withdraw", rs)), {}, rs, {}, {})
<1>1. CASE rs = {}
  BY <1>1, PartNothing, Zenon DEF IfAny
<1>2. CASE rs # {}
  <2> DEFINE p == Prefixes("Announce", rs)
             u == Prefixes("Withdraw", rs)
  <2>1. p.type = "Announce" /\ u.type = "Withdraw" /\ p.roas = rs /\ u.roas = rs
    BY Zenon DEF Prefixes
  <2> HIDE DEF p, u
  <2>2. Nets({p}, rs, {}, {}, {}) /\ Nets({u}, {}, rs, {}, {})
    BY <2>1, NetsOne, Zenon
  <2> QED
    BY <1>2, <2>1, <2>2, PartOne, Zenon DEF p, u, IfAny
<1> QED
  BY <1>1, <1>2, Zenon

CustomersTo(c, as) == IF conn[c].version >= 2 THEN DOMAIN as ELSE {}

LEMMA PartAspas ==
  ASSUME NEW c, NEW as
  PROVE  /\ IsPart(IfAspa(c, as, Aspas("AnnounceAspa", as)), {}, {}, CustomersTo(c, as), {})
         /\ IsPart(IfAspa(c, as, Aspas("WithdrawAspa", as)), {}, {}, {}, CustomersTo(c, as))
<1>1. CASE ~(conn[c].version >= 2)
  BY <1>1, PartNothing, Zenon DEF IfAspa, CustomersTo
<1>2. CASE conn[c].version >= 2 /\ DOMAIN as = {}
  BY <1>2, PartNothing, Zenon DEF IfAspa, IfAny, CustomersTo
<1>3. CASE conn[c].version >= 2 /\ DOMAIN as # {}
  <2> DEFINE p == Aspas("AnnounceAspa", as)
             u == Aspas("WithdrawAspa", as)
  <2>1. p.type = "AnnounceAspa" /\ u.type = "WithdrawAspa" /\ p.aspas = as /\ u.aspas = as
    BY Zenon DEF Aspas
  <2> HIDE DEF p, u
  <2> QED
    BY <1>3, <2>1, NetsOne, PartOne, Zenon DEF p, u, IfAspa, IfAny, CustomersTo
<1> QED
  BY <1>1, <1>2, <1>3, Zenon

LEMMA NetsAllData ==
  ASSUME NEW c, NEW e, e = EndOfData(session, serial, serial)
  PROVE  /\ Nets(Elems(sendAllData(c)), roas, {}, CustomersTo(c, aspas), {})
         /\ Of(Elems(sendAllData(c)), "EndOfData") = {e}
<1> DEFINE p == IfAny(roas, Prefixes("Announce", roas))
           q == IfAspa(c, aspas, Aspas("AnnounceAspa", aspas))
           V == CustomersTo(c, aspas)
<1>1. IsPart(p, roas, {}, {}, {}) /\ IsPart(q, {}, {}, V, {})
  BY PartPrefixes, PartAspas, Zenon
<1>2. sendAllData(c) = <<CacheResponse>> \o p \o q \o <<e>>
  BY Zenon DEF sendAllData
<1> HIDE DEF p, q, V
<1>3. IsPart(<<CacheResponse>> \o p, {} \cup roas, {} \cup {}, {} \cup {}, {} \cup {})
  BY <1>1, PartResponse, PartJoin, Zenon
<1>4. IsPart(<<CacheResponse>> \o p \o q, roas, {}, V, {})
  BY <1>1, <1>3, PartJoin
<1> QED
  BY <1>2, <1>4, PartEnd DEF V, EndOfData

LEMMA NetsDiffs ==
  ASSUME NEW c, NEW d, NEW s, NEW e, e = EndOfData(session, s, serial)
  PROVE  /\ Nets(Elems(sendDiffs(c, d, s)), d.add, d.del, CustomersTo(c, d.addAspa),
                 CustomersTo(c, d.delAspa))
         /\ Of(Elems(sendDiffs(c, d, s)), "EndOfData") = {e}
<1> DEFINE p == IfAny(d.add, Prefixes("Announce", d.add))
           q == IfAspa(c, d.addAspa, Aspas("AnnounceAspa", d.addAspa))
           r == IfAny(d.del, Prefixes("Withdraw", d.del))
           t == IfAspa(c, d.delAspa, Aspas("WithdrawAspa", d.delAspa))
           a == d.add
           b == d.del
           V == CustomersTo(c, d.addAspa)
           W == CustomersTo(c, d.delAspa)
           h == <<CacheResponse>> \o p \o q \o r \o t
<1>1. IsPart(p, a, {}, {}, {}) /\ IsPart(r, {}, b, {}, {})
  BY PartPrefixes, Zenon
<1>2. IsPart(q, {}, {}, V, {}) /\ IsPart(t, {}, {}, {}, W)
  BY PartAspas, Zenon
<1>3. sendDiffs(c, d, s) = h \o <<e>>
  BY Zenon DEF sendDiffs, EodSerial
<1> HIDE DEF p, q, r, t, a, b, V, W
<1>4. IsPart(<<CacheResponse>> \o p, a, {}, {}, {})
  BY <1>1, PartResponse, PartJoin
<1>5. IsPart(<<CacheResponse>> \o p \o q, a, {}, V, {})
  BY <1>2, <1>4, PartJoin
<1>6. IsPart(h, a, b, V, W)
  BY <1>1, <1>2, <1>5, PartJoin
<1> HIDE DEF h
<1> QED
  BY <1>3, <1>6, PartEnd DEF a, b, V, W, EndOfData

LEMMA LogFacts ==
  ASSUME CacheExact, LogInv
  PROVE  /\ session \in Nat \ {0} /\ session \in 1 .. session
         /\ served[session] \in Seq(Datasets)
         /\ Len(served[session]) \in Nat \ {0} /\ Served(served[session], serial)
         /\ served[session][Position(serial)] = Data(roas, aspas)
<1> DEFINE n == Len(served[session])
<1> HIDE DEF n
<1> QED
  BY DEF Served, n, LogInv, Sessions, CacheExact, CacheTypeOK

\* A version is below 2, or a handler that has it sends ASPAs.
LEMMA VersionsSplit ==
  ASSUME NEW c, NEW r, r.version \in Nat, conn[c].version = r.version, NEW d
  PROVE  CustomersTo(c, d.aspas) = CustomersFor(r.version, d)
BY SMTT(20) DEF CustomersTo, CustomersFor

LEMMA PendingAllData ==
  ASSUME CacheExact, LogInv, NEW c, NEW r, r.asked = "reset", r.stage = <<>>,
         r.since[2] \in 1 .. Len(served[session]), r.version \in Nat,
         conn[c].version = r.version
  PROVE  Pending(Elems(sendAllData(c)), r, served[session], session)
<1> DEFINE e == EndOfData(session, serial, serial)
           S == Elems(sendAllData(c))
           log == served[session]
           d == Data(roas, aspas)
<1>1. Nets(S, roas, {}, CustomersTo(c, aspas), {}) /\ Of(S, "EndOfData") = {e}
  BY NetsAllData, Zenon
<1>2. e.session = session /\ e.serial = serial /\ e.asOf = serial
  BY Zenon DEF EndOfData
<1>3. /\ Served(log, serial) /\ log[Position(serial)] = d
      /\ Position(serial) = Len(log) /\ Len(log) \in Nat
  BY LogFacts, Zenon DEF LogInv
<1>4. d.roas = roas /\ d.aspas = aspas
  BY Zenon DEF Data
<1> HIDE DEF e, S, log, d
<1> QED
  BY <1>1, <1>2, <1>3, <1>4, VersionsSplit, SMTT(20) DEF Pending, S, log, Answers, Leads,
         Nets, Base, Empty, Data

\* getDiffsFrom(s) is what leads from the data of serial s to the current data.
LEMMA DiffsLead ==
  ASSUME CacheExact, LogInv, NEW s, getDiffsFrom(s).found, NEW old,
         old = served[session][Position(s)]
  PROVE  LET d == getDiffsFrom(s)
         IN  /\ d.add = roas \ old.roas /\ d.del = old.roas \ roas
             /\ DOMAIN d.addAspa = DOMAIN aspas \ DOMAIN old.aspas
             /\ DOMAIN d.delAspa = DOMAIN old.aspas \ DOMAIN aspas
<1> DEFINE d == getDiffsFrom(s)
<1>1. CASE s = serial
  <2> HIDE DEF d
  <2> QED
    BY <1>1, LogFacts DEF d, NoDiff, getDiffsFrom, Data
<1>2. CASE s # serial
  <2>1. PICK i \in 1 .. Len(history) : history[i].from = s
    BY <1>2, Zenon DEF StartsAt, getDiffsFrom, NoDiff
  <2> QED
    BY <2>1, Zenon DEF LogInv, CacheExact, RoaDiffsExact, AspaCustomersExact
<1> QED
  BY <1>1, <1>2, Zenon

LEMMA PendingDiffs ==
  ASSUME CacheExact, LogInv, NEW c, NEW r, r.asked = "serial", r.stage = <<>>,
         r.session = session, r.since[2] <= Position(conn[c].state),
         Served(served[session], conn[c].state), conn[c].version = r.version,
         Holds(r, served, session), NEW d, d = getDiffsFrom(r.serial), d.found
  PROVE  Pending(Elems(sendDiffs(c, d, conn[c].state)), r, served[session], session)
<1> DEFINE s == conn[c].state
           e == EndOfData(session, s, serial)
           S == Elems(sendDiffs(c, d, s))
           log == served[session]
           new == Data(roas, aspas)
           old == log[Position(r.serial)]
<1>1. /\ Nets(S, d.add, d.del, CustomersTo(c, d.addAspa), CustomersTo(c, d.delAspa))
      /\ Of(S, "EndOfData") = {e}
  BY NetsDiffs
<1>2. e.session = session /\ e.serial = s /\ e.asOf = serial
  BY Zenon DEF EndOfData
<1>3. /\ Served(log, serial) /\ log[Position(serial)] = new
      /\ Position(serial) = Len(log) /\ Len(log) \in Nat
  BY LogFacts, Zenon DEF LogInv
<1>4. new.roas = roas /\ new.aspas = aspas
  BY Zenon DEF Data
<1>5. /\ d.add = roas \ old.roas /\ d.del = old.roas \ roas
      /\ DOMAIN d.addAspa = DOMAIN aspas \ DOMAIN old.aspas
      /\ DOMAIN d.delAspa = DOMAIN old.aspas \ DOMAIN aspas
  BY DiffsLead, Zenon
<1>6. session # 0 /\ r.version \in Nat
  BY LogFacts, Zenon DEF Holds
<1>7. ~r.tainted =>
        r.data.roas = old.roas /\ DOMAIN r.data.aspas = CustomersFor(r.version, old)
  BY <1>6, Zenon DEF Holds
<1> HIDE DEF s, e, S, log, new, old
<1> QED
  BY <1>1, <1>2, <1>3, <1>4, <1>5, <1>6, <1>7, SMTT(20) DEF Pending, S, log, s, Answers,
         Served, Nets, CustomersTo, CustomersFor, Leads, Base
-----------------------------------------------------------------------------
(* The invariant, one connection at a time. *)

LEMMA Shapes ==
  ASSUME Inv, NEW c \in Routers
  PROVE  /\ DOMAIN conn = Routers /\ DOMAIN conn[c] = ConnFields
         /\ DOMAIN wire = Routers /\ DOMAIN router = Routers /\ DOMAIN router[c] = RouterFields
         /\ conn[c].writeMu \in BOOLEAN /\ conn[c].closed \in BOOLEAN
         /\ router[c].link \in BOOLEAN
         /\ Fits(wire[c], conn[c], router[c].link, router[c].stage)
BY Zenon DEF Inv, Records, Fits, Handles

LEMMA LogKept ==
  ASSUME CacheExact, LogInv, UNCHANGED <<cacheVars, session, served, updates>>
  PROVE  CacheExact' /\ LogInv'
<1>1. CacheExact'
  <2>1. /\ roas' = roas /\ aspas' = aspas /\ serial' = serial /\ history' = history
        /\ past' = past
    BY Zenon DEF cacheVars
  <2>2. ASSUME NEW x PROVE getDiffsFrom(x)' = getDiffsFrom(x)
    BY <2>1 DEF StartsAt, getDiffsFrom
  <2> QED
    BY <2>1, <2>2, Zenon DEF CacheExact, CacheTypeOK, RoaDiffsExact, AspaCustomersExact
<1> QED
  BY <1>1, Zenon DEF LogInv, cacheVars

LEMMA DataFields ==
  ASSUME DataInv, NEW c \in Routers
  PROVE  /\ CacheExact /\ LogInv /\ DOMAIN inbox = Routers
         /\ Placed(conn[c]) /\ Holds(router[c], served, session)
         /\ router[c].link =>
              Converses(wire[c], conn[c], inbox[c], router[c], served[session], session)
BY Zenon DEF DataInv

\* Only c's connection changes.
LEMMA OneData ==
  ASSUME DataInv, NEW c \in Routers, UNCHANGED <<cacheVars, session, served, updates>>,
         DOMAIN inbox' = Routers,
         \A d \in Routers : d # c =>
           /\ wire'[d] = wire[d] /\ conn'[d] = conn[d]
           /\ inbox'[d] = inbox[d] /\ router'[d] = router[d],
         Placed(conn'[c]), Holds(router'[c], served, session),
         router'[c].link =>
           Converses(wire'[c], conn'[c], inbox'[c], router'[c], served[session], session)
  PROVE  DataInv'
BY DataFields, LogKept, Zenon DEF DataInv

\* Of c's connection, only the handler and what it has read.
LEMMA ConnData ==
  ASSUME DataInv, NEW c \in Routers,
         UNCHANGED <<cacheVars, session, served, updates, wire, router>>,
         DOMAIN inbox' = Routers,
         \A d \in Routers : d # c => conn'[d] = conn[d] /\ inbox'[d] = inbox[d],
         Placed(conn'[c]),
         router[c].link =>
           Converses(wire[c], conn'[c], inbox'[c], router[c], served[session], session)
  PROVE  DataInv'
BY DataFields, OneData, Zenon

\* Neither the data nor the query of a router changes.
LEMMA HoldsSame ==
  ASSUME NEW r, NEW sv, NEW x, Holds(r, sv, x), NEW s,
         s.version = r.version, s.tainted = r.tainted, s.session = r.session,
         s.serial = r.serial, s.data = r.data,
         s.asked \in {"none", "odd", "reset", "serial"}, ~s.link => s.asked = "none"
  PROVE  Holds(s, sv, x)
BY Zenon DEF Holds

\* A handler has read a Serial Query and will look for the diffs.
LEMMA ConversesReads ==
  ASSUME NEW w, NEW k, NEW q, NEW r, NEW log, NEW x, Converses(w, k, q, r, log, x),
         q # <<>>, r.asked = "serial", r.session = x,
         NEW l, l.reply = k.reply, l.version = k.version, l.query = r.serial,
         Served(log, l.state), Position(l.state) = Len(log), Len(log) \in Nat
  PROVE  Converses(w, l, <<>>, r, log, x)
BY DEF Unanswered, Converses, Awaits, InFlight

\* Whatever a handler reads from a router that is linked was all there was to read.
LEMMA ReadsOne ==
  ASSUME DataInv, NEW c \in Routers, NEW kind, Reads(c, kind)
  PROVE  /\ UNCHANGED <<cacheVars, session, served, updates, wire, router>>
         /\ conn[c].pc \in {"first", "loop"} /\ conn[c].reply = <<>> /\ conn[c].version # 0
         /\ DOMAIN inbox' = Routers
         /\ \A d \in Routers : d # c => inbox'[d] = inbox[d]
         /\ router[c].link =>
              /\ inbox'[c] = <<>> /\ inbox[c] # <<>> /\ Asks(router[c], Head(inbox[c]))
              /\ Head(inbox[c]).kind = kind
              /\ conn[c].version = router[c].version
<1>1. /\ UNCHANGED <<cacheVars, session, served, updates, wire, router>>
      /\ conn[c].pc \in {"first", "loop"} /\ inbox[c] # <<>>
      /\ Head(inbox[c]).kind = kind
      /\ inbox' = [inbox EXCEPT ![c] = Tail(@)]
  BY Zenon DEF Reads, handlerOnly, updateVars
<1>2. DOMAIN inbox = Routers /\ Placed(conn[c])
  BY DataFields, Zenon
<1>3. conn[c].reply = <<>> /\ conn[c].version # 0
  BY <1>1, <1>2, Zenon DEF Placed, Responding
<1>4. /\ DOMAIN inbox' = Routers /\ inbox'[c] = Tail(inbox[c])
      /\ \A d \in Routers : d # c => inbox'[d] = inbox[d]
  BY <1>1, <1>2, Zenon
<1>5. ASSUME router[c].link
      PROVE  /\ inbox'[c] = <<>> /\ Asks(router[c], Head(inbox[c]))
             /\ conn[c].version = router[c].version
  <2>1. Awaits(conn[c], inbox[c], router[c], served[session], session)
    BY <1>5, DataFields, Zenon DEF Converses
  <2>2. PICK m : inbox[c] = <<m>> /\ Asks(router[c], m)
    BY <1>1, <2>1, Zenon DEF Awaits
  <2> QED
    BY <1>3, <1>4, <2>1, <2>2 DEF Awaits
<1> QED
  BY <1>1, <1>3, <1>4, <1>5, Zenon
-----------------------------------------------------------------------------
(* The steps of a handler. *)

LEMMA FailData ==
  ASSUME Inv, DataInv, NEW c \in Routers,
         UNCHANGED <<cacheVars, session, served, updates, wire, router>>,
         conn[c].pc \notin Responding, NEW code, Fail(c, code),
         DOMAIN inbox' = Routers, \A d \in Routers : d # c => inbox'[d] = inbox[d],
         router[c].link => inbox'[c] = inbox[c] \/ inbox'[c] = <<>>
  PROVE  DataInv'
BY DataFields, Shapes, ElemsShort, ConversesQuiet, ConnData DEF Placed, Fail, ConnFields,
       Places, Responding, AllQuiet, Quiet, ErrorReport

\* The handler has an answer to the query of c.
LEMMA RespondData ==
  ASSUME Inv, DataInv, NEW c \in Routers,
         UNCHANGED <<cacheVars, session, served, updates, wire, router>>,
         conn[c].version # 0, NEW pdus, Respond(c, pdus),
         DOMAIN inbox' = Routers, \A d \in Routers : d # c => inbox'[d] = inbox[d],
         router[c].link =>
           /\ inbox'[c] = <<>> /\ router[c].asked \in {"reset", "serial"}
           /\ Unanswered(conn[c], inbox[c], router[c])
           /\ Pending(Elems(pdus), router[c], served[session], session)
  PROVE  DataInv'
<1>1. /\ \A d \in Routers : d # c => conn'[d] = conn[d]
      /\ conn'[c].pc = "respond" /\ conn'[c].version = conn[c].version
      /\ conn'[c].reply = pdus
  BY Shapes, Zenon DEF Respond, ConnFields
<1>2. router[c].link =>
        Converses(wire[c], conn'[c], inbox'[c], router[c], served[session], session)
  <2>1. SUFFICES ASSUME router[c].link
                 PROVE  Converses(wire[c], conn'[c], <<>>, router[c], served[session], session)
    BY Zenon
  <2> QED
    BY <1>1, <2>1, DataFields, ConversesResponds, Zenon
<1> QED
  BY <1>1, <1>2, DataFields, ConnData, Zenon DEF Placed, Places, Responding

\* The handler goes on with the reply it had.
LEMMA MoveData ==
  ASSUME Inv, DataInv, NEW c \in Routers,
         UNCHANGED <<cacheVars, session, served, updates, inbox, wire, router>>,
         \A d \in Routers : d # c => conn'[d] = conn[d], Placed(conn'[c]),
         conn'[c].reply = conn[c].reply, conn'[c].version = conn[c].version,
         \/ conn'[c].pc # "diffs"
         \/ /\ conn'[c].pc = conn[c].pc /\ conn'[c].query = conn[c].query
            /\ conn'[c].state = conn[c].state
  PROVE  DataInv'
BY DataFields, ConversesMoves, ConnData

LEMMA NegotiateData ==
  ASSUME Inv, DataInv, NEW c \in Routers, Negotiate(c)
  PROVE  DataInv'
<1> DEFINE v == Head(inbox[c]).version
<1>1. /\ UNCHANGED <<cacheVars, session, served, updates, inbox, wire, router>>
      /\ conn[c].pc = "negotiate" /\ inbox[c] # <<>>
      /\ \/ Fail(c, "UnsupportedVersion")
         \/ v \in {1, 2} /\ conn' = [conn EXCEPT ![c].pc = "first", ![c].version = v]
  BY Zenon DEF Negotiate, handlerOnly, updateVars, supportedVersions
<1>2. inbox' = inbox /\ DOMAIN inbox = Routers /\ Placed(conn[c]) /\ conn[c].reply = <<>>
      /\ conn[c].pc \notin Responding
  BY <1>1, DataFields, Zenon DEF Placed, Responding
<1>3. CASE Fail(c, "UnsupportedVersion")
  BY <1>1, <1>2, <1>3, FailData, Zenon
<1>4. CASE v \in {1, 2} /\ conn' = [conn EXCEPT ![c].pc = "first", ![c].version = v]
  <2>1. /\ \A d \in Routers : d # c => conn'[d] = conn[d]
        /\ conn'[c].pc = "first" /\ conn'[c].version = v /\ conn'[c].reply = <<>>
    BY <1>2, <1>4, Shapes, Zenon DEF ConnFields
  <2>2. Placed(conn'[c])
    BY <1>4, <2>1 DEF Placed, Places, Responding
  <2>3. router[c].link =>
          Converses(wire[c], conn'[c], inbox'[c], router[c], served[session], session)
    <3>1. SUFFICES ASSUME router[c].link
                   PROVE  Converses(wire[c], conn'[c], inbox[c], router[c], served[session],
                                    session)
      BY <1>2, Zenon
    <3>2. Converses(wire[c], conn[c], inbox[c], router[c], served[session], session)
      BY <3>1, DataFields, Zenon
    <3>3. PICK m : inbox[c] = <<m>> /\ Asks(router[c], m)
      BY <1>1, <3>2, Zenon DEF Converses, Awaits
    <3>4. v = router[c].version
      BY <1>4, <3>3 DEF Asks
    <3> HIDE DEF v
    <3> QED
      BY <1>2, <2>1, <3>2, <3>4, ElemsShort, ConversesQuiet, Zenon DEF AllQuiet
  <2> QED
    BY <1>1, <1>2, <2>1, <2>2, <2>3, ConnData, Zenon
<1> QED
  BY <1>1, <1>3, <1>4, Zenon

LEMMA ReadFailsData ==
  ASSUME Inv, DataInv, NEW c \in Routers, ReadFails(c)
  PROVE  DataInv'
BY DataFields, FailData, Shapes, MoveData DEF ReadFails, handlerOnly, updateVars, BreaksOff,
       Responding, Disconnects, ConnFields, Placed, Places

\* PDUs that a handler does not answer.
LEMMA ReadOddData ==
  ASSUME Inv, DataInv, NEW c \in Routers,
         ReadMalformed(c) \/ ReadVersionMismatch(c) \/ ReadUnexpected(c)
  PROVE  DataInv'
<1>1. PICK kind : Reads(c, kind)
  BY Zenon DEF ReadMalformed, ReadVersionMismatch, ReadUnexpected
<1>2. /\ UNCHANGED <<cacheVars, session, served, updates, wire, router>>
      /\ conn[c].pc \in {"first", "loop"} /\ conn[c].reply = <<>> /\ conn[c].version # 0
      /\ DOMAIN inbox' = Routers
      /\ \A d \in Routers : d # c => inbox'[d] = inbox[d]
      /\ router[c].link => inbox'[c] = <<>>
  BY <1>1, ReadsOne, Zenon
<1>3. Placed(conn[c]) /\ conn[c].pc \notin Responding
  BY <1>2, DataFields, Zenon DEF Responding
<1>4. CASE \E code : Fail(c, code)
  BY <1>2, <1>3, <1>4, FailData, Zenon
<1>5. CASE ReadUnexpected(c)
  BY <1>2, <1>3, <1>5, Shapes, ElemsShort, DataFields, ConversesQuiet, ConnData, SMTT(20)
     DEF ReadUnexpected, ConnFields, Placed, Places, AllQuiet
<1> QED
  BY <1>4, <1>5, Zenon DEF ReadMalformed, ReadVersionMismatch

\* Which query it was.
LEMMA AsksKind ==
  ASSUME NEW r, NEW m, Asks(r, m), NEW v, m.version = v, v # 0
  PROVE  /\ m.kind = "reset" => r.asked = "reset"
         /\ m.kind = "serial" => /\ r.asked = "serial" /\ m.session = r.session
                                 /\ m.serial = r.serial
BY Zenon DEF Asks

LEMMA ReadResetData ==
  ASSUME Inv, DataInv, NEW c \in Routers, ReadResetQuery(c)
  PROVE  DataInv'
<1>1. Reads(c, "reset") /\ VersionAgrees(c) /\ Respond(c, sendAllData(c))
  BY Zenon DEF ReadResetQuery
<1>2. /\ UNCHANGED <<cacheVars, session, served, updates, wire, router>>
      /\ conn[c].version # 0 /\ DOMAIN inbox' = Routers
      /\ \A d \in Routers : d # c => inbox'[d] = inbox[d]
      /\ router[c].link =>
           /\ inbox'[c] = <<>> /\ inbox[c] # <<>> /\ Asks(router[c], Head(inbox[c]))
           /\ Head(inbox[c]).kind = "reset"
           /\ conn[c].version = router[c].version
  BY <1>1, ReadsOne, Zenon
<1>3. ASSUME router[c].link
      PROVE  /\ router[c].asked \in {"reset", "serial"}
             /\ Unanswered(conn[c], inbox[c], router[c])
             /\ Pending(Elems(sendAllData(c)), router[c], served[session], session)
  <2>1. CacheExact /\ LogInv /\ router[c].version \in Nat
    BY DataFields, Zenon DEF Holds
  <2> QED
    BY <1>1, <1>2, <1>3, <2>1, AsksKind, DataFields, PendingAllData, SMTT(20) DEF Converses,
           Awaits, VersionAgrees, Unanswered
<1> QED
  BY <1>1, <1>2, <1>3, RespondData, Zenon

LEMMA PendingReset ==
  ASSUME NEW r, NEW log, NEW x
  PROVE  Pending(Elems(<<CacheReset>>), r, log, x)
BY ElemsShort DEF Of, CacheReset, Pending

LEMMA ReadSerialData ==
  ASSUME Inv, DataInv, NEW c \in Routers, ReadSerialQuery(c)
  PROVE  DataInv'
<1> DEFINE q == Head(inbox[c])
<1>1. /\ Reads(c, "serial") /\ VersionAgrees(c)
      /\ \/ Respond(c, <<CacheReset>>)
         \/ /\ q.session = session
            /\ conn' = [conn EXCEPT ![c].pc = "diffs", ![c].query = q.serial,
                                    ![c].state = serial]
  BY Zenon DEF ReadSerialQuery, MustReset
<1>2. /\ UNCHANGED <<cacheVars, session, served, updates, wire, router>>
      /\ conn[c].version # 0 /\ conn[c].reply = <<>> /\ DOMAIN inbox' = Routers
      /\ \A d \in Routers : d # c => inbox'[d] = inbox[d]
      /\ router[c].link =>
           /\ inbox'[c] = <<>> /\ inbox[c] # <<>> /\ Asks(router[c], q) /\ q.kind = "serial"
           /\ conn[c].version = router[c].version
  BY <1>1, ReadsOne, Zenon
<1>3. ASSUME router[c].link
      PROVE  /\ router[c].asked = "serial" /\ q.session = router[c].session
             /\ q.serial = router[c].serial
             /\ Unanswered(conn[c], inbox[c], router[c])
  BY <1>1, <1>2, <1>3, AsksKind DEF VersionAgrees, Unanswered
<1> HIDE DEF q
<1>4. CASE Respond(c, <<CacheReset>>)
  BY <1>2, <1>3, <1>4, PendingReset, RespondData, Zenon
<1>5. CASE /\ q.session = session
           /\ conn' = [conn EXCEPT ![c].pc = "diffs", ![c].query = q.serial,
                                   ![c].state = serial]
  <2>1. /\ \A d \in Routers : d # c => conn'[d] = conn[d]
        /\ conn'[c].pc = "diffs" /\ conn'[c].version = conn[c].version
        /\ conn'[c].reply = <<>> /\ conn'[c].query = q.serial /\ conn'[c].state = serial
    BY <1>2, <1>5, Shapes, Zenon DEF ConnFields
  <2>2. router[c].link =>
          Converses(wire[c], conn'[c], inbox'[c], router[c], served[session], session)
    <3>1. SUFFICES ASSUME router[c].link
                   PROVE  Converses(wire[c], conn'[c], <<>>, router[c], served[session], session)
      BY <1>2, Zenon
    <3>2. /\ Served(served[session], serial) /\ Len(served[session]) \in Nat
          /\ Position(serial) = Len(served[session])
      BY DataFields, LogFacts, Zenon DEF LogInv
    <3>3. /\ inbox[c] # <<>> /\ router[c].asked = "serial" /\ router[c].session = session
          /\ conn'[c].query = router[c].serial
      BY <1>2, <1>3, <1>5, <2>1, <3>1, Zenon
    <3>4. /\ Served(served[session], conn'[c].state) /\ conn'[c].reply = conn[c].reply
          /\ Position(conn'[c].state) = Len(served[session])
      BY <1>2, <2>1, <3>2, Zenon
    <3> QED
      BY <2>1, <3>1, <3>2, <3>3, <3>4, DataFields, ConversesReads, Zenon
  <2> QED
    BY <1>2, <2>1, <2>2, DataFields, ConnData, Zenon DEF Placed, Places
<1> QED
  BY <1>1, <1>4, <1>5, Zenon DEF q

LEMMA AnswerSerialData ==
  ASSUME Inv, DataInv, NEW c \in Routers, AnswerSerialQuery(c)
  PROVE  DataInv'
<1> DEFINE s == conn[c].state
           d == getDiffsFrom(conn[c].query)
           pdus == IF d.found THEN sendDiffs(c, d, s) ELSE <<CacheReset>>
<1>1. /\ UNCHANGED <<cacheVars, session, served, updates, inbox, wire, router>>
      /\ conn[c].pc = "diffs" /\ Respond(c, pdus)
  BY Zenon DEF AnswerSerialQuery, handlerOnly, updateVars
<1>2. conn[c].version # 0 /\ inbox' = inbox /\ DOMAIN inbox = Routers
  BY <1>1, DataFields, Zenon DEF Placed
<1> HIDE DEF pdus
<1>3. ASSUME router[c].link
      PROVE  /\ inbox'[c] = <<>> /\ router[c].asked \in {"reset", "serial"}
             /\ Unanswered(conn[c], inbox[c], router[c])
             /\ Pending(Elems(pdus), router[c], served[session], session)
  <2>1. Converses(wire[c], conn[c], inbox[c], router[c], served[session], session)
    BY <1>3, DataFields, Zenon
  <2>2. /\ inbox[c] = <<>> /\ router[c].asked = "serial" /\ router[c].session = session
        /\ conn[c].query = router[c].serial /\ Served(served[session], conn[c].state)
        /\ router[c].since[2] <= Position(conn[c].state)
        /\ conn[c].version = router[c].version
    BY <1>1, <1>2, <2>1, Zenon DEF Converses, Awaits
  <2>3. Unanswered(conn[c], inbox[c], router[c])
    BY <1>1, Zenon DEF Unanswered
  <2>4. ASSUME d.found
        PROVE  Pending(Elems(sendDiffs(c, d, s)), router[c], served[session], session)
    <3>1. d = getDiffsFrom(router[c].serial)
      BY <2>2, Zenon
    <3> HIDE DEF d
    <3> QED
      BY <2>1, <2>2, <2>3, <2>4, <3>1, DataFields, PendingDiffs, Zenon DEF Converses
  <2> QED
    BY <1>2, <2>2, <2>3, <2>4, PendingReset, Zenon DEF pdus
<1> QED
  BY <1>1, <1>2, <1>3, RespondData, Zenon

\* What is left of a reply when the last PDU was written, or the rest dropped.
LEMMA FinishedData ==
  ASSUME Inv, DataInv, NEW c \in Routers, conn[c].writeMu, NEW closes, Finished(c, closes)
  PROVE  /\ \A d \in Routers : d # c => conn'[d] = conn[d]
         /\ Placed(conn'[c]) /\ conn'[c].reply = <<>> /\ conn'[c].pc # "diffs"
         /\ conn'[c].version = conn[c].version
BY Shapes, DataFields DEF Fits, Handles, Finished, ConnFields, Placed, Places

LEMMA WriteErrorData ==
  ASSUME Inv, DataInv, NEW c \in Routers, WriteError(c)
  PROVE  DataInv'
BY FinishedData, DataFields, ConversesDrops, ConnData, Zenon DEF WriteError, handlerOnly,
       updateVars

\* Something is written to c, or lost.
LEMMA WrittenData ==
  ASSUME Inv, DataInv, NEW c \in Routers,
         UNCHANGED <<cacheVars, session, served, updates, inbox, router>>,
         NEW pdus, Written(c, pdus),
         \A d \in Routers : d # c => conn'[d] = conn[d], Placed(conn'[c]),
         router[c].link =>
           Converses(wire[c] \o pdus, conn'[c], inbox[c], router[c], served[session], session)
  PROVE  DataInv'
BY DataFields, Shapes, OneData, Zenon DEF Written

LEMMA WireSeq ==
  ASSUME Inv, NEW c \in Routers
  PROVE  IsSeq(wire[c]) /\ IsReply(conn[c].reply)
BY Shapes, Zenon DEF Fits, Framed, IsPdus, Handles

LEMMA WritePDUData ==
  ASSUME Inv, DataInv, NEW c \in Routers, WritePDU(c)
  PROVE  DataInv'
<1> DEFINE p == Head(conn[c].reply)
<1>1. /\ UNCHANGED <<cacheVars, session, served, updates, inbox, router>>
      /\ conn[c].writeMu /\ Written(c, <<p>>)
      /\ \/ Len(conn[c].reply) = 1 /\ Finished(c, FALSE)
         \/ Len(conn[c].reply) # 1 /\ conn' = [conn EXCEPT ![c].reply = Tail(@)]
  BY Zenon DEF WritePDU, updateVars
<1>2. Len(conn[c].reply) >= 1 /\ conn[c].pc # "diffs" /\ conn[c].pc \in Responding
  BY <1>1, Shapes, Zenon DEF Fits, Handles, Responding
<1>3. /\ \A d \in Routers : d # c => conn'[d] = conn[d]
      /\ Placed(conn'[c]) /\ conn'[c].pc # "diffs" /\ conn'[c].version = conn[c].version
      /\ \/ Len(conn[c].reply) = 1 /\ conn'[c].reply = <<>>
         \/ Len(conn[c].reply) # 1 /\ conn'[c].reply = Tail(conn[c].reply)
  <2>1. CASE Len(conn[c].reply) = 1 /\ Finished(c, FALSE)
    BY <1>1, <2>1, FinishedData, Zenon
  <2>2. CASE Len(conn[c].reply) # 1 /\ conn' = [conn EXCEPT ![c].reply = Tail(@)]
    BY <1>2, <2>2, Shapes, DataFields, Zenon DEF ConnFields, Placed
  <2> QED
    BY <1>1, <2>1, <2>2, Zenon
<1> HIDE DEF p
<1> QED
  BY <1>1, <1>2, <1>3, DataFields, WireSeq, ConversesWrites, WrittenData, Zenon DEF p

LEMMA HandlerData ==
  ASSUME Inv, DataInv, NEW c \in Routers, Handler(c) \/ ReadFails(c)
  PROVE  DataInv'
<1>1. Placed(conn[c])
  BY DataFields, Zenon
<1>2. ASSUME UNCHANGED <<cacheVars, session, served, updates, inbox, wire, router>>,
             \E to \in {"negotiate", "returned", "none"} : \E b :
               conn' = [conn EXCEPT ![c].pc = to, ![c].closed = b],
             conn[c].pc \notin Responding
      PROVE  DataInv'
  BY <1>1, <1>2, Shapes, MoveData DEF ConnFields, Placed, Places
<1>3. CASE handleConnection(c)
  <2>1. conn' = [conn EXCEPT ![c].pc = "negotiate", ![c].closed = conn[c].closed]
    BY <1>3, Shapes, Zenon DEF handleConnection, ConnFields
  <2> QED
    BY <1>2, <1>3, <2>1, Zenon DEF handleConnection, updateVars, Responding
<1>4. CASE Return(c)
  BY <1>2, <1>4, Zenon DEF Return, handlerOnly, updateVars, Responding
<1>5. CASE Deregister(c)
  <2>1. conn' = [conn EXCEPT ![c].pc = "none", ![c].closed = conn[c].closed]
    BY <1>5, Shapes, Zenon DEF Deregister, ConnFields
  <2> QED
    BY <1>2, <1>5, <2>1, Zenon DEF Deregister, updateVars, Responding
<1>6. CASE LockWriteMu(c)
  BY <1>1, <1>6, MoveData DEF LockWriteMu, handlerOnly, updateVars, Responding, ConnFields,
         Placed
<1> QED
  BY <1>3, <1>4, <1>5, <1>6, NegotiateData, ReadFailsData, ReadOddData, ReadResetData,
     ReadSerialData, AnswerSerialData, WriteErrorData, WritePDUData, Zenon DEF Handler

\* Nothing that the invariant speaks of changes.
LEMMA SameData ==
  ASSUME DataInv, UNCHANGED <<cacheVars, session, served, updates, conn, inbox, wire, router>>
  PROVE  DataInv'
BY LogKept, Zenon DEF DataInv

LEMMA NotifyData ==
  ASSUME Inv, DataInv, NEW n \in 1 .. MaxUpdates, NEW c \in Routers,
         NotifyNext(n, c) \/ NotifyWrite(n, c)
  PROVE  DataInv'
<1>1. CASE NotifyNext(n, c)
  BY <1>1, SameData, Zenon DEF NotifyNext, updateVars
<1>2. CASE NotifyWrite(n, c)
  <2>1. /\ notifier[n].to = {c}
        /\ UNCHANGED <<cacheVars, session, served, updates, inbox, router>>
    BY <1>2, Zenon DEF NotifyWrite, updateVars
  <2>2. PICK p : notifier[n].pdu = <<p>> /\ p.type = "SerialNotify"
    BY <2>1, Zenon DEF Inv, Notifies
  <2>3. Placed(conn[c])
    BY DataFields, Zenon
  <2>4. CASE Written(c, notifier[n].pdu) /\ UNCHANGED conn
    BY <2>1, <2>2, <2>3, <2>4, WireSeq, DataFields, ConversesNotify, WrittenData, SMTT(20)
       DEF Quiet
  <2>5. CASE conn' = [conn EXCEPT ![c].closed = TRUE] /\ UNCHANGED wire
    BY <2>1, <2>3, <2>5, MoveData, SMTT(20) DEF ConnFields, Placed
  <2> QED
    BY <1>2, <2>4, <2>5, Zenon DEF NotifyWrite
<1> QED
  BY <1>1, <1>2, Zenon
-----------------------------------------------------------------------------
(* The steps of a router. *)

LEMMA DialData ==
  ASSUME Inv, DataInv, NEW c \in Routers, Dial(c)
  PROVE  DataInv'
<1>1. /\ UNCHANGED <<cacheVars, session, served, updates, wire>> /\ ~router[c].link
  BY Zenon DEF Dial, routerOnly, updateVars
<1>2. /\ \A d \in Routers : d # c => conn'[d] = conn[d]
      /\ conn'[c].reply = <<>> /\ conn'[c].pc = "accepted" /\ conn'[c].version = 0
  BY Shapes, Zenon DEF Dial, NoClient, ConnFields
<1>3. /\ \A d \in Routers : d # c => router'[d] = router[d]
      /\ router'[c].link = TRUE /\ router'[c].version = router[c].version
      /\ router'[c].tainted = router[c].tainted /\ router'[c].session = router[c].session
      /\ router'[c].serial = router[c].serial /\ router'[c].data = router[c].data
      /\ router'[c].asked = router[c].asked /\ router'[c].stage = router[c].stage
  BY Shapes, Zenon DEF Dial, RouterFields
<1>4. /\ DOMAIN inbox' = Routers /\ inbox'[c] = <<>>
      /\ \A d \in Routers : d # c => inbox'[d] = inbox[d]
  BY DataFields, Zenon DEF Dial
<1>5. Holds(router[c], served, session) /\ router[c].asked = "none"
  BY <1>1, DataFields, Zenon DEF Holds
<1> QED
  BY <1>1, <1>2, <1>3, <1>4, <1>5, Shapes, ConversesFresh, HoldsSame, OneData, SMTT(20)
     DEF Placed, Places, Responding, Fits

\* The router c, linked, sends m and keeps what it holds.
LEMMA SendData ==
  ASSUME Inv, DataInv, NEW c \in Routers,
         UNCHANGED <<cacheVars, session, served, updates, conn, wire>>,
         router[c].link, router[c].asked = "none",
         NEW m, inbox' = [inbox EXCEPT ![c] = Append(@, m)],
         NEW s, router' = [router EXCEPT ![c] = s],
         s.link = TRUE, s.version = router[c].version, s.tainted = router[c].tainted,
         s.session = router[c].session, s.serial = router[c].serial,
         s.data = router[c].data, s.stage = router[c].stage,
         s.asked \in {"odd", "reset", "serial"}, s.asked = "serial" => s.session # 0,
         s.asked \in {"reset", "serial"} =>
           s.since[1] = session /\ s.since[2] \in 1 .. Len(served[session]),
         Asks(s, m)
  PROVE  DataInv'
<1>1. /\ conn' = conn /\ wire' = wire /\ Placed(conn[c]) /\ DOMAIN inbox = Routers
      /\ Holds(router[c], served, session)
      /\ Converses(wire[c], conn[c], inbox[c], router[c], served[session], session)
  BY DataFields, Zenon
<1>2. inbox[c] = <<>> /\ Converses(wire[c], conn[c], <<m>>, s, served[session], session)
  BY <1>1, ConversesAsk, Zenon
<1> QED
  BY <1>1, <1>2, Shapes, HoldsSame, OneData

LEMMA NowServed ==
  ASSUME DataInv
  PROVE  Now[1] = session /\ Now[2] = Len(served[session])
         /\ Now[2] \in 1 .. Len(served[session])
BY LogFacts DEF DataInv, Now

LEMMA AskData ==
  ASSUME Inv, DataInv, NEW c \in Routers, Ask(c)
  PROVE  DataInv'
<1> DEFINE r == router[c]
           kind == IF r.session = 0 THEN "reset" ELSE "serial"
           m == [kind |-> kind, version |-> r.version, session |-> r.session,
                 serial |-> r.serial]
           s == [r EXCEPT !.asked = kind, !.since = Now, !.dirty = FALSE]
<1> HIDE DEF kind
<1> HIDE DEF m, s, r
<1> QED
  BY Shapes, NowServed, SendData DEF r, Ask, RouterFields, Asks, Sends, routerOnly,
         updateVars

LEMMA BlunderData ==
  ASSUME Inv, DataInv, NEW c \in Routers, Blunder(c)
  PROVE  DataInv'
<1> DEFINE r == router[c]
           m(kind, v) == [kind |-> kind, version |-> v, session |-> r.session,
                          serial |-> r.serial]
           s == [r EXCEPT !.asked = "odd"]
<1>1. /\ UNCHANGED <<cacheVars, session, served, updates, conn, wire>>
      /\ r.link /\ r.asked = "none"
      /\ \/ inbox' = [inbox EXCEPT ![c] = Append(@, m("reset", 0))]
         \/ \E kind \in {"bad", "other"} :
              inbox' = [inbox EXCEPT ![c] = Append(@, m(kind, r.version))]
  BY SessionAssumption, Zenon DEF Blunder, Sends, routerOnly, updateVars
<1>2. router' = [router EXCEPT ![c] = s]
  BY Zenon DEF Blunder, RouterFields
<1>3. /\ s.link = TRUE /\ s.version = r.version /\ s.tainted = r.tainted
      /\ s.session = r.session /\ s.serial = r.serial /\ s.data = r.data
      /\ s.stage = r.stage /\ s.asked = "odd"
  BY <1>1, Shapes, Zenon DEF RouterFields
<1>4. \A kind, v : m(kind, v).kind = kind /\ m(kind, v).version = v
  BY Zenon
<1> HIDE DEF m, s, r
<1>5. Asks(s, m("reset", 0)) /\ \A kind \in {"bad", "other"} : Asks(s, m(kind, r.version))
  BY <1>3, <1>4 DEF Asks
<1>6. PICK u : inbox' = [inbox EXCEPT ![c] = Append(@, u)] /\ Asks(s, u)
  BY <1>1, <1>5, Zenon
<1> QED
  BY <1>1, <1>2, <1>3, <1>6, SendData, Zenon DEF r

LEMMA HangUpData ==
  ASSUME Inv, DataInv, NEW c \in Routers, HangUp(c)
  PROVE  DataInv'
<1>1. /\ \A d \in Routers : d # c => router'[d] = router[d] /\ wire'[d] = wire[d]
      /\ router'[c].link = FALSE /\ router'[c].version = router[c].version
      /\ router'[c].tainted = router[c].tainted /\ router'[c].session = router[c].session
      /\ router'[c].serial = router[c].serial /\ router'[c].data = router[c].data
      /\ router'[c].asked = "none"
  BY Shapes, Zenon DEF HangUp, Unlinked, RouterFields
<1> QED
  BY <1>1, DataFields, HoldsSame, OneData, Zenon DEF HangUp, routerOnly, updateVars

\* The router c takes over the first PDU on its wire.
LEMMA ReceiveFacts ==
  ASSUME Inv, DataInv, NEW c \in Routers, Receive(c), NEW r, r = router[c],
         NEW p, p = Head(wire[c])
  PROVE  /\ UNCHANGED <<cacheVars, session, served, updates, conn>>
         /\ r.link = TRUE /\ DOMAIN r = RouterFields
         /\ IsSeq(wire[c]) /\ Len(wire[c]) >= 1
         /\ p.type \in PduTypes /\ (Inside(p) <=> r.stage # <<>>)
         /\ router' = [router EXCEPT ![c] = Applied(r, p)] /\ router'[c] = Applied(r, p)
         /\ wire'[c] = Tail(wire[c])
         /\ \A d \in Routers : d # c => router'[d] = router[d] /\ wire'[d] = wire[d]
         /\ Converses(wire[c], conn[c], inbox[c], r, served[session], session)
         /\ Holds(r, served, session)
<1>1. /\ UNCHANGED <<cacheVars, session, served, updates, conn>> /\ r.link
      /\ wire[c] # <<>>
      /\ router' = [router EXCEPT ![c] = Applied(r, p)]
      /\ wire' = [wire EXCEPT ![c] = Tail(wire[c])]
  BY Zenon DEF Receive, routerOnly, updateVars
<1>2. Framed(wire[c], r.stage) /\ DOMAIN r = RouterFields /\ r.link = TRUE /\ IsSeq(wire[c])
  BY <1>1, Shapes, Zenon DEF Fits, Framed, IsPdus
<1>3. Len(wire[c]) >= 1 /\ Len(wire[c]) \in Nat /\ p = wire[c][1]
  <2>1. PICK S : wire[c] \in Seq(S)
    BY <1>2, Zenon DEF IsSeq
  <2> QED
    BY <1>1
<1> QED
  BY <1>1, <1>2, <1>3, DataFields, Shapes DEF Framed, IsPdus

LEMMA AppliedQuiet ==
  ASSUME NEW r, DOMAIN r = RouterFields, NEW p, Quiet(p)
  PROVE  /\ SameQuery(r, Applied(r, p)) /\ Applied(r, p).data = r.data
         /\ Applied(r, p).link = r.link /\ Applied(r, p).stage = r.stage
<1> USE DEF RouterFields, SameQuery
<1>1. CASE p.type = "SerialNotify"
  BY <1>1, Zenon DEF Applied
<1>2. CASE p.type = "ErrorReport"
  BY <1>2, Zenon DEF Applied
<1> QED
  BY <1>1, <1>2, Zenon DEF Quiet

LEMMA AppliedEnd ==
  ASSUME NEW r, DOMAIN r = RouterFields, NEW p, p.type = "EndOfData"
  PROVE  TakesOver(r, p, Applied(r, p)) /\ Applied(r, p).since = <<0, 0>>
<1>1. Applied(r, p) =
        [r EXCEPT !.session = p.session, !.serial = p.serial, !.data = r.stage[1],
                  !.tainted = (r.asked = "serial" /\ @) \/ p.asOf # p.serial,
                  !.stage = <<>>, !.asked = "none", !.since = <<0, 0>>]
  BY Zenon DEF Applied
<1> QED
  BY <1>1, Zenon DEF RouterFields, TakesOver

\* A PDU of a response, or one between responses, but not the last of a response.
LEMMA ReceiveOn ==
  ASSUME Inv, DataInv, NEW c \in Routers, Receive(c), NEW r, r = router[c],
         NEW p, p = Head(wire[c]), ~Ends(p), NEW s, s = Applied(r, p)
  PROVE  /\ SameQuery(r, s) /\ s.link = r.link /\ s.data = r.data
         /\ Converses(Tail(wire[c]), conn[c], inbox[c], s, served[session], session)
<1>1. /\ DOMAIN r = RouterFields /\ IsSeq(wire[c]) /\ Len(wire[c]) >= 1
      /\ p.type \in PduTypes /\ (Inside(p) <=> r.stage # <<>>)
      /\ Converses(wire[c], conn[c], inbox[c], r, served[session], session)
  BY ReceiveFacts, Zenon
<1>2. CASE Quiet(p)
  BY <1>1, <1>2, AppliedQuiet, ReceiveQuiet, Zenon
<1>3. CASE p.type \in Payloads \cup {"CacheResponse"}
  <2>1. SameQuery(r, s) /\ s.data = r.data /\ s.link = r.link
    BY <1>1, <1>3, AppliedPart, Zenon
  <2> DEFINE T == InFlight(Tail(wire[c]), conn[c])
  <2>2. ASSUME NEW d, Leads(r, {p} \cup T, d)
        PROVE  Leads(s, T, d)
    <3>1. CASE p.type \in Payloads
      BY <1>1, <2>2, <3>1, AppliedPayload DEF Inside, Payloads
    <3>2. CASE p.type = "CacheResponse"
      <4>1. s = [r EXCEPT !.stage = <<IF r.asked = "reset" THEN Empty ELSE r.data>>]
        BY <3>2, Zenon DEF Applied
      <4> QED
        BY <1>1, <2>1, <2>2, <3>2, <4>1, LeadsResponse, Zenon DEF Base, Inside, RouterFields
    <3> QED
      BY <1>3, <3>1, <3>2, Zenon
  <2>3. Converses(Tail(wire[c]), conn[c], inbox[c], s, served[session], session)
    BY <1>1, <1>3, <2>1, <2>2, ReceivePart, Zenon DEF Quiet, Payloads
  <2> QED
    BY <2>1, <2>3, Zenon
<1> QED
  BY <1>1, <1>2, <1>3, Zenon DEF PduTypes, Quiet, Payloads, Ends

\* The fields that Receive leaves alone when the PDU is not a Cache Reset.
LEMMA ReceiveKeeps ==
  ASSUME Inv, DataInv, NEW c \in Routers, Receive(c), NEW r, r = router[c],
         NEW p, p = Head(wire[c]), p.type # "CacheReset", NEW s, s = Applied(r, p),
         Holds(s, served, session),
         Converses(Tail(wire[c]), conn[c], inbox[c], s, served[session], session)
  PROVE  DataInv'
BY Shapes, DataFields, OneData, Zenon DEF Receive, routerOnly, updateVars

LEMMA ReceiveResetData ==
  ASSUME Inv, DataInv, NEW c \in Routers, Receive(c), Head(wire[c]).type = "CacheReset"
  PROVE  DataInv'
<1> DEFINE r == router[c]
           p == Head(wire[c])
           s == [r EXCEPT !.asked = "reset", !.since = Now]
           m == [kind |-> "reset", version |-> r.version, session |-> r.session,
                 serial |-> r.serial]
<1>1. /\ DOMAIN r = RouterFields /\ IsSeq(wire[c]) /\ Len(wire[c]) >= 1 /\ r.link = TRUE
      /\ (Inside(p) <=> r.stage # <<>>)
      /\ Converses(wire[c], conn[c], inbox[c], r, served[session], session)
      /\ Holds(r, served, session)
  BY ReceiveFacts, Zenon
<1>2. /\ router'[c] = s /\ wire'[c] = Tail(wire[c])
      /\ \A d \in Routers : d # c => router'[d] = router[d] /\ wire'[d] = wire[d]
  <2>1. Applied(r, p) = s
    BY Zenon DEF Applied
  <2> HIDE DEF s
  <2> QED
    BY <2>1, Shapes, Zenon DEF Receive
<1>3. r.stage = <<>>
  BY <1>1, Zenon DEF Inside
<1>4. inbox' = [inbox EXCEPT ![c] = Append(@, m)]
  BY Zenon DEF Receive, Sends
<1>5. /\ s.link = r.link /\ s.version = r.version /\ s.tainted = r.tainted
      /\ s.session = r.session /\ s.serial = r.serial /\ s.data = r.data
      /\ s.stage = r.stage /\ s.asked = "reset" /\ s.since = Now
  BY DEF RouterFields
<1>6. /\ m.kind = "reset" /\ m.version = r.version /\ m.session = r.session
      /\ m.serial = r.serial
  BY Zenon
<1> HIDE DEF m, s, r, p
<1>7. /\ inbox[c] = <<>>
      /\ Converses(Tail(wire[c]), conn[c], <<m>>, s, served[session], session)
  BY <1>1, <1>3, <1>5, <1>6, NowServed, ReceiveReset, SMTT(20) DEF Asks
<1> QED
  BY <1>1, <1>2, <1>4, <1>5, <1>7, DataFields, HoldsSame, OneData, SMTT(20) DEF Receive,
         routerOnly, updateVars

LEMMA ReceiveData ==
  ASSUME Inv, DataInv, NEW c \in Routers, Receive(c)
  PROVE  DataInv'
<1> DEFINE r == router[c]
           p == Head(wire[c])
           s == Applied(r, p)
<1>1. /\ DOMAIN r = RouterFields /\ IsSeq(wire[c]) /\ Len(wire[c]) >= 1 /\ r.link = TRUE
      /\ (Inside(p) <=> r.stage # <<>>)
      /\ Converses(wire[c], conn[c], inbox[c], r, served[session], session)
      /\ Holds(r, served, session)
  BY ReceiveFacts, Zenon
<1> HIDE DEF r, p, s
<1>2. r = router[c] /\ p = Head(wire[c]) /\ s = Applied(r, p)
  BY Zenon DEF r, p, s
<1>3. CASE p.type = "CacheReset"
  BY <1>2, <1>3, ReceiveResetData, Zenon
<1>4. CASE ~Ends(p)
  <2>1. /\ SameQuery(r, s) /\ s.link = r.link /\ s.data = r.data
        /\ Converses(Tail(wire[c]), conn[c], inbox[c], s, served[session], session)
    BY <1>2, <1>4, ReceiveOn
  <2>2. Holds(s, served, session)
    BY <1>1, <2>1, HoldsSame, Zenon DEF SameQuery, Holds
  <2> QED
    BY <1>2, <1>4, <2>1, <2>2, ReceiveKeeps, Zenon DEF Ends
<1>5. CASE p.type = "EndOfData"
  <2>1. TakesOver(r, p, s)
    BY <1>1, <1>2, <1>5, AppliedEnd, Zenon
  <2>2. Holds(s, served, session)
    BY <1>1, <1>2, <1>5, <2>1, DataFields, LogFacts, HoldsEnd, Zenon DEF Inside
  <2> QED
    BY <1>1, <1>2, <1>5, <2>1, <2>2, ReceiveEnd, ReceiveKeeps, SMTT(20) DEF TakesOver
<1> QED
  BY <1>3, <1>4, <1>5, Zenon DEF Ends
-----------------------------------------------------------------------------
(* The server moves on. *)

LEMMA UpdateData ==
  ASSUME DataInv, Update, CacheExact', LogInv',
         \A y \in 1 .. session : Grows(served[y], served'[y])
  PROVE  DataInv'
<1>1. /\ session' = session /\ conn' = conn /\ inbox' = inbox /\ wire' = wire /\ router' = router
      /\ DOMAIN inbox = Routers
  BY Zenon DEF Update, DataInv
<1>2. ASSUME NEW c \in Routers
      PROVE  /\ Placed(conn[c]) /\ Holds(router[c], served', session)
             /\ router[c].link =>
                  Converses(wire[c], conn[c], inbox[c], router[c], served'[session], session)
  BY LogFacts, DataFields, HoldsGrows, ConversesGrows, SMTT(20) DEF DataInv
<1> QED
  BY <1>1, <1>2, Zenon DEF DataInv

LEMMA RestartData ==
  ASSUME Inv, DataInv, Restart, CacheExact', LogInv',
         \A y \in 1 .. session : Grows(served[y], served'[y])
  PROVE  DataInv'
<1>1. session' = session + 1 /\ session \in Nat
  BY LogFacts, Zenon DEF DataInv, Restart
<1>2. /\ conn' = [c \in Routers |-> NoClient] /\ inbox' = [c \in Routers |-> <<>>]
      /\ router' = [c \in Routers |-> Unlinked(router[c])]
  BY Zenon DEF Restart
<1>3. session' \in Nat /\ session <= session'
  BY <1>1
<1>4. ASSUME NEW c \in Routers
      PROVE  Placed(conn'[c]) /\ Holds(router'[c], served', session') /\ ~router'[c].link
  BY <1>1, <1>2, <1>3, Shapes, DataFields, HoldsGrows, HoldsSame, Zenon DEF Unlinked,
         RouterFields, NoClient, Placed, Places, Responding
<1> QED
  BY <1>2, <1>4, Zenon DEF DataInv
-----------------------------------------------------------------------------
\* Every step but the two that change the data served.
LEMMA StepData ==
  ASSUME Inv, DataInv, [Next]_vars
  PROVE  DataInv' \/ Update \/ Restart
BY SameData, HandlerData, DialData, AskData, BlunderData, HangUpData, ReceiveData,
   NotifyData, Zenon DEF notifyClients, vars, updateVars, Next
=============================================================================
