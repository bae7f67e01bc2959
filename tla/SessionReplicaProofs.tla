----------------------- MODULE SessionReplicaProofs -----------------------
(***************************************************************************)
(* Proofs about module Session, for any routers, data, buffers, and        *)
(* numbers of updates, connections and restarts: routers hold what was     *)
(* served to them, and the server keeps the promise of module Replica.     *)
(*                                                                         *)
(* Module SessionDataProofs follows a response to the router, and module   *)
(* CacheProofs the diffs of the cache; what is left is that the log of the *)
(* data served grows as the cache does.                                    *)
(***************************************************************************)
EXTENDS SessionProofs, SessionDataProofs, CacheProofs

(* The log grows with the cache. *)

LEMMA CacheInvExact == CacheInv => CacheExact
BY InvRoaDiffs, InvAspaCustomers, Zenon DEF CacheInv, CacheExact

\* Each record of the history, and the data it starts from, is in the log.
Recorded(h, p, log) ==
  \A i \in 1 .. Len(h) :
    Served(log, h[i].from) /\ p[i] = log[Position(h[i].from)]

LEMMA RecordedPushes ==
  ASSUME NEW h, NEW p, NEW log, Recorded(h, p, log), Len(h) \in Nat,
         NEW more, Grows(log, more),
         NEW S, NEW T, NEW e, NEW d, NEW t, NEW u, Pushed(t, h, e, S), Pushed(u, p, d, T),
         Evicted(p) = Evicted(h), Len(u) = Len(t),
         Served(log, e.from), d = log[Position(e.from)]
  PROVE  Recorded(t, u, more)
<1> DEFINE n == Len(t)
           m == Len(h)
           o == Evicted(h)
<1>1. n \in 1 .. MaxHistory /\ o \in {0, 1} /\ n = m + 1 - o /\ m \in Nat
  BY Zenon DEF Pushed
<1>2. /\ \A j \in 1 .. n - 1 : t[j] = h[j + o] /\ u[j] = p[j + o]
      /\ t[n] = e /\ u[n] = d
  BY Zenon DEF Pushed, Renumbers
<1> HIDE DEF n, m, o
<1>3. \A j \in 1 .. n : j = n \/ (j \in 1 .. n - 1 /\ j + o \in 1 .. m)
  BY <1>1, MaxHistoryAssumption, SMTT(20)
<1>4. ASSUME NEW s, Served(log, s)
      PROVE  Served(more, s) /\ more[Position(s)] = log[Position(s)]
  BY <1>4, ServedGrows, Zenon
<1>5. ASSUME NEW i \in 1 .. n
      PROVE  Served(log, t[i].from) /\ u[i] = log[Position(t[i].from)]
  BY <1>2, <1>3, Zenon DEF Recorded, m
<1> QED
  BY <1>4, <1>5, Zenon DEF Recorded, n

\* The place of a serial and of the next.
LEMMA NextPosition ==
  ASSUME NEW s \in Serials, NEW n \in Nat \ {0}, Position(s) = n, n < SerialMod
  PROVE  Position(incrementSerial(s)) = n + 1 /\ incrementSerial(s) \in Serials
BY SerialModAssumption, IncrementSerial, SMTT(20) DEF Serials, Position

LEMMA UpdateLog ==
  ASSUME CacheInv, LogInv, Update
  PROVE  /\ CacheInv' /\ LogInv' /\ session' = session
         /\ \A y \in 1 .. session : Grows(served[y], served'[y])
         /\ roas' \in SUBSET Roas /\ aspas' \in AspaSets
         /\ served' = [served EXCEPT ![session] = Append(@, Data(roas', aspas'))]
<1> DEFINE log == served[session]
           n == Len(log)
           d == Data(roas', aspas')
           more == Append(log, d)
<1>1. /\ updates < MaxUpdates /\ CacheNext /\ updates' = updates + 1
      /\ served' = [served EXCEPT ![session] = more] /\ session' = session
  BY Zenon DEF Update
<1>2. PICK newROAs \in SUBSET Roas, newASPAs \in AspaSets : updateCache(newROAs, newASPAs)
  BY <1>1, Zenon DEF CacheNext
<1>3. CacheTypeOK /\ CacheInv'
  BY <1>1, CacheNextInv, Zenon DEF CacheInv
<1> DEFINE rec == newDiff(makeDiff(newROAs, roas), makeASPADiff(newASPAs, aspas))
           old == [roas |-> roas, aspas |-> aspas]
<1>4. /\ roas' = newROAs /\ aspas' = newASPAs /\ serial' = incrementSerial(serial)
      /\ Pushed(history', history, rec, diffRecord) /\ Pushed(past', past, old, Datasets)
      /\ Evicted(past) = Evicted(history) /\ Len(past') = Len(history')
  BY <1>2, <1>3, UpdateShape, Zenon DEF UpdateEffect
<1>5. rec.from = serial
  BY Zenon DEF newDiff
<1> HIDE DEF rec
<1>6. d \in Datasets /\ roas' \in SUBSET Roas /\ aspas' \in AspaSets
  BY <1>4, Zenon DEF Data, Datasets
<1>7. /\ session \in Sessions /\ session \in 1 .. session /\ log \in Seq(Datasets)
      /\ n \in Nat \ {0} /\ Served(log, serial) /\ log[Position(serial)] = Data(roas, aspas)
  BY CacheInvExact, LogFacts, Zenon DEF LogInv
<1>8. old = log[Position(rec.from)] /\ Served(log, rec.from)
  BY <1>5, <1>7, Zenon DEF Data
<1> HIDE DEF d
<1> HIDE DEF log
<1>9. /\ Grows(log, more) /\ more \in Seq(Datasets) /\ Len(more) = n + 1
      /\ more[n + 1] = d
  <2>1. more = Append(log, d)
    BY Zenon
  <2> HIDE DEF more, n
  <2> QED
    BY <1>6, <1>7, <2>1, SMTT(20) DEF n, Grows
<1>10. n <= updates + 1 /\ updates \in 0 .. MaxUpdates /\ Position(serial) = n
  BY Zenon DEF LogInv, log
<1> HIDE DEF log, n, more, old
<1>11. /\ DOMAIN served' = Sessions /\ served'[session] = more
       /\ \A y \in Sessions : y # session => served'[y] = served[y]
  BY <1>1, <1>7, Zenon DEF LogInv
<1>12. \A y \in Sessions : served'[y] \in Seq(Datasets) /\ Grows(served[y], served'[y])
  BY <1>9, <1>11, SameGrows, Zenon DEF log, LogInv
<1>13. \A y \in 1 .. session : y \in Sessions
  BY <1>7, SessionAssumption, SMTT(20) DEF Sessions
<1>14. ASSUME NEW y \in 1 .. session
       PROVE  Len(served'[y]) >= 1
  BY <1>12, <1>13, SMTT(20) DEF LogInv, Grows
<1>15. Recorded(history', past', more)
  <2>1. Recorded(history, past, log) /\ Len(history) \in Nat
    BY <1>3, SMTT(20) DEF LogInv, Recorded, log, CacheTypeOK
  <2> QED
    BY <1>4, <1>8, <1>9, <2>1, RecordedPushes, Zenon
<1>16. Position(serial') = n + 1
  <2>1. n < SerialMod
    BY <1>1, <1>7, <1>10, SessionAssumption, SerialModAssumption, SMTT(20)
  <2> QED
    BY <1>3, <1>4, <1>7, <1>10, <2>1, NextPosition, Zenon DEF CacheTypeOK
<1>17. /\ Len(served'[session']) = n + 1 /\ Len(served'[session']) <= updates' + 1
       /\ updates' \in 0 .. MaxUpdates
  BY <1>1, <1>7, <1>9, <1>10, <1>11, SessionAssumption, SMTT(20)
<1>18. served'[session'][Len(served'[session'])] = Data(roas', aspas')
  BY <1>1, <1>9, <1>11, <1>17, Zenon DEF d
<1>19. LogInv'
  BY <1>1, <1>7, <1>11, <1>12, <1>14, <1>15, <1>16, <1>17, <1>18, Zenon
     DEF LogInv, Served, Recorded
<1> QED
  BY <1>1, <1>3, <1>6, <1>12, <1>13, <1>19, Zenon DEF more, log, d

LEMMA RestartLog ==
  ASSUME CacheInv, LogInv, Restart
  PROVE  /\ CacheInv' /\ LogInv' /\ session' = session + 1 /\ session \in Nat
         /\ \A y \in 1 .. session : served'[y] = served[y] /\ Grows(served[y], served'[y])
         /\ served'[session + 1] = <<Data(roas', aspas')>>
         /\ roas' \in SUBSET Roas /\ aspas' \in AspaSets
<1> DEFINE d == Data(roas', aspas')
           one == <<d>>
           x == session + 1
<1>1. /\ session <= MaxRestarts /\ updates < MaxUpdates /\ updates' = updates + 1
      /\ session' = x /\ roas' \in SUBSET Roas /\ aspas' \in AspaSets
      /\ serial' = 1 /\ history' = <<>> /\ past' = <<>>
      /\ served' = [served EXCEPT ![x] = one]
  BY Zenon DEF Restart
<1>2. CacheInv'
  <2>1. CacheInit' => CacheInv'
    BY CacheInitInv, PTL
  <2> QED
    BY <1>1, <2>1, Zenon DEF CacheInit
<1>3. one \in Seq(Datasets) /\ Len(one) = 1 /\ one[1] = d
  BY <1>1, SMTT(20) DEF Data, Datasets
<1>4. session \in Nat \ {0} /\ session \in Sessions
  BY CacheInvExact, LogFacts, Zenon DEF LogInv
<1>5. x \in Sessions /\ (\A y \in 1 .. x : y \in Sessions /\ (y = x \/ y \in 1 .. session))
      /\ (\A y \in 1 .. session : y # x /\ y \in Sessions)
  BY <1>1, <1>4, SessionAssumption, SMTT(20) DEF Sessions
<1> HIDE DEF d, one, x
<1>6. /\ DOMAIN served' = Sessions /\ served'[x] = one
      /\ \A y \in Sessions : y # x => served'[y] = served[y]
  BY <1>1, <1>5, Zenon DEF LogInv
<1>7. ASSUME NEW y \in 1 .. session
      PROVE  served'[y] = served[y] /\ Grows(served[y], served'[y])
  BY <1>5, <1>6, SameGrows, Zenon DEF LogInv
<1>8. \A y \in 1 .. session' : Len(served'[y]) >= 1
  <2>1. Len(served'[x]) = 1
    BY <1>3, <1>6, Zenon
  <2>2. Len(served'[x]) >= 1
    BY <2>1, SMTT(20)
  <2> QED
    BY <1>1, <1>5, <1>7, <2>2, Zenon DEF LogInv
<1>9. updates' \in 0 .. MaxUpdates /\ 1 <= updates' + 1
  BY <1>1, SessionAssumption, SMTT(20) DEF LogInv
<1>10. Position(serial') = 1
  BY <1>1, SMTT(20) DEF Position
<1>11. \A i \in 1 .. Len(history') : FALSE
  BY <1>1, SMTT(20)
<1>12. LogInv'
  BY <1>1, <1>3, <1>5, <1>6, <1>8, <1>9, <1>10, <1>11, Zenon DEF LogInv, Served, d
<1> QED
  BY <1>1, <1>2, <1>4, <1>6, <1>7, <1>12, Zenon DEF x, one, d
-----------------------------------------------------------------------------
(* The promise of module Replica. *)

LEMMA ReceiveReplica ==
  ASSUME Inv, DataInv, NEW c \in Routers, Receive(c)
  PROVE  \/ UNCHANGED Promise!vars
         \/ Promise!Ask(c) \/ Promise!GiveUp(c) \/ Promise!Answer(c) \/ Promise!Raced(c)
<1> DEFINE r == router[c]
           p == Head(wire[c])
           s == Applied(r, p)
<1>1. UNCHANGED <<session, served>> /\ router'[c] = s
      /\ \A d \in Routers : d # c => router'[d] = router[d]
  BY Shapes, Zenon DEF Receive, routerOnly, updateVars
<1>2. /\ DOMAIN r = RouterFields /\ IsSeq(wire[c]) /\ Len(wire[c]) >= 1
      /\ (Inside(p) <=> r.stage # <<>>)
      /\ Converses(wire[c], conn[c], inbox[c], r, served[session], session)
      /\ Holds(r, served, session)
  BY ReceiveFacts, Zenon
<1> HIDE DEF r, p, s
<1>3. r = router[c] /\ p = Head(wire[c]) /\ s = Applied(r, p)
  BY Zenon DEF r, p, s
<1>4. CASE p.type = "CacheReset"
  <2>1. /\ s.version = r.version /\ s.tainted = r.tainted /\ s.session = r.session
        /\ s.serial = r.serial /\ s.data = r.data /\ s.since = Now
    BY <1>2, <1>3, <1>4, Zenon DEF RouterFields, Applied
  <2> QED
    BY <1>1, <1>3, <2>1, ViewSame, AskReplica, Zenon
<1>5. CASE p.type = "EndOfData"
  <2>1. TakesOver(r, p, s) /\ s.since = <<0, 0>>
    BY <1>2, <1>3, <1>5, AppliedEnd, Zenon
  <2>2. session \in Nat \ {0}
    BY PublishedLog, Zenon DEF DataInv
  <2>3. /\ r.asked \in {"reset", "serial"} /\ p.session = session
        /\ Served(served[session], p.serial) /\ Served(served[session], p.asOf)
        /\ r.since[2] <= Position(p.serial) /\ Position(p.serial) <= Position(p.asOf)
    BY <1>2, <1>3, <1>5, ReceiveFlight, Zenon DEF Answers, Converses, Pending, Of
  <2>4. r.since[1] = session /\ r.since[2] \in 1 .. Len(served[session])
    BY <1>2, <2>3, Zenon DEF Converses, Awaits
  <2>5. ASSUME p.asOf # p.serial PROVE r.since # Now
    <3> DEFINE a == Position(p.asOf)
               b == Position(p.serial)
               n == Len(served[session])
               u == r.since
    <3> HIDE DEF a, b, n, u
    <3>1. a # b /\ a \in 1 .. n /\ b \in 1 .. n /\ n \in Nat /\ u[2] <= b /\ b <= a
          /\ u[2] \in 1 .. n
      BY <2>2, <2>3, <2>4, <2>5, PublishedLog, SerialModAssumption, SMTT(20) DEF a, b, n, u,
             Served, Position, Serials, DataInv
    <3> QED
      BY <3>1, SMTT(20) DEF Now, u, n
  <2>6. /\ s.version = r.version /\ s.session = session /\ s.serial = p.serial
        /\ s.tainted => r.tainted \/ p.asOf # p.serial
    BY <2>1, <2>3, Zenon DEF TakesOver
  <2>7. r.since[2] \in Nat /\ r.since[2] <= Position(s.serial)
    BY <2>3, <2>4, <2>6, SMTT(20)
  <2> QED
    BY <1>1, <1>2, <1>3, <1>5, <2>1, <2>2, <2>4, <2>5, <2>6, <2>7, HoldsEnd, AnswerReplica,
       Zenon DEF Inside
<1>6. CASE ~Ends(p)
  BY <1>1, <1>3, <1>6, ReceiveOn, ViewSame, SameReplica, SMTT(20) DEF SameQuery
<1> QED
  BY <1>4, <1>5, <1>6, Zenon DEF Ends

LEMMA NextReplica ==
  Inv /\ DataInv /\ DataInv' /\ [Next]_vars => [Promise!Next]_Promise!vars
<1> SUFFICES ASSUME Inv, DataInv, DataInv', [Next]_vars PROVE [Promise!Next]_Promise!vars
  BY Zenon
<1>1. CASE Update
  BY <1>1, UpdatePublishes, Zenon DEF Promise!Next, DataInv
<1>2. CASE Restart
  BY <1>2, RestartRestarts, Zenon DEF Promise!Next, DataInv
<1>3. CASE notifyClients \/ UNCHANGED vars
  BY <1>3, SameRouters, Zenon DEF notifyClients, vars, updateVars
<1>4. ASSUME NEW c \in Routers, Handler(c) \/ ReadFails(c)
             \/ \E n \in 1 .. MaxUpdates : NotifyNext(n, c) \/ NotifyWrite(n, c)
      PROVE  [Promise!Next]_Promise!vars
  BY <1>4, HandlerReplica, HandlerRouters, SameRouters, Zenon
<1>5. ASSUME NEW c \in Routers, Dial(c) \/ Blunder(c)
      PROVE  [Promise!Next]_Promise!vars
  <2>1. \A d \in Routers :
          /\ router'[d].version = router[d].version /\ router'[d].tainted = router[d].tainted
          /\ router'[d].session = router[d].session /\ router'[d].serial = router[d].serial
          /\ router'[d].data = router[d].data /\ router'[d].since = router[d].since
    BY <1>5, Shapes, SMTT(20) DEF Dial, Blunder, RouterFields
  <2> QED
    BY <1>5, <2>1, ViewSame, HandlerReplica, SameReplica, Zenon
<1>6. ASSUME NEW c \in Routers, Ask(c) \/ HangUp(c)
      PROVE  [Promise!Next]_Promise!vars
  <2>1. /\ router'[c].version = router[c].version /\ router'[c].tainted = router[c].tainted
        /\ router'[c].session = router[c].session /\ router'[c].serial = router[c].serial
        /\ router'[c].data = router[c].data /\ router'[c].since \in {Now, <<0, 0>>}
    <3>1. CASE Ask(c)
      <4>1. PICK kind : router' = [router EXCEPT ![c].asked = kind, ![c].since = Now,
                                                 ![c].dirty = FALSE]
        BY <3>1, Zenon DEF Ask
      <4> QED
        BY <4>1, Shapes, Zenon DEF RouterFields
    <3>2. CASE HangUp(c)
      BY <3>2, Shapes, Zenon DEF HangUp, Unlinked, RouterFields
    <3> QED
      BY <1>6, <3>1, <3>2, Zenon
  <2>2. /\ UNCHANGED <<session, served>>
        /\ \A d \in Routers : d # c => router'[d] = router[d]
    BY <1>6, Shapes, Zenon DEF Ask, HangUp, routerOnly, updateVars
  <2>3. ViewOf(router'[c]) = ViewOf(router[c])
    BY <2>1, ViewSame, Zenon
  <2> QED
    BY <2>1, <2>2, <2>3, AskReplica, Zenon DEF Promise!Next
<1>7. ASSUME NEW c \in Routers, Receive(c)
      PROVE  [Promise!Next]_Promise!vars
  BY <1>7, ReceiveReplica, Zenon DEF Promise!Next
<1> QED
  BY <1>1, <1>2, <1>3, <1>4, <1>5, <1>6, <1>7, Zenon DEF Next
-----------------------------------------------------------------------------
(* The invariant. *)

LEMMA InitAll == Init => Inv /\ CacheInv /\ DataInv
BY InitInv, CacheInitInv, CacheInvExact, InitData, Zenon DEF Init

LEMMA NextAll ==
  Inv /\ CacheInv /\ DataInv /\ [Next]_vars => Inv' /\ CacheInv' /\ DataInv'
<1> SUFFICES ASSUME Inv, CacheInv, DataInv, [Next]_vars
             PROVE  Inv' /\ CacheInv' /\ DataInv'
  BY Zenon
<1>1. Inv' /\ LogInv
  BY NextInv, Zenon DEF DataInv
<1>2. CacheInv' => CacheExact'
  BY CacheInvExact, PTL
<1>3. CASE Update
  BY <1>1, <1>2, <1>3, UpdateLog, UpdateData, Zenon
<1>4. CASE Restart
  BY <1>1, <1>2, <1>4, RestartLog, RestartData, Zenon
<1>5. CASE ~Update /\ ~Restart
  BY <1>1, <1>5, StepData, StepCache, CacheNextInv, Zenon
<1> QED
  BY <1>3, <1>4, <1>5, Zenon
-----------------------------------------------------------------------------
\* Every state of the server and its routers has its type: a handler past negotiation has
\* a version the server speaks, a goroutine that holds writeMu has something to write
\* (negotiate.go:10-40, client_handler.go:199, 292).
THEOREM SessionTypes == Spec => []SessionTypeOK
BY InitAll, NextAll, InitRegistered, NextRegistered, InvTypes, PTL DEF Spec

\* A router that has taken over a response holds exactly the data that was served under
\* the serial it was given, whatever sequence of full and incremental responses,
\* updates, lost connections and restarts came before, unless an update fell between the
\* two reads of the cache by handleSerialQuery (client_handler.go:162 and 176).
THEOREM RoutersExact == Spec => []ExactUnlessRaced
BY InitAll, NextAll, InvExact, PTL DEF Spec

\* The server and its routers, with all their connections, goroutines and PDUs, keep the
\* promise of module Replica: a router moves only in answer to its own query, to a
\* version that was served and that is no older than the latest one when it asked, and
\* holds that version's data unless an update fell between the two reads of the cache by
\* handleSerialQuery (client_handler.go:162-184, 296-330; cache.go:226-307).
THEOREM SessionImplementsReplica == Spec => ImplementsReplica
BY InitAll, NextAll, InitReplica, NextReplica, PTL
   DEF Spec, ImplementsReplica, Promise!Spec

\* No router goes back to an earlier version of the data, whatever is published, when
\* the server restarts and how often the router asks (client_handler.go:342-454).
THEOREM NeverBack == Spec => [][Promise!NotBack]_(Promise!vars)
BY SessionImplementsReplica, PromiseInit, PromiseNext, PTL
   DEF ImplementsReplica, Promise!Spec

\* A router that no answer was raced for holds the data of a version that was published,
\* and of the very version it takes itself to be at (client_handler.go:342-454).
THEOREM OnlyPublished == Spec => []Promise!HoldsPublished
<1>1. Promise!ReplicaInv => Promise!HoldsPublished
  BY Zenon DEF Promise!ReplicaInv
<1> QED
  BY <1>1, SessionImplementsReplica, PromiseInit, PromiseNext, PTL
     DEF ImplementsReplica, Promise!Spec
=============================================================================
