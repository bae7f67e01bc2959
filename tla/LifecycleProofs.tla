-------------------------- MODULE LifecycleProofs --------------------------
(***************************************************************************)
(* Proofs about module Lifecycle, for every set of connections, addresses  *)
(* and gRPC calls.                                                         *)
(***************************************************************************)
EXTENDS Lifecycle, FiniteSetTheorems, TLAPS

InFlight(h) == {c \in Conns : h[c] \in Running}

UpdaterRuns == IF updater = "running" THEN 1 ELSE 0

\* wg counts the handlers that run, and the updater.
Counted == wg = Cardinality(InFlight(handler)) + UpdaterRuns

\* There is no updater before ServeListener has come that far.
UpdaterOnce == serve \in {"load", "context", "listener", "updater"} => updater = "none"

\* A handler that is through with Handle has closed its connection.
ClosedAfter ==
  \A c \in Conns : handler[c] \in {"leaving", "deregistered", "done"} => closed[c]

\* The states in which a connection has an entry in the map, or had one that was
\* replaced.
Served == {"serving", "leaving"}

\* Of two connections that are served under one address, each is known to share it.
SharedBoth ==
  \A c, d \in Conns :
    c # d /\ addr[c] = addr[d] /\ handler[c] \in Served /\ handler[d] \in Served =>
    c \in shared

\* What runs after Wait has returned was counted after that.
RunsLate ==
  wait = "returned" =>
    /\ updater = "running" => "updater" \in late
    /\ \A c \in Conns : handler[c] \in Running => c \in late

\* Nothing is late before Wait, which comes after everything else in Stop.
WaitLast ==
  /\ wait # "returned" => late = {}
  /\ wait # "no" => stop \in {"wait", "clean", "timeout", "exited", "panicked"}

\* Stop finds the listener only when ServeListener has set it.
ListenerSet == "listener" \in fields => serve \notin {"load", "failed", "context", "listener"}

\* Without a listener nothing can be accepted: ServeListener starts at most what it was
\* about to.
OneLate ==
  ~bound => /\ \A c \in Conns : handler[c] # "queued"
            /\ serve \notin {"context", "listener"}
            /\ serve \notin {"accept", "returned"} => late = {}
            /\ \A g, h \in late : g = h

Inv == /\ LifecycleTypeOK /\ UpdaterOnce /\ Counted /\ ClosedAfter
       /\ SharedBoth /\ ClientsExact
       /\ RunsLate /\ WaitLast /\ ListenerSet /\ OneLate
-----------------------------------------------------------------------------
\* There are finitely many connections, so the goroutines can be counted.
LEMMA InFlightFinite ==
  ASSUME NEW h
  PROVE  IsFiniteSet(InFlight(h)) /\ Cardinality(InFlight(h)) \in Nat
<1>1. InFlight(h) \subseteq Conns
  BY DEF InFlight
<1> QED
  BY <1>1, LifecycleAssumption, FS_Subset, FS_CardinalityType

\* g is h, but for connection c.
ButFor(c, g, h) == \A d \in Conns : d # c => g[d] = h[d]

\* A goroutine more.
LEMMA InFlightOneMore ==
  ASSUME NEW g, NEW h, NEW c \in Conns, ButFor(c, g, h), h[c] \notin Running, g[c] \in Running
  PROVE  Cardinality(InFlight(g)) = Cardinality(InFlight(h)) + 1
<1>1. InFlight(g) = InFlight(h) \cup {c}
  BY DEF InFlight, ButFor
<1>2. c \notin InFlight(h)
  BY DEF InFlight
<1> QED
  BY <1>1, <1>2, InFlightFinite, FS_AddElement, Zenon

\* As many as before.
LEMMA InFlightSame ==
  ASSUME NEW g, NEW h, \A d \in Conns : g[d] \in Running <=> h[d] \in Running
  PROVE  Cardinality(InFlight(g)) = Cardinality(InFlight(h))
<1>1. InFlight(g) = InFlight(h)
  BY DEF InFlight
<1> QED
  BY <1>1

\* A count of zero means that no handler runs.
LEMMA NoneInFlight ==
  ASSUME NEW h, Cardinality(InFlight(h)) = 0
  PROVE  \A c \in Conns : h[c] \notin Running
<1>1. InFlight(h) = {}
  BY InFlightFinite, FS_EmptySet
<1> QED
  BY <1>1 DEF InFlight

\* What a step of one handler does to the others: nothing.
LEMMA AtStep ==
  ASSUME LifecycleTypeOK, NEW c \in Conns, NEW from, NEW to, At(c, from, to)
  PROVE  handler[c] = from /\ handler'[c] = to /\ ButFor(c, handler', handler)
BY DEF LifecycleTypeOK, At, ButFor
-----------------------------------------------------------------------------
\* The steps that neither start nor end a goroutine, nor touch a connection.
Quiet == UNCHANGED <<wgVars, updater, handler, addr, closed, clients, shared>>

\* Most steps of Start and Stop, and those of the callers, are of this kind.
LEMMA QuietSteps ==
  ASSUME \/ Start \/ StartFails \/ SetCancelBackground \/ SetListener \/ AcceptFails
         \/ Signal \/ CancelBackground \/ GracefulStop \/ Drained \/ WaitPanics \/ Clean
         \/ Timeout \/ Exit \/ (\E c \in Conns : HangUp(c))
         \/ (\E r : Call(r) \/ GetStats(r) \/ StreamEnds(r))
  PROVE  Quiet
BY DEF Quiet, Start, StartFails, SetCancelBackground, SetListener, AcceptFails, ServeStep,
       Signal, CancelBackground, GracefulStop, Drained, WaitPanics, Clean, Timeout, Exit,
       StopStep, HangUp, Call, GetStats, StreamEnds, CallEnds, serverVars, connVars

\* Every step, sorted by what it does to goroutines and connections.
LEMMA Steps ==
  ASSUME [Next]_vars
  PROVE  \/ Quiet
         \/ StartUpdater \/ UpdaterEnds \/ CloseListener \/ CloseClients \/ Wait \/ WaitReturns
         \/ \E c \in Conns : \/ Accept(c) \/ Spawn(c) \/ Register(c) \/ HandleReturns(c)
                             \/ Deregister(c) \/ Done(c) \/ Dial(c)
<1>1. CASE UNCHANGED vars
  BY <1>1 DEF vars, serverVars, connVars, Quiet
<1>2. CASE Next
  BY <1>2, QuietSteps DEF Next, Serve, Stop, Handler
<1> QED
  BY <1>1, <1>2
-----------------------------------------------------------------------------
\* One group of variables after the other.
LEMMA TypeStep ==
  ASSUME LifecycleTypeOK, [Next]_vars, wg' \in Nat
  PROVE  LifecycleTypeOK'
<1> USE DEF LifecycleTypeOK
<1>1. /\ serve' \in {"load", "failed", "context", "listener", "updater", "accept", "go",
                     "returned"}
      /\ updater' \in {"none", "running", "ended"}
      /\ fields' \subseteq {"cancelBackground", "listener"}
      /\ bound' \in BOOLEAN
  BY Zenon DEF Next, Serve, Stop, Handler, Start, StartFails, SetCancelBackground, SetListener,
         StartUpdater, AcceptFails, Accept, Spawn, UpdaterEnds, ServeStep, Signal,
         CancelBackground, CloseListener, GracefulStop, Drained, CloseClients, Wait,
         WaitReturns, WaitPanics, Clean, Timeout, Exit, StopStep, Register, HandleReturns,
         Deregister, Done, handlerOnly, Dial, HangUp, Call, GetStats, StreamEnds, CallEnds,
         vars, serverVars
<1>2. /\ stop' \in {"no", "cancel", "listener", "grpc", "drain", "clients", "wait", "clean",
                    "timeout", "exited", "panicked"}
      /\ grpc' \in {"none", "serving", "stopping"}
      /\ cancelled' \in BOOLEAN
  BY Zenon DEF Next, Serve, Stop, Handler, Start, StartFails, SetCancelBackground, SetListener,
         StartUpdater, AcceptFails, Accept, Spawn, UpdaterEnds, ServeStep, Signal,
         CancelBackground, CloseListener, GracefulStop, Drained, CloseClients, Wait,
         WaitReturns, WaitPanics, Clean, Timeout, Exit, StopStep, Register, HandleReturns,
         Deregister, Done, handlerOnly, Dial, HangUp, Call, GetStats, StreamEnds, CallEnds,
         vars, stopVars
<1>3. calls' \subseteq Rpcs \cup Streams
  BY DEF Next, Serve, Stop, Handler, Start, StartFails, SetCancelBackground, SetListener,
         StartUpdater, AcceptFails, Accept, Spawn, UpdaterEnds, ServeStep, Signal,
         CancelBackground, CloseListener, GracefulStop, Drained, CloseClients, Wait,
         WaitReturns, WaitPanics, Clean, Timeout, Exit, StopStep, Register, HandleReturns,
         Deregister, Done, handlerOnly, Dial, HangUp, Call, GetStats, StreamEnds, CallEnds,
         vars, stopVars
<1>4. /\ wait' \in {"no", "blocked", "released", "returned"}
      /\ late' \subseteq Conns \cup {"updater"}
  BY Steps, Zenon DEF Quiet, StartUpdater, UpdaterEnds, CloseListener, CloseClients, Wait, WaitReturns,
               Accept, Spawn, Register, HandleReturns, Deregister, Done, Dial, StopStep, Add,
               WgDone, wgVars
<1>5. handler' \in [Conns -> Running \cup {"none", "queued", "refused", "accepted", "done"}]
  <2>1. CASE Quiet \/ StartUpdater \/ UpdaterEnds \/ CloseClients \/ Wait \/ WaitReturns
    BY <2>1 DEF Quiet, StartUpdater, UpdaterEnds, CloseClients, Wait, WaitReturns, connVars
  <2>2. CASE CloseListener
    BY <2>2 DEF CloseListener
  <2>3. ASSUME NEW c \in Conns,
               \/ Accept(c) \/ Spawn(c) \/ Register(c) \/ HandleReturns(c) \/ Deregister(c)
               \/ Done(c) \/ Dial(c)
        PROVE  handler' \in [Conns -> Running
                                       \cup {"none", "queued", "refused", "accepted", "done"}]
    BY <2>3 DEF Accept, Spawn, Register, HandleReturns, Deregister, Done, Dial, At, Running
  <2> QED
    BY <2>1, <2>2, <2>3, Steps
<1>6. addr' \in [Conns -> Addrs] /\ peer' \in [Conns -> BOOLEAN]
  BY Zenon DEF Next, Serve, Stop, Handler, Start, StartFails, SetCancelBackground, SetListener,
         StartUpdater, AcceptFails, Accept, Spawn, UpdaterEnds, ServeStep, Signal,
         CancelBackground, CloseListener, GracefulStop, Drained, CloseClients, Wait,
         WaitReturns, WaitPanics, Clean, Timeout, Exit, StopStep, Register, HandleReturns,
         Deregister, Done, handlerOnly, Dial, HangUp, Call, GetStats, StreamEnds, CallEnds,
         vars, connVars
<1>7. closed' \in [Conns -> BOOLEAN]
  BY Steps, Zenon DEF Quiet, StartUpdater, UpdaterEnds, CloseListener, CloseClients, Wait, WaitReturns,
               Accept, Spawn, Register, HandleReturns, Deregister, Done, Dial, connVars
<1>8. clients' \in [Addrs -> Conns \cup {NoConn}] /\ shared' \subseteq Conns
  <2>1. ASSUME NEW c \in Conns, Register(c) \/ Deregister(c)
        PROVE  clients' \in [Addrs -> Conns \cup {NoConn}] /\ shared' \subseteq Conns
    BY <2>1 DEF Register, Sharing, Deregister
  <2> QED
    BY <2>1, Steps, Zenon
       DEF Quiet, StartUpdater, UpdaterEnds, CloseListener, CloseClients, Wait, WaitReturns,
           Accept, Spawn, HandleReturns, Done, Dial, StopStep, connVars
<1> QED
  BY <1>1, <1>2, <1>3, <1>4, <1>5, <1>6, <1>7, <1>8

\* ServeListener starts the updater once (server.go:121).
LEMMA OnceStep ==
  ASSUME UpdaterOnce, [Next]_vars
  PROVE  UpdaterOnce'
BY DEF UpdaterOnce, Next, Serve, Stop, Handler, Start, StartFails, SetCancelBackground,
       SetListener, StartUpdater, AcceptFails, Accept, Spawn, UpdaterEnds, ServeStep,
       Signal, CancelBackground, CloseListener, GracefulStop, Drained, CloseClients, Wait,
       WaitReturns, WaitPanics, Clean, Timeout, Exit, StopStep, Register, HandleReturns,
       Deregister, Done, handlerOnly, Dial, HangUp, Call, GetStats, StreamEnds, CallEnds, vars,
       serverVars

\* wg.Add and wg.Done go with the goroutines they count.
LEMMA CountedStep ==
  ASSUME LifecycleTypeOK, UpdaterOnce, Counted, [Next]_vars
  PROVE  Counted' /\ wg' \in Nat
<1> DEFINE n == Cardinality(InFlight(handler))
           m == Cardinality(InFlight(handler'))
<1>0. n \in Nat /\ m \in Nat /\ UpdaterRuns \in {0, 1} /\ UpdaterRuns' \in {0, 1}
  BY InFlightFinite DEF UpdaterRuns
<1>1. wg = n + UpdaterRuns
  BY DEF Counted
<1>2. SUFFICES wg' = m + UpdaterRuns'
  BY <1>0 DEF Counted
<1> HIDE DEF n, m
<1>3. CASE Quiet
  BY <1>1, <1>3 DEF Quiet, n, m, UpdaterRuns, wgVars
<1>4. CASE StartUpdater
  <2>1. m = n /\ wg' = wg + 1
    BY <1>4 DEF StartUpdater, Add, connVars, n, m
  <2>2. UpdaterRuns = 0 /\ UpdaterRuns' = 1
    BY <1>4 DEF StartUpdater, ServeStep, UpdaterOnce, UpdaterRuns
  <2> QED
    BY <1>0, <1>1, <2>1, <2>2
<1>5. CASE UpdaterEnds
  <2>1. m = n /\ wg' = wg - 1
    BY <1>5 DEF UpdaterEnds, WgDone, connVars, n, m
  <2>2. UpdaterRuns = 1 /\ UpdaterRuns' = 0
    BY <1>5 DEF UpdaterEnds, UpdaterRuns
  <2> QED
    BY <1>0, <1>1, <2>1, <2>2
<1>6. CASE CloseListener
  <2>1. \A d \in Conns : handler'[d] \in Running <=> handler[d] \in Running
    BY <1>6 DEF CloseListener, LifecycleTypeOK, Running
  <2>2. wg' = wg /\ UpdaterRuns' = UpdaterRuns
    BY <1>6 DEF CloseListener, StopStep, wgVars, UpdaterRuns
  <2> QED
    BY <1>1, <2>1, <2>2, InFlightSame DEF n, m
<1>7. CASE CloseClients \/ Wait \/ WaitReturns
  BY <1>1, <1>7 DEF CloseClients, Wait, WaitReturns, StopStep, n, m, UpdaterRuns, serverVars,
                    wgVars, connVars
<1>8. ASSUME NEW c \in Conns, Spawn(c)
      PROVE  wg' = m + UpdaterRuns'
  <2>1. m = n + 1
    BY <1>8, AtStep, InFlightOneMore DEF Spawn, Running, n, m
  <2>2. wg' = wg + 1 /\ UpdaterRuns' = UpdaterRuns
    BY <1>8 DEF Spawn, Add, UpdaterRuns
  <2> QED
    BY <1>0, <1>1, <2>1, <2>2
<1>9. ASSUME NEW c \in Conns, Done(c)
      PROVE  wg' = m + UpdaterRuns'
  <2>1. /\ ButFor(c, handler, handler')
        /\ handler[c] \in Running /\ handler'[c] \notin Running
    BY <1>9, AtStep DEF Done, Running, ButFor
  <2>2. n = m + 1
    BY <2>1, InFlightOneMore DEF n, m
  <2>3. wg' = wg - 1 /\ UpdaterRuns' = UpdaterRuns
    BY <1>9 DEF Done, WgDone, handlerOnly, serverVars, UpdaterRuns
  <2> QED
    BY <1>0, <1>1, <2>2, <2>3
<1>10. ASSUME NEW c \in Conns,
              Accept(c) \/ Register(c) \/ HandleReturns(c) \/ Deregister(c) \/ Dial(c)
       PROVE  wg' = m + UpdaterRuns'
  <2>1. \E from, to : At(c, from, to) /\ (from \in Running <=> to \in Running)
    BY <1>10 DEF Accept, Register, HandleReturns, Deregister, Dial, Running
  <2>2. \A d \in Conns : handler'[d] \in Running <=> handler[d] \in Running
    BY <2>1, AtStep DEF ButFor
  <2>3. wg' = wg /\ UpdaterRuns' = UpdaterRuns
    BY <1>10 DEF Accept, Register, HandleReturns, Deregister, Dial, handlerOnly, serverVars,
                 wgVars, UpdaterRuns
  <2> QED
    BY <1>1, <2>2, <2>3, InFlightSame DEF n, m
<1> QED
  BY <1>3, <1>4, <1>5, <1>6, <1>7, <1>8, <1>9, <1>10, Steps

\* Handle closes the connection before it returns, and nothing opens it again.
LEMMA ClosedStep ==
  ASSUME LifecycleTypeOK, ClosedAfter, [Next]_vars
  PROVE  ClosedAfter'
<1> USE DEF ClosedAfter
<1>1. CASE Quiet \/ StartUpdater \/ UpdaterEnds \/ Wait \/ WaitReturns
  BY <1>1 DEF Quiet, StartUpdater, UpdaterEnds, Wait, WaitReturns, connVars
<1>2. CASE CloseListener
  BY <1>2 DEF CloseListener, LifecycleTypeOK
<1>3. CASE CloseClients
  BY <1>3 DEF CloseClients, LifecycleTypeOK
<1>4. ASSUME NEW c \in Conns,
             Accept(c) \/ Spawn(c) \/ Register(c) \/ Deregister(c) \/ Dial(c)
      PROVE  ClosedAfter'
  BY <1>4 DEF Accept, Spawn, Register, Deregister, Dial, At, LifecycleTypeOK
<1>5. ASSUME NEW c \in Conns, HandleReturns(c) \/ Done(c)
      PROVE  ClosedAfter'
  BY <1>5 DEF HandleReturns, Done, At, LifecycleTypeOK
<1> QED
  BY <1>1, <1>2, <1>3, <1>4, <1>5, Steps

\* No step gives an address to another connection, or forgets that one was shared.
LEMMA SharedStays ==
  ASSUME [Next]_vars
  PROVE  addr' = addr /\ shared \subseteq shared'
BY Steps DEF Quiet, StartUpdater, UpdaterEnds, CloseListener, CloseClients, Wait, WaitReturns,
             Accept, Spawn, Register, HandleReturns, Deregister, Done, Dial, StopStep,
             handlerOnly, connVars

\* Only Register puts a connection into service.
LEMMA ServedStep ==
  ASSUME LifecycleTypeOK, [Next]_vars, NEW d \in Conns, handler'[d] \in Served
  PROVE  handler[d] \in Served \/ Register(d)
<1> USE DEF Served
<1>1. CASE Quiet \/ StartUpdater \/ UpdaterEnds \/ CloseClients \/ Wait \/ WaitReturns
  BY <1>1 DEF Quiet, StartUpdater, UpdaterEnds, CloseClients, Wait, WaitReturns, connVars
<1>2. CASE CloseListener
  BY <1>2 DEF CloseListener, LifecycleTypeOK
<1>3. ASSUME NEW c \in Conns,
             \/ Accept(c) \/ Spawn(c) \/ HandleReturns(c) \/ Deregister(c) \/ Done(c)
             \/ Dial(c)
      PROVE  handler[d] \in Served
  BY <1>3, AtStep DEF Accept, Spawn, HandleReturns, Deregister, Done, Dial, ButFor
<1>4. ASSUME NEW c \in Conns, Register(c)
      PROVE  handler[d] \in Served \/ Register(d)
  BY <1>4, AtStep DEF Register, ButFor
<1> QED
  BY <1>1, <1>2, <1>3, <1>4, Steps

\* Register marks all connections of the address, if there are others.
LEMMA SharedStep ==
  ASSUME LifecycleTypeOK, SharedBoth, [Next]_vars
  PROVE  SharedBoth'
<1>1. SUFFICES ASSUME NEW c \in Conns, NEW d \in Conns, c # d, addr[c] = addr[d],
                      handler'[c] \in Served, handler'[d] \in Served
               PROVE  c \in shared'
  BY SharedStays DEF SharedBoth
<1>2. handler[c] \in Served \/ Register(c)
  BY <1>1, ServedStep
<1>3. handler[d] \in Served \/ Register(d)
  BY <1>1, ServedStep
<1>4. CASE handler[c] \in Served /\ handler[d] \in Served
  BY <1>1, <1>4, SharedStays DEF SharedBoth
<1>5. CASE Register(c)
  <2>1. handler[d] \in Served
    BY <1>1, <1>5, AtStep DEF Register, ButFor
  <2>2. d \in Sharing(c)
    BY <1>1, <2>1 DEF Sharing, Served
  <2> QED
    BY <1>5, <2>2 DEF Register
<1>6. CASE Register(d)
  <2>1. handler[c] \in Served
    BY <1>1, <1>6, AtStep DEF Register, ButFor
  <2>2. c \in Sharing(d)
    BY <1>1, <2>1 DEF Sharing, Served
  <2> QED
    BY <1>6, <2>2 DEF Register
<1> QED
  BY <1>2, <1>3, <1>4, <1>5, <1>6

\* A step that leaves the map alone, and takes no connection in or out of service.
LEMMA ClientsStill ==
  ASSUME LifecycleTypeOK, ClientsExact, [Next]_vars, clients' = clients,
         \A d \in Conns : handler'[d] \in Served <=> handler[d] \in Served
  PROVE  ClientsExact'
<1>1. addr' = addr /\ shared \subseteq shared'
  BY SharedStays
<1> QED
  BY <1>1 DEF ClientsExact, LifecycleTypeOK, Served

\* Register and Deregister keep the map in step with what is served.
LEMMA ClientsStep ==
  ASSUME LifecycleTypeOK, SharedBoth, ClientsExact, [Next]_vars
  PROVE  ClientsExact'
<1>0. addr' = addr /\ shared \subseteq shared'
  BY SharedStays
<1>1. CASE Quiet \/ StartUpdater \/ UpdaterEnds \/ CloseClients \/ Wait \/ WaitReturns
  BY <1>1, ClientsStill DEF Quiet, StartUpdater, UpdaterEnds, CloseClients, Wait, WaitReturns,
                            StopStep, connVars
<1>2. CASE CloseListener
  <2>1. \A d \in Conns : handler'[d] \in Served <=> handler[d] \in Served
    BY <1>2 DEF CloseListener, LifecycleTypeOK, Served
  <2> QED
    BY <1>2, <2>1, ClientsStill DEF CloseListener, StopStep
<1>3. ASSUME NEW c \in Conns,
             Accept(c) \/ Spawn(c) \/ HandleReturns(c) \/ Done(c) \/ Dial(c)
      PROVE  ClientsExact'
  <2>1. \E from, to : At(c, from, to) /\ (from \in Served <=> to \in Served)
    BY <1>3 DEF Accept, Spawn, HandleReturns, Done, Dial, Served
  <2>2. \A d \in Conns : handler'[d] \in Served <=> handler[d] \in Served
    BY <2>1, AtStep DEF ButFor
  <2> QED
    BY <1>3, <2>2, ClientsStill DEF Accept, Spawn, HandleReturns, Done, Dial
<1>4. ASSUME NEW c \in Conns, Register(c) \/ Deregister(c)
      PROVE  ClientsExact'
  <2>1. /\ addr[c] \in Addrs /\ clients'[addr[c]] \in {c, NoConn}
        /\ \A a \in Addrs : a # addr[c] => clients'[a] = clients[a]
    BY <1>4 DEF Register, Deregister, LifecycleTypeOK
  <2>2. ButFor(c, handler', handler)
    BY <1>4, AtStep DEF Register, Deregister
  \* An entry is that of c, or of another address and thus another connection.
  <2>3. ASSUME NEW a \in Addrs, clients'[a] # NoConn
        PROVE  addr'[clients'[a]] = a /\ handler'[clients'[a]] \in {"serving", "leaving"}
    <3>1. CASE a = addr[c]
      <4>1. clients'[a] = c
        BY <2>1, <2>3, <3>1
      <4>2. handler'[c] = "serving"
        <5>1. CASE Register(c)
          BY <5>1, AtStep DEF Register
        <5>2. CASE Deregister(c)
          BY <5>2, <4>1, <3>1, LifecycleAssumption DEF Deregister, LifecycleTypeOK
        <5> QED
          BY <1>4, <5>1, <5>2
      <4> QED
        BY <1>0, <3>1, <4>1, <4>2
    <3>2. CASE a # addr[c]
      <4>1. clients'[a] = clients[a] /\ clients[a] \in Conns
        BY <2>1, <2>3, <3>2 DEF LifecycleTypeOK
      <4>2. addr[clients[a]] = a /\ handler[clients[a]] \in {"serving", "leaving"}
        BY <2>3, <4>1 DEF ClientsExact
      <4> QED
        BY <1>0, <2>2, <3>2, <4>1, <4>2 DEF ButFor
    <3> QED
      BY <3>1, <3>2
  \* Another connection from the address of c is no longer found, but it shares it.
  <2>4. ASSUME NEW d \in Conns, handler'[d] \in {"serving", "leaving"}
        PROVE  clients'[addr'[d]] = d \/ d \in shared'
    <3>1. CASE d = c
      <4>1. Register(c)
        BY <1>4, <2>4, <3>1, AtStep DEF Deregister
      <4> QED
        BY <1>0, <3>1, <4>1 DEF Register, LifecycleTypeOK
    <3>2. CASE d # c /\ addr[d] = addr[c]
      <4>1. handler[d] \in Served
        BY <2>2, <2>4, <3>2 DEF ButFor, Served
      <4>2. CASE Register(c)
        BY <3>2, <4>1, <4>2 DEF Register, Sharing, Served
      <4>3. CASE Deregister(c)
        <5>1. handler[c] \in Served
          BY <4>3 DEF Deregister, At, Served
        <5> QED
          BY <1>0, <3>2, <4>1, <5>1 DEF SharedBoth
      <4> QED
        BY <1>4, <4>2, <4>3
    <3>3. CASE d # c /\ addr[d] # addr[c]
      <4>1. handler[d] \in {"serving", "leaving"} /\ addr[d] \in Addrs
        BY <2>2, <2>4, <3>3 DEF ButFor, LifecycleTypeOK
      <4>2. clients[addr[d]] = d \/ d \in shared
        BY <4>1 DEF ClientsExact
      <4> QED
        BY <1>0, <2>1, <3>3, <4>1, <4>2
    <3> QED
      BY <3>1, <3>2, <3>3
  <2> QED
    BY <2>3, <2>4 DEF ClientsExact
<1> QED
  BY <1>1, <1>2, <1>3, <1>4, Steps
-----------------------------------------------------------------------------
\* Wait returns only when nothing runs, and what starts after that is late.
LEMMA RunsLateStep ==
  ASSUME LifecycleTypeOK, Counted, RunsLate, [Next]_vars
  PROVE  RunsLate'
<1>1. CASE Quiet \/ CloseClients
  BY <1>1 DEF RunsLate, Quiet, CloseClients, StopStep, wgVars
<1>2. CASE StartUpdater
  BY <1>2 DEF RunsLate, StartUpdater, Add, connVars
<1>3. CASE UpdaterEnds
  BY <1>3 DEF RunsLate, UpdaterEnds, WgDone, connVars
<1>4. CASE CloseListener
  BY <1>4 DEF RunsLate, CloseListener, StopStep, wgVars, LifecycleTypeOK, Running
<1>5. CASE Wait \/ WaitReturns
  <2>1. UNCHANGED <<updater, handler>> /\ (wait' = "returned" => wg = 0)
    BY <1>5 DEF Wait, WaitReturns, serverVars, connVars
  <2>2. ASSUME wg = 0
        PROVE  updater # "running" /\ \A c \in Conns : handler[c] \notin Running
    <3>1. Cardinality(InFlight(handler)) = 0 /\ updater # "running"
      BY <2>2, InFlightFinite DEF Counted, UpdaterRuns
    <3> QED
      BY <3>1, NoneInFlight
  <2> QED
    BY <2>1, <2>2 DEF RunsLate
<1>6. ASSUME NEW c \in Conns, Spawn(c)
      PROVE  RunsLate'
  BY <1>6, AtStep DEF RunsLate, Spawn, Add, ButFor
<1>7. ASSUME NEW c \in Conns, Done(c)
      PROVE  RunsLate'
  <2>1. \A d \in Conns : handler'[d] \in Running => handler[d] \in Running
    BY <1>7, AtStep DEF Done, ButFor, Running
  <2> QED
    BY <1>7, <2>1 DEF RunsLate, Done, WgDone, handlerOnly, serverVars
<1>8. ASSUME NEW c \in Conns,
             Accept(c) \/ Register(c) \/ HandleReturns(c) \/ Deregister(c) \/ Dial(c)
      PROVE  RunsLate'
  <2>1. \E from, to : At(c, from, to) /\ (from \in Running <=> to \in Running)
    BY <1>8 DEF Accept, Register, HandleReturns, Deregister, Dial, Running
  <2>2. \A d \in Conns : handler'[d] \in Running <=> handler[d] \in Running
    BY <2>1, AtStep DEF ButFor
  <2>3. UNCHANGED <<wait, late, updater>>
    BY <1>8 DEF Accept, Register, HandleReturns, Deregister, Dial, handlerOnly, serverVars,
                wgVars
  <2> QED
    BY <2>2, <2>3 DEF RunsLate
<1> QED
  BY <1>1, <1>2, <1>3, <1>4, <1>5, <1>6, <1>7, <1>8, Steps

\* Only Add makes something late, and only when Wait has returned.
LEMMA WaitLastStep ==
  ASSUME LifecycleTypeOK, WaitLast, [Next]_vars
  PROVE  WaitLast'
<1> USE DEF WaitLast
<1>1. CASE UNCHANGED vars
  BY <1>1 DEF vars, stopVars, wgVars
<1>2. CASE Serve \/ StartFails \/ UpdaterEnds
  BY <1>2 DEF Serve, Start, SetCancelBackground, SetListener, StartUpdater, AcceptFails, Accept,
              Spawn, ServeStep, StartFails, UpdaterEnds, Add, WgDone, stopVars, wgVars
<1>3. CASE Signal \/ Stop
  BY <1>3 DEF Signal, Stop, CancelBackground, CloseListener, GracefulStop, Drained,
              CloseClients, Wait, WaitReturns, WaitPanics, Clean, Timeout, Exit, StopStep,
              stopVars, wgVars
<1>4. ASSUME NEW c \in Conns, Handler(c) \/ Dial(c) \/ HangUp(c)
      PROVE  WaitLast'
  BY <1>4 DEF Handler, Register, HandleReturns, Deregister, Done, WgDone, handlerOnly, Dial,
              HangUp, stopVars, wgVars
<1>5. ASSUME NEW r, Call(r) \/ GetStats(r) \/ StreamEnds(r)
      PROVE  WaitLast'
  BY <1>5 DEF Call, GetStats, StreamEnds, CallEnds, stopVars, wgVars
<1> QED
  BY <1>1, <1>2, <1>3, <1>4, <1>5 DEF Next

\* The field is set by SetListener, and ServeListener does not go back.
LEMMA ListenerStep ==
  ASSUME ListenerSet, [Next]_vars
  PROVE  ListenerSet'
BY DEF ListenerSet, Next, Serve, Stop, Handler, Start, StartFails, SetCancelBackground,
       SetListener, StartUpdater, AcceptFails, Accept, Spawn, UpdaterEnds, ServeStep,
       Signal, CancelBackground, CloseListener, GracefulStop, Drained, CloseClients, Wait,
       WaitReturns, WaitPanics, Clean, Timeout, Exit, StopStep, Register, HandleReturns,
       Deregister, Done, handlerOnly, Dial, HangUp, Call, GetStats, StreamEnds, CallEnds, vars,
       serverVars

\* Closing the listener, which comes before Wait, empties its queue.
LEMMA OneLateStep ==
  ASSUME LifecycleTypeOK, WaitLast, ListenerSet, OneLate, [Next]_vars
  PROVE  OneLate'
<1> USE DEF OneLate
<1>1. CASE UNCHANGED vars
  BY <1>1 DEF vars, serverVars, wgVars, connVars
<1>2. CASE Start \/ StartFails \/ SetCancelBackground \/ SetListener \/ AcceptFails
  BY <1>2 DEF Start, StartFails, SetCancelBackground, SetListener, AcceptFails, ServeStep,
              wgVars, connVars
<1>3. CASE StartUpdater
  BY <1>3 DEF StartUpdater, ServeStep, Add, connVars
<1>4. ASSUME NEW c \in Conns, Accept(c)
      PROVE  OneLate'
  BY <1>4, AtStep DEF Accept
<1>5. ASSUME NEW c \in Conns, Spawn(c)
      PROVE  OneLate'
  BY <1>5, AtStep DEF Spawn, ServeStep, Add, ButFor
<1>6. CASE CloseListener
  <2>1. late' = late /\ late = {} /\ serve' = serve
    BY <1>6 DEF CloseListener, StopStep, WaitLast, wgVars
  <2>2. CASE "listener" \in fields
    <3>1. \A c \in Conns : handler'[c] # "queued"
      BY <1>6, <2>2 DEF CloseListener
    <3> QED
      BY <2>1, <2>2, <3>1 DEF ListenerSet
  <2>3. CASE "listener" \notin fields
    BY <1>6, <2>1, <2>3 DEF CloseListener
  <2> QED
    BY <2>2, <2>3
<1>7. CASE Signal \/ Stop \/ UpdaterEnds
  BY <1>6, <1>7 DEF Signal, Stop, CancelBackground, GracefulStop, Drained, CloseClients, Wait,
                    WaitReturns, WaitPanics, Clean, Timeout, Exit, StopStep, UpdaterEnds, WgDone,
                    serverVars, wgVars, connVars
<1>8. ASSUME NEW c \in Conns, Handler(c) \/ HangUp(c)
      PROVE  OneLate'
  <2>1. UNCHANGED <<serve, bound, late>>
    BY <1>8 DEF Handler, Register, HandleReturns, Deregister, Done, WgDone, HangUp, handlerOnly,
                serverVars, wgVars
  <2>2. \A d \in Conns : handler'[d] = "queued" => handler[d] = "queued"
    BY <1>8, AtStep DEF Handler, Register, HandleReturns, Deregister, Done, HangUp, ButFor
  <2> QED
    BY <2>1, <2>2
<1>9. ASSUME NEW c \in Conns, Dial(c)
      PROVE  OneLate'
  BY <1>9 DEF Dial, serverVars
<1>10. ASSUME NEW r, Call(r) \/ GetStats(r) \/ StreamEnds(r)
       PROVE  OneLate'
  BY <1>10 DEF Call, GetStats, StreamEnds, CallEnds, serverVars, wgVars, connVars
<1> QED
  BY <1>1, <1>2, <1>3, <1>4, <1>5, <1>7, <1>8, <1>9, <1>10 DEF Next, Serve
-----------------------------------------------------------------------------
\* The server starts with no goroutines, no clients and nothing late.
LEMMA InvInit == Init => Inv
<1> SUFFICES ASSUME Init PROVE Inv
  OBVIOUS
<1> USE DEF Init
<1>1. LifecycleTypeOK
  BY Zenon DEF LifecycleTypeOK
<1>2. Counted
  <2>1. InFlight(handler) = {}
    BY DEF InFlight, Running
  <2> QED
    BY <2>1, FS_EmptySet DEF Counted, UpdaterRuns
<1>3. UpdaterOnce /\ ClosedAfter /\ SharedBoth /\ ClientsExact
  BY DEF UpdaterOnce, ClosedAfter, SharedBoth, Served, ClientsExact
<1>4. RunsLate /\ WaitLast /\ ListenerSet /\ OneLate
  BY DEF RunsLate, WaitLast, ListenerSet, OneLate
<1> QED
  BY <1>1, <1>2, <1>3, <1>4 DEF Inv

\* Every step keeps the invariant, by the lemmas above.
LEMMA InvStep == Inv /\ [Next]_vars => Inv'
<1> SUFFICES ASSUME Inv, [Next]_vars PROVE Inv'
  OBVIOUS
<1>1. Counted' /\ wg' \in Nat
  BY CountedStep DEF Inv
<1> QED
  BY <1>1, TypeStep, OnceStep, ClosedStep, SharedStep, ClientsStep, RunsLateStep, WaitLastStep,
     ListenerStep, OneLateStep DEF Inv

\* The map of clients agrees with the handlers that run, for any number of
\* connections and addresses (server.go:145-159).
THEOREM ClientsAreExact == Spec => []ClientsExact
<1>1. Inv => ClientsExact
  BY DEF Inv
<1> QED
  BY <1>1, InvInit, InvStep, PTL DEF Spec

\* wg never drops below zero, which would panic, and the state has its type.
THEOREM LifecycleTypes == Spec => []LifecycleTypeOK
<1>1. Inv => LifecycleTypeOK
  BY DEF Inv
<1> QED
  BY <1>1, InvInit, InvStep, PTL DEF Spec

\* A Stop that reports success leaves nothing behind that wg had counted when Wait
\* returned, and if it closed the listener at most one goroutine that was counted later
\* (server.go:172-198).
THEOREM StopsCleanly == Spec => CleanStop
<1> DEFINE Left == /\ updater = "running" => "updater" \in late
                   /\ \A c \in Conns : handler[c] \in Running => c \in late
                   /\ \A c \in Conns : handler[c] = "done" => closed[c]
                   /\ \A a \in Addrs : clients[a] # NoConn => clients[a] \in late
                   /\ ~bound => \A g, h \in late : g = h
<1>1. ASSUME Inv, Next, stop # "clean", stop' = "clean"
      PROVE  Left
  <2>1. wait = "returned"
    BY <1>1 DEF Next, Serve, Stop, Handler, Start, StartFails, SetCancelBackground,
         SetListener, StartUpdater, AcceptFails, Accept, Spawn, UpdaterEnds, ServeStep,
         Signal, CancelBackground, CloseListener, GracefulStop, Drained, CloseClients, Wait,
         WaitReturns, WaitPanics, Clean, Timeout, Exit, StopStep, Register, HandleReturns,
         Deregister, Done, handlerOnly, Dial, HangUp, Call, GetStats, StreamEnds, CallEnds,
         stopVars
  <2>2. /\ updater = "running" => "updater" \in late
        /\ \A c \in Conns : handler[c] \in Running => c \in late
    BY <1>1, <2>1 DEF Inv, RunsLate
  <2>3. \A a \in Addrs : clients[a] # NoConn => clients[a] \in late
    BY <1>1, <2>2 DEF Inv, ClientsExact, LifecycleTypeOK, Running
  <2>4. \A c \in Conns : handler[c] = "done" => closed[c]
    BY <1>1 DEF Inv, ClosedAfter
  <2>5. ~bound => \A g, h \in late : g = h
    BY <1>1 DEF Inv, OneLate
  <2> QED
    BY <2>2, <2>3, <2>4, <2>5
<1>2. Inv /\ [Next]_vars => [stop # "clean" /\ stop' = "clean" => Left]_vars
  BY <1>1
<1> QED
  BY <1>2, InvInit, InvStep, PTL DEF Spec, CleanStop
=============================================================================
