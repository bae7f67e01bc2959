----------------------------- MODULE Lifecycle -----------------------------
(***************************************************************************)
(* The life of the server (internal/server/server.go, cmd/rpkirtr2/main.go *)
(* and grpc.go): main runs Start in one goroutine and Stop, after a        *)
(* signal, in its own.  Start loads, listens and accepts; every connection *)
(* has a goroutine, handleConnection, that enters its client in a map      *)
(* under the router's address and takes it out at the end.  Stop undoes    *)
(* this step by step while the others go on.                               *)
(*                                                                         *)
(* What a handler does between the two is in module Session, what the      *)
(* updater does in module Refresh.  Routers, the TCP stack, callers of the *)
(* gRPC service and the signal are external.                               *)
(***************************************************************************)
EXTENDS Integers, FiniteSets

CONSTANTS
  Conns,   \* connections, each made once
  Addrs,   \* remote addresses, with port
  Rpcs,    \* calls of GetStats
  Streams, \* calls of the reflection service: streams, which the caller ends
  NoConn   \* no entry in the map

ASSUME LifecycleAssumption == IsFiniteSet(Conns) /\ NoConn \notin Conns

VARIABLES
  serve,     \* where Start and ServeListener are
  stop,      \* where Stop and main are
  fields,    \* the fields of Server that ServeListener has set so far
  grpc,      \* the gRPC server: "none", "serving" or "stopping"
  bound,     \* the listener is open
  cancelled, \* the updater's context
  calls,     \* gRPC calls in progress
  wg,        \* Server.wg
  wait,      \* its Wait in Stop: "no", "blocked", "released" or "returned"
  updater,   \* "none", "running" or "ended"
  handler,   \* per connection: where it is on its way through the server
  addr,      \* per connection: its remote address
  peer,      \* per connection: the router has not hung up
  closed,    \* per connection: the server has closed it
  clients,   \* Server.clients, by address
  late,      \* history: what was counted in wg after Wait had returned
  shared     \* history: connections served while another had the same address

serverVars == <<serve, fields, bound, updater>>
stopVars == <<stop, grpc, cancelled>>
wgVars == <<wg, wait, late>>
connVars == <<handler, addr, peer, closed, clients, shared>>
vars == <<serverVars, stopVars, calls, wgVars, connVars>>

ShuttingDown == stop # "no"
Ended == stop \in {"exited", "panicked"}

Init ==
  /\ serve = "load" /\ stop = "no" /\ fields = {} /\ grpc = "none"
  /\ bound = FALSE /\ cancelled = FALSE /\ calls = {}
  /\ wg = 0 /\ wait = "no" /\ late = {} /\ updater = "none"
  /\ handler = [c \in Conns |-> "none"]
  /\ addr \in [Conns -> Addrs]
  /\ peer = [c \in Conns |-> FALSE] /\ closed = [c \in Conns |-> FALSE]
  /\ clients = [a \in Addrs |-> NoConn] /\ shared = {}
-----------------------------------------------------------------------------
(* Server.wg.  Wait waits while the counter is not zero.  External. *)

\* Counts g, which is late for a Wait that has returned.
Add(g) ==
  /\ wg' = wg + 1
  /\ late' = IF wait = "returned" THEN late \cup {g} ELSE late
  /\ UNCHANGED wait

\* The last one lets Wait go.
WgDone ==
  /\ wg' = wg - 1
  /\ wait' = IF wait = "blocked" /\ wg' = 0 THEN "released" ELSE wait
  /\ UNCHANGED late
-----------------------------------------------------------------------------
(* The goroutine of Start. *)

ServeStep(from, to) ==
  /\ serve = from /\ serve' = to
  /\ UNCHANGED <<stop, cancelled, calls>>

\* The data is loaded, both ports are open and the gRPC server is running.
Start ==
  /\ ServeStep("load", "context")
  /\ bound' = TRUE /\ grpc' = "serving"
  /\ UNCHANGED <<fields, updater, wgVars, connVars>>

\* No data or no port: logger.Fatalf.
StartFails ==
  /\ serve = "load"
  /\ serve' = "failed" /\ stop' = "exited"
  /\ UNCHANGED <<fields, bound, updater, grpc, cancelled, calls, wgVars, connVars>>

\* ServeListener sets two fields that Stop looks at, one after the other.
SetCancelBackground ==
  /\ ServeStep("context", "listener")
  /\ fields' = fields \cup {"cancelBackground"}
  /\ UNCHANGED <<bound, updater, grpc, wgVars, connVars>>

SetListener ==
  /\ ServeStep("listener", "updater")
  /\ fields' = fields \cup {"listener"}
  /\ UNCHANGED <<bound, updater, grpc, wgVars, connVars>>

StartUpdater ==
  /\ ServeStep("updater", "accept")
  /\ Add("updater") /\ updater' = "running"
  /\ UNCHANGED <<fields, bound, grpc, connVars>>

At(c, from, to) == handler[c] = from /\ handler' = [handler EXCEPT ![c] = to]

Accept(c) ==
  /\ ServeStep("accept", "go")
  /\ At(c, "queued", "accepted")
  /\ UNCHANGED <<fields, bound, updater, grpc, wgVars, addr, peer, closed, clients, shared>>

Spawn_Uncounted(c) ==
  /\ ServeStep("go", "accept")
  /\ At(c, "accepted", "started")
  /\ UNCHANGED <<fields, bound, updater, grpc, wgVars, addr, peer, closed, clients, shared>>

\* Counted before the goroutine starts, but after Accept has returned.
Spawn(c) ==
  /\ ServeStep("go", "accept")
  /\ At(c, "accepted", "started")
  /\ Add(c)
  /\ UNCHANGED <<fields, bound, updater, grpc, addr, peer, closed, clients, shared>>

\* Accept fails for good once the listener is closed.  While the server is not
\* shutting down the loop goes on: nothing has changed.
AcceptFails ==
  /\ ~bound /\ ShuttingDown
  /\ ServeStep("accept", "returned")
  /\ UNCHANGED <<fields, bound, updater, grpc, wgVars, connVars>>

\* periodicROAUpdater returns, and Done is called.
UpdaterEnds ==
  /\ updater = "running" /\ cancelled
  /\ updater' = "ended" /\ WgDone
  /\ UNCHANGED <<serve, fields, bound, stopVars, calls, connVars>>
-----------------------------------------------------------------------------
(* The goroutine of a connection: handleConnection. *)

handlerOnly == <<serverVars, stopVars, calls, addr, peer>>

\* Others from the address of c that have an entry or had one.
Sharing(c) ==
  {d \in Conns \ {c} : addr[d] = addr[c] /\ handler[d] \in {"serving", "leaving"}}

Register(c) ==
  /\ At(c, "started", "serving")
  /\ clients' = [clients EXCEPT ![addr[c]] = c]
  /\ shared' = IF Sharing(c) = {} THEN shared ELSE shared \cup Sharing(c) \cup {c}
  /\ UNCHANGED <<handlerOnly, wgVars, closed>>

\* Handle returns: always when the connection is gone, else on an error or when
\* the read deadline has passed.  It closes the connection.
HandleReturns(c) ==
  /\ At(c, "serving", "leaving")
  /\ closed' = [closed EXCEPT ![c] = TRUE]
  /\ UNCHANGED <<handlerOnly, wgVars, clients, shared>>

Deregister_OnlyIfOpen(c) ==
  /\ At(c, "leaving", "deregistered")
  /\ clients' = IF peer[c] THEN [clients EXCEPT ![addr[c]] = NoConn] ELSE clients
  /\ UNCHANGED <<handlerOnly, wgVars, closed, shared>>

\* Whatever is entered under the address is taken out.
Deregister(c) ==
  /\ At(c, "leaving", "deregistered")
  /\ clients' = [clients EXCEPT ![addr[c]] = NoConn]
  /\ UNCHANGED <<handlerOnly, wgVars, closed, shared>>

\* The deferred calls: conn.Close, then Done.
Done(c) ==
  /\ At(c, "deregistered", "done")
  /\ closed' = [closed EXCEPT ![c] = TRUE]
  /\ WgDone
  /\ UNCHANGED <<handlerOnly, clients, shared>>
-----------------------------------------------------------------------------
(* Stop, and main around it. *)

StopStep(from, to) ==
  /\ stop = from /\ stop' = to
  /\ UNCHANGED <<serve, fields, updater, calls, wgVars, addr, peer, clients, shared>>

\* A signal: Stop begins with shuttingDown.Store(true).
Signal == StopStep("no", "cancel") /\ UNCHANGED <<bound, grpc, cancelled, handler, closed>>

\* Each of the next three does nothing if Start has not come that far.
CancelBackground ==
  /\ StopStep("cancel", "listener")
  /\ cancelled' = (cancelled \/ "cancelBackground" \in fields)
  /\ UNCHANGED <<bound, grpc, handler, closed>>

\* Connections that wait to be accepted are reset.
CloseListener ==
  /\ StopStep("listener", "grpc")
  /\ IF "listener" \in fields
     THEN /\ bound' = FALSE
          /\ handler' = [c \in Conns |-> IF handler[c] = "queued" THEN "refused"
                                         ELSE handler[c]]
     ELSE UNCHANGED <<bound, handler>>
  /\ UNCHANGED <<grpc, cancelled, closed>>

\* GracefulStop takes no more calls, then waits for those in progress, without a
\* time limit and before the timeout of Stop begins.
GracefulStop ==
  /\ IF grpc = "serving" THEN StopStep("grpc", "drain") /\ grpc' = "stopping"
                         ELSE StopStep("grpc", "clients") /\ UNCHANGED grpc
  /\ UNCHANGED <<bound, cancelled, handler, closed>>

Drained ==
  /\ calls = {}
  /\ StopStep("drain", "clients")
  /\ UNCHANGED <<bound, grpc, cancelled, handler, closed>>

\* Under clientsMu.
CloseClients ==
  /\ StopStep("clients", "wait")
  /\ closed' = [c \in Conns |-> closed[c] \/ \E a \in Addrs : clients[a] = c]
  /\ UNCHANGED <<bound, grpc, cancelled, handler>>

\* A goroutine calls Wait, which returns at once when nothing is counted.
Wait ==
  /\ stop = "wait" /\ wait = "no"
  /\ wait' = IF wg = 0 THEN "returned" ELSE "blocked"
  /\ UNCHANGED <<serverVars, stopVars, calls, wg, late, connVars>>

\* Released, Wait returns and done is closed.
WaitReturns ==
  /\ stop = "wait" /\ wait = "released" /\ wg = 0
  /\ wait' = "returned"
  /\ UNCHANGED <<serverVars, stopVars, calls, wg, late, connVars>>

\* Unless wg has been added to since: a WaitGroup is not to be reused before Wait has
\* returned, and panics.
WaitPanics ==
  /\ wait = "released" /\ wg # 0
  /\ StopStep("wait", "panicked")
  /\ UNCHANGED <<bound, grpc, cancelled, handler, closed>>

Clean_WaitsAfter ==
  /\ StopStep("wait", "clean")
  /\ UNCHANGED <<bound, grpc, cancelled, handler, closed>>

\* The select of Stop sees done.
Clean ==
  /\ wait = "returned"
  /\ StopStep("wait", "clean")
  /\ UNCHANGED <<bound, grpc, cancelled, handler, closed>>

Timeout_Never == FALSE

\* It sees the timeout, which it may even when done is closed.
Timeout ==
  /\ StopStep("wait", "timeout")
  /\ UNCHANGED <<bound, grpc, cancelled, handler, closed>>

\* main returns.
Exit ==
  /\ \E from \in {"clean", "timeout"} : StopStep(from, "exited")
  /\ UNCHANGED <<bound, grpc, cancelled, handler, closed>>
-----------------------------------------------------------------------------
(* Routers and callers of the gRPC service.  External. *)

\* An address is in use for as long as the router has not hung up.
Dial(c) ==
  /\ bound
  /\ At(c, "none", "queued")
  /\ \A d \in Conns : peer[d] => addr[d] # addr[c]
  /\ peer' = [peer EXCEPT ![c] = TRUE]
  /\ UNCHANGED <<serverVars, stopVars, calls, wgVars, addr, closed, clients, shared>>

HangUp(c) ==
  /\ peer[c]
  /\ peer' = [peer EXCEPT ![c] = FALSE]
  /\ UNCHANGED <<serverVars, stopVars, calls, wgVars, handler, addr, closed, clients, shared>>

Call(r) ==
  /\ grpc = "serving"
  /\ calls' = calls \cup {r}
  /\ UNCHANGED <<serverVars, stopVars, wgVars, connVars>>

CallEnds(r) ==
  /\ r \in calls
  /\ calls' = calls \ {r}
  /\ UNCHANGED <<serverVars, stopVars, wgVars, connVars>>

\* GetStats reads under locks that are held briefly, and returns.
GetStats(r) == CallEnds(r)

\* A reflection stream is open until its caller has done with it.
StreamEnds(r) == CallEnds(r)
-----------------------------------------------------------------------------
Serve ==
  \/ Start \/ SetCancelBackground \/ SetListener \/ StartUpdater \/ AcceptFails
  \/ \E c \in Conns : Accept(c) \/ Spawn(c)

Stop ==
  \/ CancelBackground \/ CloseListener \/ GracefulStop \/ Drained
  \/ CloseClients \/ Wait \/ WaitReturns \/ WaitPanics \/ Clean \/ Timeout \/ Exit

Handler(c) == Register(c) \/ HandleReturns(c) \/ Deregister(c) \/ Done(c)

\* The process is there until it exits.
Next ==
  /\ ~Ended
  /\ \/ Serve \/ StartFails \/ UpdaterEnds \/ Signal \/ Stop
     \/ \E c \in Conns : Handler(c) \/ Dial(c) \/ HangUp(c)
     \/ \E r \in Rpcs \cup Streams : Call(r)
     \/ \E r \in Rpcs : GetStats(r)
     \/ \E r \in Streams : StreamEnds(r)

Spec == Init /\ [][Next]_vars

\* Goroutines keep running, the timer of Stop fires, and a call of GetStats comes to
\* its end.  Nothing is assumed of routers, of handlers that wait for one, or of the
\* callers of the reflection service.
FairSpec ==
  /\ Spec
  /\ WF_vars(Serve /\ ~Ended)
  /\ WF_vars(Stop)
  /\ \A r \in Rpcs : WF_vars(GetStats(r) /\ ~Ended)
-----------------------------------------------------------------------------
(* Properties. *)

\* The goroutines of connections that wg counts.
Running == {"started", "serving", "leaving", "deregistered"}

\* The state has its type; in particular wg never drops below zero, which would panic
\* (server.go:121, 135, 142).
LifecycleTypeOK ==
  /\ wg \in Nat /\ wait \in {"no", "blocked", "released", "returned"}
  /\ late \subseteq Conns \cup {"updater"} /\ shared \subseteq Conns
  /\ stop \in {"no", "cancel", "listener", "grpc", "drain", "clients", "wait", "clean",
               "timeout", "exited", "panicked"}
  /\ serve \in {"load", "failed", "context", "listener", "updater", "accept", "go",
                "returned"}
  /\ updater \in {"none", "running", "ended"} /\ grpc \in {"none", "serving", "stopping"}
  /\ fields \subseteq {"cancelBackground", "listener"}
  /\ bound \in BOOLEAN /\ cancelled \in BOOLEAN /\ calls \subseteq Rpcs \cup Streams
  /\ handler \in [Conns -> Running \cup {"none", "queued", "refused", "accepted", "done"}]
  /\ addr \in [Conns -> Addrs]
  /\ peer \in [Conns -> BOOLEAN] /\ closed \in [Conns -> BOOLEAN]
  /\ clients \in [Addrs -> Conns \cup {NoConn}]

\* Server.clients, which GetStats counts (README.md:292), notifyClients walks and Stop
\* closes, has no entry for a connection that is over, and misses none that is being
\* served, unless at the moment a connection was registered an earlier one from the
\* same address and port had not been deregistered: the new entry then replaces that
\* of the earlier one, which later deletes it (server.go:148, 158).
ClientsExact ==
  /\ \A a \in Addrs : clients[a] # NoConn =>
       addr[clients[a]] = a /\ handler[clients[a]] \in {"serving", "leaving"}
  /\ \A c \in Conns : handler[c] \in {"serving", "leaving"} =>
       clients[addr[c]] = c \/ c \in shared

\* When Stop reports that all connections were closed cleanly (server.go:197), the
\* updater and every handler that wg had counted by the time Wait returned are
\* through, their connections closed and their clients gone.  The report says nothing
\* of what ServeListener starts between the return of Wait and the report
\* (server.go:121, 135, 191-196): with the listener closed, that is at most one
\* goroutine, the updater or the handler of the connection accepted last; without, any
\* number, and this is when Stop came before Start had set the listener.
CleanStop ==
  [][stop # "clean" /\ stop' = "clean" =>
       /\ updater = "running" => "updater" \in late
       /\ \A c \in Conns : handler[c] \in Running => c \in late
       /\ \A c \in Conns : handler[c] = "done" => closed[c]
       /\ \A a \in Addrs : clients[a] # NoConn => clients[a] \in late
       /\ ~bound => \A g, h \in late : g = h]_vars

\* If the callers of the reflection service end the streams that GracefulStop waits
\* for, Stop returns and the process exits (main.go:56), or it panics in Wait: also
\* when a connection was registered after Stop had closed the others and stays open,
\* or when the updater was started after Stop had looked for it (server.go:168, 183,
\* 199).  A stream that is never ended keeps GracefulStop from returning and the
\* timeout of Stop from starting (server.go:100, 179, 199).
StopReturns ==
  (stop = "drain" ~> calls \cap Streams = {}) => (ShuttingDown ~> Ended)
=============================================================================
