------------------------------ MODULE Replica ------------------------------
(***************************************************************************)
(* What the server promises a router, without connections, PDUs, diffs or  *)
(* locks.  The server publishes versions of its data; each of its starts   *)
(* begins a log of its own.  A router asks, and an answer takes it to some *)
(* version that is no older than the one that was the latest when it       *)
(* asked.  It then holds the data of exactly that version, unless a newer  *)
(* version was published while its question was being answered.            *)
(*                                                                         *)
(* Module Session implements this (ImplementsReplica).                     *)
(***************************************************************************)
EXTENDS Integers, Sequences

CONSTANTS
  Routers,
  Contents     \* [roas |-> a set, customers |-> a set]: what can be published

VARIABLES
  log,     \* log[e][i]: the data of version <<e, i>>, the i-th of the e-th start
  view,    \* for each router, the version it is at and the data it must hold
  asked    \* for each router, the latest version when it asked; None if it has not

vars == <<log, view, asked>>

None == <<0, 0>>

Latest == <<Len(log), Len(log[Len(log)])>>

NotBefore(v, w) == v[1] > w[1] \/ (v[1] = w[1] /\ v[2] >= w[2])

\* Below protocol version 2 a router is not sent ASPAs.
Visible(c, d) == IF view[c].aspa THEN d ELSE [d EXCEPT !.customers = {}]

Publish ==
  /\ UNCHANGED <<view, asked>>
  /\ \E d \in Contents : log' = [log EXCEPT ![Len(log)] = Append(@, d)]

\* Routers keep what they hold; questions under way are lost.
Restart ==
  /\ UNCHANGED view
  /\ asked' = [c \in Routers |-> None]
  /\ \E d \in Contents : log' = Append(log, <<d>>)

Ask(c) ==
  /\ asked' = [asked EXCEPT ![c] = Latest]
  /\ UNCHANGED <<log, view>>

GiveUp(c) ==
  /\ asked' = [asked EXCEPT ![c] = None]
  /\ UNCHANGED <<log, view>>

\* must: the data that c must hold at v, if any.
Moves(c, v, must) ==
  /\ asked[c] # None
  /\ NotBefore(v, asked[c])
  /\ asked' = [asked EXCEPT ![c] = None]
  /\ view' = [view EXCEPT ![c].at = v, ![c].data = must]
  /\ UNCHANGED log

Answer(c) ==
  \E e \in 1 .. Len(log) : \E i \in 1 .. Len(log[e]) :
    Moves(c, <<e, i>>, {Visible(c, log[e][i])})

\* The data may be that of a later version than v; and if so, it may still be
\* wrong after answers that start from it.
Raced(c) ==
  /\ asked[c] # Latest \/ view[c].data = {}
  /\ \E e \in 1 .. Len(log) : \E i \in 1 .. Len(log[e]) : Moves(c, <<e, i>>, {})

Init ==
  /\ \E d \in Contents : log = << <<d>> >>
  /\ view \in [Routers -> [at : {None}, aspa : BOOLEAN,
                           data : {{[roas |-> {}, customers |-> {}]}}]]
  /\ asked = [c \in Routers |-> None]

Next ==
  \/ Publish \/ Restart
  \/ \E c \in Routers : Ask(c) \/ GiveUp(c) \/ Answer(c) \/ Raced(c)

Spec == Init /\ [][Next]_vars
-----------------------------------------------------------------------------
(* What follows for a router.  It never goes back, since it asks from the      *)
(* latest version, and its own is never after that.                             *)

Position == Nat \X Nat

Nothing == [roas |-> {}, customers |-> {}]

Shown == Contents \cup {[d EXCEPT !.customers = {}] : d \in Contents} \cup {Nothing}

ReplicaTypeOK ==
  /\ log \in Seq(Seq(Contents)) /\ Len(log) >= 1
  /\ \A e \in 1 .. Len(log) : Len(log[e]) >= 1
  /\ view \in [Routers -> [at : Position, aspa : BOOLEAN, data : SUBSET Shown]]
  /\ asked \in [Routers -> Position]

\* A router's version is not after the latest, nor after its question.
Ordered ==
  \A c \in Routers :
    /\ NotBefore(Latest, view[c].at)
    /\ asked[c] # None => NotBefore(asked[c], view[c].at)

Logged(l, v) == v[1] \in 1 .. Len(l) /\ v[2] \in 1 .. Len(l[v[1]])

Shows(aspa, d) == IF aspa THEN d ELSE [d EXCEPT !.customers = {}]

\* What w is known to hold is the data of its version in l.
Matches(l, w) ==
  \/ w.data = {}
  \/ w.at = None /\ w.data = {Nothing}
  \/ Logged(l, w.at) /\ w.data = {Shows(w.aspa, l[w.at[1]][w.at[2]])}

\* What a router is known to hold is the data of the version it is at.
HoldsPublished == \A c \in Routers : Matches(log, view[c])

\* No router goes back to a version before the one it is at.
NotBack == \A c \in Routers : NotBefore(view'[c].at, view[c].at)

ReplicaInv == ReplicaTypeOK /\ Ordered /\ HoldsPublished
=============================================================================
