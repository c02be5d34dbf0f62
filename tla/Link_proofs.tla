----------------------------- MODULE Link_proofs -----------------------------
(***************************************************************************)
(* Proofs about the websocket link, for any number of clients, sessions,   *)
(* requests and sockets: the routes follow the sockets, the tables of      *)
(* pending requests follow the requests, and every step of the link is a   *)
(* step of Request or leaves it alone.                                     *)
(***************************************************************************)
EXTENDS Link, FiniteSetTheorems, FunctionTheorems, SequenceTheorems, TLAPS

USE LinkBounds

-----------------------------------------------------------------------------
(* Routes.                                                                  *)

\* The inductive invariant of the routes: the newest live socket of a connection is
\* the one routed, and the route of a session has a connection that owns the alias.
RouteInv ==
    /\ session \in [Reqs -> Sessions]
    /\ conn \in [Ids -> (Clients \X Nat) \cup {NoSocket}]
    /\ aliases \in [Clients -> SUBSET Sessions]
    /\ opened \in [Clients -> Nat]
    /\ NewestSocketRouted
    /\ RoutesAreReaped

\* The route that a lost alias is recovered from is that of a connection, and no
\* session's.
LEMMA RecoveredFromClient ==
    ASSUME RouteInv, Cardinality(Physical) = 1
    PROVE  /\ (CHOOSE i \in Physical : TRUE) \in Clients
           /\ conn[CHOOSE i \in Physical : TRUE] # NoSocket
<1>1. Physical # {}
  BY FS_EmptySet
<1>2. (CHOOSE i \in Physical : TRUE) \in Physical
  BY <1>1
<1>3. Physical \subseteq Clients /\ \A i \in Physical : conn[i] # NoSocket
  BY DEF RouteInv, RoutesAreReaped, Physical, Ids
<1> QED
  BY <1>2, <1>3

\* Sending recovers an alias, or leaves the routes alone.
LEMMA RoutedKeepsRoutes ==
    ASSUME RouteInv, NEW s \in Sessions, Routed(s), UNCHANGED <<session, opened, live>>
    PROVE  RouteInv'
<1>1. CASE ~Recoverable(s)
  BY <1>1 DEF Routed, routes, RouteInv, NewestSocketRouted, RoutesAreReaped
<1>2. CASE Recoverable(s)
  <2> DEFINE i == CHOOSE j \in Physical : TRUE
  <2>1. i \in Clients /\ conn[i] # NoSocket
    BY <1>2, RecoveredFromClient DEF Recoverable
  <2>2. /\ conn' = [conn EXCEPT ![s] = conn[i]]
        /\ aliases' = [c \in Clients |-> IF c = i THEN aliases[c] \cup {s} ELSE aliases[c]]
    BY <1>2 DEF Routed
  <2> HIDE DEF i
  <2>3. /\ conn' \in [Ids -> (Clients \X Nat) \cup {NoSocket}]
        /\ aliases' \in [Clients -> SUBSET Sessions]
    BY <2>1, <2>2 DEF RouteInv, Ids
  <2>4. NewestSocketRouted'
    BY <2>1, <2>2 DEF RouteInv, NewestSocketRouted, Ids
  <2>5. RoutesAreReaped'
    BY <2>1, <2>2 DEF RouteInv, RoutesAreReaped, Ids
  <2> QED
    BY <2>3, <2>4, <2>5 DEF RouteInv
<1> QED
  BY <1>1, <1>2

\* A step that leaves the routing table alone keeps it, also when sockets drop.
LEMMA RouteFrame ==
    ASSUME RouteInv, UNCHANGED <<session, conn, aliases, opened>>, live' \subseteq live
    PROVE  RouteInv'
  BY DEF RouteInv, NewestSocketRouted, RoutesAreReaped

\* A new connection takes over the route of its id.
LEMMA ConnectRoutes ==
    ASSUME RouteInv, NEW c \in Clients, Connect(c)
    PROVE  RouteInv'
<1> USE DEF Connect, RouteInv, Ids
<1>1. /\ conn' \in [Ids -> (Clients \X Nat) \cup {NoSocket}]
      /\ opened' \in [Clients -> Nat] /\ UNCHANGED <<session, aliases>>
  BY DEF asked
<1>2. NewestSocketRouted'
  BY DEF NewestSocketRouted
<1>3. RoutesAreReaped'
  BY DEF RoutesAreReaped
<1> QED
  BY <1>1, <1>2, <1>3

\* A session's alias leads to the connection that registered it.
LEMMA RegisterAliasRoutes ==
    ASSUME RouteInv, NEW k \in Sockets, NEW s \in Sessions, RegisterAlias(k, s)
    PROVE  RouteInv'
<1> USE DEF RegisterAlias, RouteInv, Ids
<1>0. k[1] \in Clients
  BY DEF Sockets
<1>1. /\ conn' \in [Ids -> (Clients \X Nat) \cup {NoSocket}]
      /\ aliases' \in [Clients -> SUBSET Sessions] /\ UNCHANGED <<session, opened, live>>
  BY <1>0 DEF asked, sockets
<1>2. NewestSocketRouted'
  BY <1>1 DEF NewestSocketRouted
<1>3. RoutesAreReaped'
  BY <1>0 DEF RoutesAreReaped
<1> QED
  BY <1>1, <1>2, <1>3

\* A close ends the routes of its connection id, unless it is stale: the newest
\* socket of the id, if it is up, holds the id's route.
LEMMA DisconnectRoutes ==
    ASSUME RouteInv, NEW k \in Sockets, Disconnect(k)
    PROVE  RouteInv'
<1> USE DEF RouteInv, Ids
<1>0. k[1] \in Clients /\ k \notin live /\ UNCHANGED <<session, opened, live>>
  BY DEF Sockets, Disconnect, asked
<1>1. CASE UNCHANGED routes
  BY <1>0, <1>1, RouteFrame DEF routes
<1>2. CASE /\ conn[k[1]] \in {NoSocket, k}
           /\ aliases' = [aliases EXCEPT ![k[1]] = {}]
           /\ conn' = [i \in Ids |-> IF i \in {k[1]} \cup aliases[k[1]] THEN NoSocket ELSE conn[i]]
  <2>1. /\ conn' \in [Ids -> (Clients \X Nat) \cup {NoSocket}]
        /\ aliases' \in [Clients -> SUBSET Sessions]
    BY <1>0, <1>2
  <2>2. NewestSocketRouted'
    BY <1>0, <1>2 DEF NewestSocketRouted, NoSocket
  <2>3. RoutesAreReaped'
    BY <1>0, <1>2 DEF RoutesAreReaped
  <2> QED
    BY <1>0, <2>1, <2>2, <2>3
<1> QED
  BY <1>1, <1>2 DEF Disconnect

\* Every step leaves the routes to the newest sockets and to no others.
LEMMA RouteStep ==
    ASSUME RouteInv, [Next]_vars
    PROVE  RouteInv'
<1> USE DEF asked, sockets, routes
<1>0. CASE UNCHANGED vars
  BY <1>0, RouteFrame DEF vars
<1>1. ASSUME NEW c \in Clients, Connect(c)
      PROVE  RouteInv'
  BY <1>1, ConnectRoutes
<1>2. ASSUME NEW k \in Sockets, Drop(k)
      PROVE  RouteInv'
  BY <1>2, RouteFrame DEF Drop
<1>3. ASSUME NEW k \in Sockets, Disconnect(k)
      PROVE  RouteInv'
  BY <1>3, DisconnectRoutes
<1>4. ASSUME NEW k \in Sockets, Receive(k)
      PROVE  RouteInv'
  BY <1>4, RouteFrame DEF Receive
<1>5. ASSUME NEW k \in Sockets, NEW s \in Sessions, RegisterAlias(k, s)
      PROVE  RouteInv'
  BY <1>5, RegisterAliasRoutes
<1>6. ASSUME NEW s \in Sessions, Broadcast(s)
      PROVE  RouteInv'
  BY <1>6, RoutedKeepsRoutes DEF Broadcast
<1>7. ASSUME NEW r \in Reqs, NEW f \in Fates,
             AskHuman(r, f) \/ PauseGraph(r, f) \/ EmitPatch(r, f) \/ EmitProvision(r, f) \/ EmitExec(r, f)
      PROVE  RouteInv'
  <2>1. session[r] \in Sessions /\ Routed(session[r]) /\ UNCHANGED <<session, opened, live>>
    BY <1>7 DEF RouteInv, Sent, AskHuman, PauseGraph, EmitPatch, EmitProvision, EmitExec, EmitFirst
  <2> QED
    BY <2>1, RoutedKeepsRoutes
<1>8. ASSUME NEW r \in Reqs, RefusePatch(r) \/ WaitPlain(r) \/ WaitExec(r) \/ Wake(r) \/ TimeOut(r)
                              \/ CancelCaller(r)
      PROVE  RouteInv'
  BY <1>8, RouteFrame DEF RefusePatch, WaitPlain, WaitExec, Wake, TimeOut, CancelCaller
<1>9. ASSUME NEW k \in Sockets, NEW r \in Reqs,
             HostStreams(k, r) \/ \E v \in Values : HostAnswers(k, r, v)
      PROVE  RouteInv'
  BY <1>9, RouteFrame DEF HostStreams, HostAnswers
<1> QED
  BY <1>0, <1>1, <1>2, <1>3, <1>4, <1>5, <1>6, <1>7, <1>8, <1>9 DEF Next

\* The routes of ConnectionManager follow the sockets, for any interleaving of
\* connections, announcements, recoveries, drops and late closes: the newest
\* socket of a connection id holds its route, and no route outlives every
\* connection that could close it.
THEOREM RoutesFollow == Spec => []RoutesFollowSockets
<1>1. Init => RouteInv
  BY DEF Init, RouteInv, NewestSocketRouted, RoutesAreReaped, Ids
<1>2. RouteInv /\ [Next]_vars => RouteInv'
  BY RouteStep
<1>3. RouteInv => RoutesFollowSockets
  BY DEF RouteInv, RoutesFollowSockets
<1> QED
  BY <1>1, <1>2, <1>3, PTL DEF Spec

-----------------------------------------------------------------------------
(* The tables of pending requests.                                          *)

\* What a socket carries from the host.
Frames == [req : Reqs, says : Values \cup {"chunk", "tick"}]

\* The types of the variables about the requests and their tables.
TableTypes ==
    /\ kind \in [Reqs -> AllKinds] /\ session \in [Reqs -> Sessions]
    /\ chan \in [Sockets -> Seq(Frames)]
    /\ phase \in [Reqs -> {"idle", "sent", "waiting", "settled"}]
    /\ registered \subseteq Reqs /\ woken \subseteq Reqs
    /\ index \in [Sessions -> SUBSET Reqs]
    /\ result \in [Reqs -> Values \cup {"none"}]
    /\ buffer \in [Reqs -> Nat \cup {Absent}]
    /\ paused \in [Sessions -> Reqs \cup {"none"}]
    /\ outcome \in [Reqs -> Values \cup {"none", "error", "refused", "cancelled"}]

\* What the tables say of a request.  An event is registered and indexed at the
\* same time, by the session that asked; a result is only left for a caller who
\* is still registered; a graph that is paused appears in none of them.
Tabled(r) ==
    /\ r \in registered <=> r \in index[session[r]]
    /\ \A s \in Sessions : r \in index[s] => s = session[r]
    /\ r \in registered \cup woken => phase[r] = "waiting" /\ kind[r] # "graph"
    /\ buffer[r] # Absent <=> r \in registered /\ kind[r] = "exec"
    /\ phase[r] = "waiting" /\ kind[r] # "graph" => r \in woken \cup registered
    /\ phase[r] \in {"idle", "sent"} => result[r] = "none"
    /\ phase[r] = "sent" => kind[r] # "graph"
    /\ phase[r] = "waiting" /\ result[r] # "none" => r \in registered
    /\ phase[r] = "settled" /\ kind[r] \in {"provision", "exec"} => result[r] = "none"

\* A paused session waits for the approval of a graph of its own.
PausedAreGraphs ==
    \A s \in Sessions : paused[s] # "none" =>
        /\ kind[paused[s]] = "graph" /\ phase[paused[s]] = "waiting"
        /\ session[paused[s]] = s

\* The inductive invariant of the tables.
TableInv == TableTypes /\ (\A r \in Reqs : Tabled(r)) /\ PausedAreGraphs

\* A step that leaves the tables alone.
LEMMA TableFrame ==
    ASSUME TableInv, UNCHANGED <<kind, session, phase, registered, woken, index, result, buffer,
                                 paused, outcome>>,
           chan' \in [Sockets -> Seq(Frames)]
    PROVE  TableInv'
  BY DEF TableInv, TableTypes, Tabled, PausedAreGraphs

\* A request that cannot be sent is settled at once.
LEMMA SettlesUnsent ==
    ASSUME TableInv, NEW r \in Reqs, NEW what \in {"error", "refused"}, phase[r] = "idle",
           Settled(r, what),
           UNCHANGED <<kind, session, chan, registered, woken, index, result, buffer, paused>>
    PROVE  TableInv'
<1> USE DEF TableInv, Settled
<1>1. TableTypes'
  BY DEF TableTypes
<1>2. ASSUME NEW q \in Reqs
      PROVE  Tabled(q)'
  BY DEF TableTypes, Tabled
<1>3. PausedAreGraphs'
  BY DEF TableTypes, PausedAreGraphs
<1> QED
  BY <1>1, <1>2, <1>3

\* A request is on its way and not registered yet.
LEMMA EmitsFirst ==
    ASSUME TableInv, NEW r \in Reqs, phase[r] = "idle", kind[r] # "graph",
           phase' = [phase EXCEPT ![r] = "sent"],
           UNCHANGED <<kind, session, chan, registered, woken, index, result, buffer, paused, outcome>>
    PROVE  TableInv'
<1> USE DEF TableInv
<1>1. TableTypes'
  BY DEF TableTypes
<1>2. ASSUME NEW q \in Reqs
      PROVE  Tabled(q)'
  BY DEF TableTypes, Tabled
<1>3. PausedAreGraphs'
  BY DEF TableTypes, PausedAreGraphs
<1> QED
  BY <1>1, <1>2, <1>3

\* A waiter is registered, with a buffer if it waits for a command.
LEMMA Registers ==
    ASSUME TableInv, NEW r \in Reqs, phase[r] \in {"idle", "sent"}, kind[r] # "graph", Register(r),
           buffer' = IF kind[r] = "exec" THEN [buffer EXCEPT ![r] = 0] ELSE buffer,
           UNCHANGED <<kind, session, chan, woken, result, paused, outcome>>
    PROVE  TableInv'
<1> USE DEF TableInv, Register
<1>1. TableTypes'
  BY DEF TableTypes
<1>2. ASSUME NEW q \in Reqs
      PROVE  Tabled(q)'
  BY DEF TableTypes, Tabled, Absent
<1>3. PausedAreGraphs'
  BY DEF TableTypes, PausedAreGraphs
<1> QED
  BY <1>1, <1>2, <1>3

\* A caller leaves through its finally clause.
LEMMA Unregisters ==
    ASSUME TableInv, NEW r \in Reqs, phase[r] = "waiting", kind[r] # "graph", Unregister(r),
           NEW what \in Values \cup {"none", "cancelled"}, Settled(r, what),
           NEW left \in Values \cup {"none"}, result' = [result EXCEPT ![r] = left],
           kind[r] \in {"provision", "exec"} => left = "none",
           UNCHANGED <<kind, session, chan, paused>>
    PROVE  TableInv'
<1> USE DEF TableInv, Unregister, Settled
<1>1. TableTypes'
  BY DEF TableTypes
<1>2. ASSUME NEW q \in Reqs
      PROVE  Tabled(q)'
  BY DEF TableTypes, Tabled
<1>3. PausedAreGraphs'
  BY DEF TableTypes, PausedAreGraphs
<1> QED
  BY <1>1, <1>2, <1>3

\* A graph pauses on a card.
LEMMA PausesGraph ==
    ASSUME TableInv, NEW r \in Reqs, NEW f, PauseGraph(r, f)
    PROVE  TableInv'
<1> USE DEF TableInv, PauseGraph, asked, sockets, told
<1>1. TableTypes'
  BY DEF TableTypes
<1>2. ASSUME NEW q \in Reqs
      PROVE  Tabled(q)'
  BY DEF TableTypes, Tabled
<1>3. PausedAreGraphs'
  BY DEF TableTypes, PausedAreGraphs
<1> QED
  BY <1>1, <1>2, <1>3

\* A disconnect wakes everybody it forgets.
LEMMA Reaps ==
    ASSUME TableInv, NEW ss \in SUBSET Sessions, Reap(ss), UNCHANGED <<kind, session, chan, outcome>>
    PROVE  TableInv'
<1> USE DEF TableInv
<1> DEFINE gone == UNION {index[s] : s \in ss}
<1>1. \A q \in Reqs : q \in gone <=> q \in registered /\ session[q] \in ss
  BY DEF TableTypes, Tabled
<1>2. /\ index' = [s \in Sessions |-> IF s \in ss THEN {} ELSE index[s]]
      /\ registered' = registered \ gone /\ woken' = woken \cup (gone \cap registered)
      /\ result' = [r \in Reqs |-> IF r \in gone THEN "none" ELSE result[r]]
      /\ buffer' = [r \in Reqs |-> IF r \in gone THEN Absent ELSE buffer[r]]
      /\ UNCHANGED <<phase, paused>>
  BY DEF Reap
<1> HIDE DEF gone
<1>3. TableTypes'
  BY <1>2 DEF TableTypes
<1>4. ASSUME NEW q \in Reqs
      PROVE  Tabled(q)'
  BY <1>1, <1>2 DEF TableTypes, Tabled
<1>5. PausedAreGraphs'
  BY <1>2 DEF PausedAreGraphs
<1> QED
  BY <1>3, <1>4, <1>5

\* What may arrive: a chunk, a tick, an answer to a card of a paused session, or
\* any other answer.
LEMMA HandleCases ==
    ASSUME NEW f \in Frames, Handle(f)
    PROVE  \/ f.says = "chunk" /\ AppendStream(f.req)
           \/ f.says = "tick" /\ UNCHANGED <<waiters, outcome, missed>>
           \/ /\ f.says \in Values /\ paused[session[f.req]] # "none"
              /\ ResumePaused(session[f.req], f.says)
           \/ f.says \in Values /\ Resolve(f.req, f.says)
<1>1. CASE f.says = "chunk"
  BY <1>1 DEF Handle, Values
<1>2. CASE f.says = "tick"
  BY <1>2 DEF Handle, Values
<1>3. CASE f.says \in Values
  BY <1>3 DEF Handle, Values
<1> QED
  BY <1>1, <1>2, <1>3 DEF Frames

\* A frame that arrives keeps the tables in order.
LEMMA Handles ==
    ASSUME TableInv, NEW f \in Frames, Handle(f), UNCHANGED <<kind, session>>,
           chan' \in [Sockets -> Seq(Frames)]
    PROVE  TableInv'
<1> USE DEF TableInv
<1>0. f.req \in Reqs /\ session[f.req] \in Sessions /\ f.says \in Values \cup {"chunk", "tick"}
  BY DEF Frames, TableTypes
<1>1. CASE AppendStream(f.req)
  <2>1. TableTypes'
    BY <1>0, <1>1 DEF TableTypes, AppendStream
  <2>2. ASSUME NEW q \in Reqs
        PROVE  Tabled(q)'
    BY <1>0, <1>1 DEF TableTypes, Tabled, AppendStream, Absent
  <2>3. PausedAreGraphs'
    BY <1>1 DEF PausedAreGraphs, AppendStream
  <2> QED
    BY <2>1, <2>2, <2>3
<1>2. CASE UNCHANGED <<waiters, outcome, missed>>
  BY <1>2, TableFrame DEF waiters
<1>3. CASE f.says \in Values /\ paused[session[f.req]] # "none" /\ ResumePaused(session[f.req], f.says)
  <2> DEFINE g == paused[session[f.req]]
  <2>1. g \in Reqs /\ kind[g] = "graph" /\ phase[g] = "waiting"
    BY <1>0, <1>3 DEF TableTypes, PausedAreGraphs
  <2>2. /\ paused' = [paused EXCEPT ![session[f.req]] = "none"]
        /\ phase' = [phase EXCEPT ![g] = "settled"] /\ outcome' = [outcome EXCEPT ![g] = f.says]
        /\ UNCHANGED <<registered, woken, index, result, buffer>>
    BY <1>3 DEF ResumePaused, Settled
  <2>3. \A s \in Sessions : paused[s] = g /\ g # "none" => s = session[f.req]
    BY <1>0 DEF PausedAreGraphs
  <2> HIDE DEF g
  <2>4. TableTypes'
    BY <1>0, <1>3, <2>1, <2>2 DEF TableTypes
  <2>5. ASSUME NEW q \in Reqs
        PROVE  Tabled(q)'
    BY <2>1, <2>2 DEF TableTypes, Tabled
  <2>6. PausedAreGraphs'
    BY <1>0, <2>1, <2>2, <2>3 DEF TableTypes, PausedAreGraphs
  <2> QED
    BY <2>4, <2>5, <2>6
<1>4. CASE f.says \in Values /\ Resolve(f.req, f.says)
  <2>1. TableTypes'
    <3>1. CASE f.req \in registered
      <4>1. /\ result' = [result EXCEPT ![f.req] = f.says] /\ woken' = woken \cup {f.req}
            /\ UNCHANGED <<phase, registered, index, buffer, paused, outcome>>
        BY <1>4, <3>1 DEF Resolve
      <4>2. result' \in [Reqs -> Values \cup {"none"}] /\ woken' \subseteq Reqs
        BY <1>0, <1>4, <4>1 DEF TableTypes
      <4> QED
        BY <4>1, <4>2 DEF TableTypes
    <3>2. CASE f.req \notin registered
      BY <1>0, <1>4, <3>2 DEF TableTypes, Resolve
    <3> QED
      BY <3>1, <3>2
  <2>2. ASSUME NEW q \in Reqs
        PROVE  Tabled(q)'
    BY <1>0, <1>4 DEF TableTypes, Tabled, Resolve
  <2>3. PausedAreGraphs'
    BY <1>4 DEF PausedAreGraphs, Resolve
  <2> QED
    BY <2>1, <2>2, <2>3
<1> QED
  BY <1>1, <1>2, <1>3, <1>4, HandleCases

\* The channels hold frames.
LEMMA ChannelTypes ==
    ASSUME chan \in [Sockets -> Seq(Frames)], NEW k \in Sockets
    PROVE  /\ \A n \in 0..Len(chan[k]) :
                 [chan EXCEPT ![k] = SubSeq(@, 1, n)] \in [Sockets -> Seq(Frames)]
           /\ chan[k] # <<>> => /\ Head(chan[k]) \in Frames
                                /\ [chan EXCEPT ![k] = Tail(@)] \in [Sockets -> Seq(Frames)]
           /\ \A f \in Frames : [chan EXCEPT ![k] = Append(@, f)] \in [Sockets -> Seq(Frames)]
<1> DEFINE q == chan[k]
<1>1. q \in Seq(Frames)
  OBVIOUS
<1>2. \A t \in Seq(Frames) : [chan EXCEPT ![k] = t] \in [Sockets -> Seq(Frames)]
  OBVIOUS
<1> HIDE DEF q
<1>3. \A n \in 0..Len(q) : SubSeq(q, 1, n) \in Seq(Frames)
  BY <1>1
<1>4. q # <<>> => Head(q) \in Frames /\ Tail(q) \in Seq(Frames)
  BY <1>1
<1>5. \A f \in Frames : Append(q, f) \in Seq(Frames)
  BY <1>1
<1> QED
  BY <1>2, <1>3, <1>4, <1>5 DEF q

\* The frames that the host sends.
LEMMA HostFrames ==
    ASSUME NEW r \in Reqs, NEW v \in Values \cup {"chunk", "tick"}
    PROVE  [req |-> r, says |-> v] \in Frames
  BY DEF Frames

\* Every step leaves the tables as the requests are.
LEMMA TableStep ==
    ASSUME TableInv, [Next]_vars
    PROVE  TableInv'
<1> USE DEF asked, sockets, waiters, told, hostside
<1>0. chan \in [Sockets -> Seq(Frames)]
  BY DEF TableInv, TableTypes
<1>1. CASE UNCHANGED vars
  BY <1>0, <1>1, TableFrame DEF vars
<1>2. ASSUME NEW c \in Clients, Connect(c)
      PROVE  TableInv'
  BY <1>0, <1>2, TableFrame DEF Connect
<1>3. ASSUME NEW k \in Sockets, Drop(k)
      PROVE  TableInv'
  BY <1>0, <1>3, TableFrame, ChannelTypes DEF Drop
<1>4. ASSUME NEW k \in Sockets, Disconnect(k)
      PROVE  TableInv'
  <2>1. CASE UNCHANGED waiters
    BY <1>0, <1>4, <2>1, TableFrame DEF Disconnect
  <2>2. CASE Reap(({k[1]} \cup aliases[k[1]]) \cap Sessions)
    BY <1>4, <2>2, Reaps DEF Disconnect
  <2> QED
    BY <1>4, <2>1, <2>2 DEF Disconnect
<1>5. ASSUME NEW k \in Sockets, Receive(k)
      PROVE  TableInv'
  <2>1. Head(chan[k]) \in Frames /\ chan' \in [Sockets -> Seq(Frames)]
    BY <1>0, <1>5, ChannelTypes DEF Receive
  <2> QED
    BY <1>5, <2>1, Handles DEF Receive
<1>6. ASSUME NEW k \in Sockets, NEW s \in Sessions, RegisterAlias(k, s)
      PROVE  TableInv'
  BY <1>0, <1>6, TableFrame DEF RegisterAlias
<1>7. ASSUME NEW s \in Sessions, Broadcast(s)
      PROVE  TableInv'
  BY <1>0, <1>7, TableFrame DEF Broadcast
<1>8. ASSUME NEW r \in Reqs, NEW f \in Fates, AskHuman(r, f)
      PROVE  TableInv'
  <2>1. CASE f = "raises"
    BY <1>8, <2>1, SettlesUnsent DEF AskHuman
  <2>2. CASE f # "raises"
    BY <1>8, <2>2, Registers DEF AskHuman
  <2> QED
    BY <2>1, <2>2
<1>9. ASSUME NEW r \in Reqs, NEW f \in Fates, PauseGraph(r, f)
      PROVE  TableInv'
  BY <1>9, PausesGraph
<1>10. ASSUME NEW r \in Reqs, NEW f \in Fates, EmitPatch(r, f) \/ EmitProvision(r, f) \/ EmitExec(r, f)
      PROVE  TableInv'
  <2>1. kind[r] # "graph" /\ EmitFirst(r, f)
    BY <1>10 DEF EmitPatch, EmitProvision, EmitExec
  <2>2. CASE f = "raises"
    BY <2>1, <2>2, SettlesUnsent DEF EmitFirst
  <2>3. CASE f # "raises"
    BY <2>1, <2>3, EmitsFirst DEF EmitFirst
  <2> QED
    BY <2>2, <2>3
<1>11. ASSUME NEW r \in Reqs, RefusePatch(r)
      PROVE  TableInv'
  BY <1>11, SettlesUnsent DEF RefusePatch
<1>12. ASSUME NEW r \in Reqs, WaitPlain(r) \/ WaitExec(r)
      PROVE  TableInv'
  <2>1. kind[r] # "graph"
    BY <1>12 DEF WaitPlain, WaitExec, TableInv, Tabled
  <2> QED
    BY <1>12, <2>1, Registers DEF WaitPlain, WaitExec
<1>13. ASSUME NEW r \in Reqs, Wake(r)
      PROVE  TableInv'
  <2>1. kind[r] # "graph" /\ result[r] \in Values \cup {"none"}
    BY <1>13 DEF Wake, TableInv, TableTypes, Tabled
  <2> QED
    BY <1>13, <2>1, Unregisters DEF Wake
<1>14. ASSUME NEW r \in Reqs, TimeOut(r) \/ CancelCaller(r)
      PROVE  TableInv'
  <2> DEFINE left == IF kind[r] \in {"provision", "exec"} THEN "none" ELSE result[r]
  <2>1. left \in Values \cup {"none"}
    BY DEF TableInv, TableTypes
  <2>2. result' = [result EXCEPT ![r] = left]
    BY <1>14 DEF TimeOut, CancelCaller
  <2>3. kind[r] \in {"provision", "exec"} => left = "none"
    OBVIOUS
  <2>4. \E what \in {"none", "cancelled"} : Settled(r, what)
    BY <1>14 DEF TimeOut, CancelCaller
  <2>5. /\ phase[r] = "waiting" /\ kind[r] # "graph" /\ Unregister(r)
        /\ UNCHANGED <<kind, session, chan, paused>>
    BY <1>14 DEF TimeOut, CancelCaller
  <2> HIDE DEF left
  <2> QED
    BY <2>1, <2>2, <2>3, <2>4, <2>5, Unregisters
<1>15. ASSUME NEW k \in Sockets, NEW r \in Reqs,
             HostStreams(k, r) \/ \E v \in Values : HostAnswers(k, r, v)
      PROVE  TableInv'
  <2>1. chan' \in [Sockets -> Seq(Frames)]
    <3>1. PICK v \in Values \cup {"chunk", "tick"} : Reply(k, r, v)
      BY <1>15 DEF HostStreams, HostAnswers
    <3>2. [req |-> r, says |-> v] \in Frames
      BY HostFrames
    <3> QED
      BY <1>0, <3>1, <3>2, ChannelTypes DEF Reply
  <2> QED
    BY <1>15, <2>1, TableFrame DEF HostStreams, HostAnswers
<1> QED
  BY <1>1, <1>2, <1>3, <1>4, <1>5, <1>6, <1>7, <1>8, <1>9, <1>10, <1>11, <1>12, <1>13, <1>14, <1>15
     DEF Next

-----------------------------------------------------------------------------
(* Counting the output of a command.                                        *)

\* The chunks of one channel are counted apart from those of the others.
Elsewhere(c, k, r) == UNION {{j} \X ChunksIn(c[j], r) : j \in Sockets \ {k}}

\* There are finitely many sockets.
LEMMA SocketsFinite == IsFiniteSet(Sockets)
<1>1. IsFiniteSet(1..MaxSockets) /\ IsFiniteSet(Clients)
  BY FS_Interval
<1> QED
  BY <1>1, FS_Product DEF Sockets

\* The chunks in one channel can be counted.
LEMMA ChunksInFinite ==
    ASSUME NEW q \in Seq(Frames), NEW r
    PROVE  IsFiniteSet(ChunksIn(q, r)) /\ Cardinality(ChunksIn(q, r)) \in Nat
<1>1. IsFiniteSet(1..Len(q)) /\ ChunksIn(q, r) \in SUBSET (1..Len(q))
  BY FS_Interval DEF ChunksIn
<1> QED
  BY <1>1, FS_Subset, FS_CardinalityType

\* The chunks on their way are those in one channel and those in the others.
LEMMA InFlightSplit ==
    ASSUME NEW c \in [Sockets -> Seq(Frames)], NEW k \in Sockets, NEW r
    PROVE  /\ IsFiniteSet(Elsewhere(c, k, r)) /\ Cardinality(Elsewhere(c, k, r)) \in Nat
           /\ Cardinality(UNION {{j} \X ChunksIn(c[j], r) : j \in Sockets})
                = Cardinality(Elsewhere(c, k, r)) + Cardinality(ChunksIn(c[k], r))
<1> DEFINE here == {k} \X ChunksIn(c[k], r)
           there == {{j} \X ChunksIn(c[j], r) : j \in Sockets \ {k}}
           all == UNION {{j} \X ChunksIn(c[j], r) : j \in Sockets}
<1>1. \A j \in Sockets : /\ IsFiniteSet(ChunksIn(c[j], r)) /\ Cardinality(ChunksIn(c[j], r)) \in Nat
  BY ChunksInFinite
<1>2. \A j \in Sockets : IsFiniteSet({j} \X ChunksIn(c[j], r))
  BY <1>1, FS_Singleton, FS_Product
<1>3. IsFiniteSet(there)
  <2> DEFINE f == [j \in Sockets \ {k} |-> {j} \X ChunksIn(c[j], r)]
  <2>1. IsFiniteSet(Sockets \ {k})
    BY SocketsFinite, FS_RemoveElement
  <2>2. f \in Surjection(Sockets \ {k}, there)
    BY DEF Surjection
  <2> HIDE DEF f, there
  <2> QED
    BY <2>1, <2>2, FS_Surjection
<1>4. IsFiniteSet(Elsewhere(c, k, r))
  BY <1>2, <1>3, FS_UNION DEF Elsewhere
<1>5. IsFiniteSet(here) /\ Cardinality(here) = Cardinality(ChunksIn(c[k], r))
  <2>1. IsFiniteSet({k}) /\ Cardinality({k}) = 1
    BY FS_Singleton
  <2>2. Cardinality(here) = Cardinality({k}) * Cardinality(ChunksIn(c[k], r))
    BY <1>1, <2>1, FS_Product
  <2> QED
    BY <1>1, <1>2, <2>1, <2>2
<1>6. all = Elsewhere(c, k, r) \cup here /\ Elsewhere(c, k, r) \cap here = {}
  BY DEF Elsewhere
<1>7. Cardinality(Elsewhere(c, k, r)) \in Nat
  BY <1>4, FS_CardinalityType
<1> HIDE DEF here, all
<1>8. Cardinality(Elsewhere(c, k, r) \cup here)
        = Cardinality(Elsewhere(c, k, r)) + Cardinality(here) - Cardinality({})
  BY <1>4, <1>5, <1>6, FS_Union
<1>9. Cardinality(all) = Cardinality(Elsewhere(c, k, r)) + Cardinality(ChunksIn(c[k], r))
  BY <1>1, <1>5, <1>6, <1>7, <1>8, FS_EmptySet
<1> QED
  BY <1>4, <1>7, <1>9 DEF all

\* The frame that carries one chunk of a command's output.
ChunkOf(r) == [req |-> r, says |-> "chunk"]

\* A frame is sent: the channel has one chunk more if it is one.
LEMMA CountAppend ==
    ASSUME NEW q \in Seq(Frames), NEW f \in Frames, NEW r
    PROVE  Cardinality(ChunksIn(Append(q, f), r))
             = Cardinality(ChunksIn(q, r)) + (IF f = ChunkOf(r) THEN 1 ELSE 0)
<1> DEFINE n == Len(q) + 1
           C == ChunksIn(q, r)
<1>1. IsFiniteSet(C) /\ Cardinality(C) \in Nat /\ n \notin C
  BY ChunksInFinite DEF ChunksIn
<1>2. ChunksIn(Append(q, f), r) = IF f = ChunkOf(r) THEN C \cup {n} ELSE C
  BY DEF ChunksIn, ChunkOf
<1> HIDE DEF n, C
<1>3. Cardinality(C \cup {n}) = Cardinality(C) + 1
  BY <1>1, FS_AddElement
<1> QED
  BY <1>1, <1>2, <1>3 DEF C

\* A frame is received: the channel has one chunk less if it was one.
LEMMA CountTail ==
    ASSUME NEW q \in Seq(Frames), NEW r, q # <<>>
    PROVE  Cardinality(ChunksIn(q, r))
             = Cardinality(ChunksIn(Tail(q), r)) + (IF Head(q) = ChunkOf(r) THEN 1 ELSE 0)
<1> DEFINE C == ChunksIn(q, r)
           D == ChunksIn(Tail(q), r)
           h == [i \in D |-> i + 1]
<1>0. Tail(q) \in Seq(Frames) /\ Len(q) \in Nat /\ Len(q) # 0 /\ Len(Tail(q)) = Len(q) - 1
  OBVIOUS
<1>1. IsFiniteSet(C) /\ Cardinality(C) \in Nat /\ IsFiniteSet(D) /\ Cardinality(D) \in Nat
  BY <1>0, ChunksInFinite
<1>2. D \subseteq Nat /\ C \subseteq Nat
  BY DEF ChunksIn
<1>3. \A i \in Nat : i \in D <=> i # 0 /\ i + 1 \in C
  BY <1>0 DEF ChunksIn
<1>4. 0 \notin D
  BY DEF ChunksIn
<1>5. \A j \in C \ {1} : j - 1 \in D /\ (j - 1) + 1 = j
  <2> SUFFICES ASSUME NEW j \in C \ {1}
               PROVE  j - 1 \in D /\ (j - 1) + 1 = j
    OBVIOUS
  <2>1. j \in 1..Len(q)
    BY DEF ChunksIn
  <2>2. j - 1 \in Nat /\ j - 1 # 0 /\ (j - 1) + 1 = j
    BY <2>1
  <2> QED
    BY <1>3, <2>2
<1>6. 1 \in C <=> Head(q) = ChunkOf(r)
  BY <1>0 DEF ChunksIn, ChunkOf
<1> HIDE DEF C, D
<1>7. h \in Bijection(D, C \ {1})
  <2>1. h \in [D -> C \ {1}]
    BY <1>2, <1>3, <1>4
  <2>2. \A a, b \in D : h[a] = h[b] => a = b
    BY <1>2
  <2>3. \A j \in C \ {1} : \E i \in D : h[i] = j
    BY <1>2, <1>5
  <2> HIDE DEF h
  <2> QED
    BY <2>1, <2>2, <2>3 DEF Bijection, Injection, Surjection, IsInjective
<1>8. Cardinality(C \ {1}) = Cardinality(D)
  BY <1>1, <1>7, FS_Bijection DEF ExistsBijection
<1>9. Cardinality(C \ {1}) = IF 1 \in C THEN Cardinality(C) - 1 ELSE Cardinality(C)
  BY <1>1, FS_RemoveElement
<1> QED
  BY <1>1, <1>6, <1>8, <1>9 DEF C, D

\* A channel is cut off: its chunks are those before and those after the cut.
LEMMA CountCut ==
    ASSUME NEW q \in Seq(Frames), NEW r, NEW n \in 0..Len(q)
    PROVE  LET lost == {i \in n+1..Len(q) : q[i] = ChunkOf(r)} IN
           /\ Cardinality(lost) \in Nat
           /\ Cardinality(ChunksIn(q, r)) = Cardinality(ChunksIn(SubSeq(q, 1, n), r)) + Cardinality(lost)
<1> DEFINE lost == {i \in n+1..Len(q) : q[i] = ChunkOf(r)}
           C == ChunksIn(q, r)
           D == ChunksIn(SubSeq(q, 1, n), r)
<1>1. SubSeq(q, 1, n) \in Seq(Frames) /\ Len(SubSeq(q, 1, n)) = n
      /\ \A i \in 1..n : SubSeq(q, 1, n)[i] = q[i]
  OBVIOUS
<1>2. IsFiniteSet(C) /\ Cardinality(C) \in Nat /\ IsFiniteSet(D) /\ Cardinality(D) \in Nat
  BY <1>1, ChunksInFinite
<1>3. C = D \cup lost /\ D \cap lost = {}
  BY <1>1 DEF ChunksIn, ChunkOf
<1> HIDE DEF C, D, lost
<1>4. lost \in SUBSET C
  BY <1>3
<1>5. IsFiniteSet(lost) /\ Cardinality(lost) \in Nat
  BY <1>2, <1>4, FS_Subset, FS_CardinalityType
<1>6. Cardinality(D \cup lost) = Cardinality(D) + Cardinality(lost) - Cardinality({})
  BY <1>2, <1>3, <1>5, FS_Union
<1> QED
  BY <1>2, <1>3, <1>5, <1>6, FS_EmptySet DEF C, D, lost

\* A step that changes one channel changes what is in flight by what it changes
\* there.
LEMMA InFlightStep ==
    ASSUME chan \in [Sockets -> Seq(Frames)], NEW k \in Sockets, NEW t \in Seq(Frames), NEW r,
           chan' = [chan EXCEPT ![k] = t]
    PROVE  /\ Cardinality(ChunksIn(chan[k], r)) \in Nat /\ Cardinality(ChunksIn(t, r)) \in Nat
           /\ InFlight(r) \in Nat /\ InFlight(r)' \in Nat
           /\ InFlight(r)' + Cardinality(ChunksIn(chan[k], r))
                = InFlight(r) + Cardinality(ChunksIn(t, r))
<1>1. chan' \in [Sockets -> Seq(Frames)] /\ chan'[k] = t /\ chan[k] \in Seq(Frames)
      /\ \A j \in Sockets \ {k} : chan'[j] = chan[j]
  OBVIOUS
<1>2. Elsewhere(chan', k, r) = Elsewhere(chan, k, r)
  BY <1>1 DEF Elsewhere
<1>3. /\ Cardinality(Elsewhere(chan, k, r)) \in Nat
      /\ InFlight(r) = Cardinality(Elsewhere(chan, k, r)) + Cardinality(ChunksIn(chan[k], r))
  BY InFlightSplit DEF InFlight, ChunksOut
<1>4. InFlight(r)' = Cardinality(Elsewhere(chan', k, r)) + Cardinality(ChunksIn(t, r))
  BY <1>1, InFlightSplit DEF InFlight, ChunksOut
<1>5. Cardinality(ChunksIn(chan[k], r)) \in Nat /\ Cardinality(ChunksIn(t, r)) \in Nat
  BY <1>1, ChunksInFinite
<1> QED
  BY <1>2, <1>3, <1>4, <1>5

\* Nothing is in flight at first, and what is in flight is a number.
LEMMA InFlightType ==
    ASSUME NEW r
    PROVE  /\ chan \in [Sockets -> Seq(Frames)] => InFlight(r) \in Nat
           /\ chan = [k \in Sockets |-> <<>>] => InFlight(r) = 0
<1>1. ASSUME chan = [k \in Sockets |-> <<>>]
      PROVE  InFlight(r) = 0
  <2>1. \A k \in Sockets : ChunksIn(chan[k], r) = {}
    BY <1>1 DEF ChunksIn
  <2>2. ChunksOut(r) = {}
    BY <2>1 DEF ChunksOut
  <2> QED
    BY <2>2, FS_EmptySet DEF InFlight
<1>2. ASSUME chan \in [Sockets -> Seq(Frames)]
      PROVE  InFlight(r) \in Nat
  <2>1. CASE Sockets = {}
    <3>1. ChunksOut(r) = {}
      BY <2>1 DEF ChunksOut
    <3> QED
      BY <3>1, FS_EmptySet DEF InFlight
  <2>2. ASSUME NEW k \in Sockets
        PROVE  InFlight(r) \in Nat
    <3>1. chan[k] \in Seq(Frames)
      BY <1>2, <2>2
    <3>2. Cardinality(ChunksIn(chan[k], r)) \in Nat
      BY <3>1, ChunksInFinite
    <3>3. /\ Cardinality(Elsewhere(chan, k, r)) \in Nat
          /\ InFlight(r) = Cardinality(Elsewhere(chan, k, r)) + Cardinality(ChunksIn(chan[k], r))
      BY <1>2, <2>2, InFlightSplit DEF InFlight, ChunksOut
    <3> QED
      BY <3>2, <3>3
  <2> QED
    BY <2>1, <2>2
<1> QED
  BY <1>1, <1>2

-----------------------------------------------------------------------------
(* No chunk is lost but those that are accounted for.                       *)

\* The chunks of a command that its caller has, or can still get.
Got(r) ==
    IF phase[r] = "settled" THEN output[r]
    ELSE IF buffer[r] # Absent THEN buffer[r] ELSE 0

\* Commands whose output is still complete: a caller that a disconnect has
\* woken, or that has given up, is told of none.
Complete(r) ==
    \/ phase[r] \in {"idle", "sent"}
    \/ r \in registered
    \/ outcome[r] \in Values

\* Each chunk was collected, was lost with its socket or is on its way.
Balanced(r) == Got(r) + missed[r] + InFlight(r) = chunks[r]

\* The inductive invariant of the output of commands.
CountInv ==
    /\ missed \in [Reqs -> Nat] /\ chunks \in [Reqs -> Nat] /\ output \in [Reqs -> Nat]
    /\ \A r \in Reqs : outcome[r] \in Values => phase[r] = "settled"
    /\ \A r \in Reqs : kind[r] = "exec" /\ Complete(r) => Balanced(r)

\* A step that moves no chunk leaves the balance alone, if the commands whose
\* output is complete were so before it and have the same output.
LEMMA CountFrame ==
    ASSUME TableInv, CountInv, UNCHANGED <<kind, chan, missed, chunks>>,
           output' \in [Reqs -> Nat],
           \A q \in Reqs : outcome'[q] \in Values => phase'[q] = "settled",
           \A q \in Reqs : kind[q] = "exec" /\ Complete(q)' => Complete(q) /\ Got(q)' = Got(q)
    PROVE  CountInv'
<1>1. ASSUME NEW q \in Reqs
      PROVE  InFlight(q)' = InFlight(q)
  BY DEF InFlight, ChunksOut
<1> QED
  BY <1>1 DEF CountInv, Balanced

\* A step that only touches the routes or the sockets.
LEMMA CountIdle ==
    ASSUME TableInv, CountInv,
           UNCHANGED <<kind, chan, missed, chunks, phase, registered, buffer, output, outcome>>
    PROVE  CountInv'
<1>1. \A q \in Reqs : Complete(q)' => Complete(q) /\ Got(q)' = Got(q)
  BY DEF Complete, Got
<1> QED
  BY <1>1, CountFrame DEF CountInv

\* A caller that is settled with no answer.
LEMMA CountGivesUp ==
    ASSUME TableInv, CountInv, NEW r \in Reqs, NEW what, what \notin Values, Settled(r, what),
           phase[r] # "settled",
           registered' = registered \ {r},
           buffer' = buffer \/ buffer' = [buffer EXCEPT ![r] = Absent],
           UNCHANGED <<kind, chan, missed, chunks, output>>
    PROVE  CountInv'
<1> USE DEF TableInv, TableTypes, Settled
<1>1. \A q \in Reqs : outcome'[q] \in Values => phase'[q] = "settled"
  BY DEF CountInv
<1>2. ASSUME NEW q \in Reqs, Complete(q)'
      PROVE  Complete(q) /\ Got(q)' = Got(q)
  BY <1>2 DEF Complete, Got, CountInv
<1> QED
  BY <1>1, <1>2, CountFrame DEF CountInv

\* A caller that is sending, or a waiter that is registered.
LEMMA CountStarts ==
    ASSUME TableInv, CountInv, NEW r \in Reqs, phase[r] \in {"idle", "sent"},
           NEW p \in {"sent", "waiting"}, phase' = [phase EXCEPT ![r] = p],
           NEW more \in SUBSET {r}, registered' = registered \cup more,
           buffer' = buffer \/ buffer' = [buffer EXCEPT ![r] = 0],
           UNCHANGED <<kind, chan, missed, chunks, output, outcome>>
    PROVE  CountInv'
<1> USE DEF TableInv, TableTypes
<1>1. \A q \in Reqs : outcome'[q] \in Values => phase'[q] = "settled"
  BY DEF CountInv
<1>2. ASSUME NEW q \in Reqs, Complete(q)'
      PROVE  Complete(q) /\ Got(q)' = Got(q)
  BY <1>1, <1>2 DEF Complete, Got, CountInv, Tabled
<1> QED
  BY <1>1, <1>2, CountFrame DEF CountInv

\* The caller of a command takes the output with the answer.
LEMMA CountWakes ==
    ASSUME TableInv, CountInv, NEW r \in Reqs, Wake(r)
    PROVE  CountInv'
<1> USE DEF TableInv, TableTypes
<1>0. /\ phase' = [phase EXCEPT ![r] = "settled"] /\ outcome' = [outcome EXCEPT ![r] = result[r]]
      /\ registered' = registered \ {r} /\ buffer' = [buffer EXCEPT ![r] = Absent]
      /\ output' = [output EXCEPT ![r] =
                        IF result[r] # "none" /\ buffer[r] # Absent THEN buffer[r] ELSE @]
      /\ phase[r] = "waiting" /\ UNCHANGED <<kind, chan, missed, chunks>>
  BY DEF Wake, Settled, Unregister, asked, sockets, hostside
<1>1. output' \in [Reqs -> Nat]
  BY <1>0 DEF CountInv
<1>2. \A q \in Reqs : outcome'[q] \in Values => phase'[q] = "settled"
  BY <1>0 DEF CountInv
<1>3. ASSUME NEW q \in Reqs, kind[q] = "exec", Complete(q)'
      PROVE  Complete(q) /\ Got(q)' = Got(q)
  <2>1. CASE q # r
    BY <1>0, <1>3, <2>1 DEF Complete, Got, CountInv
  <2>2. CASE q = r
    <3>1. result[r] \in Values /\ result[r] # "none"
      BY <1>0, <1>3, <2>2 DEF Complete, Values
    <3>2. r \in registered /\ buffer[r] # Absent
      BY <1>0, <1>3, <2>2, <3>1 DEF Tabled
    <3> QED
      BY <1>0, <2>2, <3>1, <3>2 DEF Complete, Got, CountInv
  <2> QED
    BY <2>1, <2>2
<1> QED
  BY <1>0, <1>1, <1>2, <1>3, CountFrame

\* A disconnect drops what has been collected, with the waiter.
LEMMA CountReaps ==
    ASSUME TableInv, CountInv, NEW ss \in SUBSET Sessions, Reap(ss),
           UNCHANGED <<kind, chan, missed, chunks, output, outcome>>
    PROVE  CountInv'
<1> USE DEF TableInv, TableTypes
<1> DEFINE gone == UNION {index[s] : s \in ss}
<1>1. registered' = registered \ gone /\ UNCHANGED phase
      /\ buffer' = [r \in Reqs |-> IF r \in gone THEN Absent ELSE buffer[r]]
  BY DEF Reap
<1>2. \A q \in Reqs : q \in gone => q \in registered /\ phase[q] = "waiting"
  BY DEF Tabled
<1> HIDE DEF gone
<1>3. \A q \in Reqs : outcome'[q] \in Values => phase'[q] = "settled"
  BY <1>1 DEF CountInv
<1>4. ASSUME NEW q \in Reqs, Complete(q)'
      PROVE  Complete(q) /\ Got(q)' = Got(q)
  BY <1>1, <1>2, <1>3, <1>4 DEF Complete, Got
<1> QED
  BY <1>3, <1>4, CountFrame DEF CountInv

\* The balance after a move, in numbers: g is got, m missed, f in flight, a in
\* one channel and c sent.
LEMMA BalanceMoves ==
    \A g, m, f, a, c, g1, m1, f1, a1, c1 \in Nat :
        g + m + f = c /\ f1 + a = f + a1 /\ g1 + m1 + a1 + c = g + m + a + c1
          => g1 + m1 + f1 = c1
  OBVIOUS

\* A step that changes one channel, from which the balance of each command can
\* be read off: what leaves the channel is gained or missed, what enters it has
\* been sent.
LEMMA CountMoves ==
    ASSUME TableInv, CountInv, NEW k \in Sockets, NEW t \in Seq(Frames),
           chan' = [chan EXCEPT ![k] = t],
           UNCHANGED <<kind, output>>,
           missed' \in [Reqs -> Nat], chunks' \in [Reqs -> Nat],
           \A q \in Reqs : outcome'[q] \in Values => phase'[q] = "settled",
           \A q \in Reqs : kind[q] = "exec" /\ Complete(q)' =>
              /\ Complete(q)
              /\ Got(q)' + missed'[q] + Cardinality(ChunksIn(t, q)) + chunks[q]
                   = Got(q) + missed[q] + Cardinality(ChunksIn(chan[k], q)) + chunks'[q]
              /\ Got(q) \in Nat /\ Got(q)' \in Nat
    PROVE  CountInv'
<1>1. ASSUME NEW q \in Reqs, kind'[q] = "exec", Complete(q)'
      PROVE  Balanced(q)'
  <2>1. /\ Cardinality(ChunksIn(chan[k], q)) \in Nat /\ Cardinality(ChunksIn(t, q)) \in Nat
        /\ InFlight(q) \in Nat /\ InFlight(q)' \in Nat
        /\ InFlight(q)' + Cardinality(ChunksIn(chan[k], q))
             = InFlight(q) + Cardinality(ChunksIn(t, q))
    <3>1. chan \in [Sockets -> Seq(Frames)]
      BY DEF TableInv, TableTypes
    <3> QED
      BY <3>1, InFlightStep, Zenon
  <2>2. Got(q) + missed[q] + InFlight(q) = chunks[q]
    BY <1>1 DEF CountInv, Balanced
  <2>3. missed[q] \in Nat /\ chunks[q] \in Nat /\ missed'[q] \in Nat /\ chunks'[q] \in Nat
    BY DEF CountInv
  <2>4. /\ Got(q)' + missed'[q] + Cardinality(ChunksIn(t, q)) + chunks[q]
             = Got(q) + missed[q] + Cardinality(ChunksIn(chan[k], q)) + chunks'[q]
        /\ Got(q) \in Nat /\ Got(q)' \in Nat
    BY <1>1
  <2> DEFINE g == Got(q)
             g1 == Got(q)'
             f == InFlight(q)
             f1 == InFlight(q)'
             a == Cardinality(ChunksIn(chan[k], q))
             a1 == Cardinality(ChunksIn(t, q))
             m == missed[q]
             m1 == missed'[q]
             c == chunks[q]
             c1 == chunks'[q]
  <2>5. /\ g \in Nat /\ m \in Nat /\ f \in Nat /\ a \in Nat /\ c \in Nat
        /\ g1 \in Nat /\ m1 \in Nat /\ f1 \in Nat /\ a1 \in Nat /\ c1 \in Nat
        /\ g + m + f = c /\ f1 + a = f + a1 /\ g1 + m1 + a1 + c = g + m + a + c1
    BY <2>1, <2>2, <2>3, <2>4
  <2>6. Balanced(q)' <=> g1 + m1 + f1 = c1
    BY DEF Balanced
  <2> HIDE DEF g, g1, f, f1, a, a1, m, m1, c, c1
  <2> QED
    BY <2>5, <2>6, BalanceMoves
<1> QED
  BY <1>1 DEF CountInv

\* What a caller has got is a number.
LEMMA GotType ==
    ASSUME TableInv, CountInv
    PROVE  \A q \in Reqs : Got(q) \in Nat
  BY DEF TableInv, TableTypes, CountInv, Got

\* The host answers or streams: a chunk that is sent is in flight.
LEMMA CountHost ==
    ASSUME TableInv, CountInv, NEW k \in Sockets, NEW r \in Reqs,
           NEW v \in Values \cup {"chunk", "tick"}, Reply(k, r, v),
           chunks' \in [Reqs -> Nat],
           \A q \in Reqs : kind[q] = "exec" =>
              chunks'[q] = chunks[q] + (IF q = r /\ v = "chunk" THEN 1 ELSE 0),
           UNCHANGED <<kind, missed, phase, registered, buffer, output, outcome>>
    PROVE  CountInv'
<1> DEFINE f == [req |-> r, says |-> v]
           t == Append(chan[k], f)
<1>1. chan' = [chan EXCEPT ![k] = t]
  BY DEF Reply
<1>2. f \in Frames /\ chan[k] \in Seq(Frames)
  BY HostFrames DEF TableInv, TableTypes
<1>3. \A q \in Reqs : f = ChunkOf(q) <=> q = r /\ v = "chunk"
  BY DEF ChunkOf
<1> HIDE DEF f
<1>4. t \in Seq(Frames)
  BY <1>2
<1>5. ASSUME NEW q \in Reqs
      PROVE  /\ Cardinality(ChunksIn(chan[k], q)) \in Nat
             /\ Cardinality(ChunksIn(t, q))
                  = Cardinality(ChunksIn(chan[k], q)) + (IF q = r /\ v = "chunk" THEN 1 ELSE 0)
  BY <1>2, <1>3, CountAppend, ChunksInFinite
<1> HIDE DEF t
<1>6. \A q \in Reqs : Complete(q)' => Complete(q) /\ Got(q)' = Got(q)
  BY DEF Complete, Got
<1>7. ASSUME NEW q \in Reqs, kind[q] = "exec", Complete(q)'
      PROVE  /\ Complete(q)
             /\ Got(q)' + missed'[q] + Cardinality(ChunksIn(t, q)) + chunks[q]
                   = Got(q) + missed[q] + Cardinality(ChunksIn(chan[k], q)) + chunks'[q]
             /\ Got(q) \in Nat /\ Got(q)' \in Nat
  <2>1. missed'[q] = missed[q] /\ missed[q] \in Nat /\ chunks[q] \in Nat
    BY DEF CountInv
  <2> QED
    BY <1>5, <1>6, <1>7, <2>1, GotType
<1>8. missed' \in [Reqs -> Nat] /\ \A q \in Reqs : outcome'[q] \in Values => phase'[q] = "settled"
  BY DEF CountInv
<1> QED
  BY <1>1, <1>4, <1>7, <1>8, CountMoves

\* A socket fails: the chunks that are lost with it are missed.
LEMMA CountDrop ==
    ASSUME TableInv, CountInv, NEW k \in Sockets, Drop(k)
    PROVE  CountInv'
<1> DEFINE lost(n, q) == {i \in n+1..Len(chan[k]) : chan[k][i] = ChunkOf(q)}
<1>1. PICK n \in 0..Len(chan[k]) :
          /\ chan' = [chan EXCEPT ![k] = SubSeq(chan[k], 1, n)]
          /\ missed' = [q \in Reqs |-> missed[q] + Cardinality(lost(n, q))]
  BY DEF Drop, ChunkOf
<1> DEFINE t == SubSeq(chan[k], 1, n)
<1>2. chan[k] \in Seq(Frames)
  BY DEF TableInv, TableTypes
<1>3. t \in Seq(Frames)
  BY <1>2
<1>4. UNCHANGED <<kind, chunks, phase, registered, buffer, output, outcome>>
  BY DEF Drop, asked, waiters, told, hostside
<1>5. ASSUME NEW q \in Reqs
      PROVE  /\ Cardinality(lost(n, q)) \in Nat /\ Cardinality(ChunksIn(t, q)) \in Nat
             /\ Cardinality(ChunksIn(chan[k], q))
                  = Cardinality(ChunksIn(t, q)) + Cardinality(lost(n, q))
             /\ missed'[q] = missed[q] + Cardinality(lost(n, q))
  BY <1>1, <1>2, <1>3, CountCut, ChunksInFinite
<1> HIDE DEF t, lost
<1>6. \A q \in Reqs : Complete(q)' => Complete(q) /\ Got(q)' = Got(q)
  BY <1>4 DEF Complete, Got
<1>7. ASSUME NEW q \in Reqs, kind[q] = "exec", Complete(q)'
      PROVE  /\ Complete(q)
             /\ Got(q)' + missed'[q] + Cardinality(ChunksIn(t, q)) + chunks[q]
                   = Got(q) + missed[q] + Cardinality(ChunksIn(chan[k], q)) + chunks'[q]
             /\ Got(q) \in Nat /\ Got(q)' \in Nat
  <2>1. missed[q] \in Nat /\ chunks[q] \in Nat /\ chunks'[q] = chunks[q]
    BY <1>4 DEF CountInv
  <2> QED
    BY <1>5, <1>6, <1>7, <2>1, GotType
<1>8. missed' \in [Reqs -> Nat] /\ chunks' \in [Reqs -> Nat]
      /\ \A q \in Reqs : outcome'[q] \in Values => phase'[q] = "settled"
  BY <1>1, <1>4, <1>5 DEF CountInv
<1> QED
  BY <1>1, <1>3, <1>4, <1>7, <1>8, CountMoves DEF t

\* A frame arrives: a chunk is collected, or missed if nobody collects it.
LEMMA CountReceive ==
    ASSUME TableInv, CountInv, NEW k \in Sockets, Receive(k)
    PROVE  CountInv'
<1> DEFINE f == Head(chan[k])
           t == Tail(chan[k])
<1>1. chan[k] \in Seq(Frames) /\ chan[k] # <<>> /\ chan' = [chan EXCEPT ![k] = t]
      /\ UNCHANGED <<kind, output, chunks>>
  BY DEF TableInv, TableTypes, Receive, asked, hostside
<1>2. f \in Frames /\ t \in Seq(Frames)
  BY <1>1
<1>3. Handle(f)
  BY DEF Receive
<1>4. ASSUME NEW q \in Reqs
      PROVE  /\ Cardinality(ChunksIn(t, q)) \in Nat
             /\ Cardinality(ChunksIn(chan[k], q))
                  = Cardinality(ChunksIn(t, q)) + (IF f = ChunkOf(q) THEN 1 ELSE 0)
  BY <1>1, <1>2, CountTail, ChunksInFinite
<1> HIDE DEF f, t
<1>5. f.req \in Reqs /\ f.says \in Values \cup {"chunk", "tick"}
      /\ \A q \in Reqs : f = ChunkOf(q) <=> q = f.req /\ f.says = "chunk"
  BY <1>2 DEF Frames, ChunkOf
<1>6. CASE f.says = "chunk"
  <2>1. AppendStream(f.req)
    BY <1>2, <1>3, <1>6, HandleCases DEF Values
  <2>2. UNCHANGED <<phase, registered, outcome>>
    BY <2>1 DEF AppendStream
  <2>3. missed' \in [Reqs -> Nat] /\ chunks' \in [Reqs -> Nat]
        /\ \A q \in Reqs : outcome'[q] \in Values => phase'[q] = "settled"
    BY <1>1, <1>5, <2>1, <2>2 DEF CountInv, AppendStream
  <2>4. ASSUME NEW q \in Reqs
        PROVE  /\ Complete(q)' => Complete(q)
               /\ Got(q)' + missed'[q] = Got(q) + missed[q] + (IF q = f.req THEN 1 ELSE 0)
               /\ Got(q) \in Nat /\ Got(q)' \in Nat
    <3>1. Complete(q)' => Complete(q)
      BY <2>2 DEF Complete
    <3>2. Got(q) \in Nat /\ missed[q] \in Nat /\ missed'[q] \in Nat
      BY <2>3, GotType DEF CountInv
    <3>3. buffer[q] \in Nat \cup {Absent} /\ output[q] \in Nat
          /\ (buffer[q] # Absent => phase[q] = "waiting")
      BY DEF TableInv, TableTypes, CountInv, Tabled
    <3>4. CASE q # f.req
      <4>1. buffer'[q] = buffer[q] /\ missed'[q] = missed[q]
        BY <2>1, <3>4, <1>5 DEF AppendStream, TableInv, TableTypes, CountInv
      <4>2. Got(q)' = Got(q)
        BY <1>1, <2>2, <4>1 DEF Got
      <4> QED
        BY <3>1, <3>2, <3>4, <4>1, <4>2
    <3>5. CASE q = f.req /\ buffer[q] = Absent
      <4>1. buffer' = buffer /\ missed'[q] = missed[q] + 1
        BY <2>1, <3>5 DEF AppendStream, CountInv
      <4>2. Got(q)' = Got(q)
        BY <1>1, <2>2, <4>1 DEF Got
      <4> QED
        BY <3>1, <3>2, <3>5, <4>1, <4>2
    <3>6. CASE q = f.req /\ buffer[q] # Absent
      <4>1. buffer'[q] = buffer[q] + 1 /\ missed'[q] = missed[q]
        BY <2>1, <3>6 DEF AppendStream, TableInv, TableTypes
      <4>2. Got(q)' = Got(q) + 1
        BY <1>1, <2>2, <3>3, <3>6, <4>1 DEF Got, Absent
      <4> QED
        BY <3>1, <3>2, <3>6, <4>1, <4>2
    <3> QED
      BY <3>4, <3>5, <3>6
  <2>5. ASSUME NEW q \in Reqs, kind[q] = "exec", Complete(q)'
        PROVE  /\ Complete(q)
               /\ Got(q)' + missed'[q] + Cardinality(ChunksIn(t, q)) + chunks[q]
                     = Got(q) + missed[q] + Cardinality(ChunksIn(chan[k], q)) + chunks'[q]
               /\ Got(q) \in Nat /\ Got(q)' \in Nat
    <3>1. missed[q] \in Nat /\ chunks[q] \in Nat /\ chunks'[q] = chunks[q] /\ missed'[q] \in Nat
      BY <1>1, <2>3 DEF CountInv
    <3>2. Cardinality(ChunksIn(chan[k], q))
            = Cardinality(ChunksIn(t, q)) + (IF q = f.req THEN 1 ELSE 0)
      BY <1>4, <1>5, <1>6
    <3> QED
      BY <1>4, <2>4, <2>5, <3>1, <3>2
  <2> QED
    BY <1>1, <1>2, <2>3, <2>5, CountMoves
<1>7. CASE f.says # "chunk"
  <2>1. \/ UNCHANGED <<waiters, outcome, missed>>
        \/ f.says \in Values /\ paused[session[f.req]] # "none" /\ ResumePaused(session[f.req], f.says)
        \/ Resolve(f.req, f.says)
    BY <1>2, <1>3, <1>7, HandleCases
  <2>2. UNCHANGED <<registered, buffer, missed>>
    BY <2>1 DEF waiters, ResumePaused, Resolve
  <2>3. /\ \A q \in Reqs : kind[q] # "graph" => phase'[q] = phase[q] /\ outcome'[q] = outcome[q]
        /\ \A q \in Reqs : outcome'[q] \in Values => phase'[q] = "settled"
    <3>1. CASE UNCHANGED <<phase, outcome>>
      BY <3>1 DEF CountInv
    <3>2. CASE paused[session[f.req]] # "none" /\ ResumePaused(session[f.req], f.says)
      <4>1. paused[session[f.req]] \in Reqs /\ kind[paused[session[f.req]]] = "graph"
        BY <1>5, <3>2 DEF TableInv, TableTypes, PausedAreGraphs
      <4>2. /\ phase' = [phase EXCEPT ![paused[session[f.req]]] = "settled"]
            /\ outcome' = [outcome EXCEPT ![paused[session[f.req]]] = f.says]
        BY <3>2 DEF ResumePaused, Settled
      <4> QED
        BY <4>1, <4>2 DEF TableInv, TableTypes, CountInv
    <3> QED
      BY <2>1, <3>1, <3>2 DEF waiters, Resolve
  <2>4. \A q \in Reqs : kind[q] = "exec" => (Complete(q)' => Complete(q)) /\ Got(q)' = Got(q)
    BY <1>1, <2>2, <2>3 DEF Complete, Got
  <2>5. ASSUME NEW q \in Reqs, kind[q] = "exec", Complete(q)'
        PROVE  /\ Complete(q)
               /\ Got(q)' + missed'[q] + Cardinality(ChunksIn(t, q)) + chunks[q]
                     = Got(q) + missed[q] + Cardinality(ChunksIn(chan[k], q)) + chunks'[q]
               /\ Got(q) \in Nat /\ Got(q)' \in Nat
    <3>1. missed[q] \in Nat /\ chunks[q] \in Nat /\ chunks'[q] = chunks[q] /\ missed'[q] = missed[q]
      BY <1>1, <2>2 DEF CountInv
    <3>2. Cardinality(ChunksIn(chan[k], q)) = Cardinality(ChunksIn(t, q))
      BY <1>4, <1>5, <1>7
    <3> QED
      BY <1>4, <2>4, <2>5, <3>1, <3>2, GotType
  <2> QED
    BY <1>1, <1>2, <2>2, <2>3, <2>5, CountMoves DEF CountInv
<1> QED
  BY <1>6, <1>7

\* Every step of the link keeps the balance of every command.
LEMMA CountStep ==
    ASSUME TableInv, CountInv, [Next]_vars
    PROVE  CountInv'
<1> USE DEF asked, sockets, waiters, told, hostside
<1>1. CASE UNCHANGED vars
  BY <1>1, CountIdle DEF vars
<1>2. ASSUME NEW c \in Clients, Connect(c)
      PROVE  CountInv'
  BY <1>2, CountIdle DEF Connect
<1>3. ASSUME NEW k \in Sockets, Drop(k)
      PROVE  CountInv'
  BY <1>3, CountDrop
<1>4. ASSUME NEW k \in Sockets, Disconnect(k)
      PROVE  CountInv'
  <2>1. CASE UNCHANGED waiters
    BY <1>4, <2>1, CountIdle DEF Disconnect
  <2>2. CASE Reap(({k[1]} \cup aliases[k[1]]) \cap Sessions)
    BY <1>4, <2>2, CountReaps DEF Disconnect
  <2> QED
    BY <1>4, <2>1, <2>2 DEF Disconnect
<1>5. ASSUME NEW k \in Sockets, Receive(k)
      PROVE  CountInv'
  BY <1>5, CountReceive
<1>6. ASSUME NEW k \in Sockets, NEW s \in Sessions, RegisterAlias(k, s)
      PROVE  CountInv'
  BY <1>6, CountIdle DEF RegisterAlias
<1>7. ASSUME NEW s \in Sessions, Broadcast(s)
      PROVE  CountInv'
  BY <1>7, CountIdle DEF Broadcast
<1>8. ASSUME NEW r \in Reqs, NEW f \in Fates, AskHuman(r, f)
      PROVE  CountInv'
  <2>1. CASE f = "raises"
    <3>1. "error" \notin Values /\ registered' = registered \ {r}
      BY <1>8, <2>1 DEF AskHuman, Values, TableInv, Tabled
    <3> QED
      BY <1>8, <2>1, <3>1, CountGivesUp DEF AskHuman
  <2>2. CASE f # "raises"
    BY <1>8, <2>2, CountStarts DEF AskHuman, Register
  <2> QED
    BY <2>1, <2>2
<1>9. ASSUME NEW r \in Reqs, NEW f \in Fates, PauseGraph(r, f)
      PROVE  CountInv'
  <2>1. registered' = registered \cup {}
    BY <1>9 DEF PauseGraph
  <2> QED
    BY <1>9, <2>1, CountStarts DEF PauseGraph
<1>10. ASSUME NEW r \in Reqs, NEW f \in Fates, EmitPatch(r, f) \/ EmitProvision(r, f) \/ EmitExec(r, f)
       PROVE  CountInv'
  <2>1. EmitFirst(r, f)
    BY <1>10 DEF EmitPatch, EmitProvision, EmitExec
  <2>2. CASE f = "raises"
    <3>1. "error" \notin Values /\ registered' = registered \ {r}
      BY <2>1, <2>2 DEF EmitFirst, Values, TableInv, Tabled
    <3> QED
      BY <2>1, <2>2, <3>1, CountGivesUp DEF EmitFirst
  <2>3. CASE f # "raises"
    <3>1. registered' = registered \cup {}
      BY <2>1 DEF EmitFirst
    <3> QED
      BY <2>1, <2>3, <3>1, CountStarts DEF EmitFirst
  <2> QED
    BY <2>2, <2>3
<1>11. ASSUME NEW r \in Reqs, RefusePatch(r)
       PROVE  CountInv'
  <2>1. "refused" \notin Values /\ registered' = registered \ {r}
    BY <1>11 DEF RefusePatch, Values, TableInv, Tabled
  <2> QED
    BY <1>11, <2>1, CountGivesUp DEF RefusePatch
<1>12. ASSUME NEW r \in Reqs, WaitPlain(r) \/ WaitExec(r)
       PROVE  CountInv'
  BY <1>12, CountStarts DEF WaitPlain, WaitExec, Register
<1>13. ASSUME NEW r \in Reqs, Wake(r)
       PROVE  CountInv'
  BY <1>13, CountWakes
<1>14. ASSUME NEW r \in Reqs, TimeOut(r) \/ CancelCaller(r)
       PROVE  CountInv'
  <2>1. PICK what \in {"none", "cancelled"} : Settled(r, what)
    BY <1>14 DEF TimeOut, CancelCaller
  <2>2. what \notin Values
    BY DEF Values
  <2>3. /\ phase[r] # "settled" /\ registered' = registered \ {r}
        /\ buffer' = [buffer EXCEPT ![r] = Absent]
        /\ UNCHANGED <<kind, chan, missed, chunks, output>>
    BY <1>14 DEF TimeOut, CancelCaller, Unregister
  <2> QED
    BY <2>1, <2>2, <2>3, CountGivesUp
<1>15. ASSUME NEW k \in Sockets, NEW r \in Reqs, HostStreams(k, r)
       PROVE  CountInv'
  <2> DEFINE v == IF kind[r] = "exec" THEN "chunk" ELSE "tick"
  <2>1. v \in Values \cup {"chunk", "tick"} /\ Reply(k, r, v)
    BY <1>15 DEF HostStreams
  <2>2. chunks' = [chunks EXCEPT ![r] = @ + 1]
        /\ UNCHANGED <<kind, missed, phase, registered, buffer, output, outcome>>
    BY <1>15 DEF HostStreams
  <2>3. chunks' \in [Reqs -> Nat]
    BY <2>2 DEF CountInv
  <2>4. \A q \in Reqs : kind[q] = "exec" =>
            chunks'[q] = chunks[q] + (IF q = r /\ v = "chunk" THEN 1 ELSE 0)
    BY <2>2 DEF CountInv
  <2> HIDE DEF v
  <2> QED
    BY <2>1, <2>2, <2>3, <2>4, CountHost
<1>16. ASSUME NEW k \in Sockets, NEW r \in Reqs, NEW v \in Values, HostAnswers(k, r, v)
       PROVE  CountInv'
  <2>1. Reply(k, r, v) /\ UNCHANGED <<kind, missed, phase, registered, buffer, output, outcome, chunks>>
    BY <1>16 DEF HostAnswers
  <2>2. chunks' \in [Reqs -> Nat] /\ v # "chunk"
    BY <2>1 DEF CountInv, Values
  <2>3. \A q \in Reqs : kind[q] = "exec" =>
            chunks'[q] = chunks[q] + (IF q = r /\ v = "chunk" THEN 1 ELSE 0)
    BY <2>1, <2>2 DEF CountInv
  <2> QED
    BY <2>1, <2>2, <2>3, CountHost
<1> QED
  BY <1>1, <1>2, <1>3, <1>4, <1>5, <1>6, <1>7, <1>8, <1>9, <1>10, <1>11, <1>12, <1>13, <1>14, <1>15,
     <1>16 DEF Next

\* The invariants of the tables and of the output hold at first.
LEMMA TablesStart == Init => TableInv /\ CountInv
<1> SUFFICES ASSUME Init
             PROVE  TableInv /\ CountInv
  OBVIOUS
<1>1. TableInv
  <2>1. TableTypes
    BY DEF Init, TableTypes
  <2>2. (\A r \in Reqs : Tabled(r)) /\ PausedAreGraphs
    BY DEF Init, Tabled, PausedAreGraphs
  <2> QED
    BY <2>1, <2>2 DEF TableInv
<1>2. CountInv
  <2>1. \A r \in Reqs : InFlight(r) = 0
    BY InFlightType DEF Init
  <2> QED
    BY <2>1 DEF Init, CountInv, Balanced, Got, Values, Absent
<1> QED
  BY <1>1, <1>2

\* The tables of ConnectionManager follow the requests, whatever becomes of the
\* sockets: a caller in memory can be woken, a settled one has left nothing in
\* the tables, and a command that was answered has lost no output but the chunks
\* that a socket took with it, that came before the caller collected them, or
\* that its exit code overtook.
THEOREM TablesFollow == Spec => []TablesFollowRequests
<1>1. Init => TableInv /\ CountInv
  BY TablesStart
<1>2. TableInv /\ CountInv /\ [Next]_vars => (TableInv /\ CountInv)'
  BY TableStep, CountStep
<1>3. ASSUME TableInv, CountInv
      PROVE  TablesFollowRequests
  <2> USE <1>3 DEF TableInv, TableTypes
  <2>1. NeverStranded
    BY DEF NeverStranded, InMemory, Tabled
  <2>2. NoLeftovers
    BY DEF NoLeftovers, Tabled
  <2>3. OutputComplete
    BY DEF OutputComplete, CountInv, Complete, Balanced, Got
  <2> QED
    BY <2>1, <2>2, <2>3 DEF TablesFollowRequests
<1> QED
  BY <1>1, <1>2, <1>3, PTL DEF Spec

-----------------------------------------------------------------------------
(* Every step is a step of Request.                                         *)

\* An answer in a channel was given by the host to the request that it names.
Genuine(q) == \A i \in 1..Len(q) : q[i].says \in Values => q[i].says \in given[q[i].req]

\* No result was made up: it was given by the host, to a request it had been sent.
AnswerInv ==
    /\ given \in [Reqs -> SUBSET Values]
    /\ host \subseteq Reqs
    /\ \A r \in host : phase[r] # "idle"
    /\ \A r \in Reqs : result[r] # "none" => result[r] \in given[r]
    /\ \A k \in Sockets : Genuine(chan[k])

\* A step that gives no answer, and takes none over.
LEMMA AnswerFrame ==
    ASSUME AnswerInv, UNCHANGED <<given, chan>>, host' \subseteq Reqs,
           \A r \in host' : phase'[r] # "idle",
           \A r \in Reqs : result'[r] \in {"none", result[r]}
    PROVE  AnswerInv'
  BY DEF AnswerInv, Genuine

\* A request is sent: from now on it is not idle, and may have reached the host.
LEMMA AnswerStarts ==
    ASSUME TableInv, AnswerInv, NEW r \in Reqs, NEW f \in Fates, Sent(r, f),
           NEW p \in {"sent", "waiting", "settled"}, phase' = [phase EXCEPT ![r] = p],
           UNCHANGED <<given, chan, result>>
    PROVE  AnswerInv'
<1>1. host' \subseteq host \cup {r}
  BY DEF Sent
<1>2. \A q \in Reqs : q \in host \cup {r} => phase'[q] # "idle"
  BY DEF AnswerInv, TableInv, TableTypes
<1> QED
  BY <1>1, <1>2, AnswerFrame DEF AnswerInv

\* A caller moves on, by itself.
LEMMA AnswerMoves ==
    ASSUME TableInv, AnswerInv, NEW r \in Reqs,
           NEW p \in {"sent", "waiting", "settled"}, phase' = [phase EXCEPT ![r] = p],
           \A q \in Reqs : result'[q] \in {"none", result[q]},
           UNCHANGED <<given, chan, host>>
    PROVE  AnswerInv'
<1>1. \A q \in Reqs : q \in host => phase'[q] # "idle"
  BY DEF AnswerInv, TableInv, TableTypes
<1> QED
  BY <1>1, AnswerFrame DEF AnswerInv

\* The host sends a frame, with an answer that it has given.
LEMMA AnswerHost ==
    ASSUME TableInv, AnswerInv, NEW k \in Sockets, NEW r \in Reqs,
           NEW v \in Values \cup {"chunk", "tick"}, Reply(k, r, v),
           given' = IF v \in Values THEN [given EXCEPT ![r] = @ \cup {v}] ELSE given,
           host' \subseteq host,
           UNCHANGED <<phase, result>>
    PROVE  AnswerInv'
<1> DEFINE f == [req |-> r, says |-> v]
           q == chan[k]
<1>1. q \in Seq(Frames) /\ f \in Frames /\ f.req = r /\ f.says = v
  BY HostFrames DEF TableInv, TableTypes
<1>2. chan' = [chan EXCEPT ![k] = Append(q, f)] /\ chan \in [Sockets -> Seq(Frames)]
  BY DEF Reply, TableInv, TableTypes
<1>3. given' \in [Reqs -> SUBSET Values] /\ \A a \in Reqs : given[a] \subseteq given'[a]
  BY DEF AnswerInv
<1>4. v \in Values => v \in given'[r]
  BY DEF AnswerInv
<1>5. ASSUME NEW j \in Sockets
      PROVE  Genuine(chan[j])'
  <2>1. CASE j # k
    <3>1. chan'[j] = chan[j] /\ chan[j] \in Seq(Frames) /\ Genuine(chan[j])
      BY <1>2, <2>1 DEF AnswerInv
    <3>2. \A i \in 1..Len(chan[j]) : chan[j][i] \in Frames
      BY <3>1
    <3>3. \A i \in 1..Len(chan[j]) : chan[j][i].req \in Reqs
      BY <3>2 DEF Frames
    <3> QED
      BY <1>3, <3>1, <3>3 DEF Genuine
  <2>2. CASE j = k
    <3>1. chan'[j] = Append(q, f) /\ Genuine(q)
      BY <1>2, <2>2 DEF AnswerInv
    <3> HIDE DEF q, f
    <3>2. Len(Append(q, f)) = Len(q) + 1 /\ Len(q) \in Nat
          /\ \A i \in 1..Len(q)+1 : Append(q, f)[i] = IF i = Len(q) + 1 THEN f ELSE q[i]
      BY <1>1
    <3>3. \A i \in 1..Len(q) : q[i] \in Frames
      BY <1>1
    <3>4. \A i \in 1..Len(q) : q[i].req \in Reqs
      BY <3>3 DEF Frames
    <3>5. ASSUME NEW i \in 1..Len(Append(q, f)), Append(q, f)[i].says \in Values
          PROVE  Append(q, f)[i].says \in given'[Append(q, f)[i].req]
      <4>1. CASE i = Len(q) + 1
        BY <1>1, <1>4, <3>2, <3>5, <4>1
      <4>2. CASE i \in 1..Len(q)
        <5>1. Append(q, f)[i] = q[i]
          BY <3>2, <4>2
        <5>2. q[i].says \in given[q[i].req]
          BY <3>1, <3>5, <4>2, <5>1 DEF Genuine
        <5> QED
          BY <1>3, <3>4, <4>2, <5>1, <5>2
      <4> QED
        BY <3>2, <4>1, <4>2
    <3> QED
      BY <3>1, <3>5 DEF Genuine
  <2> QED
    BY <2>1, <2>2
<1> HIDE DEF f, q
<1> QED
  BY <1>3, <1>5 DEF AnswerInv

\* A frame is taken off a channel; an answer in it was given to the request.
LEMMA AnswerReceive ==
    ASSUME TableInv, AnswerInv, NEW k \in Sockets, Receive(k)
    PROVE  AnswerInv'
<1> DEFINE q == chan[k]
           f == Head(chan[k])
<1>1. q \in Seq(Frames) /\ q # <<>> /\ Genuine(q) /\ chan \in [Sockets -> Seq(Frames)]
  BY DEF TableInv, TableTypes, Receive, AnswerInv
<1>2. chan' = [chan EXCEPT ![k] = Tail(q)] /\ Handle(f) /\ UNCHANGED <<given, host, kind, session>>
  BY DEF Receive, hostside, asked
<1> HIDE DEF q
<1>3. Head(q) \in Frames /\ Head(q) = q[1] /\ 1 \in 1..Len(q)
      /\ \A i \in 1..Len(Tail(q)) : Tail(q)[i] = q[i + 1] /\ i + 1 \in 1..Len(q)
  BY <1>1
<1>4. f \in Frames /\ (f.says \in Values => f.says \in given[f.req])
  BY <1>1, <1>3 DEF Genuine, q
<1> HIDE DEF f
<1>5. ASSUME NEW j \in Sockets
      PROVE  Genuine(chan[j])'
  <2>1. CASE j # k
    BY <1>1, <1>2, <2>1 DEF AnswerInv, Genuine
  <2>2. CASE j = k
    BY <1>1, <1>2, <1>3, <2>2 DEF Genuine
  <2> QED
    BY <2>1, <2>2
<1>6. f.req \in Reqs /\ f.says \in Values \cup {"chunk", "tick"} /\ session[f.req] \in Sessions
  BY <1>4 DEF Frames, TableInv, TableTypes
<1>7. \A r \in Reqs : result'[r] # "none" => result'[r] \in given[r]
  <2>1. CASE UNCHANGED result
    BY <2>1 DEF AnswerInv
  <2>2. CASE f.says \in Values /\ result' = [result EXCEPT ![f.req] = f.says]
    BY <1>4, <1>6, <2>2 DEF AnswerInv, TableInv, TableTypes
  <2> QED
    BY <1>2, <1>4, <2>1, <2>2, HandleCases DEF AppendStream, waiters, ResumePaused, Resolve
<1>8. \A r \in host : phase'[r] # "idle"
  <2>1. CASE UNCHANGED phase
    BY <2>1 DEF AnswerInv
  <2>2. CASE phase' = [phase EXCEPT ![paused[session[f.req]]] = "settled"]
    BY <2>2 DEF AnswerInv, TableInv, TableTypes
  <2> QED
    BY <1>2, <1>4, <2>1, <2>2, HandleCases DEF AppendStream, waiters, ResumePaused, Settled, Resolve
<1> QED
  BY <1>2, <1>5, <1>7, <1>8 DEF AnswerInv

\* A socket fails: what is left in its channel was there before.
LEMMA AnswerDrop ==
    ASSUME TableInv, AnswerInv, NEW k \in Sockets, Drop(k)
    PROVE  AnswerInv'
<1> DEFINE q == chan[k]
<1>1. PICK n \in 0..Len(q) : chan' = [chan EXCEPT ![k] = SubSeq(q, 1, n)]
  BY DEF Drop
<1>2. q \in Seq(Frames) /\ Genuine(q) /\ chan \in [Sockets -> Seq(Frames)]
  BY DEF TableInv, TableTypes, AnswerInv
<1> HIDE DEF q
<1>3. Len(SubSeq(q, 1, n)) = n /\ \A i \in 1..n : SubSeq(q, 1, n)[i] = q[i] /\ i \in 1..Len(q)
  BY <1>2
<1>4. UNCHANGED <<given, host, phase, result>>
  BY DEF Drop, hostside, waiters
<1>5. ASSUME NEW j \in Sockets
      PROVE  Genuine(chan[j])'
  <2>1. CASE j # k
    BY <1>1, <1>2, <1>4, <2>1 DEF AnswerInv, Genuine
  <2>2. CASE j = k
    BY <1>1, <1>2, <1>3, <1>4, <2>2 DEF Genuine
  <2> QED
    BY <2>1, <2>2
<1> QED
  BY <1>4, <1>5 DEF AnswerInv

\* Every step of the link keeps the answers genuine.
LEMMA AnswerStep ==
    ASSUME TableInv, AnswerInv, [Next]_vars
    PROVE  AnswerInv'
<1> USE DEF asked, sockets, waiters, told, hostside
<1>1. CASE UNCHANGED vars
  BY <1>1, AnswerFrame DEF vars, AnswerInv
<1>2. ASSUME NEW c \in Clients, Connect(c)
      PROVE  AnswerInv'
  BY <1>2, AnswerFrame DEF Connect, AnswerInv
<1>3. ASSUME NEW k \in Sockets, Drop(k)
      PROVE  AnswerInv'
  BY <1>3, AnswerDrop
<1>4. ASSUME NEW k \in Sockets, Disconnect(k)
      PROVE  AnswerInv'
  <2>1. CASE UNCHANGED waiters
    BY <1>4, <2>1, AnswerFrame DEF Disconnect, AnswerInv
  <2>2. CASE Reap(({k[1]} \cup aliases[k[1]]) \cap Sessions)
    <3>1. \A q \in Reqs : result'[q] \in {"none", result[q]}
      BY <2>2 DEF Reap
    <3> QED
      BY <1>4, <2>2, <3>1, AnswerFrame DEF Disconnect, AnswerInv, Reap
  <2> QED
    BY <1>4, <2>1, <2>2 DEF Disconnect
<1>5. ASSUME NEW k \in Sockets, Receive(k)
      PROVE  AnswerInv'
  BY <1>5, AnswerReceive
<1>6. ASSUME NEW k \in Sockets, NEW s \in Sessions, RegisterAlias(k, s)
      PROVE  AnswerInv'
  BY <1>6, AnswerFrame DEF RegisterAlias, AnswerInv
<1>7. ASSUME NEW s \in Sessions, Broadcast(s)
      PROVE  AnswerInv'
  BY <1>7, AnswerFrame DEF Broadcast, AnswerInv
<1>8. ASSUME NEW r \in Reqs, NEW f \in Fates,
             AskHuman(r, f) \/ PauseGraph(r, f) \/ EmitPatch(r, f) \/ EmitProvision(r, f) \/ EmitExec(r, f)
      PROVE  AnswerInv'
  <2>1. Sent(r, f) /\ UNCHANGED <<given, chan, result>>
    BY <1>8 DEF AskHuman, PauseGraph, EmitPatch, EmitProvision, EmitExec, EmitFirst
  <2>2. \E p \in {"sent", "waiting", "settled"} : phase' = [phase EXCEPT ![r] = p]
    BY <1>8 DEF AskHuman, PauseGraph, EmitPatch, EmitProvision, EmitExec, EmitFirst, Settled, Register
  <2> QED
    BY <2>1, <2>2, AnswerStarts
<1>9. ASSUME NEW r \in Reqs, RefusePatch(r) \/ WaitPlain(r) \/ WaitExec(r) \/ Wake(r) \/ TimeOut(r)
                              \/ CancelCaller(r)
      PROVE  AnswerInv'
  <2>1. UNCHANGED <<given, chan, host>>
    BY <1>9 DEF RefusePatch, WaitPlain, WaitExec, Wake, TimeOut, CancelCaller
  <2>2. \E p \in {"waiting", "settled"} : phase' = [phase EXCEPT ![r] = p]
    BY <1>9 DEF RefusePatch, WaitPlain, WaitExec, Wake, TimeOut, CancelCaller, Settled, Register
  <2>3. UNCHANGED result \/ \E v \in {"none", result[r]} : result' = [result EXCEPT ![r] = v]
    BY <1>9 DEF RefusePatch, WaitPlain, WaitExec, Wake, TimeOut, CancelCaller
  <2>4. \A q \in Reqs : result'[q] \in {"none", result[q]}
    BY <2>3 DEF TableInv, TableTypes
  <2> QED
    BY <2>1, <2>2, <2>4, AnswerMoves
<1>10. ASSUME NEW k \in Sockets, NEW r \in Reqs, HostStreams(k, r)
       PROVE  AnswerInv'
  <2>1. PICK v \in {"chunk", "tick"} : Reply(k, r, v)
    BY <1>10 DEF HostStreams
  <2>2. v \notin Values
    BY DEF Values
  <2>3. UNCHANGED <<given, host, phase, result>>
    BY <1>10 DEF HostStreams
  <2> QED
    BY <2>1, <2>2, <2>3, AnswerHost
<1>11. ASSUME NEW k \in Sockets, NEW r \in Reqs, NEW v \in Values, HostAnswers(k, r, v)
       PROVE  AnswerInv'
  BY <1>11, AnswerHost DEF HostAnswers
<1> QED
  BY <1>1, <1>2, <1>3, <1>4, <1>5, <1>6, <1>7, <1>8, <1>9, <1>10, <1>11 DEF Next

\* A step that Request does not see.
LEMMA Stutters ==
    ASSUME UNCHANGED kind,
           \A q \in Reqs : kind[q] # "graph" =>
              phase'[q] = phase[q] /\ given'[q] = given[q] /\ outcome'[q] = outcome[q]
    PROVE  UNCHANGED Abstract!vars
<1>1. \A q \in Reqs : RequestStatus(q)' = RequestStatus(q)
  BY DEF RequestStatus
<1> QED
  BY <1>1 DEF Abstract!vars

\* A request that goes out is asked.
LEMMA Asks ==
    ASSUME TableInv, NEW r \in Reqs, kind[r] # "graph", phase[r] = "idle",
           NEW p \in {"sent", "waiting"}, phase' = [phase EXCEPT ![r] = p],
           UNCHANGED <<kind, given, outcome>>
    PROVE  Abstract!Next
<1>1. RequestStatus(r) = "idle" /\ RequestStatus(r)' = "open"
  BY DEF RequestStatus, TableInv, TableTypes
<1>2. \A q \in Reqs \ {r} : RequestStatus(q)' = RequestStatus(q)
  BY DEF RequestStatus, TableInv, TableTypes
<1>3. Abstract!Ask(r)
  BY <1>1, <1>2 DEF Abstract!Ask
<1> QED
  BY <1>3 DEF Abstract!Next

\* A caller that has been told something is settled.
LEMMA Settles ==
    ASSUME TableInv, AnswerInv, NEW r \in Reqs, kind[r] # "graph", phase[r] # "settled",
           NEW what \in given[r] \cup Abstract!NoAnswer, Settled(r, what),
           UNCHANGED <<kind, given>>
    PROVE  Abstract!Next
<1>1. RequestStatus(r) # "settled" /\ RequestStatus(r)' = "settled"
  BY DEF RequestStatus, Settled, TableInv, TableTypes
<1>2. \A q \in Reqs \ {r} : RequestStatus(q)' = RequestStatus(q)
  BY DEF RequestStatus, Settled, TableInv, TableTypes
<1>3. /\ outcome'[r] = what
      /\ \A q \in Reqs \ {r} : outcome'[q] = outcome[q]
  BY DEF Settled, TableInv, TableTypes
<1>4. Abstract!Settle(r)
  BY <1>1, <1>2, <1>3 DEF Abstract!Settle
<1> QED
  BY <1>4 DEF Abstract!Next

\* An answer of the host to a request in memory.
LEMMA Answers ==
    ASSUME TableInv, AnswerInv, NEW r \in host, NEW v \in Values, kind[r] # "graph",
           given' = [given EXCEPT ![r] = @ \cup {v}],
           UNCHANGED <<kind, phase, outcome>>
    PROVE  Abstract!Next
<1>1. r \in Reqs /\ RequestStatus(r) # "idle"
  BY DEF RequestStatus, AnswerInv
<1>2. \A q \in Reqs : RequestStatus(q)' = RequestStatus(q)
  BY DEF RequestStatus
<1>3. Abstract!Answer(r, v)
  BY <1>1, <1>2 DEF Abstract!Answer, AnswerInv
<1> QED
  BY <1>1, <1>3 DEF Abstract!Next

\* Every step of the link is a step of Request, or one it does not see.
LEMMA RequestStep ==
    ASSUME TableInv, AnswerInv, [Next]_vars
    PROVE  [Abstract!Next]_(Abstract!vars)
<1> USE DEF asked, sockets, waiters, told, hostside
<1>1. CASE UNCHANGED vars
  BY <1>1, Stutters DEF vars
<1>2. ASSUME NEW c \in Clients, Connect(c)
      PROVE  UNCHANGED Abstract!vars
  BY <1>2, Stutters DEF Connect
<1>3. ASSUME NEW k \in Sockets, Drop(k) \/ Disconnect(k)
      PROVE  UNCHANGED Abstract!vars
  BY <1>3, Stutters DEF Drop, Disconnect, Reap
<1>4. ASSUME NEW k \in Sockets, Receive(k)
      PROVE  UNCHANGED Abstract!vars
  <2>1. Head(chan[k]) \in Frames
    BY <1>4, ChannelTypes DEF Receive, TableInv, TableTypes
  <2>2. Handle(Head(chan[k])) /\ UNCHANGED <<kind, given>>
    BY <1>4 DEF Receive
  <2> DEFINE f == Head(chan[k])
  <2> HIDE DEF f
  <2>3. \A q \in Reqs : kind[q] # "graph" => phase'[q] = phase[q] /\ outcome'[q] = outcome[q]
    <3>1. CASE UNCHANGED <<phase, outcome>>
      BY <3>1
    <3>2. CASE paused[session[f.req]] # "none" /\ ResumePaused(session[f.req], f.says)
      <4>1. session[f.req] \in Sessions
        BY <2>1 DEF f, Frames, TableInv, TableTypes
      <4>2. paused[session[f.req]] \in Reqs /\ kind[paused[session[f.req]]] = "graph"
        BY <3>2, <4>1 DEF TableInv, TableTypes, PausedAreGraphs
      <4> QED
        BY <3>2, <4>2 DEF ResumePaused, Settled, TableInv, TableTypes
    <3> QED
      BY <2>1, <2>2, <3>1, <3>2, HandleCases DEF f, Resolve, AppendStream
  <2> QED
    BY <2>2, <2>3, Stutters
<1>5. ASSUME NEW s \in Sessions,
             Broadcast(s) \/ \E k \in Sockets : RegisterAlias(k, s)
      PROVE  UNCHANGED Abstract!vars
  BY <1>5, Stutters DEF Broadcast, RegisterAlias
<1>6. \A r \in Reqs : Abstract!NoAnswer \subseteq given[r] \cup Abstract!NoAnswer
  OBVIOUS
<1>7. ASSUME NEW r \in Reqs, NEW f \in Fates, AskHuman(r, f)
      PROVE  Abstract!Next
  <2>1. CASE f = "raises"
    <3>1. Settled(r, "error") /\ "error" \in Abstract!NoAnswer
      BY <1>7, <2>1 DEF AskHuman, Abstract!NoAnswer
    <3> QED
      BY <1>6, <1>7, <3>1, Settles DEF AskHuman
  <2>2. CASE f # "raises"
    BY <1>7, <2>2, Asks DEF AskHuman, Register
  <2> QED
    BY <2>1, <2>2
<1>8. ASSUME NEW r \in Reqs, NEW f \in Fates, PauseGraph(r, f)
      PROVE  UNCHANGED Abstract!vars
  <2>1. \A q \in Reqs \ {r} : phase'[q] = phase[q]
    BY <1>8 DEF PauseGraph, TableInv, TableTypes
  <2> QED
    BY <1>8, <2>1, Stutters DEF PauseGraph
<1>9. ASSUME NEW r \in Reqs, NEW f \in Fates, EmitPatch(r, f) \/ EmitProvision(r, f) \/ EmitExec(r, f)
      PROVE  Abstract!Next
  <2>1. kind[r] # "graph" /\ EmitFirst(r, f)
    BY <1>9 DEF EmitPatch, EmitProvision, EmitExec
  <2>2. CASE f = "raises"
    <3>1. Settled(r, "error") /\ "error" \in Abstract!NoAnswer
      BY <2>1, <2>2 DEF EmitFirst, Abstract!NoAnswer
    <3> QED
      BY <1>6, <2>1, <3>1, Settles DEF EmitFirst
  <2>3. CASE f # "raises"
    BY <2>1, <2>3, Asks DEF EmitFirst
  <2> QED
    BY <2>2, <2>3
<1>10. ASSUME NEW r \in Reqs, RefusePatch(r)
       PROVE  Abstract!Next
  <2>1. Settled(r, "refused") /\ "refused" \in Abstract!NoAnswer
    BY <1>10 DEF RefusePatch, Abstract!NoAnswer
  <2> QED
    BY <1>6, <1>10, <2>1, Settles DEF RefusePatch
<1>11. ASSUME NEW r \in Reqs, WaitPlain(r) \/ WaitExec(r)
       PROVE  UNCHANGED Abstract!vars
  <2>1. /\ phase[r] = "sent" /\ phase' = [phase EXCEPT ![r] = "waiting"]
        /\ UNCHANGED <<kind, given, outcome>>
    BY <1>11 DEF WaitPlain, WaitExec, Register
  <2>2. \A q \in Reqs : RequestStatus(q)' = RequestStatus(q)
    BY <2>1 DEF RequestStatus, TableInv, TableTypes
  <2> QED
    BY <2>1, <2>2 DEF Abstract!vars
<1>12. ASSUME NEW r \in Reqs, Wake(r)
       PROVE  Abstract!Next
  <2>1. result[r] \in given[r] \cup Abstract!NoAnswer
    BY DEF AnswerInv, Abstract!NoAnswer
  <2>2. kind[r] # "graph"
    BY <1>12 DEF Wake, TableInv, Tabled
  <2> QED
    BY <1>12, <2>1, <2>2, Settles DEF Wake
<1>13. ASSUME NEW r \in Reqs, TimeOut(r) \/ CancelCaller(r)
       PROVE  Abstract!Next
  <2>1. PICK what \in Abstract!NoAnswer : Settled(r, what)
    BY <1>13 DEF TimeOut, CancelCaller, Abstract!NoAnswer
  <2>2. kind[r] # "graph" /\ phase[r] # "settled" /\ UNCHANGED <<kind, given>>
    BY <1>13 DEF TimeOut, CancelCaller
  <2> QED
    BY <1>6, <2>1, <2>2, Settles
<1>14. ASSUME NEW k \in Sockets, NEW r \in Reqs, HostStreams(k, r)
       PROVE  UNCHANGED Abstract!vars
  BY <1>14, Stutters DEF HostStreams
<1>15. ASSUME NEW k \in Sockets, NEW r \in Reqs, NEW v \in Values, HostAnswers(k, r, v)
       PROVE  [Abstract!Next]_(Abstract!vars)
  <2>1. CASE kind[r] = "graph"
    <3>1. \A q \in Reqs \ {r} : given'[q] = given[q]
      BY <1>15 DEF HostAnswers, AnswerInv
    <3> QED
      BY <1>15, <2>1, <3>1, Stutters DEF HostAnswers
  <2>2. CASE kind[r] # "graph"
    BY <1>15, <2>2, Answers DEF HostAnswers
  <2> QED
    BY <2>1, <2>2
<1> QED
  BY <1>1, <1>2, <1>3, <1>4, <1>5, <1>7, <1>8, <1>9, <1>10, <1>11, <1>12, <1>13, <1>14, <1>15 DEF Next

\* The link implements the promise of a round trip, as far as safety goes: a
\* request in memory is asked once and settles once, and what its caller is told
\* is an answer that was given to that very request or none, whatever sockets
\* drop, are replaced or are closed late.  (That it does settle is ImplementsRequest,
\* which is a matter of fairness.)
THEOREM RefinesRequest == Spec => Abstract!Init /\ [][Abstract!Next]_(Abstract!vars)
<1>1. Init => TableInv /\ AnswerInv
  <2>1. Init => AnswerInv
    BY DEF Init, AnswerInv, Genuine
  <2> QED
    BY <2>1, TablesStart
<1>2. TableInv /\ AnswerInv /\ [Next]_vars => (TableInv /\ AnswerInv)'
  BY TableStep, AnswerStep
<1>3. Init => Abstract!Init
  BY DEF Init, Abstract!Init, RequestStatus
<1>4. TableInv /\ AnswerInv /\ [Next]_vars => [Abstract!Next]_(Abstract!vars)
  BY RequestStep
<1> QED
  BY <1>1, <1>2, <1>3, <1>4, PTL DEF Spec

=============================================================================
