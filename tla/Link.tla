-------------------------------- MODULE Link --------------------------------
(***************************************************************************)
(* The websocket link between the core and the editor host: the routing    *)
(* table of ConnectionManager (api/websocket_manager.py) with its session  *)
(* aliases, the request/reply waiters that share it (approval cards, patch *)
(* acknowledgements, devcontainer provisioning and commands), the callers  *)
(* that ask through it (core/write_pipeline.py, api/devcontainer_bridge.py)*)
(* and the receive loop of main.py that brings the answers in.             *)
(*                                                                         *)
(* Sockets drop at any moment, take the frames in flight with them, and    *)
(* are noticed later by their receive loop.  A socket is a pair <<c, n>>:  *)
(* the n-th connection made under the connection id c.                     *)
(***************************************************************************)
EXTENDS Integers, Sequences, FiniteSets

CONSTANTS
    Clients,        \* connection ids
    Sessions,       \* session ids, multiplexed over the connections
    Reqs,           \* requests; each has one caller and a single-use id
    Kinds,          \* what the requests may be, together
    MaxSockets,     \* bound: connections made, under all ids together
    MaxAnswers,     \* bound: replies of the human to one card
    MaxChunks       \* bound: output chunks of one command

AllKinds == {"hitl", "graph", "patch", "provision", "exec"}

ASSUME LinkBounds ==
    /\ Kinds \subseteq [Reqs -> AllKinds]
    /\ MaxSockets \in Nat \ {0}
    /\ MaxAnswers \in Nat \ {0}
    /\ MaxChunks \in Nat
    /\ Clients \cap Sessions = {}
    /\ IsFiniteSet(Clients)

VARIABLES
    kind, session,  \* what each request asks, and for which session
    opened,         \* number of connections made under each id
    live,           \* sockets that are physically up
    looping,        \* sockets whose receive loop has not ended
    chan,           \* frames from the host, in order, per socket
    conn,           \* active_connections: routes of connections and sessions
    aliases,        \* _aliases: sessions each connection has announced
    phase,          \* progress of each caller
    registered,     \* events: _hitl_pending, _patch_acks, _devc_*_events
    woken,          \* requests whose event has been set
    index,          \* _client_pending_*: open requests by session
    result,         \* _hitl_responses, _patch_ack_results, _devc_*
    buffer,         \* _devc_exec_buffers: chunks collected, or Absent
    paused,         \* _paused_tasks: the card the graph of a session waits on
    host,           \* requests that have reached the host
    given,          \* history: answers given by the host to each request
    chunks,         \* history: chunks the host has sent for each command
    missed,         \* history: chunks lost with a socket or dropped on arrival
    output,         \* chunks returned to the caller of a command
    outcome,        \* what each caller was told
    audit           \* rows of the approval audit chain

sockets == <<opened, live, looping, chan>>
routes == <<conn, aliases>>
waiters == <<phase, registered, woken, index, result, buffer, paused>>
told == <<output, outcome, audit>>
hostside == <<host, given, chunks>>
asked == <<kind, session>>
vars == <<asked, sockets, routes, waiters, told, hostside, missed>>

Values == {"yes", "no"}
Ids == Clients \cup Sessions
Sockets == Clients \X (1..MaxSockets)
NoSocket == <<>>
Absent == -1

Init ==
    /\ kind \in Kinds /\ session \in [Reqs -> Sessions]
    /\ opened = [c \in Clients |-> 0] /\ live = {} /\ looping = {}
    /\ chan = [k \in Sockets |-> <<>>]
    /\ conn = [i \in Ids |-> NoSocket]
    /\ aliases = [c \in Clients |-> {}]
    /\ phase = [r \in Reqs |-> "idle"]
    /\ registered = {} /\ woken = {}
    /\ index = [s \in Sessions |-> {}]
    /\ result = [r \in Reqs |-> "none"]
    /\ buffer = [r \in Reqs |-> Absent]
    /\ paused = [s \in Sessions |-> "none"]
    /\ host = {} /\ given = [r \in Reqs |-> {}]
    /\ chunks = [r \in Reqs |-> 0] /\ missed = [r \in Reqs |-> 0]
    /\ output = [r \in Reqs |-> 0]
    /\ outcome = [r \in Reqs |-> "none"] /\ audit = {}

-----------------------------------------------------------------------------
(* Connections and routes. *)

\* connect: a token that does not match leaves nothing behind.  The host dials
\* again when its socket is closed, which the core may not have noticed yet.
Connect(c) ==
    LET k == <<c, opened[c] + 1>> IN
    /\ Cardinality({j \in Sockets : j[2] <= opened[j[1]]}) < MaxSockets
    /\ <<c, opened[c]>> \notin live
    /\ opened' = [opened EXCEPT ![c] = @ + 1]
    /\ live' = live \cup {k} /\ looping' = looping \cup {k}
    /\ conn' = [conn EXCEPT ![c] = k]
    /\ UNCHANGED <<chan, aliases, asked, waiters, told, hostside, missed>>

\* The physical socket fails: some of the frames in flight are lost with it.
Drop(k) ==
    /\ k \in live
    /\ live' = live \ {k}
    /\ \E n \in 0..Len(chan[k]) :
          /\ chan' = [chan EXCEPT ![k] = SubSeq(@, 1, n)]
          /\ missed' = [r \in Reqs |-> missed[r] + Cardinality(
                {i \in n+1..Len(chan[k]) : chan[k][i] = [req |-> r, says |-> "chunk"]})]
    /\ UNCHANGED <<opened, looping, routes, asked, waiters, told, hostside>>

\* client_register_session, received on k: the alias follows whatever socket
\* the connection id has now.
RegisterAlias(k, s) ==
    LET c == k[1] IN
    /\ k \in live
    /\ conn[c] # NoSocket
    /\ conn' = [conn EXCEPT ![s] = conn[c]]
    /\ aliases' = [aliases EXCEPT ![c] = @ \cup {s}]
    /\ UNCHANGED <<sockets, asked, waiters, told, hostside, missed>>

\* Mutant: the events are dropped unset.
ReapSilently(ss) ==
    LET gone == UNION {index[s] : s \in ss} IN
    /\ index' = [s \in Sessions |-> IF s \in ss THEN {} ELSE index[s]]
    /\ registered' = registered \ gone
    /\ result' = [r \in Reqs |-> IF r \in gone THEN "none" ELSE result[r]]
    /\ buffer' = [r \in Reqs |-> IF r \in gone THEN Absent ELSE buffer[r]]
    /\ UNCHANGED <<woken, phase, paused>>

\* _reap_client_state for each of the sessions: results are dropped before
\* the events are set, so that the woken callers find nothing.
Reap(ss) ==
    LET gone == UNION {index[s] : s \in ss} IN
    /\ index' = [s \in Sessions |-> IF s \in ss THEN {} ELSE index[s]]
    /\ registered' = registered \ gone
    /\ woken' = woken \cup (gone \cap registered)
    /\ result' = [r \in Reqs |-> IF r \in gone THEN "none" ELSE result[r]]
    /\ buffer' = [r \in Reqs |-> IF r \in gone THEN Absent ELSE buffer[r]]
    /\ UNCHANGED <<phase, paused>>

\* Mutant: a stale close is not recognised.
DisconnectUnchecked(k) ==
    LET owned == {k[1]} \cup aliases[k[1]] IN
    /\ k \in looping \ live /\ chan[k] = <<>>
    /\ looping' = looping \ {k}
    /\ aliases' = [aliases EXCEPT ![k[1]] = {}]
    /\ conn' = [i \in Ids |-> IF i \in owned THEN NoSocket ELSE conn[i]]
    /\ Reap(owned \cap Sessions)
    /\ UNCHANGED <<opened, live, chan, asked, told, hostside, missed>>

\* The receive loop of k ends.  A close of a socket that has been replaced
\* under its own connection id changes nothing.
Disconnect(k) ==
    LET c == k[1]
        owned == {c} \cup aliases[c]
    IN
    /\ k \in looping \ live /\ chan[k] = <<>>
    /\ looping' = looping \ {k}
    /\ IF conn[c] \notin {NoSocket, k}
       THEN UNCHANGED <<routes, waiters>>
       ELSE /\ aliases' = [aliases EXCEPT ![c] = {}]
            /\ conn' = [i \in Ids |-> IF i \in owned THEN NoSocket ELSE conn[i]]
            /\ Reap(owned \cap Sessions)
    /\ UNCHANGED <<opened, live, chan, asked, told, hostside, missed>>

-----------------------------------------------------------------------------
(* Sending. *)

\* The connection ids among the routes: what no connection has as an alias.
Physical == {i \in Ids : conn[i] # NoSocket} \ UNION {aliases[c] : c \in Clients}

\* _recover_alias: with exactly one connection the destination is unambiguous.
Recoverable(s) == conn[s] = NoSocket /\ Cardinality(Physical) = 1

Destination(s) ==
    IF Recoverable(s) THEN conn[CHOOSE i \in Physical : TRUE] ELSE conn[s]

\* send_personal_message, as far as the routing table is concerned.
Routed(s) ==
    IF Recoverable(s)
    THEN LET i == CHOOSE j \in Physical : TRUE IN
         /\ conn' = [conn EXCEPT ![s] = conn[i]]
         /\ aliases' = [c \in Clients |->
                            IF c = i THEN aliases[c] \cup {s} ELSE aliases[c]]
    ELSE UNCHANGED routes

\* A frame for r on its way out: it reaches the host, is lost (no route, or a
\* socket that is already down), or the send on a dead socket raises.
Sent(r, fate) ==
    LET k == Destination(session[r]) IN
    /\ Routed(session[r])
    /\ CASE fate = "arrives" -> k \in live
         [] fate = "lost" -> k \notin live
         [] fate = "raises" -> k \notin live \cup {NoSocket}
    /\ host' = IF fate = "arrives" THEN host \cup {r} ELSE host

\* Every other event the core emits: fire and forget, dropped without a route.
Broadcast(s) ==
    /\ Recoverable(s)
    /\ Routed(s)
    /\ UNCHANGED <<asked, sockets, waiters, told, hostside, missed>>

-----------------------------------------------------------------------------
(* The callers. *)

Register(r) ==
    /\ phase' = [phase EXCEPT ![r] = "waiting"]
    /\ registered' = registered \cup {r}
    /\ index' = [index EXCEPT ![session[r]] = @ \cup {r}]

Settled(r, what) ==
    /\ phase' = [phase EXCEPT ![r] = "settled"]
    /\ outcome' = [outcome EXCEPT ![r] = what]

\* request_human_approval registers before it sends; a send that raises leaves
\* through the finally clause, without an audit row.
AskHuman(r, fate) ==
    /\ phase[r] = "idle" /\ kind[r] = "hitl"
    /\ Sent(r, fate)
    /\ IF fate = "raises"
       THEN Settled(r, "error") /\ UNCHANGED <<registered, index>>
       ELSE Register(r) /\ UNCHANGED outcome
    /\ UNCHANGED <<asked, sockets, woken, result, buffer, paused, output, audit,
                   given, chunks, missed>>

\* A graph that stops on an interrupt: its card is sent, and the pause is
\* registered under the session, not under the card.
PauseGraph(r, fate) ==
    /\ phase[r] = "idle" /\ kind[r] = "graph" /\ fate # "raises"
    /\ paused[session[r]] = "none"
    /\ Sent(r, fate)
    /\ phase' = [phase EXCEPT ![r] = "waiting"]
    /\ paused' = [paused EXCEPT ![session[r]] = r]
    /\ UNCHANGED <<asked, sockets, registered, woken, index, result, buffer, told,
                   given, chunks, missed>>

\* The other callers send first; they register the waiter when the send has
\* returned, and a send that raises ends them.
EmitFirst(r, fate) ==
    /\ phase[r] = "idle"
    /\ Sent(r, fate)
    /\ IF fate = "raises"
       THEN Settled(r, "error")
       ELSE phase' = [phase EXCEPT ![r] = "sent"] /\ UNCHANGED outcome
    /\ UNCHANGED <<asked, sockets, registered, woken, index, result, buffer, paused,
                   output, audit, given, chunks, missed>>

\* apply_patch_set refuses without a client.
RefusePatch(r) ==
    /\ phase[r] = "idle" /\ kind[r] = "patch"
    /\ conn[session[r]] = NoSocket
    /\ Settled(r, "refused")
    /\ UNCHANGED <<asked, sockets, routes, registered, woken, index, result, buffer,
                   paused, output, audit, hostside, missed>>

EmitPatch(r, fate) ==
    kind[r] = "patch" /\ conn[session[r]] # NoSocket /\ EmitFirst(r, fate)

EmitProvision(r, fate) == kind[r] = "provision" /\ EmitFirst(r, fate)

EmitExec(r, fate) == kind[r] = "exec" /\ EmitFirst(r, fate)

WaitPlain(r) ==
    /\ phase[r] = "sent" /\ kind[r] # "exec"
    /\ Register(r)
    /\ UNCHANGED <<asked, sockets, routes, woken, result, buffer, paused, told,
                   hostside, missed>>

\* wait_devcontainer_exec also opens the buffer of the command's output.
WaitExec(r) ==
    /\ phase[r] = "sent" /\ kind[r] = "exec"
    /\ Register(r)
    /\ buffer' = [buffer EXCEPT ![r] = 0]
    /\ UNCHANGED <<asked, sockets, routes, woken, result, paused, told, hostside,
                   missed>>

\* The finally clauses.  Those of provisioning and commands also drop what has
\* arrived; those of approvals and patches do not.
Unregister(r) ==
    /\ registered' = registered \ {r}
    /\ woken' = woken \ {r}
    /\ index' = [index EXCEPT ![session[r]] = @ \ {r}]
    /\ buffer' = [buffer EXCEPT ![r] = Absent]

\* An approval is audited however it ended, unless its caller was cancelled.
Audited(r) == audit' = IF kind[r] = "hitl" THEN audit \cup {r} ELSE audit

\* The event was set: the caller takes what is there, which is nothing if a
\* disconnect has reaped it.
Wake(r) ==
    /\ phase[r] = "waiting" /\ r \in woken
    /\ Settled(r, result[r])
    /\ result' = [result EXCEPT ![r] = "none"]
    /\ output' = [output EXCEPT ![r] =
                    IF result[r] # "none" /\ buffer[r] # Absent THEN buffer[r] ELSE @]
    /\ Unregister(r) /\ Audited(r)
    /\ UNCHANGED <<asked, sockets, routes, paused, hostside, missed>>

\* The deadline of wait_for, which may also fire when the event is already set
\* and the caller has not run yet.
TimeOut(r) ==
    /\ phase[r] = "waiting" /\ kind[r] # "graph"
    /\ Settled(r, "none")
    /\ result' = [result EXCEPT ![r] =
                    IF kind[r] \in {"provision", "exec"} THEN "none" ELSE @]
    /\ Unregister(r) /\ Audited(r)
    /\ UNCHANGED <<asked, sockets, routes, paused, output, hostside, missed>>

\* Stop: the task of the caller is cancelled.
CancelCaller(r) ==
    /\ phase[r] = "waiting" /\ kind[r] # "graph"
    /\ Settled(r, "cancelled")
    /\ result' = [result EXCEPT ![r] =
                    IF kind[r] \in {"provision", "exec"} THEN "none" ELSE @]
    /\ Unregister(r)
    /\ UNCHANGED <<asked, sockets, routes, paused, output, audit, hostside,
                   missed>>

-----------------------------------------------------------------------------
(* The host (external) and the receive loop. *)

Reply(k, r, what) == chan' = [chan EXCEPT ![k] = Append(@, [req |-> r, says |-> what])]

CardKinds == {"hitl", "graph"}

\* The human may answer a card again; the host answers anything else once.
HostAnswers(k, r, v) ==
    /\ k \in live /\ r \in host /\ v \notin given[r]
    /\ Reply(k, r, v)
    /\ given' = [given EXCEPT ![r] = @ \cup {v}]
    /\ host' = IF kind[r] \in CardKinds /\ Cardinality(given'[r]) < MaxAnswers
               THEN host ELSE host \ {r}
    /\ UNCHANGED <<asked, opened, live, looping, routes, waiters, told, chunks,
                   missed>>

\* A "provisioning" tick, or a piece of output, before the final answer.
HostStreams(k, r) ==
    /\ k \in live /\ r \in host /\ kind[r] \in {"provision", "exec"}
    /\ chunks[r] < MaxChunks
    /\ Reply(k, r, IF kind[r] = "exec" THEN "chunk" ELSE "tick")
    /\ chunks' = [chunks EXCEPT ![r] = @ + 1]
    /\ UNCHANGED <<asked, opened, live, looping, routes, waiters, told, host, given,
                   missed>>

\* Mutant: an answer wakes whoever waits in its session.
ResolveBySession(r, v) ==
    /\ IF \E q \in registered : session[q] = session[r]
       THEN LET q == CHOOSE q \in registered : session[q] = session[r] IN
            result' = [result EXCEPT ![q] = v] /\ woken' = woken \cup {q}
       ELSE UNCHANGED <<result, woken>>
    /\ UNCHANGED <<phase, registered, index, buffer, paused, outcome, missed>>

\* resolve_human_approval, resolve_patch_ack and their devcontainer siblings: an
\* answer to a request that nobody waits for is dropped.
Resolve(r, v) ==
    /\ IF r \in registered
       THEN result' = [result EXCEPT ![r] = v] /\ woken' = woken \cup {r}
       ELSE UNCHANGED <<result, woken>>
    /\ UNCHANGED <<phase, registered, index, buffer, paused, outcome, missed>>

\* append_devcontainer_stream: kept while somebody waits for the command.
AppendStream(r) ==
    /\ IF buffer[r] # Absent
       THEN buffer' = [buffer EXCEPT ![r] = @ + 1] /\ UNCHANGED missed
       ELSE /\ missed' = [missed EXCEPT ![r] = @ + 1]
            /\ UNCHANGED buffer
    /\ UNCHANGED <<phase, registered, woken, index, result, paused, outcome>>

\* client_hitl_response for a session whose graph is paused resumes the graph,
\* whatever card the reply answers.
ResumePaused(s, v) ==
    LET g == paused[s] IN
    /\ paused' = [paused EXCEPT ![s] = "none"]
    /\ Settled(g, v)
    /\ UNCHANGED <<registered, woken, index, result, buffer, missed>>

\* A tick is logged; it must not wake the waiter.
Handle(f) ==
    LET s == session[f.req] IN
    CASE f.says = "chunk" -> AppendStream(f.req)
      [] f.says = "tick" -> UNCHANGED <<waiters, outcome, missed>>
      [] f.says \in Values /\ kind[f.req] \in CardKinds /\ paused[s] # "none" ->
            ResumePaused(s, f.says)
      [] OTHER -> Resolve(f.req, f.says)

Receive(k) ==
    /\ k \in looping /\ chan[k] # <<>>
    /\ Handle(Head(chan[k]))
    /\ chan' = [chan EXCEPT ![k] = Tail(@)]
    /\ UNCHANGED <<asked, opened, live, looping, routes, output, audit, hostside>>

-----------------------------------------------------------------------------
Fates == {"arrives", "lost", "raises"}

Next ==
    \/ \E c \in Clients : Connect(c)
    \/ \E k \in Sockets : Drop(k) \/ Disconnect(k) \/ Receive(k)
    \/ \E k \in Sockets, s \in Sessions : RegisterAlias(k, s)
    \/ \E s \in Sessions : Broadcast(s)
    \/ \E r \in Reqs, f \in Fates :
          \/ AskHuman(r, f) \/ PauseGraph(r, f)
          \/ EmitPatch(r, f) \/ EmitProvision(r, f) \/ EmitExec(r, f)
    \/ \E r \in Reqs :
          \/ RefusePatch(r) \/ WaitPlain(r) \/ WaitExec(r)
          \/ Wake(r) \/ TimeOut(r) \/ CancelCaller(r)
    \/ \E k \in Sockets, r \in Reqs :
          HostStreams(k, r) \/ \E v \in Values : HostAnswers(k, r, v)

\* The event loop runs what is ready, and timers fire.  Nothing is assumed of
\* the host, the human or the network.
Fairness ==
    \A r \in Reqs : WF_vars(WaitPlain(r) \/ WaitExec(r) \/ Wake(r) \/ TimeOut(r))

Spec == Init /\ [][Next]_vars /\ Fairness

-----------------------------------------------------------------------------
(* Properties. *)

InMemory == {r \in Reqs : kind[r] # "graph"}

\* Every request that waits in memory can still be woken, and a disconnect can
\* find it: its event is registered and indexed under its session, or has been
\* set (_reap_client_state: "must never strand an event").
NeverStranded ==
    \A r \in InMemory : phase[r] = "waiting" =>
        r \in woken \/ (r \in registered /\ r \in index[session[r]])

\* Nothing of a request outlives it in the tables that disconnects and stream
\* frames go through, so that a reconnect storm cannot grow them: neither event
\* nor index entry nor buffer, nor the result of a provisioning or a command.
NoLeftovers ==
    \A r \in Reqs : phase[r] = "settled" =>
        /\ r \notin registered \cup woken \cup UNION {index[s] : s \in Sessions}
        /\ buffer[r] = Absent
        /\ kind[r] \in {"provision", "exec"} => result[r] = "none"

\* The newest connection made under an id owns the id's route as long as it is
\* up: the late close of the socket it replaced does not tear it down
\* (disconnect, "a stale close for the dead socket").
NewestSocketRouted ==
    \A c \in Clients :
        LET k == <<c, opened[c]>> IN k \in live => conn[c] = k

\* A session is only routed while some connection has it among its aliases, so
\* that the close of that connection also ends the route.
RoutesAreReaped ==
    \A s \in Sessions : conn[s] # NoSocket => \E c \in Clients : s \in aliases[c]

\* The route table follows the sockets: neither is a live route torn down by a
\* stale close, nor does a route outlive every connection that could close it.
RoutesFollowSockets == NewestSocketRouted /\ RoutesAreReaped

\* The positions of the output of r in a channel, and in all of them.
ChunksIn(q, r) == {i \in 1..Len(q) : q[i] = [req |-> r, says |-> "chunk"]}
ChunksOut(r) == UNION {{k} \X ChunksIn(chan[k], r) : k \in Sockets}
InFlight(r) == Cardinality(ChunksOut(r))

\* The output returned with the exit code of a command lacks no chunk but those
\* that were lost with a socket, overtook the registration of the waiter, or
\* were overtaken by the exit frame sent on another socket.
OutputComplete ==
    \A r \in Reqs : kind[r] = "exec" /\ outcome[r] \in Values =>
        output[r] + missed[r] + InFlight(r) = chunks[r]

\* The tables of pending requests follow the requests: a waiter can be woken,
\* and what was settled is forgotten and has lost no output.
TablesFollowRequests == NeverStranded /\ NoLeftovers /\ OutputComplete

\* Whatever becomes of the connection, a request in memory is settled once,
\* with an answer given to that request or with none, and it does settle
\* (Request, with the approvals of paused graphs left out).
RequestStatus(r) ==
    IF kind[r] = "graph" \/ phase[r] = "idle" THEN "idle"
    ELSE IF phase[r] = "settled" THEN "settled" ELSE "open"

Abstract == INSTANCE Request WITH
    status <- [r \in Reqs |-> RequestStatus(r)],
    given <- [r \in Reqs |-> IF kind[r] = "graph" THEN {} ELSE given[r]],
    outcome <- [r \in Reqs |-> IF kind[r] = "graph" THEN "none" ELSE outcome[r]]

ImplementsRequest == Abstract!Spec

=============================================================================
