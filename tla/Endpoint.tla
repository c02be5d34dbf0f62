------------------------------ MODULE Endpoint ------------------------------
(***************************************************************************)
(* The host process around the sessions: the WebSocket endpoint of main.py  *)
(* with its handshake, receive loop and clean-up, the bindings of a         *)
(* connection to its project, the inbound token bucket, the two background  *)
(* passes an operator can start on a project (Dreaming, brain/daemon.py,    *)
(* and /init, core/project_init.py), the workspace lifecycle manager and    *)
(* the shutdown of the lifespan.  A connection id is kept by the client     *)
(* over its reconnects, so several sockets of one id may overlap: the old   *)
(* endpoint learns of the drop after the new one is serving.                *)
(***************************************************************************)
EXTENDS Naturals, FiniteSets

CONSTANTS
    Clients,        \* connection ids, one per editor window
    Projects,
    ProjectOf,      \* Clients -> Projects: the folder the window has open
    MaxSockets,     \* bound on the sockets of one connection id
    MaxDials,       \* bound on the sockets of all of them
    MaxSaves,       \* bound on the saves of one project
    MaxPasses,      \* bound on the background passes
    BucketCapacity  \* _INBOUND_BUCKET_CAPACITY

Kinds == {"dream", "init"}
Passes == 1 .. MaxPasses
NoProject == "no project"

EndpointAssumption ==
    /\ ProjectOf \in [Clients -> Projects]
    /\ NoProject \notin Projects
    /\ {MaxSockets, MaxDials, MaxSaves, MaxPasses} \subseteq Nat
    /\ BucketCapacity \in Nat \ {0}

VARIABLES
    socket,   \* client -> socket number -> state of its endpoint
    routed,   \* active_connections: client -> socket number, or 0
    bound,    \* _session_project_id and _session_workspace_root
    windows,  \* _session_workspace_pid: the clients with a known window
    tokens,   \* _inbound_tokens
    saves,    \* project -> saves the backend has taken for it
    epoch,    \* _dreaming_epoch, _project_init_epoch: kind -> project -> count
    slot,     \* _dreaming_tasks, _project_init_tasks: kind -> project -> pass, or 0
    pass,     \* the background passes
    written,  \* the notes and drafts that were written
    purge,    \* _pending_purges
    host      \* "up", "draining", "down"

endpointVars == <<socket, routed, bound, windows, tokens, saves, epoch, slot, pass,
                  written, purge, host>>
wire == <<socket, routed>>
background == <<epoch, slot, pass>>

Unused == [kind |-> "dream", proj |-> NoProject, step |-> "none", epoch |-> 0, base |-> 0,
           cancel |-> FALSE]
Alive == {"start", "model", "lock", "write"}

EndpointInit ==
    /\ socket = [c \in Clients |-> [i \in 1 .. MaxSockets |-> "none"]]
    /\ routed = [c \in Clients |-> 0]
    /\ bound = [c \in Clients |-> NoProject]
    /\ windows = {} /\ purge = {}
    /\ tokens = [c \in Clients |-> BucketCapacity]
    /\ saves = [p \in Projects |-> 0]
    /\ epoch = [k \in Kinds |-> [p \in Projects |-> 0]]
    /\ slot = [k \in Kinds |-> [p \in Projects |-> 0]]
    /\ pass = [n \in Passes |-> Unused]
    /\ written = {}
    /\ host = "up"

-----------------------------------------------------------------------------
\* The handshake.

SetSocket(c, i, state) == socket' = [socket EXCEPT ![c][i] = state]

\* The client keeps one socket: it dials again when it has lost the last one.
Dial(c, i) ==
    /\ socket[c][i] = "none"
    /\ Cardinality({d \in Clients \X (1 .. MaxSockets) : socket[d[1]][d[2]] # "none"}) < MaxDials
    /\ \A j \in 1 .. i - 1 : socket[c][j] \in {"cut", "done"}
    /\ SetSocket(c, i, IF host = "up" THEN "auth" ELSE "done")
    /\ UNCHANGED <<routed, bound, windows, tokens, saves, background, written, purge, host>>

\* The first message carries the token; it replaces the route of the id.
Authenticate(c, i) ==
    /\ socket[c][i] = "auth"
    /\ SetSocket(c, i, "open")
    /\ routed' = [routed EXCEPT ![c] = i]
    /\ UNCHANGED <<bound, windows, tokens, saves, background, written, purge, host>>

\* A wrong token, a malformed message, three seconds of silence or a drop.
RejectHandshake(c, i) ==
    /\ socket[c][i] = "auth"
    /\ SetSocket(c, i, "done")
    /\ UNCHANGED <<routed, bound, windows, tokens, saves, background, written, purge, host>>

\* The connection is lost, or the window closed; the endpoint is still in
\* receive_text.
Drop(c, i) ==
    /\ socket[c][i] = "open"
    /\ SetSocket(c, i, "cut")
    /\ UNCHANGED <<routed, bound, windows, tokens, saves, background, written, purge, host>>

-----------------------------------------------------------------------------
\* Background passes.

Registered(k, p) == IF slot[k][p] = 0 THEN {} ELSE {slot[k][p]}
Cancelled(ns) == [n \in Passes |-> IF n \in ns /\ pass[n].step \in Alive
                                   THEN [pass[n] EXCEPT !.cancel = TRUE] ELSE pass[n]]
Running(k, p) == {n \in Passes : pass[n].kind = k /\ pass[n].proj = p /\ pass[n].step \in Alive}

\* Faulty variant of AbortPasses: the epoch moves, the pass is left alone.
AbortPassesByEpoch(p) ==
    /\ epoch' = [k \in Kinds |-> [epoch[k] EXCEPT ![p] = @ + 1]]
    /\ UNCHANGED <<pass, slot>>

\* _abort_dreaming and _abort_project_init, on every save: the snapshot of a
\* running pass is invalid, and its model call is cancelled.
AbortPasses(p) ==
    /\ epoch' = [k \in Kinds |-> [epoch[k] EXCEPT ![p] = @ + 1]]
    /\ pass' = Cancelled(UNION {Registered(k, p) : k \in Kinds})
    /\ UNCHANGED slot

NewPass(n, k, p) ==
    [Unused EXCEPT !.kind = k, !.proj = p, !.step = "start", !.epoch = epoch[k][p]]

\* _trigger_dreaming, _trigger_project_init: the new pass replaces the one of
\* the project.  (Without a project a pass finds an empty overview and ends.)
Trigger(c, i, k, n) ==
    /\ socket[c][i] = "open" /\ bound[c] # NoProject
    /\ pass[n].step = "none" /\ \A m \in 1 .. n - 1 : pass[m].step # "none"
    /\ pass' = [Cancelled(Registered(k, bound[c])) EXCEPT ![n] = NewPass(n, k, bound[c])]
    /\ slot' = [slot EXCEPT ![k][bound[c]] = n]
    /\ UNCHANGED <<wire, bound, windows, tokens, saves, epoch, written, purge, host>>

\* The done callback evicts the slot if it still names the pass.
Ends(n) ==
    /\ pass' = [pass EXCEPT ![n].step = "done", ![n].cancel = FALSE]
    /\ slot' = [slot EXCEPT ![pass[n].kind][pass[n].proj] = IF @ = n THEN 0 ELSE @]

\* The budget and the overview are looked at before the first await.
PassBegins(n) ==
    /\ pass[n].step = "start" /\ ~pass[n].cancel
    /\ \/ /\ pass' = [pass EXCEPT ![n].step = "model", ![n].base = saves[pass[n].proj]]
          /\ UNCHANGED slot
       \/ Ends(n)                                    \* refused_budget, skipped_empty
    /\ UNCHANGED <<wire, bound, windows, tokens, saves, epoch, written, purge, host>>

Stale(n) == epoch[pass[n].kind][pass[n].proj] # pass[n].epoch
Note(n) == [kind |-> pass[n].kind, proj |-> pass[n].proj,
            base |-> pass[n].base, at |-> saves[pass[n].proj]]

\* The model answered: nothing usable, a stale snapshot, or a text.  A draft is
\* written at once; a note waits for the write lock of the graph.
PassAnswered(n) ==
    /\ pass[n].step = "model" /\ ~pass[n].cancel
    /\ \/ Ends(n) /\ UNCHANGED written   \* skipped_empty, aborted_stale, a failed call
       \/ /\ ~Stale(n) /\ pass[n].kind = "init"
          /\ Ends(n) /\ written' = written \cup {Note(n)}
       \/ /\ ~Stale(n) /\ pass[n].kind = "dream"
          /\ pass' = [pass EXCEPT ![n].step = "lock"]
          /\ UNCHANGED <<slot, written>>
    /\ UNCHANGED <<wire, bound, windows, tokens, saves, epoch, purge, host>>

\* The lock is free: the upsert goes to its thread, where it completes whatever
\* becomes of the task.
PassLocks(n) ==
    /\ pass[n].step = "lock" /\ ~pass[n].cancel
    /\ \A m \in Passes : pass[m].proj = pass[n].proj => pass[m].step # "write"
    /\ pass' = [pass EXCEPT ![n].step = "write"]
    /\ written' = written \cup {Note(n)}
    /\ UNCHANGED <<wire, bound, windows, tokens, saves, epoch, slot, purge, host>>

PassWritten(n) ==
    /\ pass[n].step = "write" /\ ~pass[n].cancel
    /\ Ends(n)
    /\ UNCHANGED <<wire, bound, windows, tokens, saves, epoch, written, purge, host>>

\* The cancellation surfaces at the await the pass is in.
PassCancelled(n) ==
    /\ pass[n].step \in Alive /\ pass[n].cancel
    /\ Ends(n)
    /\ UNCHANGED <<wire, bound, windows, tokens, saves, epoch, written, purge, host>>

-----------------------------------------------------------------------------
\* The receive loop.

\* client_workspace_init.
WorkspaceInit(c, i) ==
    /\ socket[c][i] = "open"
    /\ bound' = [bound EXCEPT ![c] = ProjectOf[c]]
    /\ windows' = windows \cup {c}
    /\ UNCHANGED <<socket, routed, tokens, saves, background, written, purge, host>>

\* allow_inbound: a token of the bucket, which refills with time.
AllowInbound(c) == tokens[c] > 0
Refill(c) ==
    /\ tokens[c] < BucketCapacity /\ routed[c] # 0
    /\ tokens' = [tokens EXCEPT ![c] = @ + 1]
    /\ UNCHANGED <<wire, bound, windows, saves, background, written, purge, host>>

\* client_ide_telemetry: what is not shed is taken for the project the
\* connection is bound to, and invalidates its passes.
IdeTelemetry(c, i) ==
    /\ socket[c][i] = "open" /\ AllowInbound(c)
    /\ tokens' = [tokens EXCEPT ![c] = @ - 1]
    /\ IF bound[c] = NoProject
       THEN UNCHANGED <<saves, background>>
       ELSE /\ saves[bound[c]] < MaxSaves
            /\ saves' = [saves EXCEPT ![bound[c]] = @ + 1]
            /\ AbortPasses(bound[c])
    /\ UNCHANGED <<wire, bound, windows, written, purge, host>>

\* client_file_update: the buffer handed to the file system has no uri field,
\* so its ingestion raises (after it has emptied the buffers), past the only
\* handler of the endpoint: the socket closes and no clean-up runs.
FileUpdate(c, i) ==
    /\ socket[c][i] = "open" /\ AllowInbound(c)
    /\ tokens' = [tokens EXCEPT ![c] = @ - 1]
    /\ SetSocket(c, i, "done")
    /\ UNCHANGED <<routed, bound, windows, saves, background, written, purge, host>>

-----------------------------------------------------------------------------
\* Clean-up.

\* ConnectionManager.disconnect ignores the close of a replaced socket.
Unroute(c, i) ==
    IF routed[c] \notin {0, i}
    THEN UNCHANGED <<routed, tokens>>
    ELSE /\ routed' = [routed EXCEPT ![c] = 0]
         /\ tokens' = [tokens EXCEPT ![c] = BucketCapacity]

\* The endpoint's own clean-up: the bindings of the connection id, the passes
\* and the epochs of its project.
EvictBindings(c) ==
    LET p == bound[c]
    IN /\ bound' = [bound EXCEPT ![c] = NoProject]
       /\ IF p = NoProject
          THEN UNCHANGED background
          ELSE /\ pass' = Cancelled(UNION {Registered(k, p) : k \in Kinds})
               /\ slot' = [k \in Kinds |-> [slot[k] EXCEPT ![p] = 0]]
               /\ epoch' = [k \in Kinds |-> [epoch[k] EXCEPT ![p] = 0]]

\* shutdown_workspace: nothing is ever registered under a window, so only the
\* purge of the model memory is armed, or armed anew.
ShutdownWorkspace(c) ==
    /\ windows' = windows \ {c}
    /\ purge' = IF c \in windows THEN purge \cup {c} ELSE purge

Disconnected(c, i) ==
    /\ socket[c][i] = "cut"
    /\ SetSocket(c, i, "done")
    /\ Unroute(c, i)
    /\ EvictBindings(c)
    /\ ShutdownWorkspace(c)
    /\ UNCHANGED <<saves, written, host>>

\* The debounce window of the purge elapsed.
FirePurge(c) ==
    /\ c \in purge
    /\ purge' = purge \ {c}
    /\ UNCHANGED <<wire, bound, windows, tokens, saves, background, written, host>>

-----------------------------------------------------------------------------
\* The end of the lifespan: no new socket, then the registered passes are
\* cancelled and the stores closed.
BeginShutdown ==
    /\ host = "up"
    /\ host' = "draining"
    /\ UNCHANGED <<wire, bound, windows, tokens, saves, background, written, purge>>

FinishShutdown ==
    /\ host = "draining"
    /\ host' = "down"
    /\ pass' = Cancelled(UNION {Registered(k, p) : k \in Kinds, p \in Projects})
    /\ UNCHANGED <<wire, bound, windows, tokens, saves, epoch, slot, written, purge>>

-----------------------------------------------------------------------------
PassRuns(n) ==
    PassBegins(n) \/ PassAnswered(n) \/ PassLocks(n) \/ PassWritten(n) \/ PassCancelled(n)

Serves(c, i) ==
    \/ Dial(c, i) \/ Authenticate(c, i) \/ RejectHandshake(c, i) \/ Drop(c, i)
    \/ Disconnected(c, i)
    \/ WorkspaceInit(c, i) \/ IdeTelemetry(c, i) \/ FileUpdate(c, i)
    \/ \E k \in Kinds, n \in Passes : Trigger(c, i, k, n)

EndpointNext ==
    \/ \E c \in Clients, i \in 1 .. MaxSockets : Serves(c, i)
    \/ \E c \in Clients : Refill(c) \/ FirePurge(c)
    \/ \E n \in Passes : PassRuns(n)
    \/ BeginShutdown \/ FinishShutdown

EndpointSpec == EndpointInit /\ [][EndpointNext]_endpointVars

-----------------------------------------------------------------------------
\* Properties.

\* A note or a draft is only written from a snapshot no save has overtaken,
\* wherever in the pass the save lands: before it starts, during the model
\* call, or while it waits for the lock.
NotesAreFresh == \A w \in written : w.base = w.at

\* One pass of a kind per project: all others of it are being cancelled.
OnePassPerProject ==
    \A k \in Kinds, p \in Projects :
        Cardinality({n \in Running(k, p) : ~pass[n].cancel}) <= 1

\* A registered pass can still be cancelled: the slot is emptied when its pass
\* ends, and never by the end of a pass it replaced.
SlotsAreLive ==
    \A k \in Kinds, p \in Projects :
        /\ slot[k][p] # 0 => pass[slot[k][p]].step \in Alive
        /\ \A n \in Running(k, p) : ~pass[n].cancel => slot[k][p] = n

\* A background pass writes only what no save has overtaken, there is one of a
\* kind per project, and it can be stopped as long as it runs (main.py, daemon.py).
PassesAreCurrent == NotesAreFresh /\ OnePassPerProject /\ SlotsAreLive

=============================================================================
