------------------------------ MODULE Servers ------------------------------
(***************************************************************************)
(* The catalog of MCP servers and the child processes connected to them    *)
(* (tools/mcp_adapter.py, api/mcp_servers.py, core/mcp_config.py,          *)
(* core/config/mcp_secrets.py).  A server has a catalog row, stored        *)
(* credentials, and at most one registered session with the exit stack     *)
(* that owns its stdio child.  The dashboard saves, installs, probes,      *)
(* imports and removes servers; every task starts with a sweep that        *)
(* connects the enabled ones.  All of these run as coroutines of one event *)
(* loop: a job gives way at each await, and the check "is it connected     *)
(* already" is made before the handshake, the registration after it.       *)
(*                                                                         *)
(* Abstractions: a child is a number; its credentials are the version of   *)
(* the stored secrets it was started with, 0 for none; a server's command  *)
(* passed the allowlist; the tools a server lists reach the tool store     *)
(* (module Toolbox).                                                       *)
(***************************************************************************)
EXTENDS Naturals, Sequences

CONSTANTS McpServers,   \* server names
          McpJobs,      \* coroutines that may run at the same time
          MaxChildren,  \* children started over the run of the host
          MaxMcpCalls,  \* requests and task starts
          MaxSecrets    \* credential versions submitted

\* A coroutine that is at no server says so.
ASSUME ServersAssumption == "none" \notin McpServers

VARIABLES listed,      \* catalog: "absent", "off" or "on" per server
          secret,   \* newest stored credentials per server, 0 for none
          sess,     \* _sessions: the child each registered session talks to, 0 for none
          stack,    \* _exit_stacks: the child each stack owns, 0 for none
          living,   \* children that run
          spawned,     \* what each child started so far was started for and with
          job,      \* the state of each coroutine
          calls,    \* requests made
          secrets,  \* credential versions submitted
          mixed,    \* servers whose connects overlapped
          dropped,  \* children whose connect was cancelled or raised, or whose stack was forgotten
          mcpHost,  \* "up", "closing" (the teardown's loop) or "cleared"
          snapshot, \* the stacks the teardown found registered
          closed    \* those of them it has closed
serversVars == <<listed, secret, sess, stack, living, spawned, job, calls, secrets, mixed,
                 dropped, mcpHost, snapshot, closed>>

Rested == [op |-> "none", at |-> "idle", s |-> "none", child |-> 0, todo |-> {}]

ServersInit ==
    /\ listed = [s \in McpServers |-> "absent"] /\ secret = [s \in McpServers |-> 0]
    /\ sess = [s \in McpServers |-> 0] /\ stack = [s \in McpServers |-> 0]
    /\ living = {} /\ spawned = <<>>
    /\ job = [j \in McpJobs |-> Rested]
    /\ calls = 0 /\ secrets = 0 /\ mixed = {} /\ dropped = {}
    /\ mcpHost = "up" /\ snapshot = {} /\ closed = {}

(* Two coroutines are connecting or closing the same server. *)
Working(s) == {j \in McpJobs : job[j].s = s /\ job[j].at \notin {"idle", "probe", "search"}}

McpGoes(j, at) == job' = [job EXCEPT ![j].at = at]
Finishes(j) == job' = [job EXCEPT ![j] = Rested]

(* After one server the sweep turns to the next; the others return. *)
Returns(j) == IF job[j].op = "sweep"
              THEN job' = [job EXCEPT ![j].at = "sweep", ![j].s = "none", ![j].child = 0]
              ELSE Finishes(j)

catalog == <<listed, secret>>
registry == <<sess, stack>>
children == <<living, spawned>>
teardown == <<mcpHost, snapshot, closed>>

(* A request or a task start becomes a coroutine. *)
Begins(j, op, at, s, child) ==
    /\ job[j].at = "idle" /\ calls < MaxMcpCalls
    /\ calls' = calls + 1
    /\ job' = [job EXCEPT ![j] = [op |-> op, at |-> at, s |-> s, child |-> child, todo |-> {}]]
    /\ mixed' = IF at \notin {"probe", "search"} /\ Working(s) # {}
                THEN mixed \cup {s} ELSE mixed
    /\ UNCHANGED dropped

(***************************************************************************)
(* bootstrap_mcp_session: a connected server is left alone; otherwise the  *)
(* child is started with the credentials stored at this moment.            *)
(***************************************************************************)
(* The stored secrets a server declares, as its child's environment. *)
ServerEnv(s) == secret[s]

(* The launch parameters of a server: what its child will know. *)
StdioParams(s) == [for |-> s, cred |-> ServerEnv(s)]

StartsChild(s) == /\ Len(spawned) < MaxChildren
                  /\ spawned' = Append(spawned, StdioParams(s))
                  /\ living' = living \cup {Len(spawned')}

Shakes(j, s) == /\ StartsChild(s)
                /\ job' = [job EXCEPT ![j].at = "handshake", ![j].s = s,
                                      ![j].child = Len(spawned')]

(* Connected already, or no such command on the path; else a new child. *)
Bootstrap(j, s) == \/ Returns(j) /\ UNCHANGED children
                   \/ sess[s] = 0 /\ Shakes(j, s)

(* The coroutine ends with its exit stack dropped, not closed. *)
DropsStack(j) == Finishes(j) /\ dropped' = dropped \cup {job[j].child}

(* initialize() answers, fails or times out, or raises what nobody catches. *)
Handshake(j) ==
    /\ job[j].at = "handshake"
    /\ \/ McpGoes(j, "list") /\ UNCHANGED dropped
       \/ McpGoes(j, "reap") /\ UNCHANGED dropped
       \/ DropsStack(j)
    /\ UNCHANGED <<catalog, registry, children, calls, secrets, mixed, teardown>>

ListTools(j) ==
    /\ job[j].at = "list"
    /\ McpGoes(j, "register") \/ McpGoes(j, "reap")
    /\ UNCHANGED <<catalog, registry, children, calls, secrets, mixed, dropped, teardown>>

(* Every tool was offered to the store; the session is registered. *)
RegisterSession(j) ==
    /\ job[j].at = "register"
    /\ sess' = [sess EXCEPT ![job[j].s] = job[j].child]
    /\ stack' = [stack EXCEPT ![job[j].s] = job[j].child]
    /\ Returns(j)
    /\ UNCHANGED <<catalog, children, calls, secrets, mixed, dropped, teardown>>

(* The stack of a failed connect or of a probe is closed. *)
ReapChild(j) ==
    /\ job[j].at \in {"reap", "probe"}
    /\ living' = living \ {job[j].child}
    /\ Returns(j)
    /\ UNCHANGED <<catalog, registry, spawned, calls, secrets, mixed, dropped, teardown>>

(***************************************************************************)
(* close_mcp_session: both entries are dropped at once, then the stack is  *)
(* closed at an await.                                                     *)
(***************************************************************************)
ForgetStackOnly(s) == /\ stack' = [stack EXCEPT ![s] = 0]
                      /\ UNCHANGED sess

ForgetSession(s) == /\ sess' = [sess EXCEPT ![s] = 0]
                    /\ stack' = [stack EXCEPT ![s] = 0]

StackClosed(j) ==
    /\ job[j].at = "drop"
    /\ living' = living \ {job[j].child}
    /\ job' = IF job[j].op = "install"
              THEN [job EXCEPT ![j].at = "upsert", ![j].child = 0]
              ELSE [job EXCEPT ![j] = Rested]
    /\ UNCHANGED <<catalog, registry, spawned, calls, secrets, mixed, dropped, teardown>>

(***************************************************************************)
(* Requests of the dashboard.                                              *)
(***************************************************************************)
SaveServer(j, s) ==
    /\ \E op \in {"save on", "save off"} : Begins(j, op, "upsert", s, 0)
    /\ UNCHANGED <<catalog, registry, children, secrets, teardown>>

(* A credential typed in is a new version; a masked one keeps the old. *)
SubmitSecret(s) ==
    \/ /\ secrets < MaxSecrets
       /\ secrets' = secrets + 1 /\ secret' = [secret EXCEPT ![s] = secrets']
    \/ /\ secret[s] # 0
       /\ UNCHANGED <<secrets, secret>>

InstallFromRegistry(j, s) ==
    /\ SubmitSecret(s)
    /\ IF sess[s] # 0
       THEN /\ Begins(j, "install", "drop", s, stack[s])
            /\ ForgetSession(s)
       ELSE /\ Begins(j, "install", "upsert", s, 0)
            /\ UNCHANGED registry
    /\ UNCHANGED <<listed, children, teardown>>

(* The row is written; an enabled stdio server is connected right away. *)
UpsertRow(j) ==
    LET s == job[j].s
    IN /\ job[j].at = "upsert"
       /\ listed' = [listed EXCEPT ![s] = IF job[j].op \in {"save off", "import off"} THEN "off" ELSE "on"]
       /\ IF job[j].op \in {"save on", "install"}
          THEN Bootstrap(j, s)
          ELSE Finishes(j) /\ UNCHANGED children
       /\ UNCHANGED <<secret, registry, calls, secrets, mixed, dropped, teardown>>

(* A projection only writes rows: the next sweep connects them. *)
ImportConfig(j, s) ==
    /\ \E op \in {"import on", "import off"} : Begins(j, op, "upsert", s, 0)
    /\ UNCHANGED <<catalog, registry, children, secrets, teardown>>

RemoveServer(j, s) ==
    /\ listed[s] # "absent"
    /\ Begins(j, "remove", "erase", s, 0)
    /\ UNCHANGED <<catalog, registry, children, secrets, teardown>>

DeleteRow(j) ==
    /\ job[j].at = "erase"
    /\ listed' = [listed EXCEPT ![job[j].s] = "absent"]
    /\ McpGoes(j, "forget")
    /\ UNCHANGED <<secret, registry, children, calls, secrets, mixed, dropped, teardown>>

(* The row is gone: so are its credentials and its session. *)
WipeServer(j) ==
    LET s == job[j].s
    IN /\ job[j].at = "forget"
       /\ secret' = [secret EXCEPT ![s] = 0]
       /\ ForgetSession(s)
       /\ job' = IF stack[s] = 0 THEN [job EXCEPT ![j] = Rested]
                 ELSE [job EXCEPT ![j].at = "drop", ![j].child = stack[s]]
       /\ UNCHANGED <<listed, children, calls, secrets, mixed, dropped, teardown>>

(* test_server: a child of its own, closed on every path. *)
ProbeServer(j, s) ==
    /\ StartsChild(s)
    /\ Begins(j, "probe", "probe", s, Len(spawned'))
    /\ UNCHANGED <<catalog, registry, secrets, teardown>>

(***************************************************************************)
(* autoconnect_enabled_mcp_servers, at start-up and before every task: the *)
(* rows are read once, the servers connected one after the other.          *)
(***************************************************************************)
Autoconnect(j) ==
    /\ job[j].at = "idle" /\ calls < MaxMcpCalls
    /\ calls' = calls + 1
    /\ job' = [job EXCEPT ![j] = [op |-> "sweep", at |-> "sweep", s |-> "none", child |-> 0,
                                  todo |-> {s \in McpServers : listed[s] = "on"}]]
    /\ UNCHANGED <<catalog, registry, children, secrets, mixed, dropped, teardown>>

SweepNext(j) ==
    /\ job[j].at = "sweep"
    /\ IF job[j].todo = {}
       THEN Finishes(j) /\ UNCHANGED <<children, mixed>>
       ELSE LET s == CHOOSE x \in job[j].todo : TRUE
            IN /\ \/ /\ job' = [job EXCEPT ![j].todo = @ \ {s}]
                     /\ UNCHANGED children
                  \/ /\ sess[s] = 0 /\ StartsChild(s)
                     /\ job' = [job EXCEPT ![j].todo = @ \ {s}, ![j].at = "handshake",
                                           ![j].s = s, ![j].child = Len(spawned')]
               /\ mixed' = IF Working(s) # {} THEN mixed \cup {s} ELSE mixed
    /\ UNCHANGED <<catalog, registry, calls, secrets, dropped, teardown>>

(* The sweep runs in the task that Stop cancels: at no await of a connect is *)
(* a cancellation caught, and the stack is dropped with its child running.   *)
SweepCancelled(j) ==
    /\ job[j].op = "sweep"
    /\ IF job[j].at = "sweep" THEN Finishes(j) /\ UNCHANGED dropped ELSE DropsStack(j)
    /\ UNCHANGED <<catalog, registry, children, calls, secrets, mixed, teardown>>

(***************************************************************************)
(* A web search takes the session at the moment of the call; without one,  *)
(* or when the call fails, the public search page answers.                 *)
(***************************************************************************)
Search(j, s) ==
    /\ Begins(j, "search", "search", s, sess[s])
    /\ UNCHANGED <<catalog, registry, children, secrets, teardown>>

SearchAnswered(j) ==
    /\ job[j].at = "search"
    /\ Finishes(j)
    /\ UNCHANGED <<catalog, registry, children, calls, secrets, mixed, dropped, teardown>>

(***************************************************************************)
(* shutdown_mcp_sessions, after at most ten seconds for the tasks in       *)
(* flight, none of which is cancelled: they go on between its steps.  The  *)
(* stacks found registered are closed one by one, both tables still        *)
(* filled; then both are cleared, a stack registered meanwhile unclosed.   *)
(***************************************************************************)
ShutdownBegins ==
    /\ mcpHost = "up" /\ mcpHost' = "closing"
    /\ snapshot' = {stack[s] : s \in McpServers} \ {0}
    /\ UNCHANGED <<catalog, registry, children, job, calls, secrets, mixed, dropped, closed>>

ShutdownCloses ==
    /\ mcpHost = "closing"
    /\ \E c \in snapshot \ closed : closed' = closed \cup {c} /\ living' = living \ {c}
    /\ UNCHANGED <<catalog, registry, spawned, job, calls, secrets, mixed, dropped, mcpHost, snapshot>>

ShutdownClears ==
    /\ mcpHost = "closing" /\ closed = snapshot /\ mcpHost' = "cleared"
    /\ sess' = [s \in McpServers |-> 0] /\ stack' = [s \in McpServers |-> 0]
    /\ dropped' = dropped \cup ({stack[s] : s \in McpServers} \cap living)
    /\ UNCHANGED <<catalog, children, job, calls, secrets, mixed, snapshot, closed>>

ShutdownSessions == ShutdownBegins \/ ShutdownCloses \/ ShutdownClears

McpStep(j) == \/ Handshake(j) \/ ListTools(j) \/ RegisterSession(j) \/ ReapChild(j)
              \/ StackClosed(j) \/ UpsertRow(j) \/ DeleteRow(j) \/ WipeServer(j)
              \/ SweepNext(j) \/ SweepCancelled(j) \/ SearchAnswered(j)

(* No request is served once the shutdown began; a task in flight goes on. *)
McpRequest(j, s) == \/ /\ mcpHost = "up"
                       /\ \/ SaveServer(j, s) \/ InstallFromRegistry(j, s) \/ ImportConfig(j, s)
                          \/ RemoveServer(j, s) \/ ProbeServer(j, s)
                    \/ Search(j, s)

ServersNext == \/ \E j \in McpJobs : McpStep(j) \/ Autoconnect(j)
               \/ \E j \in McpJobs, s \in McpServers : McpRequest(j, s)
               \/ ShutdownSessions

ServersSpec == ServersInit /\ [][ServersNext]_serversVars

(***************************************************************************)
(* Properties.                                                             *)
(***************************************************************************)
(* A registered session talks to a child that runs and that its own exit   *)
(* stack will close: tools are never called over a closed transport.  Only *)
(* while the host shuts down does a session whose stack the teardown has   *)
(* closed stay registered, until the others are closed too.                *)
SessionIsLive ==
    \A s \in McpServers :
        /\ sess[s] = stack[s]
        /\ sess[s] # 0 => sess[s] \in living \/ (mcpHost = "closing" /\ sess[s] \in closed)

(* No child outlives its owner: unless two connects of its server          *)
(* overlapped, or its own connect was cancelled, raised or came too late   *)
(* for the teardown, a running child is owned by its server's exit stack   *)
(* or by the coroutine that is starting or closing it, and the session     *)
(* registered was started with the newest credentials.                     *)
ChildrenAreOwned ==
    /\ \A c \in living \ dropped :
          \/ spawned[c].for \in mixed
          \/ stack[spawned[c].for] = c
          \/ \E j \in McpJobs : job[j].child = c /\ job[j].at # "search"
    /\ \A s \in McpServers \ mixed :
          sess[s] # 0 /\ Working(s) = {} => spawned[sess[s]].cred = secret[s]

(* After the teardown none of the children it found registered runs,       *)
(* whatever the tasks in flight connected, closed or replaced meanwhile.   *)
TeardownIsComplete == mcpHost = "cleared" => living \cap snapshot = {}

(* The MCP host (mcp_adapter.py) calls no tool over a closed transport     *)
(* before it shuts down, and loses no child process but those of cancelled,*)
(* raised, late and overlapping connects.                                  *)
ServersAreTracked == SessionIsLive /\ ChildrenAreOwned /\ TeardownIsComplete
=============================================================================
