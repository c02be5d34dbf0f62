------------------------------ MODULE Sandbox ------------------------------
(***************************************************************************)
(* Where a command runs (core/sandbox.py, with the guard chain of          *)
(* tools/execution_tools.py in front): the trusted devcontainer tier, its  *)
(* fallbacks, the resolved oracle tier, and the pool of Docker containers  *)
(* leased per (mount root, session), behind the daemon breaker.            *)
(*                                                                         *)
(* The pool's lock is held across every Docker call of acquire, so one     *)
(* acquire is one step whose outcome is chosen: each of its calls may      *)
(* succeed, fail or be cut short by a cancellation while its thread goes   *)
(* on.  A waiter gives the lock up, and takes it again in a later step.    *)
(***************************************************************************)
EXTENDS Integers, Sequences, FiniteSets, Queues

CONSTANTS
    Jobs,           \* activations of a tool
    Workloads,      \* the kind and the session of each job, a set of choices
    Sessions,       \* including Shared, the key of a job with no session
    Shared,         \* "__shared__"
    RootOf,         \* the mount root each session resolves to
    Tiers,          \* tiers the startup probe may settle on
    MaxContainers,  \* SANDBOX_MAX_CONTAINERS
    MaxQueued,      \* SANDBOX_MAX_QUEUED
    MaxMade,        \* bound: containers started for one key
    None

\* A bash tool call, a type check, an oracle run and an interactive shell.
JobKinds == {"bash", "check", "oracle", "shell"}

\* A container is leased under its key; the number tells its creations apart.
Leases == Sessions \X (1..MaxMade)

SandboxBounds ==
    /\ IsFiniteSet(Jobs)
    /\ Workloads \subseteq [Jobs -> [kind : JobKinds, session : Sessions]]
    /\ Shared \in Sessions
    /\ Tiers \subseteq {"DOCKER", "WASM", "NATIVE_HITL"}
    /\ MaxContainers \in Nat \ {0} /\ MaxQueued \in Nat \ {0} /\ MaxMade \in Nat \ {0}
    /\ None \notin Jobs /\ None \notin Leases

VARIABLES
    tier,           \* ACTIVE_TIER
    work, stage,    \* what each job is, and where
    runs,           \* history: times the job's command was started
    lease,          \* the lease a job holds, or None
    closing,        \* release tasks scheduled by a shell's on_close
    provisioned, provisioner,   \* _provisioned, and the job inside _provision_lock
    pool,           \* _leases, the least recently used first
    ref,            \* refcount of each lease object
    made,           \* history: containers started for each key
    live,           \* containers that exist
    queue, roused,  \* _queue, and the waiters whose wait() has been notified
    breaker,        \* _daemon_breaker
    restarts        \* bound: restarts of the backend

jobs == <<tier, work, stage, runs, lease, closing>>
host == <<provisioned, provisioner>>
docker == <<pool, ref, made, live, breaker>>
waiters == <<queue, roused>>
vars == <<jobs, host, docker, waiters, restarts>>

Init ==
    /\ tier \in Tiers /\ work \in Workloads
    /\ stage = [j \in Jobs |-> "idle"] /\ runs = [j \in Jobs |-> 0]
    /\ lease = [j \in Jobs |-> None] /\ closing = [j \in Jobs |-> 0]
    /\ provisioned = FALSE /\ provisioner = None
    /\ pool = <<>> /\ ref = [l \in Leases |-> 0]
    /\ made = [s \in Sessions |-> 0] /\ live = {}
    /\ queue = <<>> /\ roused = {} /\ breaker = "closed" /\ restarts = 0

To(j, st) == stage' = [stage EXCEPT ![j] = st]

\* Jobs that hold a lease they have yet to give back.
Borrowers(l) == {j \in Jobs : lease[j] = l}

-----------------------------------------------------------------------------
(* The daemon breaker (_DaemonBreaker): two failures in a row open it, the  *)
(* cooldown lets calls through again, and one more failure reopens it.      *)

Failed(b) == IF b = "closed" THEN "shaky" ELSE "open"

Cooldown ==
    /\ breaker = "open" /\ breaker' = "half"
    /\ UNCHANGED <<jobs, host, pool, ref, made, live, waiters, restarts>>

-----------------------------------------------------------------------------
(* The pool (_ContainerPool).  The operators return the set of outcomes of  *)
(* a sequence of Docker calls, as values of D.                              *)

D == [pool |-> pool, made |-> made, live |-> live, breaker |-> breaker]

OfKey(d, s) == {l \in Elements(d.pool) : l[1] = s}
Idle(d) == {l \in Elements(d.pool) : ref[l] = 0}
HasCapacity(d) == Len(d.pool) < MaxContainers
HasCapacityOrIdle(d) == HasCapacity(d) \/ Idle(d) # {}

\* The least recently used of a non-empty set of pooled leases.
Oldest(d, X) ==
    d.pool[CHOOSE i \in 1..Len(d.pool) :
             d.pool[i] \in X /\ \A h \in 1..(i - 1) : d.pool[h] \notin X]

\* Leases E leave the pool and their containers are torn down, best effort: a
\* failed stop and remove leave the container and open the breaker, an
\* application error leaves it and the breaker alone.
Teardown(d, E) ==
    LET forget == [d EXCEPT !.pool = Without(@, E)]
    IN  IF E = {} \/ d.breaker = "open" THEN {forget}
        ELSE {[forget EXCEPT !.live = @ \ E, !.breaker = "closed"]}
             \cup {[forget EXCEPT !.live = @ \ G, !.breaker = "open"] :
                     G \in (SUBSET E) \ {E}}
             \cup {[forget EXCEPT !.live = @ \ G] : G \in (SUBSET E) \ {E}}

\* _reap_expired_idle_locked: the idle leases past their TTL, oldest first.
Reap(d) ==
    UNION {Teardown(d, {l \in Idle(d) : \E i \in 1..n : d.pool[i] = l}) :
             n \in 0..Len(d.pool)}

\* _evict_one_idle_locked.
Evict(d) == Teardown(d, {Oldest(d, Idle(d))})

\* _create_locked and _create_lease_container: a container of the same name is
\* removed first.  On a fault nothing is leased; the old container may be gone,
\* and a call cut off by its time limit or a cancellation may still start one.
Created(d, s) ==
    LET l == <<s, d.made[s] + 1>>
        cleared == {c \in d.live : c[1] # s}
    IN  IF d.breaker = "open" \/ d.made[s] = MaxMade THEN {}
        ELSE {[d EXCEPT !.pool = Append(Without(@, OfKey(d, s)), l),
                        !.made[s] = @ + 1, !.live = cleared \cup {l},
                        !.breaker = "closed"]}

CreateFaults(d, s) ==
    LET l == <<s, d.made[s] + 1>>
        cleared == {c \in d.live : c[1] # s}
        faulted == [d EXCEPT !.breaker = Failed(@)]
    IN  IF d.breaker = "open" THEN {d}
        ELSE {faulted, [faulted EXCEPT !.live = cleared]}
             \cup (IF d.made[s] = MaxMade THEN {}
                   ELSE {[e EXCEPT !.made[s] = @ + 1, !.live = cleared \cup {l}] :
                           e \in {faulted, d}})

Becomes(d) ==
    /\ pool' = d.pool /\ made' = d.made /\ live' = d.live /\ breaker' = d.breaker

\* What the caller does once it has its lease.
Leased(j) == IF work[j].kind = "shell" THEN "attach" ELSE "leased"

\* The lease is new (refcount 1) or taken once more and most recently used.
Grant(j, d, l) ==
    /\ Becomes([d EXCEPT !.pool = Append(Without(@, {l}), l)])
    /\ ref' = [ref EXCEPT ![l] = @ + 1]
    /\ lease' = [lease EXCEPT ![j] = l]
    /\ To(j, Leased(j))

\* SandboxDaemonTimeout or SandboxResourceExhausted: a degrade sentinel.
Refuse(j, d) ==
    /\ Becomes(d) /\ To(j, "ended") /\ UNCHANGED <<ref, lease>>

Create(j, d) ==
    LET s == work[j].session
    IN  \/ \E e \in Created(d, s) : Grant(j, e, e.pool[Len(e.pool)])
        \/ \E e \in CreateFaults(d, s) : Refuse(j, e)

\* Mutant: the exhausted pool lends any lease.
ShareOrRaiseAny(j, d) ==
    LET X == Elements(d.pool)
    IN  IF X = {} THEN Refuse(j, d) ELSE Grant(j, d, Oldest(d, X))

\* _share_or_raise_locked: only a lease mounted at the same root is shared.
ShareOrRaise(j, d) ==
    LET X == {l \in Elements(d.pool) : RootOf[l[1]] = RootOf[work[j].session]}
    IN  IF X = {} THEN Refuse(j, d) ELSE Grant(j, d, Oldest(d, X))

\* The end of acquire, after the fast path and after the wait.
TakeRoom(j, d) ==
    IF HasCapacity(d) THEN Create(j, d)
    ELSE \E e \in Evict(d) : Create(j, e)

\* acquire when the key has a live lease.
Reacquire(j) ==
    \E l \in OfKey(D, work[j].session) :
        \/ breaker # "open" /\ l \in live
           /\ Grant(j, [D EXCEPT !.breaker = "closed"], l) /\ UNCHANGED waiters
        \/ Refuse(j, [D EXCEPT !.breaker = Failed(@)]) /\ UNCHANGED waiters

\* The state in which the slow path begins: no lease under the key, or its
\* container vanished and the entry is dropped.
Lookup(s) ==
    IF OfKey(D, s) = {} THEN {D}
    ELSE {[D EXCEPT !.pool = Without(@, {l})] :
            l \in {l \in OfKey(D, s) : breaker # "open" /\ l \notin live}}

Acquire(j) ==
    /\ stage[j] = "acquire"
    /\ \/ Reacquire(j)
       \/ \E c \in Lookup(work[j].session) : \E d \in Reap(c) :
            \/ /\ HasCapacityOrIdle(d)
               /\ TakeRoom(j, d) /\ UNCHANGED waiters
            \/ /\ ~HasCapacityOrIdle(d) /\ Len(queue) >= MaxQueued
               /\ Refuse(j, d) /\ UNCHANGED waiters
            \/ /\ ~HasCapacityOrIdle(d) /\ Len(queue) < MaxQueued
               /\ Becomes(d) /\ To(j, "queued")
               /\ queue' = Append(queue, j) /\ UNCHANGED <<ref, lease, roused>>
    /\ UNCHANGED <<tier, work, runs, closing, host, restarts>>

\* The finally block of the wait: the ticket goes, and everyone is woken.
LeaveQueue(j) ==
    /\ queue' = Without(queue, {j})
    /\ roused' = Elements(queue) \ {j}

\* A notified waiter has the lock again and evaluates its predicate.
Resume(j) ==
    /\ stage[j] = "queued" /\ j \in roused
    /\ IF queue[1] = j /\ HasCapacityOrIdle(D)
       THEN LeaveQueue(j) /\ TakeRoom(j, D)
       ELSE /\ roused' = roused \ {j}
            /\ UNCHANGED <<queue, stage, lease, docker>>
    /\ UNCHANGED <<tier, work, runs, closing, host, restarts>>

\* SANDBOX_LEASE_WAIT_S is over, even for a waiter that was just notified.
WaitTimeout(j) ==
    /\ stage[j] = "queued"
    /\ LeaveQueue(j) /\ ShareOrRaise(j, D)
    /\ UNCHANGED <<tier, work, runs, closing, host, restarts>>

\* release: the lease object may have left the pool meanwhile.
Release(j) ==
    LET l == lease[j]
    IN  /\ ref' = [ref EXCEPT ![l] = IF @ = 0 THEN 0 ELSE @ - 1]
        /\ pool' = IF l \in Elements(pool) THEN Append(Without(pool, {l}), l) ELSE pool
        /\ roused' = Elements(queue)
        /\ UNCHANGED <<made, live, breaker, queue>>

-----------------------------------------------------------------------------
(* One-shot commands in a container (DockerSandboxAdapter.execute)          *)

\* The exec starts, or the daemon fails before or while it is dispatched.
ExecStart(j) ==
    /\ stage[j] = "leased"
    /\ \/ /\ breaker # "open" /\ breaker' = "closed"
          /\ runs' = [runs EXCEPT ![j] = @ + 1] /\ To(j, "exec")
       \/ /\ breaker' = IF breaker = "open" THEN "open" ELSE Failed(breaker)
          /\ UNCHANGED runs /\ To(j, "releasing")
    /\ UNCHANGED <<tier, work, lease, closing, host, pool, ref, made, live, waiters, restarts>>

\* It ends with an exit status, its own time limit included, or the daemon
\* stops answering.
ExecEnd(j) ==
    /\ stage[j] = "exec"
    /\ breaker' \in {"closed", Failed(breaker)}
    /\ To(j, "releasing")
    /\ UNCHANGED <<tier, work, runs, lease, closing, host, pool, ref, made, live, waiters, restarts>>

ExecRelease(j) ==
    /\ stage[j] = "releasing"
    /\ Release(j) /\ To(j, "ended") /\ lease' = [lease EXCEPT ![j] = None]
    /\ UNCHANGED <<tier, work, runs, closing, host, restarts>>

-----------------------------------------------------------------------------
(* Interactive shells (DockerSandboxAdapter.open_session)                   *)

\* The exec socket is created and the session starts, or either fails and
\* _release_once schedules the release.
Attach(j) ==
    /\ stage[j] = "attach"
    /\ \/ /\ breaker # "open" /\ breaker' = "closed"
          /\ runs' = [runs EXCEPT ![j] = @ + 1]
          /\ To(j, "shell") /\ UNCHANGED closing
       \/ /\ breaker' = IF breaker = "open" THEN "open" ELSE Failed(breaker)
          /\ closing' = [closing EXCEPT ![j] = 1]
          /\ To(j, "ended") /\ UNCHANGED runs
    /\ UNCHANGED <<tier, work, lease, host, pool, ref, made, live, waiters, restarts>>

\* Teardown closes the backend twice; on_close fires once.
CloseShell(j) ==
    /\ stage[j] = "shell"
    /\ closing' = [closing EXCEPT ![j] = 1] /\ To(j, "ended")
    /\ UNCHANGED <<tier, work, runs, lease, host, docker, waiters, restarts>>

\* The release scheduled on the loop.
ShellRelease(j) ==
    /\ closing[j] = 1
    /\ Release(j)
    /\ closing' = [closing EXCEPT ![j] = 0] /\ lease' = [lease EXCEPT ![j] = None]
    /\ UNCHANGED <<tier, work, stage, runs, host, restarts>>

-----------------------------------------------------------------------------
(* Routing (run_guarded_command, resolve_execution_adapter and the          *)
(* adapters' execute)                                                       *)

\* Where the resolved tier takes a command.
Oracle(j) ==
    CASE tier = "DOCKER" -> "acquire"
      [] tier = "WASM" -> "wasm"
      [] tier = "NATIVE_HITL" -> IF work[j].session = Shared THEN "ended" ELSE "card"

\* Trusted work of a live session goes to the devcontainer.
Route(j) ==
    IF work[j].kind \in {"bash", "check"} /\ work[j].session # Shared
    THEN "provision" ELSE Oracle(j)

\* A devcontainer that is unavailable before the command ran: consent-gated
\* host execution, or the oracle tier for a check that must not ask.
FallBack(j) == IF work[j].kind = "bash" THEN "card" ELSE Oracle(j)

Step(j, from, to) ==
    /\ stage[j] = from /\ \E st \in to : To(j, st)
    /\ UNCHANGED <<tier, work, runs, lease, closing, docker, waiters, restarts>>

\* The permission verdict: refused, sent to the operator, or let through; the
\* dangerous patterns refuse what is left.  Shells exist in the Docker tier.
Start(j) ==
    /\ Step(j, "idle",
            CASE work[j].kind = "bash" -> {"ended", "gate", Route(j)}
              [] work[j].kind = "shell" -> IF tier = "DOCKER" THEN {"acquire"} ELSE {"ended"}
              [] OTHER -> {Route(j)})
    /\ UNCHANGED host

\* The operator's answer, or none in time.
Gate(j) ==
    /\ Step(j, "gate", {"ended", Route(j)})
    /\ UNCHANGED host

\* _ensure_provisioned: single flight behind its lock.
EnterProvision(j) ==
    /\ stage[j] = "provision" /\ provisioner = None
    /\ \/ ~provisioned /\ To(j, "up") /\ provisioner' = j /\ UNCHANGED runs
       \/ /\ provisioned /\ To(j, "host") /\ UNCHANGED provisioner
          /\ runs' = [runs EXCEPT ![j] = @ + 1]
    /\ UNCHANGED <<tier, work, lease, closing, provisioned, docker, waiters, restarts>>

\* The host is ready, and stays so for the process; or it failed or took too
\* long, which is not remembered.
Provisioned(j) ==
    /\ stage[j] = "up" /\ provisioner' = None
    /\ \/ /\ provisioned' = TRUE /\ To(j, "host")
          /\ runs' = [runs EXCEPT ![j] = @ + 1]
       \/ /\ To(j, FallBack(j)) /\ UNCHANGED <<provisioned, runs>>
    /\ UNCHANGED <<tier, work, lease, closing, docker, waiters, restarts>>

\* exec_command answers, or its time runs out: no fallback from here.
HostExec(j) ==
    /\ Step(j, "host", {"ended"})
    /\ UNCHANGED host

\* NativeHITLSandboxAdapter: the card, then a subprocess on the host.
Card(j) ==
    /\ stage[j] = "card"
    /\ \/ To(j, "native") /\ runs' = [runs EXCEPT ![j] = @ + 1]
       \/ To(j, "ended") /\ UNCHANGED runs
    /\ UNCHANGED <<tier, work, lease, closing, host, docker, waiters, restarts>>

\* The process ends, or is killed and reaped at its time limit.
Native(j) ==
    /\ Step(j, "native", {"ended"})
    /\ UNCHANGED host

\* WasmSandboxAdapter: refused by the load or scope checks, or run on fuel.
Wasm(j) ==
    /\ stage[j] = "wasm" /\ To(j, "ended")
    /\ runs' \in {runs, [runs EXCEPT ![j] = @ + 1]}
    /\ UNCHANGED <<tier, work, lease, closing, host, docker, waiters, restarts>>

-----------------------------------------------------------------------------
(* Faults                                                                   *)

\* Stop.  A waiter leaves its queue, a command in a container still gives its
\* lease back, the provisioning lock is released; a job that is already waiting
\* for the pool's lock to give the lease back drops the release.
Cancel(j) ==
    /\ \/ /\ stage[j] \in {"gate", "provision", "up", "host", "card", "native", "acquire"}
          /\ To(j, "ended")
          /\ provisioner' = IF provisioner = j THEN None ELSE provisioner
          /\ UNCHANGED <<lease, waiters>>
       \/ /\ stage[j] = "queued" /\ LeaveQueue(j) /\ To(j, "ended")
          /\ UNCHANGED <<lease, provisioner>>
       \/ /\ stage[j] \in {"leased", "exec"} /\ To(j, "releasing")
          /\ UNCHANGED <<lease, provisioner, waiters>>
       \/ /\ stage[j] = "releasing"
          /\ \E k \in Jobs \ {j} : stage[k] = "acquire"
          /\ To(j, "ended") /\ lease' = [lease EXCEPT ![j] = None]
          /\ UNCHANGED <<provisioner, waiters>>
    /\ UNCHANGED <<tier, work, runs, closing, provisioned, docker, restarts>>

\* Somebody removes a container, or the daemon restarts.
Vanish(l) ==
    /\ l \in live /\ live' = live \ {l}
    /\ UNCHANGED <<jobs, host, pool, ref, made, breaker, waiters, restarts>>

\* The backend goes down, draining its pool or not, and starts again: the
\* sweep removes what no live backend owns, unless the daemon fails it or the
\* containers carry this process's own port.
Restart ==
    /\ restarts = 0 /\ restarts' = 1
    /\ stage' = [j \in Jobs |-> IF stage[j] = "idle" THEN "idle" ELSE "ended"]
    /\ lease' = [j \in Jobs |-> None] /\ closing' = [j \in Jobs |-> 0]
    /\ provisioned' = FALSE /\ provisioner' = None
    /\ pool' = <<>> /\ ref' = [l \in Leases |-> 0]
    /\ live' \in SUBSET live /\ breaker' = "closed"
    /\ queue' = <<>> /\ roused' = {} /\ tier' \in Tiers
    /\ UNCHANGED <<work, runs, made>>

\* What the loop, the time limits and the answers of daemon, host and operator
\* (or their absence) make of a job that is left alone.
Advance(j) ==
    \/ Gate(j) \/ EnterProvision(j) \/ Provisioned(j) \/ HostExec(j)
    \/ Card(j) \/ Native(j) \/ Wasm(j)
    \/ Acquire(j) \/ WaitTimeout(j)
    \/ ExecStart(j) \/ ExecEnd(j) \/ ExecRelease(j)
    \/ Attach(j) \/ ShellRelease(j)

Next ==
    \/ \E j \in Jobs :
         \/ Start(j) \/ Advance(j) \/ Resume(j) \/ CloseShell(j) \/ Cancel(j)
    \/ \E l \in Leases : Vanish(l)
    \/ Cooldown \/ Restart

Spec == Init /\ [][Next]_vars

-----------------------------------------------------------------------------
(* Properties                                                               *)

\* A lease in the pool counts every job that still uses it, through sharing,
\* vanished containers, cancelled waits, failed opens and doubled closes: the
\* idle test of eviction and reaping never picks a container in use.
NeverEvictedInUse ==
    \A l \in Elements(pool) : ref[l] >= Cardinality(Borrowers(l))

\* A command or a shell only ever runs in a container mounted at its own root.
RunsAtItsOwnRoot ==
    \A j \in Jobs : lease[j] # None => RootOf[lease[j][1]] = RootOf[work[j].session]

\* While a container is idle, the head of the admission queue has been woken:
\* through releases, cancelled and timed-out waiters, failed creations and
\* newcomers, no admission waits for its time limit beside an idle container.
HeadIsWoken ==
    queue # <<>> /\ Idle(D) # {} => queue[1] \in roused

\* A command is started at most once, whatever tier fails it over to another.
RunsOnce == \A j \in Jobs : runs[j] <= 1

\* The container pool never evicts a container in use, every command runs at its
\* own mount root and at most once, and no admitted waiter is left asleep beside
\* an idle container.
PoolIsSafe == NeverEvictedInUse /\ RunsAtItsOwnRoot /\ HeadIsWoken /\ RunsOnce

=============================================================================
