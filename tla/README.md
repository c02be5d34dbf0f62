# A TLA+ verification of the AILIENANT core

AILIENANT is a coding assistant: a VS Code extension talks over HTTP and a
WebSocket to a Python core (`src/ailienant-core`), which runs each request of a
chat session as a LangGraph graph of agents on a checkpointed thread. This
directory holds TLA+ models of the core, TLC configurations that check them on
small instances, and TLAPS proofs of the safety properties of most parts: the
mission loop, the session runner, the subagent dispatch, the link to the editor,
the agentic cell, the model gateway, the sandbox, terminals, background commands,
MCP servers, the boundary graph, the index, the read firewall, the snapshot, the
tools, the background passes, the interview, the companion's cache and the streams.

Paths below are relative to `src/ailienant-core`. `PROJECT.json` maps every
definition to the lines it translates, and lists the runs, the mutants, the
hazards, the findings and the theorems.

## 1. Inventory

| part | state it keeps | operations | hard about it | module |
|---|---|---|---|---|
| mission graph (`brain/engine.py`, `guardrails.py`, `state.py`), coder and self-heal, apply gate, budget and checks gates | channels with reducers on the session's thread: plan, statuses, staged artifacts, envelope, ledgers, counters | plan, dispatch, draft, heal, prepare, ask, write, run, validate, end | channels outlive the turn; effects are not undone by a cancellation; loops must end | `Mission` |
| session runner (`core/task_service.py`, `main.py`), hybrid checkpointer | registries of tasks, pauses and steering; thread in memory and on disk | submit, resume, stop, steer, reopen, callbacks, promote, recover | handlers, tasks and callbacks interleave at every await; a restart loses the registries | `Session` |
| subagent dispatch (`brain/dispatch*.py`, `brain/nodes`) | plan, wave and round counters, envelopes and watermark, reservation | emit, admit, fan out, join, advance, synthesise | parallel branches join at one gate; money is reserved, settled and refunded apart | `Dispatch` |
| link to the editor host (`api/websocket_manager.py`, `core/write_pipeline.py`, `api/devcontainer_bridge.py`) | routes, aliases, pending events, results, output buffers | connect, alias, ask, wait, answer, time out, disconnect, reap | sockets drop and close late; answers are lost, late or repeated | `Link`, `Request` |
| agentic cell (`brain/agentic_cell.py`, `core/workspace_sync.py`) | edits of the iteration, deferred calls, shell, iteration count | reason, gate, defer, run, pull, edit, decide | three copies of the files; approvals cross iterations | `Cell` |
| model calls (`tools/llm_gateway.py`, `core/resource_manager.py`) | lock on the local model, concurrency gate, usage ledger | acquire, ask, retry, fail over, stall, release | lost wake-ups; four ways of repeating a request | `Gateway` |
| sandbox (`core/sandbox.py`) | tier, container pool, leases, queue, breaker | acquire, share, evict, run, release, reap | counts under cancellation and doubled closes | `Sandbox` |
| terminals (`core/pty_session.py`, `core/command_boundary.py`) | byte queues, pending commands, flow state | run, emit, demultiplex, time out, tear down | matching codes to commands after a timeout | `Shell` |
| background commands (`tools/execution_tools.py`) | task table, processes | create, watch, stop | a stop against the watcher | `Background` |
| MCP servers (`tools/mcp_adapter.py`, `api/mcp_servers.py`) | rows, secrets, sessions, exit stacks | connect, call, edit, disconnect, shut down | awaits between check and update | `Servers` |
| boundary graph (`core/boundary_graph.py`) | edges, shared futures | query, scan, settle | one failure must reach every waiter | `Boundary` |
| index (`core/indexer.py`, `io_coalescer.py`, `janitor.py`, `core/memory/semantic_memory.py`) | debounce window, flights, three stores | save, flush, index, crawl, backfill, clean | coalescing against an older pass | `Index` |
| code graph (`brain/memory.py`, `core/blast_radius.py`, `dead_code.py`, `symbol_refs.py`) | import rows, labels | index, purge, analyse, query | resolution by suffix in any order of indexing | `Codegraph` |
| edits (`agents/coder.py`, `core/patcher.py`, `tools/patch_tool.py`, `PatchActuator.ts`) | buffers, drafts, base hashes | parse, apply, card, write | the user types meanwhile | `Edits` |
| read firewall (`core/rules.py`, `core/vfs_middleware.py`) | rule cache, ignore patterns | load, compile, read | one cache for all projects | `Firewall` |
| snapshot (`core/memory_snapshot.py`) | committed artifact | export, import | two tables read apart | `Snapshot` |
| streams (`core/task_service.py`, `agents/inline_edit.py`, `transport/token_batcher.py`) | registries, memory, buffers | start, delta, cancel, replace, end | cancellation at any delta | `Streams` |
| endpoint, daemon, project init, lifecycle manager | sockets, epochs, passes, purge timers | dial, save, dream, abort, purge, shut down | a pass overtaken by a save | `Endpoint` |
| ideation (`brain/ideation.py`, `agents/analyst.py`) | pending batch and brief, rounds | ask, fold, compose, review, hand over | nodes are replayed on resume | `Ideation` |
| planner (`agents/planner.py`, `brain/context_pipeline.py`, `tools/planner_tools.py`) | plan cache, retries, windows | assemble, probe, draft, validate, commit | cache key against what the plan depends on | `Planning` |
| tools (`core/tool_rag.py`, `tool_registry.py`, `tool_dispatch.py`, `deferred_tool_loader.py`) | tool store, trust | register, select, gate, run | registrations interleave; trust outlives a task | `Toolbox` |
| companion (`brain/coder_companion.py`, `core/response_cache.py`) | cache with reverse index | emit, build, cache, invalidate | three tables move together | `Companion` |
| model settings (`api/byom.py`, `core/config`, `core/config_generator.py`) | settings file, caches, generated configuration | patch, save, apply, resolve, probe | several awaits between read and write | `Settings` |

How they meet: `main.py` admits a submit and spawns a task that `TaskService`
registers; the task streams the graph; a node that needs the human calls
`interrupt()`, the runner registers a pause and ends; the reply, which comes in
over the link, spawns a task that re-enters the same thread. The planner and the
researcher may divert the graph through the dispatch subgraph. The mission loop
hands each step to the coder or to the cell, and the result to the apply gate,
which writes through the link. Every agent calls the models through the gateway;
commands run in the sandbox or in a terminal session; saves of the user feed the
index, the code graph and the background passes.

What makes each part correct is stated in section 3, property by property.

## 2. Modules

Three modules are the spine and are modelled with their history over several
turns.

`Mission` models the graph from the plan to the end of the turn, and a session
as a sequence of turns on one thread. A node is an action, or a few actions
split by how the node returns. Each variable that is a channel has the channel's
reducer: `WriteCurrent` keeps the maximum (`_resolve_step_id`), `applied` only
grows (`operator.add`, which makes the empty list of the seed a no-op), `files`
and `command` are updated per step and never cleared (`operator.or_`). A turn
may start from any state the previous one left (`SeedTurn`), be aborted at any
await (`Abort`), also between an effect and the node's return
(`CancelledAfterEffect`), or be paused on a card. The text of patches and
commands is abstracted to the turn that drafted them.

`Session` models one session of `TaskService`. An action is the code between two
suspension points of asyncio. `thread` and `durable` are the two levels of the
checkpointer, reduced to whether the head is live, idle or waiting on an
interrupt. The callback that tears down a shell schedules a task whose first
step drops the registry entry; the ready queue of the event loop is first in,
first out, so a successor spawned later cannot come before it, and the model
makes the two one action.

`Dispatch` models the subagent dispatch over several turns. An action is one
super-step, in which the parallel workers of a wave commit together. Worker
outcomes and plans are constants; money is counted in units.

`Link` models `ConnectionManager`: sockets, the routing table with its session
aliases, and the four tables of pending events (approvals, patch
acknowledgements, provisioning and commands of a dev container), with the
callers that wait in them and the receive loop. `Request` is the abstract
specification: a request is asked once, settles once, with an answer given to it
or with none, and does settle. `Link` implements it: `Abstract` is the instance
with the refinement mapping, `ImplementsRequest` the property. The approvals of
paused graphs, which wait on the checkpoint and not in a table, are mapped to
requests that are never asked.

`Cell` models one visit of the mission to `run_agentic_cell_node`, phase by
phase. The content of a file is the set of edits it contains, so that a lost edit
shows. `Gateway` composes the lock of `ResourceBroker` with the request paths of
`LLMGateway` and two of its clients.

The other modules model one part each, as the table says; the comment at the head
of each names its abstractions. Text is a sequence of lines with a form (`Edits`),
a path is a sequence of names (`Codegraph`, `Planning`), a size is a small number
(`Shell`, `Planning`), and a model's reply is a free choice. The algorithms among
them are operators and are checked against a reference definition: the blast
radius against chains of imports (`RadiusIsExact`), import resolution against what
a statement means in its language (`ImportersAreCounted`), the patch passes
against locality (`EditIsLocal`), the reverse index of the cache against its
definition (`CacheIndexIsExact`).

`MCMission`, `MCSession`, `MCDispatch`, `MCLink`, `MCCell` and `MCGateway` hold
instances. `MCWorkspace` and `MCDialogue` are disjoint sums: their parts share no
variable (different Python modules with their own tables, which meet only through
values that each model leaves free), so the interleaving of two of them has no
state that one of them alone does not have. The initial state chooses the part in
focus; only that part moves. The sums extend the parts about which there are
theorems, whose variables stay as they are while another part is in focus, so that
the property a run checks is the very definition that is proved. The two other parts
of `MCWorkspace`, `Codegraph` and `Edits`, are instances whose variables are held in
slots (`v1`, `v2` and so on), and whose properties speak of the part in focus. The run explores the union of the state spaces where the product would
add nothing. `MCEdits` and `MCPlanning` hold the instances of two findings.

`Queues` has the two operators on queues filtered in place that `Sandbox` and
`Index` share.

Definitions introduced as "mutant" or "faulty variant" are used by no
specification: each is a plausible mistake in the code, substituted for the
definition after it to see that a property notices.

The spine's modules meet at assumptions: `Session` treats a run as something that
ends or pauses, which `TurnConcludes` of `Mission` justifies; `Mission` assumes
one runner on the thread, which `RunnerIsTracked` of `Session` states; `Mission`
takes the outcome of a write (landed, refused, unacknowledged) as free, which is
what `Request` leaves; `Cell` is one node of `Mission`, whose return `CellConcludes`
gives; `Planning` drafts under the lock of `Gateway`.

## 3. Runs

Passing runs, with what each property says:

- `mission_turn` (661 596 states): one turn over all plans of two read, file or
  command steps. `ApprovalProvenance`: an effect reserved for the human follows
  the approval of its own card. `ScheduleIsSound`: prerequisites first, and every
  step decided or blocked when the turn ends. `LoopsAreBounded`: revisions and
  corrections end by their own counters, before the recursion limit.
  `TurnConcludes`, under fairness.
- `mission_turns` (2.4 million): two turns at the deep effort with guardrail
  retries, cell steps, abandoned pauses, late replies, and a limit of one lap.
  `TypeOK`, `EffectAtMostOnce`, `StatusTellsTheTruth`.
- `session` (833 000): three tasks, two turns, one restart, one reopening, one
  steering message. `RunnerIsTracked`, `PauseMatchesThread`, `TurnsAreIsolated`
  (steering and teardown do not cross turns) and, under fairness,
  `NeverStuckBusy`.
- `dispatch` (439 000): two turns and two dispatches. `DispatchIsExact`: one
  estimate per admitted round, one report per task, each digested once, a charge
  for exactly the work up to the reservation. `DispatchRejoins`, under fairness.
- `link`: two connections, two requests of any pair of kinds, drops, late
  closes, timeouts, lost and repeated answers. `TablesFollowRequests`: a caller
  that waits in memory can be woken, a settled request leaves nothing in the four
  tables of pending events, and an answered command lost no output but what a
  socket took with it or its exit code overtook. `RoutesFollowSockets`, and
  `ImplementsRequest`, the refinement with its liveness. An approval asked without
  a time limit (`timeout_s=None`) settles when the human answers or the socket
  goes; its liveness rests on that.
- `cell`: two visits with two calls an iteration, three permission modes, both
  kinds of approver. `EditsOutliveTheSurface`, `DeferralIsSafe`, and
  `CellConcludes`, under fairness, with the shell closed; its liveness covers the
  native approver, the other waits for the human without a limit.
- `gateway`: planner and summarizer of two sessions and a third call.
  `LockIsSafe` (mutual exclusion, no lost wake-up), `AnsweredAndPaidOnce`, and
  `RequestsEnd`, under fairness.
- `workspace` (1.6 million): `PoolIsSafe`, `ShellStaysInStep`,
  `CancellationWins`, `ServersAreTracked`, `NoOrphanedWaiter`, `IndexIsExact`,
  `GraphAnswersAreExact`, `FirstDraftKeepsUserLines`, `CachedRulesAreTheirs`,
  `WarmStartMatches`, one for each of the ten parts.
- `dialogue` (1.8 million): `StreamsAreSound`, `PassesAreCurrent`,
  `AnswersMeetTheirQuestions` and `OnlyReviewedBriefs`, `PlansFitTheirTurn`,
  `ToolsKeepTheirGates`, `CacheIsSound`, `EngineFollowsTheChoice`.

Runs that show a disagreement between the code and what the repository says of
it; the findings in `PROJECT.json` quote the lines:

- `cell_approval`: the approval of a deferred call in the cell suspends nothing;
  the exception that should suspend the graph is taken for a fault and the cell
  concedes.
- `edits_lost`: a line typed between two steps on one file is overwritten by the
  second.
- `planning_gate`: the gate on a drafted plan validates a mission that is not
  there, and every draft passes.

What the properties of the parts leave out, beside the conditions below:

- `ServersAreTracked`: a session is registered over a closed child only while the
  host shuts down. `shutdown_mcp_sessions` awaits each exit stack with both tables
  still filled (`ShutdownBegins`, `ShutdownCloses`, `ShutdownClears`), and the host
  waits at most ten seconds for tasks in flight without cancelling them, so that a
  late connect registers a session whose child the teardown leaves running. Stop
  cancels the sweep at any of its awaits (`SweepCancelled`), where no handler closes
  the exit stack, and a connect may raise an exception that the handler of the
  handshake does not name: such a child is counted in `dropped` and has no owner.
- `IndexIsExact`: of every file whose last change an event told of and whose last
  pass was not disturbed (`spoiled`), the row, and what its bytes call for. A
  revision without imports is written over nothing and keeps the old edges, one
  below the embedding gate keeps the old vector and chunks.
- `GraphAnswersAreExact`: above `MAX_BLAST_EDGES` rows the radius is empty, like
  that of a file nobody imports, and the property says so and no more.
- `FirstDraftKeepsUserLines`: the fuzzy pass replaces a whole window that resembles
  the searched block by nine tenths. A line the user saved inside such a window
  while the model generated is replaced with it; the property allows the loss of
  the lines that were swallowed so (`swallowed`) and of no other.

Several passing properties are conditional, and say so: approvals on replies
delivered once (`MaxCopies`) to pauses that are not abandoned, the session's on
nothing overtaking a task just spawned (`Overlaps`), `SteeringIsScoped` on turns
that were closed, `DispatchIsExact` and `DispatchRejoins` on a plan dispatched in
the turn that emitted it, `ServersAreTracked` on connects of one server that do
not overlap (`mixed`) and on children whose own connect was not cancelled, raised or
late (`dropped`), `NoOrphanedWaiter` on tasks sharing the future not being
stopped, `IndexIsExact` on files whose last change was seen and whose last pass was
undisturbed (`unseen`, `spoiled`),
`CachedRulesAreTheirs` on callers that have not met in the cache (`overlapped`),
`EngineFollowsTheChoice` on writes that did not overlap or fail half-way
(`disturbed`), and of models only: API keys are not compared. The next section says
what happens without the condition.

## 4. Observed while modelling

Disagreements between code and comments that TLC reached when a condition above
was dropped or a stronger property tried, and that no listed run keeps:

- `main.py:1493`, "a duplicate reply is a harmless no-op": a reply is matched to the
  session's pause and never to its card, so that a second copy that arrives when the
  run has paused again answers the next card (`Mission` with `MaxCopies = 2`,
  `ApprovalProvenance`). The same holds for graph approvals in `Link`
  (`main.py:1495`): an answer goes to whatever pause the session has.
- `core/indexer.py:478`, "updates the dependency graph AND the vector store in one
  pass": a file whose last import is removed keeps its edges (line 538) and takes the
  new hash, so that nothing indexes it again until it changes (`Index`, with
  `Imports[c] =>` left out of `AgreesWithDisk`).
- `tools/mcp_adapter.py:519`, "re-invocation never spawns a duplicate stdio process":
  two connects of one server test the registry before either registers, and start
  two children; the second registration takes the first one's exit stack with it
  (`Servers`, with `mixed` left out of `ChildrenAreOwned`).
- `tools/patch_tool.py:93`: the fuzzy pass takes a window with a line the user has
  saved in the middle of it for the searched block and replaces it (`Edits`, with
  `swallowed` left out of `FirstDraftLands`).
- `tools/mcp_adapter.py:571`: a sweep cancelled during a handshake, or one that
  raises anything else, leaves its exit stack open and its child running.
- `core/blast_radius.py:147`: over the ceiling on rows the answer is that nobody
  depends on the file.
- `core/command_boundary.py:69`: a chunk that ends between the marker and its
  digits is emitted as output, and the exit code is lost (`Complete` of `Shell`).
- `brain/state.py:740`: `applied_step_ids` adds, so the seed does not reset it
  and a step of the next plan with the same number is skipped
  (`core/task_service.py:772` speaks of "turn-scoped ledgers").
- `brain/state.py:720`: files and commands staged by an aborted turn are prepared
  for the step of the same number of a later plan.
- `brain/guardrails.py:128`: a cell step never gets a status, and is dispatched
  until the recursion limit ("a non-advancing loop can never spin").
- `brain/apply_gate.py:541`: a step that fails the syntax or lint gate is marked
  failed and not redrafted ("so the coder gets the parser's own diagnostic").
- `main.py:860`: two replies handled before the first resume starts lead to a
  second runner on the checkpoint (`Session` with `Overlaps`).
- `core/task_service.py:1593`: an instruction queued for one turn is injected
  into the next when that one is admitted before the callbacks of the first.
- `brain/dispatch.py:52`: a plan left by a turn aborted after its last wave ends
  the next turn at an empty fan-out.
- `brain/state.py:412`: the merge of the file buffer keeps one of two concurrent
  versions, so an edit an iteration of the cell returned can be missing later.
- `agents/planner.py:687`: a Stop between the acquisition of the local model and
  the `try` that releases it keeps the lock for good.
- `main.py:1390` and `main.py:1912`: an exception in one frame handler ends the
  endpoint's loop with what it held; a stale socket's frames are still served.
- `api/byom.py:747`: two settings requests load, merge and save the whole file,
  and one of the changes is lost.
- `core/sandbox.py:533`: a lease is created for a key that got one while the
  caller waited.
- `core/io_coalescer.py:64`: the events of a window that is being flushed when
  the process stops are lost; `core/memory/semantic_memory.py:236`: chunks and
  file vector are replaced in two steps, and a reader meets one without the other.
- `core/task_service.py:754`: ideation channels of an abandoned turn are found by
  the next; `main.py:1644`: clearing a conversation while a stream runs leaves its
  answer in memory.
- `core/pty_session.py:288`: after a command timed out, the next ones get the
  codes of their predecessors.
- `core/blast_radius.py:65`, "over-count, never under-count": members of Python
  packages and relative Python imports are missed; `core/db.py:428`: labels of an
  analysis that overlaps a purge land on no row.
- `brain/coder_companion.py:601`: two points of one attempt share an emission id,
  and the later replaces the earlier.
- `core/rules.py:84`: patterns of a rule file that is not a list are dropped
  silently, and two callers can pair one file's key with another's patterns.
- `agents/planner.py:581`: the cache key of a plan leaves out rules, instructions
  and skills; `tools/planner_tools.py:269`: issues are capped before they are
  classified; `brain/context_pipeline.py:337`: the marker added to a truncated
  chunk is not counted; `tools/perception_tools.py:951`: the boundary graph is
  rebuilt only when it is empty.

## 5. Bounds

- `Mission`: two steps give every relation between two steps; two turns give a
  turn with leftovers of another; limits of one reach both sides of each limit.
  `MaxLaps` stands for the recursion limit of 150 super-steps; `mission_turn`
  gives three laps to two steps and one correction, the least the loop can need.
- `Session`: three tasks are a run, its resume or successor, and one more. The
  proofs cover any number.
- `Dispatch`: a width of three in waves of two has a full and a partial wave, two
  is exactly one wave; a budget of seven admits or refuses the second dispatch.
- `Link`: two connection ids and two sockets overlap in each way a reconnect can;
  two requests are needed for an answer to reach the wrong one.
- `Cell`: two visits, two calls and two edits give an edit before and after each
  deferral; one file suffices for every disagreement of its three copies.
- `Gateway`: two contenders and a third call for a gate of one slot; two drafts
  and two chunks reach a retry and a failure in the middle of a stream.
- `MCWorkspace`: one container for two mount roots and three jobs (full pool,
  sharing, eviction, refusal); three commands with queues of one to three (each
  full once); two managers and three stops; two servers and two coroutines with
  three requests and children, so that a sweep, a request and the teardown meet and
  one is cancelled; two tracers of one scan; two files and two revisions (large with
  an import, small without) with three events or disturbances; twenty workspaces of
  two to four files that cover the resolver of each language, with a ceiling of three
  rows, which some of them pass, and radii of depth 0 to 2 (`DEFAULT_DEPTH` is 3)
  over chains that the smaller depths cut off; two steps on one file and one typed
  line, light enough beside the others for the fuzzy pass to swallow it; two callers
  of two projects; two clones.
- `MCDialogue`: five runners, one of each kind and a retry; two windows on one
  project; three rounds, revisions and turns of ideation; two planners with one
  save between; a catalog in which one name is registered three times; a cache of
  one entry; two overlapping requests and three in all. One name fits a subagent's
  first selection (`TopK`), so that what it may call grows while it works; a search
  fetches three rows (`SearchLimit`, in the code the larger of 32 and four times `TopK`),
  fewer than the store has. Tasks run in five of the seven modes; the decision matrix
  has all seven, of which `CAUTIOUS` differs from `ASK_ALL` in what it says of reading
  only, and `FULL_AUTO` from `STANDARD` in what it says of dangerous tools only.

`CHECK_DEADLOCK` is off where a bound on events ends the behaviour (`Link`, `Cell`,
`Gateway`, the sums and the findings); in `Mission`, `Session` and `Dispatch`
it is on, and `Rest` lets the model stop where the session may.

## 6. Fairness

- `Mission`: weak fairness of the graph's steps (the event loop runs a task that
  is ready, and every await of a node is bounded by a timeout or cancelled) and of
  handling a reply that has reached the core. None for the human, for submits or
  for Stop.
- `Session`: weak fairness of each task's next step, of the clock that expires a
  pause, and of a rehydration under way. None for the client.
- `Dispatch`: weak fairness of the graph; a worker reports a failure as an
  envelope, so a wave always completes.
- `Link`: weak fairness of a caller's own step: it reaches its wait, wakes when its
  event is set, or times out (`asyncio.wait_for`). None for host or network.
- `Cell`: weak fairness of the node; every await in it is bounded by a timeout.
- `Gateway`: weak fairness of entering and leaving the semaphore's queue and of the
  time limits. None for providers, operator or lock.
- The sums state no fairness and no liveness.

## 7. Proofs

All for arbitrary values of the constants under the `ASSUME`s of the modules: types
of the constants, that bounds are numbers and sets of names finite. Where such an
assumption is stated by name in a theorem (`SandboxBounds`, `ToolboxAssumption`,
`EndpointAssumption`, `StreamsAssumption`) it is the module's own, which TLC
evaluates on the run. TLC checked each strengthening as an invariant before it was
proved.

`Mission_proofs`:

- `Invariance`, `TypeCorrect`: types, with the strengthening that a pause is at a
  node that raises one and, at the apply gate, has an unapplied envelope
  (`PauseInv`): without it a reply could resolve step 0.
- `EffectInvariance`, `AtMostOnce`, `HonestStatus`: that no step takes effect twice
  in a turn is not inductive. The strengthening ties the ledger to the effects:
  what landed in this turn is in `applied`, unless the run was cancelled before the
  node returned, and then the turn is over (`LedgerInv`); a live run is marked as
  running (`RunInv`). Steps that land nothing are handled together by one lemma
  (`QuietPreserves`), the effects by `LandPreserves`.
- `ApprovedByHuman`: with one delivery per reply and no abandoned pause, a reply in
  flight is the answer to the card on screen and the only one
  (`ReplyMatchesCard`), so that the effect it releases was approved.

- `ScheduledSoundly`, `LoopsEnd`: the schedule of one turn, under the hypothesis
  `OneTurn` (which the instance `mission_turn` meets): one turn, dependencies that
  point back in the list, as the planner's schema asks, no cell steps, no guardrail
  retries, and a recursion limit with a lap for every step and every correction. The
  number of steps, the limits and the copies of a reply are free. The invariant
  (`ScheduleInv`) says that every step taken is the next in list order and all before
  it are decided or blocked (`InOrder`), where a run may be with it (`InPlace`), that
  every lap since the last reply has decided a step or spent a correction
  (`LapsArePaid`), and that the rounds of a step are counted in the channel but for
  the one under way (`RoundsInv`). Leftovers of another turn, a guardrail retry and a
  cell step each break it, as section 4 reports.

`Session_proofs`, when nothing overtakes a task just spawned (`~Overlaps`; section
4 says what happens otherwise):

- `Tracked`, `PauseAgrees`. The invariant: a task that has the graph or is about to
  have it is the registered one; while a pause is armed only its resume may be
  queued; a task about to register a pause left the thread interrupted; a
  rehydration is alone. The first is what the identity check in the done callback
  preserves.
- `Isolated`: the invariant half of `TurnsAreIsolated` needs that queued messages
  have an owner, a registered task or a pause (`QueueHasOwner`), and were sent to
  the turn that is open (`QueueIsCurrent`); the action half, that a callback closes
  no shell in use, follows from `Tracked`'s invariant.

`Gateway_proofs`:

- `LockSafe`: mutual exclusion is not inductive by itself, since the broker releases
  by session and not by call. The strengthening: calls of one session that go
  through the broker follow each other (`OneAtATime`), whoever believes to hold the
  lock is past the broker's decision (`HolderIsUnderWay`), and only brokered calls
  wait (`WaitersAreBrokered`).
- `PaidOnce`: the four ways of repeating a request exclude each other because of
  where each is allowed (`WellFormed`: which entry points fall over, which may carry
  optional parameters, and how often a request in each phase was sent); the ledger
  follows the phase (`Booked`). `GateInv` says who stands in the concurrency gate.

`Link_proofs`:

- `RoutesFollow`: inductive with the types.
- `TablesFollow`: what the four tables say of a request in each of its phases
  (`Tabled`), and, for the output of commands, that every chunk was collected, was
  lost with its socket or is still on its way (`Balanced`). The step that needs most
  care is a closed socket, which takes the frames of several commands with it.
- `RefinesRequest`: the initial states and the steps of `Link` are those of
  `Request`. A result in a table and an answer in a channel were given by the host
  to that request (`AnswerInv`), so that a caller is told nothing else.

`Dispatch_proofs`: `ExactBooks`. While a dispatch is on course each report that is
due is in the channel exactly once, past the watermark (`ReportInv`), the charge is
the reservation of the round (`LedgerInv`), and envelopes belong to a dispatch that
exists (`EnvelopesAreOwned`). `TotalCost` sums over the positions past the watermark
as a recursive function; that its value is a number (`BillIsNumber`) is an induction
on the length of the channel, carried out by a minimal counterexample in a set of
numbers, because the induction theorems of the library take an operator.

`Cell_proofs`: `EditsStay`, `DeferralSafe` and `ShellIsClosed` from one invariant,
`CellInvariance`: an iteration at rest has no locals (`LocalsInv`), competing
contents were computed from the channel (`WorkInv`), which the tournament's merge
needs, and the phase of an iteration says which call is deferred (`DeferralInv`).

`Workspace_proofs`, the parts of `MCWorkspace`, each with an invariant of its own:

- `PoolSafe`, from `PoolInvariance`. That the pool's counts cover their borrowers is
  inductive only for all leases and not just for those in the pool (`CountsCover`):
  an evicted lease is still held, and is given back later. That a command starts
  once needs that a job looking for a tier was not started (`StartedOnce`). Every
  way in which `acquire` ends is shown to hand out a lease of the caller's root, or
  none, and to make no other lease idle (`Served`); whatever makes a lease idle
  wakes all waiters.
- `ShellAnswersInStep`: nothing ties an end marker to its run, so the invariant
  follows the markers from the shell's input through the wire to the raw queue: each
  flows once, those under way beside the awaited one are of runs that gave up or
  come after one (`FlowsLate`), and whoever waits waits for the last command sent
  (`WaitIsLast`). Once the demultiplexer has ended, the stream has its end
  (`Released`).
- `StopsAreFinal`: an action property and an invariant, from the fact that a stop
  names a task that was created (`StoppedWereCreated`), whose id is not created again.
- `ServersStayTracked`: no two coroutines, and no coroutine and a table, hold one
  child, and what a coroutine is connecting runs and is none of those the teardown
  found (`HoldersDiffer`); a session belongs to the stack beside it, whose child runs
  or was closed by the teardown under way (`StacksHold`, `TeardownHolds`); a child
  that runs is in the table or with a coroutine, but for those of `mixed` and
  `dropped` (`LivingAreOwned`); and as long as connects of a server do not overlap
  there is one of these for it, with the newest credentials (`OneByOne`).
- `WaitersAreServed`: at most one scan is at work, on the future that is registered, and
  a registered future has a scan (`OneScan`); every future a caller holds exists.
- `IndexComesRight`: events wait only while the timer sleeps, and only a flush that
  dispatches has a batch and a flight (`FlushKeepsTime`); an event or a flight of a
  file whose changes were all told of says of it what the disk does (`Told`); and a
  file that is not spoiled is written by nothing but the flush, has stores that agree
  with its row, or as far as the phase of its flight has come, and has the row of its
  bytes unless an event of it waits (`FileFits`). At rest nothing waits, so the row is
  that of the disk and the stores agree with it. What the stores hold is bound to the
  hash in the row and not to the disk, because it is the hash that keeps a file from
  being indexed again.
- `CachedRulesFit`: a caller's key is the key of a state of the files that was
  (`KeysArePast`), and a caller alone in the cache leaves key and patterns of one
  project (`LoneCallerIsRight`).
- `WarmStartsMatch`: every pair of tables there is, in a clone, in the artifact, in
  an export or an import under way, holds the in-tree part of one recorded moment
  (`MomentsHold`); that an import undoes what the export did to a path is the lemma
  `ThereAndBack`.

`Dialogue_proofs`, the parts of `MCDialogue`:

- `ToolsStayGated`: a row stands for a registration that reached the store
  (`RowsAreListed`); a selection that waits for its embedding stays permitted, since
  a row only gains roles and its tier rises only by a server's registration
  (`SelectionsHold`); grants are those of the task under way, and nothing outlives it
  (`GrantsAreOfTheTask`, `TasksAreClosed`).
- `PassesStayCurrent`: a slot names a living pass of its kind and project
  (`SlotsHold`), a living pass holds its slot unless it is being cancelled
  (`PassesHold`), and no save came since a pass that is not being cancelled took its
  snapshot (`BasesHold`).
- `AnswersFoldedRight`, `BriefsAreReviewed`: the card on screen is the batch or brief
  in the channels of the thread (`CardsMirrorChannels`), which the replay of a node
  on resume does not change.
- `CacheStaysSound`: the index is the inverse of the lists of files, which are those of
  the entries (`IndexedExactly`, kept by each operation on the tables), an entry is
  what the judge said of the point in its key (`EntriesFit`), and so is what a job
  has to say (`JobsFit`).
- `StreamsStaySound`: the screen is never ahead of what the task keeps, and a task
  ends once (`RunFits`); a registry names a task that awaits, under its own key
  (`RegistriesHold`).
- `PlansStayFit`: a draft fits its turn from when it is made, also while it is only
  left behind by an attempt that failed (`DraftsFit`: an exhausted planner returns
  it); an entry of the cache is under the key of the inputs it was drafted from
  (`EntriesAreKeyed`), and equal keys mean equal request, content and tier. A retry
  always has the corrective of the attempt before (`RetriesAreCorrected`), so the
  prompt it is measured with is the first one and one corrective.
- `EngineStaysChosen`: while nothing has overlapped or failed, at most one request
  writes (`OneWriter`), what it loaded or merged is what the file holds
  (`WritersKnowTheFile`), and the targets are those of the chosen preset unless a
  request that has saved still owes the second save (`AppliedOrOwed`). A save that
  owes nothing leaves the choice and its tiers alone (`SaveOwes`); that is where
  `_active_preset_tiers_changed` is needed.

The lemma `WithoutKeeps`, on what is left of a sequence that is filtered, is proved by
a minimal counterexample, as `BillIsNumber` is.

Only model-checked:

- liveness, which needs fairness: `TurnConcludes`, `NeverStuckBusy`,
  `DispatchRejoins`, `RequestsEnd`, the second half of `CellConcludes` and that of
  `ImplementsRequest`;
- `Mission` beyond `OneTurn`: what its schedule does in several turns, with guardrail
  retries and with cell steps, of which `mission_turns` checks the effects and
  statuses;
- the two parts in slots: `GraphAnswersAreExact` and `FirstDraftKeepsUserLines`
  compute with recursive functions over paths and texts, about which every statement
  is an induction over data.

## 8. Not modelled

- Language model calls, prompts and embeddings: their results are inputs. With
  them the researcher and the contract guard, the routing gate, the tree search
  and the scoring of the tournament, which are numeric heuristics.
- The SWARM fan-out of the mission to parallel coders.
- The encodings of SQLite, LanceDB and the wire; the write queue and the pruning
  of the checkpointer; the episodic saver of the tree search.
- The count of the failure breaker per signature (`Mission` may concede earlier or
  later), the audit log, the benchmark harness, the metered HTTP proxy
  (`gateway/`, a process of its own), the dashboard's read-only views, and the
  extension's user interface.
- The removal of a rule file (`Firewall` creates and changes them), the line
  index and the symbol catalogue, which the indexer writes beside its three stores,
  and characters: in `Edits` two different words have none in common, so that
  resemblance is counted in weights of lines.
- A crash of the process between an effect and the checkpoint: `Mission` has the
  cancellation there, `Session` the restart, and no module has both.

## 9. Plan

1. Done: the spine with its proofs, and the modules of the table in section 1.
2. Done: the theorems of section 7.
3. Done: the theorems about the parts of the two sums, but for `Codegraph` and `Edits`.
4. Models left: SWARM as a second dispatch action of `Mission`, and the promotion
   points of the checkpointer together with `Mission`'s effects.
