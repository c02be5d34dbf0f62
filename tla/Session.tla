------------------------------ MODULE Session ------------------------------
(***************************************************************************)
(* One chat session of TaskService (core/task_service.py) and the handlers *)
(* of main.py that drive it: admission of a submit, the runner task and    *)
(* its registration with the abort mesh, the pause on an approval card,    *)
(* the reply that resumes it, operator steering, the shell of the agentic  *)
(* cell, a restart of the core and the reopening of the session after it.  *)
(*                                                                         *)
(* asyncio runs one step of one task at a time, so each action is the code *)
(* between two suspension points.  Mission models what a run does with the *)
(* graph; here a run only executes, pauses, ends or is cancelled.          *)
(***************************************************************************)
EXTENDS Naturals, FiniteSets

CONSTANTS
    MaxTasks,       \* bound: asyncio tasks spawned for the session
    MaxTurns,       \* bound: accepted submits
    MaxReopens,     \* bound: client_restore_history events
    MaxRestarts,    \* bound: restarts of the core
    MaxMessages,    \* bound: steering messages sent
    QueueMax,       \* STEERING_MAX_QUEUED
    Overlaps        \* may a reply or a reopening overtake a task just spawned?

ASSUME SessionBounds ==
    /\ MaxTasks \in Nat \ {0}
    /\ MaxTurns \in Nat
    /\ MaxReopens \in Nat
    /\ MaxRestarts \in Nat
    /\ MaxMessages \in Nat
    /\ QueueMax \in Nat \ {0}
    /\ Overlaps \in BOOLEAN

VARIABLES
    phase,          \* phase of each task
    kind,           \* what the task was spawned for
    cancelled,      \* task.cancel() was called and not yet delivered
    active,         \* _active_tasks[session], 0 for no entry
    paused,         \* session in _paused_tasks
    expired,        \* the pause has outlived PAUSED_INTERRUPT_TTL_S
    thread,         \* the head of the checkpoint thread in memory (L1)
    durable,        \* the last snapshot promoted to disk (L2)
    rehydrating,    \* progress of rehydrate_paused_interrupt
    card, replies,  \* the card at the client, replies on their way back
    queue,          \* _steering_queues[session]
    consumed,       \* _consumed_steering_ids
    cell,           \* a shell is registered for the session
    turn,           \* accepted submits
    sent, reopens, restarts,    \* counters of the bounds
    unclosed,                   \* history: see the properties
    delivered                   \* history: steering injected into a run

registry == <<phase, kind, cancelled, active>>
pause == <<paused, expired>>
checkpoint == <<thread, durable>>
client == <<card, replies>>
steering == <<queue, consumed, sent, delivered>>
counters == <<turn, reopens, restarts>>
vars == <<registry, pause, checkpoint, rehydrating, client, steering, cell,
          counters, unclosed>>

Tasks == 1..MaxTasks
\* "settling": the graph stopped on an interrupt that is not registered yet;
\* "closing": the stream is being finalised; "ended": done, callbacks pending.
Phases == {"none", "queued", "graph", "settling", "closing", "unwinding",
           "ended", "gone"}

Init ==
    /\ phase = [t \in Tasks |-> "none"]
    /\ kind = [t \in Tasks |-> "none"]
    /\ cancelled = [t \in Tasks |-> FALSE]
    /\ active = 0
    /\ paused = FALSE /\ expired = FALSE
    /\ thread = "cold" /\ durable = "cold"
    /\ rehydrating = "no"
    /\ card = FALSE /\ replies = 0
    /\ queue = {} /\ consumed = {}
    /\ cell = FALSE
    /\ turn = 0 /\ sent = 0 /\ reopens = 0 /\ restarts = 0
    /\ unclosed = FALSE
    /\ delivered = {}

-----------------------------------------------------------------------------
\* Admission.

Live(t) == phase[t] \notin {"none", "ended", "gone"}
HasLiveRunner == active # 0 /\ Live(active)

\* Faulty variant of IsSessionBusy: a pause is never abandoned.
IsSessionBusyWithoutTTL == HasLiveRunner \/ paused

IsSessionBusy == HasLiveRunner \/ (paused /\ ~expired)

\* An entry of _paused_tasks carries the time it was made.
ArmPause == paused' = TRUE /\ expired' = FALSE
Unpause == paused' = FALSE /\ expired' = FALSE

\* asyncio.create_task: tasks are numbered in the order they are spawned.
Fresh(t) ==
    /\ phase[t] = "none"
    /\ \A u \in Tasks : u < t => phase[u] # "none"

\* create_task and register_active_task run in the same step of a handler.
Spawn(t, k) ==
    /\ Fresh(t)
    /\ phase' = [phase EXCEPT ![t] = "queued"]
    /\ kind' = [kind EXCEPT ![t] = k]
    /\ active' = t
    /\ UNCHANGED cancelled

\* submit_task: is_session_busy pops a pause it finds abandoned.
Submit(t) ==
    /\ turn < MaxTurns
    /\ ~IsSessionBusy
    /\ Spawn(t, "submit")
    /\ turn' = turn + 1
    /\ Unpause
    /\ unclosed' = (unclosed \/ paused \/ active # 0)
    /\ Overlaps \/ rehydrating = "no"
    /\ UNCHANGED <<checkpoint, rehydrating, client, steering, cell, reopens,
                   restarts>>

\* The card's time to live runs out.
Expire ==
    /\ paused /\ ~expired
    /\ expired' = TRUE
    /\ UNCHANGED <<registry, paused, checkpoint, rehydrating, client, steering,
                   cell, counters, unclosed>>

\* enqueue_steering, accepted.
EnqueueSteering ==
    /\ sent < MaxMessages
    /\ IsSessionBusy
    /\ Cardinality(queue) < QueueMax
    /\ sent' = sent + 1
    /\ queue' = queue \cup {[id |-> sent + 1, turn |-> turn]}
    /\ UNCHANGED <<registry, pause, checkpoint, rehydrating, client, consumed,
                   delivered, cell, counters, unclosed>>

\* enqueue_steering refused because the only thing alive was an abandoned
\* pause, which the busy test discards on the way.
SteeringFindsAbandoned ==
    /\ sent < MaxMessages
    /\ ~HasLiveRunner
    /\ paused /\ expired
    /\ sent' = sent + 1
    /\ Unpause
    /\ unclosed' = TRUE
    /\ UNCHANGED <<registry, checkpoint, rehydrating, client, queue,
                   consumed, delivered, cell, counters>>

-----------------------------------------------------------------------------
\* The life of a runner.

Moves(t, from, to) ==
    /\ phase[t] = from
    /\ phase' = [phase EXCEPT ![t] = to]
    /\ UNCHANGED <<kind, active>>

Proceeds(t, from, to) ==
    /\ Moves(t, from, to)
    /\ ~cancelled[t]
    /\ UNCHANGED cancelled

\* process_task routes an edit to the coding graph.
StartGraph(t) ==
    /\ Proceeds(t, "queued", "graph")
    /\ kind[t] = "submit"
    /\ thread' = "live"
    /\ UNCHANGED <<pause, durable, rehydrating, client, steering, cell,
                   counters, unclosed>>

\* process_task routes a question to the chat completion: no graph, and
\* nothing of the session changes until the stream is finalised.
StartAnswer(t) ==
    /\ Proceeds(t, "queued", "closing")
    /\ kind[t] = "submit"
    /\ UNCHANGED <<pause, checkpoint, rehydrating, client, steering, cell,
                   counters, unclosed>>

\* Faulty variant of ResumeGraph: the paused entry is not popped.
ResumeGraphKeepsPause(t) ==
    /\ Proceeds(t, "queued", IF paused THEN "graph" ELSE "ended")
    /\ kind[t] = "resume"
    /\ thread' = IF paused THEN "live" ELSE thread
    /\ UNCHANGED <<pause, durable, rehydrating, client, steering, cell,
                   counters, unclosed>>

\* resume_graph pops the pause before it re-enters the thread; a duplicate or
\* late reply finds none and is ignored.
ResumeGraph(t) ==
    /\ Proceeds(t, "queued", IF paused THEN "graph" ELSE "ended")
    /\ kind[t] = "resume"
    /\ Unpause
    /\ thread' = IF paused THEN "live" ELSE thread
    /\ UNCHANGED <<durable, rehydrating, client, steering, cell, counters,
                   unclosed>>

\* The agentic cell opens its shell, drains the steering queue at the top of
\* an iteration, and closes the shell on a terminal exit.
OpenCell(t) ==
    /\ phase[t] = "graph"
    /\ ~cell
    /\ cell' = TRUE
    /\ UNCHANGED <<registry, pause, checkpoint, rehydrating, client, steering,
                   counters, unclosed>>

CloseCell(t) ==
    /\ phase[t] = "graph"
    /\ cell
    /\ cell' = FALSE
    /\ UNCHANGED <<registry, pause, checkpoint, rehydrating, client, steering,
                   counters, unclosed>>

\* drain_steering reads the queue without emptying it; the watermark commits
\* with the iteration.
DrainSteering(t) ==
    /\ phase[t] = "graph"
    /\ cell
    /\ \E m \in queue : m.id \notin consumed
    /\ consumed' = consumed \cup {m.id : m \in queue}
    /\ delivered' = delivered \cup
        {[id |-> m.id, turn |-> m.turn, at |-> turn] :
            m \in {n \in queue : n.id \notin consumed}}
    /\ UNCHANGED <<registry, pause, checkpoint, rehydrating, client, queue,
                   sent, cell, counters, unclosed>>

\* A node called interrupt(): astream ends and the interrupt is in the thread.
GraphInterrupts(t) ==
    /\ Proceeds(t, "graph", "settling")
    /\ thread' = "interrupted"
    /\ UNCHANGED <<pause, durable, rehydrating, client, steering, cell,
                   counters, unclosed>>

\* The runner registers the pause and emits the card.
RegisterPause(t) ==
    /\ Proceeds(t, "settling", "closing")
    /\ ArmPause
    /\ card' = TRUE
    /\ UNCHANGED <<checkpoint, rehydrating, replies, steering, cell, counters,
                   unclosed>>

\* The graph ends or fails.
GraphEnds(t) ==
    /\ Proceeds(t, "graph", "closing")
    /\ thread' = "idle"
    /\ UNCHANGED <<pause, durable, rehydrating, client, steering, cell,
                   counters, unclosed>>

\* abort_session cancels the registered task, if it is live.
Abort ==
    /\ HasLiveRunner
    /\ ~cancelled[active]
    /\ cancelled' = [cancelled EXCEPT ![active] = TRUE]
    /\ UNCHANGED <<phase, kind, active, pause, checkpoint, rehydrating, client,
                   steering, cell, counters, unclosed>>

Delivered(t, from, to) ==
    /\ Moves(t, from, to)
    /\ cancelled[t]
    /\ cancelled' = [cancelled EXCEPT ![t] = FALSE]
    /\ UNCHANGED <<pause, durable, rehydrating, client, steering, cell,
                   counters, unclosed>>

\* CancelledError surfaces at the next await.  The abort handler leaves the
\* paused entry alone; a task cancelled before its first step never runs.
CancelGraph(t) == Delivered(t, "graph", "unwinding") /\ thread' = "idle"

CancelElsewhere(t) ==
    /\ \/ \E p \in {"settling", "closing"} :
            Delivered(t, p, "unwinding")
       \/ \E p \in {"queued", "unwinding"} : Delivered(t, p, "ended")
    /\ UNCHANGED thread

\* _finalize_stream promotes the head of the thread, if there is one.
Promote ==
    durable' = CASE thread = "cold" -> durable
                 [] thread = "interrupted" -> "interrupted"
                 [] OTHER -> "idle"

Finish(t) ==
    /\ \E p \in {"closing", "unwinding"} : Proceeds(t, p, "ended")
    /\ Promote
    /\ UNCHANGED <<pause, thread, rehydrating, client, steering, cell,
                   counters, unclosed>>

\* Faulty variants of DoneCallback: the entry is popped without the identity
\* check, or the teardown ignores a pause.
DoneCallbackUnchecked(t) ==
    /\ phase[t] = "ended"
    /\ phase' = [phase EXCEPT ![t] = "gone"]
    /\ kind' = [kind EXCEPT ![t] = "none"]
    /\ active' = 0
    /\ queue' = {}
    /\ cell' = (cell /\ paused)
    /\ UNCHANGED <<cancelled, pause, checkpoint, rehydrating, client,
                   consumed, sent, delivered, counters, unclosed>>

DoneCallbackIgnoresPause(t) ==
    /\ phase[t] = "ended"
    /\ phase' = [phase EXCEPT ![t] = "gone"]
    /\ kind' = [kind EXCEPT ![t] = "none"]
    /\ active' = IF active = t THEN 0 ELSE active
    /\ queue' = IF active = t THEN {} ELSE queue
    /\ cell' = (cell /\ active' # 0)
    /\ UNCHANGED <<cancelled, pause, checkpoint, rehydrating, client,
                   consumed, sent, delivered, counters, unclosed>>

\* The done callbacks: the entry and the steering queue go if they are still
\* this task's, then the shell is torn down unless a pause or a successor
\* needs it.
DoneCallback(t) ==
    /\ phase[t] = "ended"
    /\ phase' = [phase EXCEPT ![t] = "gone"]
    /\ kind' = [kind EXCEPT ![t] = "none"]
    /\ active' = IF active = t THEN 0 ELSE active
    /\ queue' = IF active = t THEN {} ELSE queue
    /\ cell' = (cell /\ (paused \/ active' # 0))
    /\ UNCHANGED <<cancelled, pause, checkpoint, rehydrating, client,
                   consumed, sent, delivered, counters, unclosed>>

\* A WebSocket disconnect sweeps the shells of sessions that are not in use.
Sweep ==
    /\ cell
    /\ active = 0 /\ ~paused
    /\ cell' = FALSE
    /\ UNCHANGED <<registry, pause, checkpoint, rehydrating, client, steering,
                   counters, unclosed>>

-----------------------------------------------------------------------------
\* The card and its replies.

\* The human answers the card on screen, even one whose pause was abandoned.
Respond ==
    /\ card
    /\ card' = FALSE
    /\ replies' = replies + 1
    /\ UNCHANGED <<registry, pause, checkpoint, rehydrating, steering, cell,
                   counters, unclosed>>

\* client_hitl_response: a reply that finds a pause spawns a resume.
ReplyResumes(t) ==
    /\ replies > 0
    /\ replies' = replies - 1
    /\ paused
    /\ Spawn(t, "resume")
    /\ Overlaps \/ \A u \in Tasks : phase[u] = "queued" => kind[u] # "resume"
    /\ UNCHANGED <<pause, checkpoint, rehydrating, card, steering, cell,
                   counters, unclosed>>

ReplyDropped ==
    /\ replies > 0
    /\ replies' = replies - 1
    /\ ~paused
    /\ UNCHANGED <<registry, pause, checkpoint, rehydrating, card, steering,
                   cell, counters, unclosed>>

-----------------------------------------------------------------------------
\* Restart and reopening.

\* The core goes down: everything but the promoted snapshot is lost.
Restart ==
    /\ restarts < MaxRestarts
    /\ restarts' = restarts + 1
    /\ phase' = [t \in Tasks |-> IF phase[t] = "none" THEN "none" ELSE "gone"]
    /\ kind' = [t \in Tasks |-> "none"]
    /\ cancelled' = [t \in Tasks |-> FALSE]
    /\ active' = 0
    /\ Unpause
    /\ thread' = "cold"
    /\ rehydrating' = "no"
    /\ card' = FALSE /\ replies' = 0
    /\ queue' = {}
    /\ cell' = FALSE
    /\ UNCHANGED <<durable, consumed, sent, delivered, turn, reopens,
                   unclosed>>

Reopens ==
    /\ reopens < MaxReopens
    /\ rehydrating = "no"
    /\ reopens' = reopens + 1
    /\ UNCHANGED <<registry, pause, checkpoint, steering, cell, turn, restarts,
                   unclosed>>

\* rehydrate_paused_interrupt with the pause armed: the card is shown again.
ReopenPaused ==
    /\ Reopens
    /\ paused
    /\ thread = "interrupted"
    /\ card' = TRUE
    /\ UNCHANGED <<rehydrating, replies>>

\* With a cold thread it goes to the disk, off the event loop.
ReopenCold ==
    /\ Reopens
    /\ ~paused
    /\ thread = "cold"
    /\ rehydrating' = "recovering"
    /\ Overlaps \/ ~HasLiveRunner
    /\ UNCHANGED client

\* recover overwrites the thread with the last promoted snapshot.
Recover ==
    /\ rehydrating = "recovering"
    /\ rehydrating' = "recovered"
    /\ thread' = IF durable = "cold" THEN thread ELSE durable
    /\ UNCHANGED <<registry, pause, durable, client, steering, cell, counters,
                   unclosed>>

\* An interrupt found in the snapshot re-arms the pause.
Rearm ==
    /\ rehydrating = "recovered"
    /\ rehydrating' = "no"
    /\ IF thread = "interrupted"
       THEN ArmPause /\ card' = TRUE
       ELSE UNCHANGED <<pause, card>>
    /\ UNCHANGED <<registry, checkpoint, replies, steering, cell, counters,
                   unclosed>>

-----------------------------------------------------------------------------
\* What the event loop owes a task: its next step, if it has one.
TaskStep(t) ==
    \/ StartGraph(t) \/ StartAnswer(t)
    \/ ResumeGraph(t)
    \/ GraphInterrupts(t) \/ RegisterPause(t)
    \/ GraphEnds(t)
    \/ CancelGraph(t) \/ CancelElsewhere(t)
    \/ Finish(t) \/ DoneCallback(t)

CellStep(t) == OpenCell(t) \/ CloseCell(t) \/ DrainSteering(t)

Rest ==
    /\ \A t \in Tasks : phase[t] \in {"none", "gone"}
    /\ UNCHANGED vars

Next ==
    \/ \E t \in Tasks : \/ Submit(t)
                        \/ ReplyResumes(t)
                        \/ TaskStep(t)
                        \/ CellStep(t)
    \/ Expire \/ EnqueueSteering \/ SteeringFindsAbandoned
    \/ Abort \/ Sweep
    \/ Respond \/ ReplyDropped
    \/ Restart \/ ReopenPaused \/ ReopenCold \/ Recover \/ Rearm
    \/ Rest

Spec == Init /\ [][Next]_vars

(***************************************************************************)
(* Fairness: the event loop runs every task that is ready, the graph is    *)
(* bounded (TurnConcludes of Mission), and the clock of the time to live   *)
(* advances.  No client has to submit, answer, steer or stop.              *)
(***************************************************************************)
FairSpec ==
    /\ Spec
    /\ \A t \in Tasks : WF_vars(TaskStep(t))
    /\ WF_vars(Expire)
    /\ WF_vars(Recover \/ Rearm)

-----------------------------------------------------------------------------
(***************************************************************************)
(* Properties.  They hold when nothing overtakes a task that was spawned   *)
(* and has not run (~Overlaps): a second reply does not find the pause of  *)
(* a resume still queued, and a reopening that reads the disk and a submit *)
(* do not meet.  The handlers of main.py guarantee neither (README).       *)
(* unclosed records that a turn was succeeded before its callbacks ran or, *)
(* its pause having outlived its time to live, with no callback left.      *)
(***************************************************************************)
Executing == {t \in Tasks : phase[t] = "graph"}

\* Whatever executes the graph is what the registry names: Stop reaches it,
\* is_session_busy sees it, and so no second runner is on the checkpoint.
RunnerIsTracked == \A t \in Executing : active = t

\* The pause registry and the checkpoint agree: a card that can be answered
\* belongs to a thread that is waiting for the answer, also after a restart.
PauseMatchesThread == paused => thread = "interrupted"

\* A steering message reaches only the turn the operator was steering, as long
\* as the turn was closed before the next one began.
SteeringIsScoped ==
    ~unclosed => \A d \in delivered : d.at = d.turn

\* The callbacks of a finished task never close the shell of a run that is
\* executing or waiting for an approval.
ShellOutlivesPredecessor ==
    [][\A t \in Tasks :
         (phase[t] = "ended" /\ phase'[t] = "gone" /\ cell /\ ~cell'
            /\ restarts' = restarts)
             => Executing = {} /\ ~paused]_vars

\* The end of one turn takes nothing from another: its messages are not handed
\* to the next turn and its callbacks do not close the next turn's shell.
TurnsAreIsolated == []SteeringIsScoped /\ ShellOutlivesPredecessor

\* A session is never busy for ever: its runner ends, or the pause it left
\* outlives its time to live (the docstring of is_session_busy).
NeverStuckBusy == []<>~IsSessionBusy

=============================================================================
