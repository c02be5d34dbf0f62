--------------------------- MODULE Session_proofs ---------------------------
(***************************************************************************)
(* Proofs that, for any number of tasks, turns, reopenings and restarts,   *)
(* the registries of TaskService agree with what runs and with the         *)
(* checkpoint thread, when nothing overtakes a task that was just spawned. *)
(***************************************************************************)
EXTENDS Session, TLAPS

RegistryTypes ==
    /\ phase \in [Tasks -> Phases]
    /\ kind \in [Tasks -> {"none", "submit", "resume"}]
    /\ active \in 0..MaxTasks

\* A task that has the graph, or is about to have it.
Holds(t) == phase[t] \in {"queued", "graph", "settling"}

\* The registry names every task that holds the graph.
HolderIsActive == \A t \in Tasks : Holds(t) => active = t

\* While a pause is armed, only the resume that will pop it may be waiting,
\* and the thread is interrupted.
PauseExcludesRun ==
    paused =>
        /\ \A t \in Tasks :
            Holds(t) => (phase[t] = "queued" /\ kind[t] = "resume")
        /\ thread = "interrupted"

\* A task about to register its pause has left the thread interrupted.
SettlingIsInterrupted ==
    \A t \in Tasks : phase[t] = "settling" => thread = "interrupted"

\* While a reopening reads the disk, nothing is armed and nothing runs.
RehydrationIsAlone ==
    rehydrating # "no" => ~paused /\ \A t \in Tasks : ~Holds(t)

Inv ==
    /\ RegistryTypes
    /\ HolderIsActive
    /\ PauseExcludesRun
    /\ SettlingIsInterrupted
    /\ RehydrationIsAlone

USE SessionBounds

-----------------------------------------------------------------------------
\* A session that is not busy has no task holding the graph.
LEMMA IdleHasNoHolder ==
    ASSUME Inv, ~HasLiveRunner
    PROVE  \A t \in Tasks : ~Holds(t)
  BY DEF Inv, HolderIsActive, Holds, HasLiveRunner, Live, Tasks

\* A step that leaves the registries, the pause and the thread alone.
LEMMA FramedStep ==
    ASSUME Inv, UNCHANGED <<phase, kind, active, paused, thread>>,
           rehydrating' = rehydrating
    PROVE  Inv'
  BY DEF Inv, RegistryTypes, HolderIsActive, PauseExcludesRun,
         SettlingIsInterrupted, RehydrationIsAlone, Holds

\* Spawning a task when nothing holds the graph.
LEMMA SpawnStep ==
    ASSUME Inv, NEW t \in Tasks, NEW k \in {"submit", "resume"}, Spawn(t, k),
           \A u \in Tasks : ~Holds(u), rehydrating = "no",
           UNCHANGED <<thread, rehydrating>>,
           \/ ~paused'
           \/ paused /\ k = "resume"
    PROVE  Inv'
<1> USE DEF Inv, Spawn
<1>1. RegistryTypes'
  BY DEF RegistryTypes, Phases, Tasks
<1>2. \A u \in Tasks : Holds(u)' => u = t
  BY DEF RegistryTypes, Holds
<1>3. phase'[t] = "queued" /\ kind'[t] = k
  BY DEF RegistryTypes
<1>4. HolderIsActive'
  BY <1>2 DEF HolderIsActive
<1>5. PauseExcludesRun'
  BY <1>2, <1>3 DEF PauseExcludesRun
<1>6. SettlingIsInterrupted' /\ RehydrationIsAlone'
  BY <1>2, <1>3 DEF SettlingIsInterrupted, RehydrationIsAlone, Holds
<1> QED
  BY <1>1, <1>4, <1>5, <1>6

\* Admission preserves the invariant: a submit finds nothing alive.
LEMMA SubmitInv ==
    ASSUME ~Overlaps, Inv, NEW t \in Tasks, Submit(t)
    PROVE  Inv'
<1>1. \A u \in Tasks : ~Holds(u)
  BY IdleHasNoHolder DEF Submit, IsSessionBusy
<1> QED
  BY <1>1, SpawnStep DEF Submit, Unpause, checkpoint

\* A reply preserves the invariant: the pause it found excludes a run, and no
\* other resume is waiting.
LEMMA ReplyInv ==
    ASSUME ~Overlaps, Inv, NEW t \in Tasks, ReplyResumes(t)
    PROVE  Inv'
<1>1. \A u \in Tasks : ~Holds(u)
  BY DEF ReplyResumes, Inv, PauseExcludesRun
<1>2. rehydrating = "no"
  BY DEF ReplyResumes, Inv, RehydrationIsAlone
<1> QED
  BY <1>1, <1>2, SpawnStep DEF ReplyResumes, pause, checkpoint

-----------------------------------------------------------------------------
\* A task that holds the graph moves on: no other task holds it.
LEMMA HolderMoves ==
    ASSUME Inv, NEW t \in Tasks, Holds(t), NEW from, NEW to \in Phases,
           Moves(t, from, to), rehydrating' = rehydrating,
           to = "settling" => thread' = "interrupted",
           paused' => /\ thread' = "interrupted"
                      /\ to \notin {"queued", "graph", "settling"}
    PROVE  Inv'
<1> USE DEF Inv, Moves
<1>1. RegistryTypes'
  BY DEF RegistryTypes
<1>2. \A u \in Tasks : u # t => ~Holds(u) /\ ~Holds(u)'
  BY DEF RegistryTypes, HolderIsActive, Holds
<1>3. phase'[t] = to
  BY DEF RegistryTypes
<1>4. HolderIsActive'
  BY <1>2 DEF HolderIsActive
<1>5. PauseExcludesRun'
  BY <1>2, <1>3 DEF PauseExcludesRun, Holds
<1>6. SettlingIsInterrupted'
  BY <1>2, <1>3 DEF SettlingIsInterrupted, Holds
<1>7. RehydrationIsAlone'
  BY DEF RehydrationIsAlone
<1> QED
  BY <1>1, <1>4, <1>5, <1>6, <1>7

\* A task that does not hold the graph moves on without touching it.
LEMMA OtherMoves ==
    ASSUME Inv, NEW t \in Tasks, ~Holds(t), NEW to \in {"unwinding", "ended"},
           Moves(t, phase[t], to), UNCHANGED <<paused, thread, rehydrating>>
    PROVE  Inv'
<1> USE DEF Inv, Moves
<1>1. RegistryTypes'
  BY DEF RegistryTypes, Phases
<1>2. \A u \in Tasks : Holds(u)' => Holds(u) /\ phase'[u] = phase[u]
  BY DEF RegistryTypes, Holds
<1>3. HolderIsActive'
  BY <1>2 DEF HolderIsActive
<1>4. PauseExcludesRun'
  BY <1>2 DEF PauseExcludesRun
<1>5. SettlingIsInterrupted' /\ RehydrationIsAlone'
  BY <1>2 DEF SettlingIsInterrupted, RehydrationIsAlone, Holds
<1> QED
  BY <1>1, <1>3, <1>4, <1>5

\* Every step of a task preserves the invariant.
LEMMA TaskInv ==
    ASSUME Inv, NEW t \in Tasks, TaskStep(t)
    PROVE  Inv'
<1> USE DEF Proceeds, pause, checkpoint
<1>1. CASE StartGraph(t)
  <2>1. ~paused
    BY <1>1 DEF StartGraph, Moves, Inv, PauseExcludesRun, Holds
  <2> QED
    BY <1>1, <2>1, HolderMoves DEF StartGraph, Holds, Moves, Phases
<1>2. CASE StartAnswer(t)
  <2>1. ~paused
    BY <1>2 DEF StartAnswer, Moves, Inv, PauseExcludesRun, Holds
  <2> QED
    BY <1>2, <2>1, HolderMoves DEF StartAnswer, Holds, Moves, Phases
<1>3. CASE ResumeGraph(t)
  <2>1. PICK to \in {"graph", "ended"} : Moves(t, "queued", to)
    BY <1>3 DEF ResumeGraph
  <2> QED
    BY <1>3, <2>1, HolderMoves DEF ResumeGraph, Unpause, Holds, Moves, Phases
<1>4. CASE GraphInterrupts(t)
  <2>1. ~paused
    BY <1>4 DEF GraphInterrupts, Moves, Inv, PauseExcludesRun, Holds
  <2> QED
    BY <1>4, <2>1, HolderMoves DEF GraphInterrupts, Holds, Moves, Phases
<1>5. CASE RegisterPause(t)
  <2>1. thread = "interrupted"
    BY <1>5 DEF RegisterPause, Moves, Inv, SettlingIsInterrupted
  <2> QED
    BY <1>5, <2>1, HolderMoves DEF RegisterPause, ArmPause, Holds, Moves, Phases
<1>6. CASE GraphEnds(t)
  <2>1. ~paused
    BY <1>6 DEF GraphEnds, Moves, Inv, PauseExcludesRun, Holds
  <2> QED
    BY <1>6, <2>1, HolderMoves DEF GraphEnds, Holds, Moves, Phases
<1>7. CASE CancelGraph(t)
  <2>1. ~paused
    BY <1>7 DEF CancelGraph, Delivered, Moves, Inv, PauseExcludesRun, Holds
  <2> QED
    BY <1>7, <2>1, HolderMoves DEF CancelGraph, Delivered, Holds, Moves, Phases
<1>8. CASE CancelElsewhere(t)
  <2>1. UNCHANGED <<paused, thread, rehydrating>>
    BY <1>8 DEF CancelElsewhere, Delivered
  <2>2. PICK to \in {"unwinding", "ended"} : Moves(t, phase[t], to)
    BY <1>8 DEF CancelElsewhere, Delivered, Moves
  <2>3. CASE Holds(t)
    <3>1. paused => thread = "interrupted"
      BY DEF Inv, PauseExcludesRun
    <3> QED
      BY <2>1, <2>2, <2>3, <3>1, HolderMoves DEF Phases
  <2>4. CASE ~Holds(t)
    BY <2>1, <2>2, <2>4, OtherMoves
  <2> QED
    BY <2>3, <2>4
<1>9. CASE Finish(t)
  <2>1. ~Holds(t) /\ Moves(t, phase[t], "ended")
    BY <1>9 DEF Finish, Moves, Holds
  <2> QED
    BY <1>9, <2>1, OtherMoves DEF Finish
<1>10. CASE DoneCallback(t)
  <2> USE <1>10 DEF DoneCallback, Inv
  <2>1. RegistryTypes'
    BY DEF RegistryTypes, Phases
  <2>2. /\ \A u \in Tasks : Holds(u)' => Holds(u) /\ u # t
        /\ \A u \in Tasks : u # t => phase'[u] = phase[u] /\ kind'[u] = kind[u]
        /\ phase'[t] = "gone"
    BY DEF RegistryTypes, Holds
  <2>3. HolderIsActive'
    BY <2>2 DEF HolderIsActive
  <2>4. PauseExcludesRun'
    BY <2>2 DEF PauseExcludesRun
  <2>5. SettlingIsInterrupted'
    BY <2>2 DEF SettlingIsInterrupted
  <2>6. RehydrationIsAlone'
    BY <2>2 DEF RehydrationIsAlone
  <2> QED
    BY <2>1, <2>3, <2>4, <2>5, <2>6
<1> QED
  BY <1>1, <1>2, <1>3, <1>4, <1>5, <1>6, <1>7, <1>8, <1>9, <1>10 DEF TaskStep

-----------------------------------------------------------------------------
\* Restarting and reopening preserve the invariant.
LEMMA ReopenInv ==
    ASSUME ~Overlaps, Inv,
           Restart \/ ReopenPaused \/ ReopenCold \/ Recover \/ Rearm
    PROVE  Inv'
<1> USE DEF Inv, checkpoint, pause, registry
<1>1. CASE Restart
  <2>1. RegistryTypes' /\ \A t \in Tasks : ~Holds(t)'
    BY <1>1 DEF Restart, RegistryTypes, Phases, Holds
  <2>2. \A t \in Tasks : phase'[t] # "settling"
    BY <2>1 DEF Holds
  <2> QED
    BY <1>1, <2>1, <2>2 DEF Restart, Unpause, HolderIsActive, PauseExcludesRun,
          SettlingIsInterrupted, RehydrationIsAlone
<1>2. CASE ReopenPaused
  BY <1>2, FramedStep DEF ReopenPaused, Reopens
<1>3. CASE ReopenCold
  <2>1. \A t \in Tasks : ~Holds(t)
    BY <1>3, IdleHasNoHolder DEF ReopenCold
  <2> QED
    BY <1>3, <2>1 DEF ReopenCold, Reopens, RegistryTypes, HolderIsActive,
          PauseExcludesRun, SettlingIsInterrupted, RehydrationIsAlone, Holds
<1>4. CASE Recover \/ Rearm
  <2>1. ~paused /\ \A t \in Tasks : ~Holds(t)
    BY <1>4 DEF Recover, Rearm, RehydrationIsAlone
  <2>2. RegistryTypes' /\ \A t \in Tasks : ~Holds(t)'
    BY <1>4, <2>1 DEF Recover, Rearm, RegistryTypes, Holds
  <2>3. \A t \in Tasks : phase'[t] # "settling"
    BY <2>2 DEF Holds
  <2>4. paused' => thread' = "interrupted" /\ rehydrating' = "no"
    BY <1>4, <2>1 DEF Recover, Rearm, ArmPause
  <2> QED
    BY <2>2, <2>3, <2>4 DEF HolderIsActive, PauseExcludesRun,
          SettlingIsInterrupted, RehydrationIsAlone
<1> QED
  BY <1>1, <1>2, <1>3, <1>4

\* Every step preserves the invariant.
LEMMA NextInv ==
    ASSUME ~Overlaps
    PROVE  Inv /\ [Next]_vars => Inv'
<1> SUFFICES ASSUME Inv, [Next]_vars PROVE Inv'
  OBVIOUS
<1>1. CASE UNCHANGED vars
  BY <1>1, FramedStep DEF vars, registry, pause, checkpoint
<1>2. ASSUME NEW t \in Tasks, Submit(t) PROVE Inv'
  BY <1>2, SubmitInv
<1>3. ASSUME NEW t \in Tasks, ReplyResumes(t) PROVE Inv'
  BY <1>3, ReplyInv
<1>4. ASSUME NEW t \in Tasks, TaskStep(t) PROVE Inv'
  BY <1>4, TaskInv
<1>5. ASSUME NEW t \in Tasks, CellStep(t) PROVE Inv'
  BY <1>5, FramedStep DEF CellStep, OpenCell, CloseCell, DrainSteering,
        registry, pause, checkpoint
<1>6. CASE Expire \/ EnqueueSteering \/ Abort \/ Sweep \/ Respond \/ ReplyDropped
  BY <1>6, FramedStep DEF Expire, EnqueueSteering, Abort, Sweep, Respond,
        ReplyDropped, registry, pause, checkpoint
<1>7. CASE SteeringFindsAbandoned
  BY <1>7 DEF SteeringFindsAbandoned, Unpause, registry, checkpoint, Inv,
        RegistryTypes, HolderIsActive, PauseExcludesRun,
        SettlingIsInterrupted, RehydrationIsAlone, Holds
<1>8. CASE Restart \/ ReopenPaused \/ ReopenCold \/ Recover \/ Rearm
  BY <1>8, ReopenInv
<1> QED
  BY <1>1, <1>2, <1>3, <1>4, <1>5, <1>6, <1>7, <1>8 DEF Next, Rest

\* The initial state satisfies the invariant.
LEMMA InitInv == Init => Inv
  BY DEF Init, Inv, RegistryTypes, HolderIsActive, PauseExcludesRun,
         SettlingIsInterrupted, RehydrationIsAlone, Holds, Phases

\* If nothing overtakes a task just spawned, the task that executes the graph
\* is the registered one: no second runner, and Stop reaches the run.
THEOREM Tracked ==
    ASSUME ~Overlaps
    PROVE  Spec => []RunnerIsTracked
<1>1. Inv => RunnerIsTracked
  BY DEF Inv, HolderIsActive, Holds, RunnerIsTracked, Executing
<1>2. Inv /\ [Next]_vars => Inv'
  BY NextInv
<1> QED
  BY <1>1, <1>2, InitInv, PTL DEF Spec

\* Under the same assumption an armed pause belongs to an interrupted thread,
\* whatever is aborted, abandoned, restarted or reopened.
THEOREM PauseAgrees ==
    ASSUME ~Overlaps
    PROVE  Spec => []PauseMatchesThread
<1>1. Inv => PauseMatchesThread
  BY DEF Inv, PauseExcludesRun, PauseMatchesThread
<1>2. Inv /\ [Next]_vars => Inv'
  BY NextInv
<1> QED
  BY <1>1, <1>2, InitInv, PTL DEF Spec

-----------------------------------------------------------------------------
(***************************************************************************)
(* Turns do not reach into each other.  A message waits only while there   *)
(* is a callback to drop it (a registered task) or a pause that keeps it,  *)
(* unless a turn was succeeded before it was closed.                       *)
(***************************************************************************)
QueueHasOwner == queue # {} => (unclosed \/ paused \/ active # 0)

\* A message that waits was sent to the turn that is open.
QueueIsCurrent == ~unclosed => \A m \in queue : m.turn = turn

SteeringInv ==
    /\ Inv
    /\ QueueHasOwner
    /\ QueueIsCurrent
    /\ SteeringIsScoped
    /\ restarts \in Nat

\* A step that leaves the messages, the history and the turn alone keeps
\* them scoped, if it leaves an owner to the queue.
LEMMA SteeringFrame ==
    ASSUME SteeringInv, UNCHANGED <<turn, delivered>>,
           queue' \in {queue, {}}, unclosed => unclosed',
           queue' # {} => (unclosed' \/ paused' \/ active' # 0)
    PROVE  QueueHasOwner' /\ QueueIsCurrent' /\ SteeringIsScoped'
  BY DEF SteeringInv, QueueHasOwner, QueueIsCurrent, SteeringIsScoped

\* Every step keeps the messages with the turn they were sent to.
LEMMA SteeringStep ==
    ASSUME ~Overlaps, SteeringInv, [Next]_vars
    PROVE  SteeringInv'
<1> USE DEF SteeringInv, QueueHasOwner, QueueIsCurrent, SteeringIsScoped
<1>1. Inv'
  BY NextInv
<1>2. restarts' \in Nat
  BY DEF Next, Submit, ReplyResumes, TaskStep, CellStep, StartGraph,
         StartAnswer, ResumeGraph, GraphInterrupts, RegisterPause, GraphEnds,
         CancelGraph, CancelElsewhere, Delivered, Finish, DoneCallback,
         OpenCell, CloseCell, DrainSteering, Expire, EnqueueSteering,
         SteeringFindsAbandoned, Abort, Sweep, Respond, ReplyDropped, Restart,
         ReopenPaused, ReopenCold, Reopens, Recover, Rearm, Rest, counters,
         vars
<1>3. QueueHasOwner' /\ QueueIsCurrent' /\ SteeringIsScoped'
  <2>1. ASSUME NEW t \in Tasks, Submit(t)
        PROVE  QueueHasOwner' /\ QueueIsCurrent' /\ SteeringIsScoped'
    <3>1. /\ active' = t /\ t # 0
          /\ queue' = queue /\ delivered' = delivered
          /\ unclosed' = (unclosed \/ paused \/ active # 0)
      BY <2>1 DEF Submit, Spawn, Tasks, steering
    <3> QED BY <3>1
  <2>2. ASSUME NEW t \in Tasks, ReplyResumes(t)
        PROVE  QueueHasOwner' /\ QueueIsCurrent' /\ SteeringIsScoped'
    BY <2>2, SteeringFrame DEF ReplyResumes, Spawn, steering, counters, Tasks
  <2>3. ASSUME NEW t \in Tasks, TaskStep(t)
        PROVE  QueueHasOwner' /\ QueueIsCurrent' /\ SteeringIsScoped'
    <3>1. CASE DoneCallback(t)
      BY <3>1, SteeringFrame DEF DoneCallback, pause, counters, Tasks
    <3>2. CASE ResumeGraph(t)
      <4>1. active = t /\ t # 0
        BY <3>2 DEF ResumeGraph, Proceeds, Moves, Inv, HolderIsActive, Holds,
                    Tasks
      <4> QED
        BY <3>2, <4>1, SteeringFrame
           DEF ResumeGraph, Proceeds, Moves, steering, counters
    <3>3. CASE StartGraph(t) \/ StartAnswer(t) \/ GraphInterrupts(t)
               \/ GraphEnds(t) \/ CancelGraph(t) \/ CancelElsewhere(t)
               \/ Finish(t)
      BY <3>3, SteeringFrame
         DEF StartGraph, StartAnswer, GraphInterrupts, GraphEnds, CancelGraph,
             CancelElsewhere, Delivered, Finish, Proceeds, Moves, pause,
             steering, counters
    <3>4. CASE RegisterPause(t)
      BY <3>4, SteeringFrame
         DEF RegisterPause, ArmPause, steering, counters
    <3> QED
      BY <2>3, <3>1, <3>2, <3>3, <3>4 DEF TaskStep
  <2>4. ASSUME NEW t \in Tasks, CellStep(t)
        PROVE  QueueHasOwner' /\ QueueIsCurrent' /\ SteeringIsScoped'
    <3>1. CASE OpenCell(t) \/ CloseCell(t)
      BY <3>1, SteeringFrame DEF OpenCell, CloseCell, registry, pause,
            steering, counters
    <3>2. CASE DrainSteering(t)
      BY <3>2 DEF DrainSteering, registry, pause, counters
    <3> QED
      BY <2>4, <3>1, <3>2 DEF CellStep
  <2>5. CASE EnqueueSteering
    <3>1. /\ queue' = queue \cup {[id |-> sent + 1, turn |-> turn]}
          /\ UNCHANGED <<turn, delivered, unclosed, paused, active>>
          /\ paused \/ active # 0
      BY <2>5 DEF EnqueueSteering, IsSessionBusy, HasLiveRunner, registry,
            pause, counters
    <3> QED BY <3>1
  <2>6. CASE SteeringFindsAbandoned
    BY <2>6, SteeringFrame DEF SteeringFindsAbandoned, counters
  <2>7. CASE Restart
    BY <2>7, SteeringFrame DEF Restart
  <2>8. CASE Rearm
    BY <2>8, SteeringFrame
       DEF Rearm, ArmPause, registry, pause, steering, counters
  <2>9. CASE Expire \/ Abort \/ Sweep \/ Respond \/ ReplyDropped
             \/ ReopenPaused \/ ReopenCold \/ Recover
    BY <2>9, SteeringFrame
       DEF Expire, Abort, Sweep, Respond, ReplyDropped, ReopenPaused,
           ReopenCold, Reopens, Recover, registry, pause, steering, counters
  <2>10. CASE UNCHANGED vars
    BY <2>10, SteeringFrame DEF vars, registry, pause, steering, counters
  <2> QED
    BY <2>1, <2>2, <2>3, <2>4, <2>5, <2>6, <2>7, <2>8, <2>9, <2>10
       DEF Next, Rest
<1> QED BY <1>1, <1>2, <1>3 DEF SteeringInv

\* Only the callbacks of a task take it out of the registry while the core is
\* up, and they close the shell only when nothing else needs it.
LEMMA ShellKept ==
    ASSUME SteeringInv, [Next]_vars, NEW t \in Tasks,
           phase[t] = "ended", phase'[t] = "gone", cell, ~cell',
           restarts' = restarts
    PROVE  Executing = {} /\ ~paused
<1> USE DEF SteeringInv, Inv, RegistryTypes
<1>1. ~Restart
  BY DEF Restart
<1>2. phase' # phase /\ cell' # cell
  OBVIOUS
<1>3. PICK u \in Tasks : DoneCallback(u)
  BY <1>1, <1>2
     DEF Next, Submit, Spawn, ReplyResumes, TaskStep, CellStep, StartGraph,
         StartAnswer, ResumeGraph, GraphInterrupts, RegisterPause, GraphEnds,
         CancelGraph, CancelElsewhere, Delivered, Finish, OpenCell, CloseCell,
         DrainSteering, Expire, EnqueueSteering, SteeringFindsAbandoned, Abort,
         Sweep, Respond, ReplyDropped, ReopenPaused, ReopenCold, Reopens,
         Recover, Rearm, Rest, registry, vars
<1>4. ~paused /\ active \in {0, u} /\ phase[u] = "ended"
  BY <1>3 DEF DoneCallback, Tasks
<1>5. ASSUME NEW v \in Executing PROVE FALSE
  BY <1>4 DEF Executing, HolderIsActive, Holds, Tasks
<1> QED BY <1>4, <1>5

\* The messages of the operator stay with the turn they were sent to, and the
\* callbacks of a finished task leave the shell of its successor alone.
THEOREM Isolated ==
    ASSUME ~Overlaps
    PROVE  Spec => TurnsAreIsolated
<1>1. Init => SteeringInv
  BY InitInv DEF Init, SteeringInv, QueueHasOwner, QueueIsCurrent,
                 SteeringIsScoped
<1>2. SteeringInv /\ [Next]_vars => SteeringInv'
  BY SteeringStep
<1>3. SteeringInv => SteeringIsScoped
  BY DEF SteeringInv
<1>4. SteeringInv /\ [Next]_vars =>
        [\A t \in Tasks :
            (phase[t] = "ended" /\ phase'[t] = "gone" /\ cell /\ ~cell'
               /\ restarts' = restarts)
                => Executing = {} /\ ~paused]_vars
  BY ShellKept
<1> QED
  BY <1>1, <1>2, <1>3, <1>4, PTL
     DEF Spec, TurnsAreIsolated, ShellOutlivesPredecessor

=============================================================================
