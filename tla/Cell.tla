--------------------------------- MODULE Cell ---------------------------------
(***************************************************************************)
(* The autonomous ReAct cell (brain/agentic_cell.py): the loop the model   *)
(* drives over one persistent shell.  A visit of run_agentic_cell_node is  *)
(* one iteration, route_after_cell loops back while the last verdict says  *)
(* "continue".  The module models the phases of the node, the work surface *)
(* the commands run on (core/workspace_sync.py), the gate in front of      *)
(* commands and registry tools (core/permissions.py,                       *)
(* core/tool_dispatch.py), the tournament between competing edits          *)
(* (brain/subagent_tournament.py) and the channels an iteration leaves     *)
(* behind (brain/state.py).                                                *)
(*                                                                         *)
(* The content of a file is the set of the edits it contains: edit n adds  *)
(* n to the content it was computed from, a command that rewrites a file   *)
(* adds Touched.                                                           *)
(***************************************************************************)
EXTENDS Integers, FiniteSets

CONSTANTS
    Paths,        \* files the mission works on
    Modes,        \* session permission modes the user may select
    Approvers,    \* who answers a deferred call: "native" is interrupt(),
                  \* "injected" the cell_approval_fn seam of the configuration
    MaxSteps,     \* AGENTIC_CELL_MAX_ITERATIONS
    Grant,        \* STEERING_ITERATION_GRANT
    MaxSteers,    \* bound: steering messages of the session
    MaxCalls,     \* bound: tool calls the model proposes in one iteration
    MaxEdits,     \* bound: edits the model proposes in the session
    MaxAsks,      \* bound: calls the model proposes that a human must approve
    MaxVisits     \* bound: times step_dispatch routes a step to the cell

\* The seven session permission modes.
AllModes == {"FULL_AUTO", "STANDARD", "CAUTIOUS", "ASK_EXECUTE", "ASK_ALL",
             "READ_ONLY", "PLAN_ONLY"}

ASSUME CellBounds ==
    /\ Modes \subseteq AllModes /\ Approvers \subseteq {"native", "injected"}
    /\ {MaxSteps, Grant, MaxSteers, MaxCalls, MaxEdits, MaxAsks, MaxVisits}
            \subseteq Nat
    /\ MaxSteps > 0

Tiers == {"READ_ONLY", "WRITE", "EXECUTE", "DANGEROUS"}
Touched == 0
Absent == {-1}
Contents == {Absent} \cup SUBSET (0 .. MaxEdits)

VARIABLES
    \* channels of the graph state
    vfs,        \* vfs_buffer: path -> content
    staged,     \* pending_contents: path -> content, for the write pipeline
    iteration,  \* agentic_iteration
    pendings,   \* which of pending_exec_command, pending_tool_call and
                \* pending_hitl_request are set
    status,     \* status of the last verdict in agentic_trajectory
    consumed,   \* _consumed_steering_ids, counted
    \* the session registry and the work surface
    shell,      \* "none", "live", or "dead": killed but still registered
    surface,    \* path -> content on the work surface
    \* locals of one iteration
    phase, mode, approver,
    work,       \* vfs_files: path -> content
    edited,     \* edited_paths
    writes,     \* pending_contents of this iteration
    candidates, \* candidate_edits: path -> contents in competition
    lastExit,   \* last_exit: "none", "zero", "nonzero"
    drained,    \* steering messages read when the iteration began
    calls,      \* calls dispatched in this iteration
    \* environment and history
    queue,      \* steering messages sent so far
    edits,      \* edits proposed so far
    asked,      \* gated calls proposed so far
    visits,     \* times the cell was entered
    credit      \* history: approvals given less runs that need one

channels == <<vfs, staged, iteration, pendings, status, consumed>>
locals == <<work, edited, writes, candidates, lastExit, drained, calls>>
environment == <<queue, edits, asked, visits>>
vars == <<vfs, staged, iteration, pendings, status, consumed, shell, surface,
          phase, mode, approver, work, edited, writes, candidates,
          lastExit, drained, calls, queue, edits, asked, visits, credit>>

Nothing == [p \in Paths |-> Absent]
NoCandidates == [p \in Paths |-> {}]

-----------------------------------------------------------------------------
(* The permission gate.                                                    *)

\* The decision matrix under an identity that may mutate.
EvaluateAction(m, tier) ==
    CASE m \in {"READ_ONLY", "PLAN_ONLY"} ->
            IF tier = "READ_ONLY" THEN "allow" ELSE "deny"
      [] m = "ASK_ALL" -> "hitl"
      [] m \notin {"READ_ONLY", "PLAN_ONLY", "ASK_ALL"} /\ tier = "READ_ONLY" ->
            "allow"
      [] m = "FULL_AUTO" /\ tier # "READ_ONLY" -> "allow"
      [] m = "STANDARD" /\ tier # "READ_ONLY" ->
            IF tier = "DANGEROUS" THEN "hitl" ELSE "allow"
      [] m = "CAUTIOUS" /\ tier # "READ_ONLY" -> "hitl"
      [] m = "ASK_EXECUTE" /\ tier # "READ_ONLY" ->
            IF tier = "DANGEROUS" THEN "deny" ELSE "hitl"

\* Mutant: the risk patterns are not consulted.
NoIntercept(decision, m, risky) == decision

\* A command that matches a risk pattern is raised from allow to hitl.
RiskInterceptGuard(decision, m, risky) ==
    IF decision = "allow" /\ m \in {"FULL_AUTO", "STANDARD"} /\ risky
    THEN "hitl" ELSE decision

ClassifyExecute(m, risky) ==
    RiskInterceptGuard(EvaluateAction(m, "EXECUTE"), m, risky)

\* The dispatcher's verdict on a registry tool: unknown tools and foreign
\* roles are refused before the policy is asked.
Classify(m, tier, callable) ==
    IF callable THEN EvaluateAction(m, tier) ELSE "deny"

-----------------------------------------------------------------------------
(* The work surface.                                                       *)

\* The snapshot of a push: a file whose write failed is not in it.
PushVfsToSurface(files, failed) ==
    [p \in Paths |-> IF p \in failed THEN Absent ELSE files[p]]

SurfaceAfterPush(files, failed) ==
    [p \in Paths |->
        IF files[p] = Absent \/ p \in failed THEN surface[p] ELSE files[p]]

\* What a command may leave: it rewrites some files and removes others.
AfterCommand(before, rewritten, removed) ==
    [p \in Paths |->
        IF p \in removed THEN Absent
        ELSE IF p \in rewritten
             THEN (IF before[p] = Absent THEN {} ELSE before[p]) \cup {Touched}
             ELSE before[p]]

\* A path whose version is known to the caller and not to the snapshot was
\* not pushed: what the surface holds of it is older.
Conflicts(snapshot, files, after) ==
    {p \in Paths : /\ after[p] # Absent
                   /\ after[p] # snapshot[p]
                   /\ snapshot[p] = Absent
                   /\ files[p] # Absent}

\* Mutant: the pull takes every file that differs.
PullEverything(snapshot, files, after) ==
    [p \in Paths |-> IF after[p] \notin {Absent, snapshot[p]}
                     THEN after[p] ELSE files[p]]

\* The files a pull brings back.  The paths it reports as deleted are left
\* to the caller, which ignores them.
PullSurfaceToVfs(snapshot, files, after) ==
    [p \in Paths |->
        IF /\ after[p] # Absent
           /\ after[p] # snapshot[p]
           /\ p \notin Conflicts(snapshot, files, after)
        THEN after[p] ELSE files[p]]

\* The reducer of vfs_buffer keeps the version whose id sorts later; the ids
\* the cell writes are hashes of the content, so either may.
MergeVfs(delta, kept) ==
    [p \in Paths |->
        IF delta[p] # Absent /\ (vfs[p] = Absent \/ p \in kept)
        THEN delta[p] ELSE vfs[p]]

\* A command that outlives its time limit has the shell killed under it.
ShellAfterRun(exit) == IF exit = "timeout" THEN "dead" ELSE "live"

\* An edit is computed from the base it was proposed against.
ComputeEdit(base, n) == (IF base = Absent THEN {} ELSE base) \cup {n}

\* Steering grants iterations, for every message consumed so far.
SteeringStepGrant == Grant * drained

Overlay(f, g) == [p \in Paths |-> IF g[p] # Absent THEN g[p] ELSE f[p]]

-----------------------------------------------------------------------------
Init ==
    /\ vfs \in [Paths -> {{}, Absent}]
    /\ surface = Nothing
    /\ staged = Nothing
    /\ iteration = 0 /\ pendings = {} /\ status = "none" /\ consumed = 0
    /\ shell = "none"
    /\ phase = "idle" /\ mode \in Modes /\ approver \in Approvers
    /\ work = Nothing /\ edited = {} /\ writes = Nothing
    /\ candidates = NoCandidates /\ lastExit = "none" /\ drained = 0
    /\ calls = 0
    /\ queue = 0 /\ edits = 0 /\ asked = 0 /\ visits = 0
    /\ credit = 0

ResetLocals ==
    /\ work' = Nothing /\ edited' = {}
    /\ writes' = Nothing /\ candidates' = NoCandidates
    /\ lastExit' = "none" /\ drained' = 0 /\ calls' = 0

\* Mutant: an iteration that loops back is not counted.
ReturnUncounted(verdict) ==
    /\ status' = verdict
    /\ iteration' = iteration
    /\ phase' = IF verdict = "continue" THEN "open" ELSE "idle"
    /\ shell' = IF verdict = "continue" THEN shell ELSE "none"
    /\ ResetLocals

\* The node returns: its verdict decides between another iteration and the
\* contract guard, and a terminal one closes the session.
Return(verdict) ==
    /\ status' = verdict
    /\ iteration' = iteration + 1
    /\ phase' = IF verdict = "continue" THEN "open" ELSE "idle"
    /\ shell' = IF verdict = "continue" THEN shell ELSE "none"
    /\ ResetLocals

\* A fault anywhere in the node, the exception that interrupt() raises
\* included, ends the loop and drops what the iteration did.
Concede ==
    /\ Return("concede")
    /\ UNCHANGED <<vfs, staged, pendings, consumed, surface, mode, approver,
                   environment, credit>>

-----------------------------------------------------------------------------
(* A step of the plan is routed to the cell.                               *)

Enter ==
    /\ phase = "idle" /\ visits < MaxVisits
    /\ visits' = visits + 1
    /\ mode' \in Modes
    /\ phase' = "open"
    /\ UNCHANGED <<channels, shell, surface, approver, locals, credit,
                   queue, edits, asked>>

\* The session registered for the task is reused, a dead one too; without
\* one the adapter opens a shell, or the cell concedes.
ResolveSession ==
    /\ phase = "open"
    /\ \/ /\ shell' = (IF shell = "none" THEN "live" ELSE shell)
          /\ phase' = CASE "command" \in pendings -> "exec"
                        [] "command" \notin pendings /\ "tool" \in pendings ->
                             "tool"
                        [] pendings = {"question"} -> "answer"
                        [] pendings = {} -> "reason"
          /\ UNCHANGED <<channels, surface, mode, approver, locals,
                         environment, credit>>
       \/ shell = "none" /\ Concede

-----------------------------------------------------------------------------
(* The phases that resume a deferred call.                                 *)

\* interrupt() raises, and the handler of the node takes it for a fault.
InterruptRaises ==
    /\ phase \in {"exec", "tool", "answer"}
    /\ approver = "native"
    /\ Concede

\* The reply of the operator, where an approval function is configured.
ExecApproval ==
    /\ phase = "exec" /\ approver = "injected"
    /\ \/ /\ credit' = credit + 1
          /\ phase' = "execRun"
          /\ UNCHANGED <<channels, shell, surface, mode, approver, locals,
                         environment>>
       \/ /\ pendings' = pendings \ {"command"}
          /\ Return("continue")
          /\ UNCHANGED <<vfs, staged, consumed, surface, mode, approver,
                         environment, credit>>

\* The approved command runs once over the files of the channel, and what it
\* changed goes back to the channel; a dead shell raises.
ExecApprovedRun ==
    /\ phase = "execRun"
    /\ \/ /\ shell = "live"
          /\ credit' = credit - 1
          /\ \E failed, rewritten, removed, kept \in SUBSET Paths,
                exit \in {"zero", "nonzero", "timeout"} :
                LET snapshot == PushVfsToSurface(vfs, failed)
                    after == AfterCommand(SurfaceAfterPush(vfs, failed),
                                          rewritten, removed)
                    pulled == PullSurfaceToVfs(snapshot, vfs, after) IN
                /\ surface' = after
                /\ vfs' = MergeVfs([p \in Paths |-> IF pulled[p] = vfs[p]
                                         THEN Absent ELSE pulled[p]], kept)
                /\ IF exit = "zero" THEN Return("green")
                   ELSE /\ status' = "continue"
                        /\ iteration' = iteration + 1
                        /\ phase' = "open"
                        /\ shell' = ShellAfterRun(exit)
                        /\ ResetLocals
          /\ pendings' = pendings \ {"command"}
          /\ UNCHANGED <<staged, consumed, mode, approver, environment>>
       \/ shell = "dead" /\ Concede

\* A denial, a tool that no longer resolves, a tool the mode now forbids, or
\* the call itself, which ran or failed as an observation.
ToolCallApproval ==
    /\ phase = "tool" /\ approver = "injected"
    /\ pendings' = pendings \ {"tool"}
    /\ credit' \in {credit, credit + 1}
    /\ Return("continue")
    /\ UNCHANGED <<vfs, staged, consumed, surface, mode, approver,
                   environment>>

ClarificationResume ==
    /\ phase = "answer" /\ approver = "injected"
    /\ pendings' = pendings \ {"question"}
    /\ Return("continue")
    /\ UNCHANGED <<vfs, staged, consumed, surface, mode, approver,
                   environment, credit>>

-----------------------------------------------------------------------------
(* A working iteration.                                                    *)

\* The files of the channel become the working set and are the
\* steering messages not consumed yet join the context, the model answers.
Reason ==
    /\ phase = "reason"
    /\ \E failed \in SUBSET Paths :
        surface' = SurfaceAfterPush(vfs, failed)
    /\ work' = vfs
    /\ drained' = queue
    /\ phase' = "calls"
    /\ UNCHANGED <<channels, shell, mode, approver, edited, writes,
                   candidates, lastExit, calls, environment, credit>>

InCalls == phase = "calls" /\ calls < MaxCalls

\* A call that leaves only an observation.
Observed ==
    /\ calls' = calls + 1
    /\ UNCHANGED <<channels, shell, surface, phase, mode, approver, work,
                   edited, writes, candidates, lastExit, drained,
                   environment, credit>>

\* A call the audit rejects, or a read_file_ast.
RejectOrRead == InCalls /\ Observed

\* run_terminal where the policy denies it.
DenyTerminal ==
    /\ InCalls
    /\ \E risky \in BOOLEAN : ClassifyExecute(mode, risky) = "deny"
    /\ Observed

\* A registry tool that needs no human runs, fails or is refused, all as an
\* observation for the model.
DispatchTool ==
    /\ InCalls
    /\ \E tier \in Tiers, callable \in BOOLEAN :
            Classify(mode, tier, callable) \in {"allow", "deny"}
    /\ Observed

\* The return of an iteration that defers a call: the verdict is "continue",
\* the edits so far ride out, the call waits in its channel.
Defer(channel) ==
    /\ pendings' = pendings \cup {channel}
    /\ \E kept \in SUBSET edited :
        vfs' = MergeVfs([p \in Paths |-> IF p \in edited THEN work[p]
                                         ELSE Absent], kept)
    /\ staged' = Overlay(staged, writes)
    /\ consumed' = drained
    /\ asked' = asked + 1
    /\ Return("continue")

\* run_terminal over the files as edited so far: push, run, pull.  A command
\* that times out has its shell killed; a dead shell raises.
RunTerminal ==
    /\ InCalls
    /\ \E risky \in BOOLEAN :
       \/ /\ ClassifyExecute(mode, risky) = "allow"
          /\ shell = "live"
          /\ \E failed, rewritten, removed \in SUBSET Paths,
                exit \in {"zero", "nonzero", "timeout"} :
                LET snapshot == PushVfsToSurface(work, failed)
                    after == AfterCommand(SurfaceAfterPush(work, failed),
                                          rewritten, removed) IN
                /\ surface' = after
                /\ work' = PullSurfaceToVfs(snapshot, work, after)
                /\ lastExit' = IF exit = "zero" THEN "zero" ELSE "nonzero"
                /\ shell' = ShellAfterRun(exit)
          /\ calls' = calls + 1
          /\ credit' = credit -
                (IF risky \/ mode \in {"CAUTIOUS", "ASK_ALL", "ASK_EXECUTE"}
                 THEN 1 ELSE 0)
          /\ UNCHANGED <<channels, phase, mode, approver, edited, writes,
                         candidates, drained, environment>>
       \/ /\ ClassifyExecute(mode, risky) = "allow"
          /\ shell = "dead"
          /\ Concede
       \/ /\ ClassifyExecute(mode, risky) = "hitl"
          /\ asked < MaxAsks
          /\ Defer("command")
          /\ UNCHANGED <<surface, mode, approver, queue, edits, visits,
                         credit>>

\* apply_granular_edit: the first edit of a path builds on the working set, a
\* later one competes with it from the clean base.  An anchor that does not
\* match raises, and the iteration is lost.
ApplyGranularEdit ==
    /\ InCalls /\ edits < MaxEdits
    /\ edits' = edits + 1
    /\ \/ \E p \in Paths :
            LET base == IF candidates[p] # {} THEN vfs[p] ELSE work[p]
                content == ComputeEdit(base, edits + 1)
            IN /\ candidates' = [candidates EXCEPT ![p] = @ \cup {content}]
               /\ edited' = edited \cup {p}
               /\ work' = [work EXCEPT ![p] = content]
               /\ writes' = [writes EXCEPT ![p] = content]
               /\ calls' = calls + 1
               /\ UNCHANGED <<channels, shell, surface, phase, mode, approver,
                              lastExit, drained, queue, asked, visits,
                              credit>>
       \/ /\ Return("concede")
          /\ UNCHANGED <<vfs, staged, pendings, consumed, surface, mode,
                         approver, queue, asked, visits, credit>>

\* A registry tool the mode gates is deferred; ask_user_question runs and
\* then defers with the question it left in the state.
FallbackTool ==
    /\ InCalls /\ asked < MaxAsks
    /\ \/ /\ \E tier \in Tiers : Classify(mode, tier, TRUE) = "hitl"
          /\ Defer("tool")
       \/ /\ Classify(mode, "READ_ONLY", TRUE) = "allow"
          /\ Defer("question")
    /\ UNCHANGED <<surface, mode, approver, queue, edits, visits, credit>>

\* Edits that compete for a path are tried in turn over the surface, rolled
\* back to the clean base between them; the best becomes the content.
\* A verification that needs a dead shell raises.
Tournament ==
    /\ phase = "calls"
    /\ \E p \in Paths :
        /\ Cardinality(candidates[p]) > 1
        /\ \/ /\ shell = "live"
              /\ \E winner \in candidates[p] :
                    /\ work' = [work EXCEPT ![p] = winner]
                    /\ writes' = [writes EXCEPT ![p] = winner]
                    /\ surface' = [Overlay(surface, vfs) EXCEPT ![p] = winner]
              /\ candidates' = [candidates EXCEPT ![p] = {}]
              /\ calls' = MaxCalls
              /\ shell' \in {"live", "dead"}
              /\ UNCHANGED <<channels, phase, mode, approver, edited,
                             lastExit, drained, environment, credit>>
           \/ Concede

Govern ==
    /\ phase = "calls"
    /\ \A p \in Paths : Cardinality(candidates[p]) < 2
    /\ phase' = "govern"
    /\ UNCHANGED <<channels, shell, surface, mode, approver, locals,
                   environment, credit>>

\* The circuit breaker on steps, elapsed time and cost.
CheckGovernor(step, spent) ==
    step >= MaxSteps + SteeringStepGrant \/ spent

\* The verdict of the iteration and what it returns.
Decide ==
    /\ phase = "govern"
    /\ \E spent \in BOOLEAN :
        Return(CASE lastExit = "zero" -> "green"
                 [] lastExit # "zero" /\ CheckGovernor(iteration + 1, spent) ->
                        "budget"
                 [] lastExit # "zero" /\ ~CheckGovernor(iteration + 1, spent) ->
                        "continue")
    /\ \E kept \in SUBSET edited :
        vfs' = MergeVfs([p \in Paths |-> IF p \in edited THEN work[p]
                                         ELSE Absent], kept)
    /\ staged' = Overlay(staged, writes)
    /\ consumed' = drained
    /\ UNCHANGED <<pendings, surface, mode, approver, environment, credit>>

-----------------------------------------------------------------------------
(* The rest of the system.                                                 *)

\* A steering message for the running turn.
Steer ==
    /\ phase # "idle" /\ queue < MaxSteers
    /\ queue' = queue + 1
    /\ UNCHANGED <<channels, shell, surface, phase, mode, approver, locals,
                   edits, asked, visits, credit>>

\* Stop cancels the runner inside an iteration: nothing of it is returned,
\* and the callback of the task closes the session.
Cancel ==
    /\ phase # "idle"
    /\ phase' = "idle"
    /\ shell' = "none"
    /\ ResetLocals
    /\ UNCHANGED <<channels, surface, mode, approver, environment, credit>>

Node ==
    \/ ResolveSession
    \/ InterruptRaises \/ ExecApproval \/ ExecApprovedRun
    \/ ToolCallApproval \/ ClarificationResume
    \/ Reason \/ RejectOrRead \/ DenyTerminal \/ DispatchTool
    \/ RunTerminal \/ ApplyGranularEdit \/ FallbackTool
    \/ Tournament \/ Govern \/ Decide

Next == Enter \/ Node \/ Steer \/ Cancel

\* A node that may step does: the super-step runs to its return.
Spec == Init /\ [][Next]_vars /\ WF_vars(Node)

-----------------------------------------------------------------------------
(* Properties.                                                             *)

\* Whatever the surface holds after a push that failed in part, an edit of
\* the iteration stays in the working set until the iteration returns, and
\* the working set never falls behind the channel (the optimistic guard of
\* pull_surface_to_vfs).
EditsOutliveTheSurface ==
    phase \in {"calls", "govern"} =>
        \A p \in Paths :
            /\ p \in edited => writes[p] \subseteq work[p]
            /\ vfs[p] # Absent => work[p] # Absent /\ vfs[p] \subseteq work[p]

\* The three resume phases exclude each other because at most one call is
\* ever deferred (the note at the tool-call-approval phase).
OneDeferredCall == Cardinality(pendings) <= 1

\* A command or tool that the session's policy puts before a human runs at
\* most as often as a human approved one.
NothingGatedRunsUnasked == credit >= 0

\* A deferral is safe: the operator is asked about one call at a time, and
\* nothing the policy gates runs on the strength of another call's answer.
DeferralIsSafe == OneDeferredCall /\ NothingGatedRunsUnasked

\* The shell of the task is closed on every way out of the loop, a fault and
\* an abort included.
NoStrandedShell == phase = "idle" => shell = "none"

\* A cell that is entered leaves the loop again, with its shell closed: the
\* governor or a fault ends it, whatever the model proposes.
CellConcludes ==
    /\ []NoStrandedShell
    /\ (phase # "idle" /\ approver = "native") ~> (phase = "idle")

\* A deferred call waits for an operator: the loop does not end while the
\* question was never put (_approve_exec suspends the graph with interrupt()).
HumanIsAsked == (phase = "idle" /\ status = "concede") => pendings = {}

=============================================================================
