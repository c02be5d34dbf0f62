------------------------------ MODULE Mission ------------------------------
(***************************************************************************)
(* The mission loop of the coding graph under RELAY (brain/engine.py): a   *)
(* plan of numbered steps is dispatched one step at a time to the coder,   *)
(* passes the budget gates, and reaches the apply gate                     *)
(* (brain/apply_gate.py), which prepares an envelope, asks the human when  *)
(* the permission verdict says so, and then writes the files or runs the   *)
(* command.  validate_output (brain/guardrails.py) routes the next lap.    *)
(*                                                                         *)
(* The channels survive from one turn of a session to the next, because    *)
(* the checkpoint thread is the session: each variable below that models a *)
(* channel carries the channel's own reducer.                              *)
(***************************************************************************)
EXTENDS Naturals, FiniteSets

CONSTANTS
    NSteps,         \* steps of a plan, numbered 1..NSteps in list order
    Plans,          \* the plans the planner may return
    Effort,         \* effort_level of the turns: "light", "balanced" or "deep"
    Verdicts,       \* verdicts the permission gate can return
    AutoAccept,     \* values of "auto accept applies to this change"
    Guardrail,      \* verdicts of the output schema validation (TRUE: valid)
    OverBudget,     \* outcomes of the cost test of finops_gate
    Supervision,    \* outcomes of the supervisor: "pass", "kill"
    CorrectionMax,  \* CORRECTION_MAX_ATTEMPTS
    RejectMax,      \* APPLY_REJECT_MAX_ATTEMPTS
    GuardrailMax,   \* MAX_RETRIES of the output guardrail
    MaxLaps,        \* laps that fit under GRAPH_RECURSION_LIMIT
    MaxTurns,       \* bound: turns of the session
    MaxCopies,      \* bound: deliveries of one human reply
    Abandonable     \* may a pause outlive PAUSED_INTERRUPT_TTL_S?

Steps == 1..NSteps
Kinds == {"read", "file", "command", "cell"}
Statuses == {"pending", "in_progress", "awaiting_approval",
             "revision_requested", "completed", "failed", "rejected"}
Nodes == {"idle", "dispatch", "coder", "cell", "heal", "finops",
          "supervisor", "prepare", "commit", "validate", "checks"}
Outcomes == {"none", "running", "planned", "done", "stall", "empty",
             "budget", "recursion", "error", "abort"}
Answers == {"approve", "decline", "revise"}

ASSUME StepsAssumption == NSteps \in Nat \ {0}
ASSUME PlansAssumption ==
    Plans \subseteq [kind : [Steps -> Kinds], deps : [Steps -> SUBSET Steps]]
ASSUME EffortAssumption == Effort \in {"light", "balanced", "deep"}
ASSUME VerdictAssumption == Verdicts \subseteq {"allow", "hitl", "deny"}
ASSUME OutcomeAssumption ==
    /\ AutoAccept \subseteq BOOLEAN
    /\ Guardrail \subseteq BOOLEAN
    /\ OverBudget \subseteq BOOLEAN
    /\ Supervision \subseteq {"pass", "kill"}
    /\ Abandonable \in BOOLEAN
ASSUME BoundAssumption ==
    /\ CorrectionMax \in Nat
    /\ RejectMax \in Nat
    /\ GuardrailMax \in Nat
    /\ MaxLaps \in Nat
    /\ MaxTurns \in Nat
    /\ MaxCopies \in Nat \ {0}

VARIABLES
    plan,           \* mission_spec: the shape of the plan
    status,         \* mission_spec.tasks[s].status
    current,        \* current_step_id, 0 for None
    files,          \* pending_step_files: turn that drafted s's files, 0 if none
    command,        \* pending_step_command: turn that staged s's command, 0 if none
    pending_apply,  \* the envelope between prepare and commit
    apply_attempts, \* revision rounds used by a step
    applied,        \* applied_step_ids
    healing,        \* healing_required
    corrections,    \* correction_attempts
    retries,        \* retry_count of the output guardrail
    killed,         \* SESSION_BUDGET_HARD_KILL in security_flags
    node,           \* the node the run is about to execute
    sent,           \* current_step_id in the node's own input (the Send payload)
    turn, laps,     \* turn of the session, lap of the turn
    spins,          \* laps since the run (re)started, against MaxLaps
    outcome,        \* how the last turn ended
    paused,         \* session_id in _paused_tasks: an approval card is up
    inflight,       \* replies sent by the client, not yet handled
    answers,        \* history: what the human answered to which card
    landings        \* history: effects that reached the disk or the shell

mission == <<plan, status>>
staging == <<files, command>>
budgets == <<apply_attempts, corrections, retries>>
run == <<node, sent, turn, laps, spins, outcome>>
hitl == <<paused, inflight, answers>>
vars == <<mission, staging, budgets, run, hitl, current, pending_apply,
          applied, healing, killed, landings>>

NoEnvelope == [step |-> 0, kind |-> "none", decision |-> "none",
               auto |-> FALSE, attempt |-> 0, drafted |-> 0]
Cards == [turn : 0..MaxTurns, lap : Nat, step : 0..NSteps]
Replies == [card : Cards, answer : Answers, copy : 1..MaxCopies]
Envelopes ==
    [step : Steps, kind : {"file", "command"},
     decision : {"allow", "hitl", "deny"}, auto : BOOLEAN,
     attempt : Nat, drafted : 0..MaxTurns] \cup {NoEnvelope}
Landings ==
    [turn : 0..MaxTurns, lap : Nat, step : Steps,
     gate : {"allow", "hitl"}, drafted : 0..MaxTurns]

TypeMission ==
    /\ plan \in Plans
    /\ status \in [Steps -> Statuses]
    /\ files \in [Steps -> 0..MaxTurns]
    /\ command \in [Steps -> 0..MaxTurns]
    /\ apply_attempts \in [Steps -> Nat]

TypeGate ==
    /\ pending_apply \in Envelopes
    /\ applied \subseteq Steps

TypeCounters ==
    /\ current \in 0..NSteps
    /\ sent \in 0..NSteps
    /\ turn \in 0..MaxTurns
    /\ corrections \in Nat
    /\ retries \in Nat
    /\ laps \in Nat
    /\ spins \in Nat

TypeControl ==
    /\ node \in Nodes
    /\ outcome \in Outcomes
    /\ healing \in BOOLEAN
    /\ killed \in BOOLEAN
    /\ paused \in BOOLEAN

TypeHistory ==
    /\ inflight \subseteq Replies
    /\ answers \subseteq [card : Cards, answer : Answers]
    /\ landings \subseteq Landings

TypeOK ==
    /\ TypeMission
    /\ TypeGate
    /\ TypeCounters
    /\ TypeControl
    /\ TypeHistory

-----------------------------------------------------------------------------
\* Predicates shared by the dispatcher and the router (brain/state.py).

IsTerminal(s) == status[s] \in {"completed", "failed", "rejected"}

\* Faulty variant of IsDispatchable: the prerequisites forgotten.
IsDispatchableIgnoringDeps(s) ==
    status[s] \in {"pending", "revision_requested"}

IsDispatchable(s) ==
    /\ status[s] \in {"pending", "revision_requested"}
    /\ \A d \in plan.deps[s] : status[d] = "completed"

\* resolve_correction_ceiling: the light effort heals nothing.
CorrectionCeiling == IF Effort = "light" THEN 0 ELSE CorrectionMax

MarkStatus(s, st) == status' = [status EXCEPT ![s] = st]

\* Faulty variant of WriteCurrent: an adding reducer.
AddCurrent(s) == current' = current + s

\* _resolve_step_id: the channel keeps the highest step number ever written.
WriteCurrent(s) == current' = IF s > current THEN s ELSE current

End(o) == node' = "idle" /\ outcome' = o
Goto(n) == node' = n /\ UNCHANGED outcome
Running == node # "idle" /\ ~paused

-----------------------------------------------------------------------------
(***************************************************************************)
(* Turns.  _build_initial_state seeds every turn.  On a channel with an    *)
(* adding reducer an empty seed changes nothing, and pending_apply,        *)
(* correction_attempts, healing_required are not seeded at all, so only    *)
(* retry_count and the plan are reset.                                     *)
(***************************************************************************)
Init ==
    /\ plan \in Plans
    /\ status = [s \in Steps |-> "pending"]
    /\ current = 0
    /\ files = [s \in Steps |-> 0]
    /\ command = [s \in Steps |-> 0]
    /\ pending_apply = NoEnvelope
    /\ apply_attempts = [s \in Steps |-> 0]
    /\ applied = {}
    /\ healing = FALSE
    /\ corrections = 0
    /\ retries = 0
    /\ killed = FALSE
    /\ node = "idle"
    /\ sent = 0
    /\ turn = 0
    /\ laps = 0
    /\ spins = 0
    /\ outcome = "none"
    /\ paused = FALSE
    /\ inflight = {}
    /\ answers = {}
    /\ landings = {}

\* The admission guard of submit_task: no live runner, and a pause only once
\* it has outlived PAUSED_INTERRUPT_TTL_S, which discards it.
Submittable ==
    /\ turn < MaxTurns
    /\ node = "idle" \/ (paused /\ Abandonable)

SeedTurn ==
    /\ Submittable
    /\ turn' = turn + 1
    /\ laps' = 0
    /\ spins' = 0
    /\ retries' = 0
    /\ paused' = FALSE
    /\ UNCHANGED <<staging, current, pending_apply, apply_attempts, applied,
                   healing, corrections, killed, sent, inflight, answers,
                   landings>>

\* The planner returns a plan, and the turn executes it.
PlanAndRun ==
    /\ SeedTurn
    /\ plan' \in Plans
    /\ status' = [s \in Steps |-> "pending"]
    /\ node' = "dispatch"
    /\ outcome' = "running"

\* A PLAN_ONLY turn stops as soon as the plan exists.
PlanOnly ==
    /\ SeedTurn
    /\ plan' \in Plans
    /\ status' = [s \in Steps |-> "pending"]
    /\ End("planned")

\* accepted_plan: the checkpointed plan is kept and executed.
RunAcceptedPlan ==
    /\ SeedTurn
    /\ turn > 0
    /\ UNCHANGED mission
    /\ node' = "dispatch"
    /\ outcome' = "running"

-----------------------------------------------------------------------------
\* step_dispatch and route_to_coders: the first dispatchable step in list order.

Dispatch ==
    /\ node = "dispatch"
    /\ \E s \in Steps :
        /\ IsDispatchable(s)
        /\ \A t \in Steps : t < s => ~IsDispatchable(t)
        /\ sent' = s
        /\ Goto(IF plan.kind[s] = "cell" THEN "cell" ELSE "coder")
    /\ UNCHANGED <<mission, staging, budgets, hitl, current, pending_apply,
                   applied, healing, killed, landings, turn, laps, spins>>

\* No step to send: the conditional edge returns no Send and the run ends.
DispatchNothing ==
    /\ node = "dispatch"
    /\ \A s \in Steps : ~IsDispatchable(s)
    /\ End("empty")
    /\ UNCHANGED <<mission, staging, budgets, hitl, current, pending_apply,
                   applied, healing, killed, landings, sent, turn, laps, spins>>

-----------------------------------------------------------------------------
(***************************************************************************)
(* run_coder_node under reflexion_guard.  A normal return writes           *)
(* current_step_id; a trapped exception writes only the healing channels.  *)
(***************************************************************************)
CoderFrame == UNCHANGED <<apply_attempts, retries, hitl, pending_apply,
                          applied, killed, landings, sent, turn, laps, spins>>

\* route_after_coder reads the healing flag, which may be an older turn's.
RouteAfterCoder == Goto(IF healing THEN "heal" ELSE "finops")

CoderReturns(st) ==
    /\ node = "coder"
    /\ sent # 0
    /\ MarkStatus(sent, st)
    /\ WriteCurrent(sent)
    /\ RouteAfterCoder
    /\ CoderFrame
    /\ UNCHANGED <<plan, healing, corrections>>

\* read_file gathers context and completes at once.
CoderReads ==
    /\ CoderReturns("completed")
    /\ plan.kind[sent] = "read"
    /\ UNCHANGED staging

\* No adapter, an invalid command, or a failed generation.
CoderFails ==
    /\ CoderReturns("failed")
    /\ plan.kind[sent] \in {"file", "command"}
    /\ UNCHANGED staging

\* The command is staged for the apply gate; nothing runs here.
CoderStagesCommand ==
    /\ CoderReturns("in_progress")
    /\ plan.kind[sent] = "command"
    /\ command' = [command EXCEPT ![sent] = turn]
    /\ UNCHANGED files

\* The patches of the step, possibly none, replace what was staged for it.
CoderStagesFiles ==
    /\ CoderReturns("in_progress")
    /\ plan.kind[sent] = "file"
    /\ \E t \in {0, turn} : files' = [files EXCEPT ![sent] = t]
    /\ UNCHANGED command

\* A guardrail retry before any step was written: the coder finds no step.
CoderWithoutStep ==
    /\ node = "coder"
    /\ sent = 0
    /\ RouteAfterCoder
    /\ CoderFrame
    /\ UNCHANGED <<mission, staging, current, healing, corrections>>

\* reflexion_guard turns an exception into a healing request within budget.
CoderRaises ==
    /\ node = "coder"
    /\ corrections < CorrectionMax
    /\ healing' = TRUE
    /\ corrections' = corrections + 1
    /\ Goto("heal")
    /\ CoderFrame
    /\ UNCHANGED <<mission, staging, current>>

\* Budget spent or failure signature open: re-raised, recorded by the dead
\* letter decorator, and the turn dies.
CoderConcedes ==
    /\ node = "coder"
    /\ End("error")
    /\ CoderFrame
    /\ UNCHANGED <<mission, staging, current, healing, corrections>>

Coder ==
    \/ CoderReads
    \/ CoderFails
    \/ CoderStagesCommand
    \/ CoderStagesFiles
    \/ CoderWithoutStep
    \/ CoderRaises
    \/ CoderConcedes

\* run_agentic_cell_node writes neither the step's status nor current_step_id.
Cell ==
    /\ node = "cell"
    /\ Goto("finops")
    /\ UNCHANGED <<mission, staging, budgets, hitl, current, pending_apply,
                   applied, healing, killed, landings, sent, turn, laps, spins>>

\* Faulty variant of ErrorCorrection: the healing flag stays up.
ErrorCorrectionKeepsFlag ==
    /\ node = "heal"
    /\ Goto("finops")
    /\ UNCHANGED <<mission, staging, budgets, hitl, current, pending_apply,
                   applied, healing, killed, landings, sent, turn, laps, spins>>

\* run_error_correction_node: healed or not, it only clears the flag; a fix
\* goes to pending_contents, never to a status or to the step's staged files.
ErrorCorrection ==
    /\ node = "heal"
    /\ healing' = FALSE
    /\ Goto("finops")
    /\ UNCHANGED <<mission, staging, budgets, hitl, current, pending_apply,
                   applied, killed, landings, sent, turn, laps, spins>>

-----------------------------------------------------------------------------
\* The budget gates.

GateFrame == UNCHANGED <<mission, staging, budgets, current, pending_apply,
                         applied, healing, landings, sent, turn, laps>>

FinopsPasses ==
    /\ node = "finops" /\ ~paused
    /\ FALSE \in OverBudget
    /\ Goto("supervisor")
    /\ GateFrame
    /\ UNCHANGED <<hitl, killed, spins>>

\* Over the ceiling: interrupt() suspends the graph on a budget card.
FinopsPauses ==
    /\ node = "finops" /\ ~paused
    /\ TRUE \in OverBudget
    /\ paused' = TRUE
    /\ GateFrame
    /\ UNCHANGED <<killed, spins, node, outcome, inflight, answers>>

\* run_supervisor_node and route_after_supervisor.  security_flags only grows,
\* so a kill of an earlier turn still ends this one.
Supervisor ==
    /\ node = "supervisor"
    /\ \E v \in Supervision :
        /\ killed' = (killed \/ v = "kill")
        /\ IF killed' THEN End("budget") ELSE Goto("prepare")
    /\ GateFrame
    /\ UNCHANGED <<hitl, spins>>

-----------------------------------------------------------------------------
(***************************************************************************)
(* apply_patch: run_apply_prepare_node targets the step of the channel,    *)
(* not the step that was sent.                                             *)
(***************************************************************************)
PrepareFrame == UNCHANGED <<plan, staging, budgets, hitl, applied, healing,
                            killed, landings, sent, turn, laps, spins>>

HasTarget == current # 0 /\ ~IsTerminal(current)

PrepareSkips ==
    /\ node = "prepare"
    /\ ~HasTarget
    /\ Goto("commit")
    /\ PrepareFrame
    /\ UNCHANGED <<status, current, pending_apply>>

PreparesTarget ==
    /\ node = "prepare"
    /\ HasTarget
    /\ Goto("commit")
    /\ PrepareFrame
    /\ UNCHANGED current

\* Nothing staged, only internal paths, or a pre_patch veto of a change that
\* would be applied without a card: the step fails, the envelope is left alone.
PrepareFails ==
    /\ PreparesTarget
    /\ command[current] = 0
    /\ MarkStatus(current, "failed")
    /\ UNCHANGED pending_apply

\* The verdict of the permission gate becomes the envelope.  A staged command
\* takes precedence over staged files.
Prepare(decision, auto) ==
    /\ PreparesTarget
    /\ command[current] # 0 \/ files[current] # 0
    /\ auto => (decision = "hitl" /\ command[current] = 0)
    /\ pending_apply' =
        [step |-> current,
         kind |-> IF command[current] # 0 THEN "command" ELSE "file",
         decision |-> decision,
         auto |-> auto,
         attempt |-> apply_attempts[current],
         drafted |-> IF command[current] # 0 THEN command[current]
                                             ELSE files[current]]
    /\ IF decision = "hitl" /\ ~auto
       THEN MarkStatus(current, "awaiting_approval")
       ELSE UNCHANGED status

-----------------------------------------------------------------------------
(***************************************************************************)
(* apply_commit: run_apply_commit_node.  Its effects are split by how they *)
(* end.  Each of them clears the envelope and goes on to validate_output.  *)
(***************************************************************************)
Target == pending_apply.step
AsksHuman == pending_apply.decision = "hitl" /\ ~pending_apply.auto

\* The card on screen; it is identified by the lap that raised it.
Card == [turn |-> turn, lap |-> laps,
         step |-> IF node = "commit" THEN Target ELSE 0]

CommitFrame == UNCHANGED <<plan, staging, retries, killed, sent, turn, laps>>

Land(gate) ==
    landings' = landings \cup
        {[turn |-> turn, lap |-> laps, step |-> Target, gate |-> gate,
          drafted |-> pending_apply.drafted]}

\* The common tail of every decided step: status, pointer, cleared envelope.
Resolve(st) ==
    /\ MarkStatus(Target, st)
    /\ WriteCurrent(Target)
    /\ pending_apply' = NoEnvelope
    /\ Goto("validate")
    /\ CommitFrame

\* _terminal_result: the step also enters the idempotency ledger.
Settle(st) ==
    /\ Resolve(st)
    /\ applied' = applied \cup {Target}
    /\ UNCHANGED <<apply_attempts, healing, corrections>>

\* The self-heal contract: within the ceiling a failure asks for healing.
RequestHealing ==
    /\ corrections < CorrectionCeiling
    /\ healing' = TRUE
    /\ corrections' = corrections + 1
    /\ UNCHANGED apply_attempts

\* _commit_command.
CommandSucceeds(gate) ==
    /\ pending_apply.kind = "command"
    /\ Land(gate)
    /\ Settle("completed")

CommandFails(gate) ==
    /\ pending_apply.kind = "command"
    /\ Land(gate)
    /\ \/ corrections >= CorrectionCeiling /\ Settle("failed")
       \/ /\ RequestHealing
          /\ Resolve("failed")
          /\ applied' = applied \cup {Target}

\* _commit_files: the syntax gate and, above the light effort, the lint gate.
\* A step sent to healing is not entered in the ledger.
PatchFailsGate ==
    /\ pending_apply.kind = "file"
    /\ \/ corrections >= CorrectionCeiling /\ Settle("failed")
       \/ /\ RequestHealing
          /\ Resolve("failed")
          /\ UNCHANGED applied
    /\ UNCHANGED landings

\* Faulty variant of WriteRefused: the refusal is reported as a success.
WriteRefusedSilently ==
    /\ pending_apply.kind = "file"
    /\ Settle("completed")
    /\ UNCHANGED landings

\* A pre_patch veto after approval, a stale base hash, or no client to write.
WriteRefused ==
    /\ pending_apply.kind = "file"
    /\ Settle("failed")
    /\ UNCHANGED landings

\* The client wrote the files but its acknowledgement never arrived.
WriteUnacknowledged(gate) ==
    /\ pending_apply.kind = "file"
    /\ Land(gate)
    /\ Settle("failed")

WriteLands(gate) ==
    /\ pending_apply.kind = "file"
    /\ Land(gate)
    /\ Settle("completed")

\* The runner is cancelled between the effect and the node's return: the
\* effect stands, the channels keep the values of the last checkpoint.
CancelledAfterEffect(gate) ==
    /\ Land(gate)
    /\ End("abort")
    /\ CommitFrame
    /\ UNCHANGED <<status, current, pending_apply, applied, healing,
                   apply_attempts, corrections>>

Effect(gate) ==
    \/ CommandSucceeds(gate)
    \/ CommandFails(gate)
    \/ PatchFailsGate
    \/ WriteRefused
    \/ WriteUnacknowledged(gate)
    \/ WriteLands(gate)
    \/ CancelledAfterEffect(gate)

\* Faulty variant of CommitReady: the ledger is not consulted.
CommitReadyUnchecked ==
    /\ node = "commit" /\ ~paused
    /\ pending_apply # NoEnvelope

CommitReady ==
    /\ node = "commit" /\ ~paused
    /\ pending_apply # NoEnvelope
    /\ Target \notin applied

CommitNothing ==
    /\ node = "commit" /\ ~paused
    /\ pending_apply = NoEnvelope
    /\ Goto("validate")
    /\ CommitFrame
    /\ UNCHANGED <<status, current, pending_apply, applied, healing, landings,
                   apply_attempts, corrections, hitl, spins>>

\* The idempotency check: a step already in the ledger is never run again.
CommitAlreadyApplied ==
    /\ node = "commit" /\ ~paused
    /\ pending_apply # NoEnvelope
    /\ Target \in applied
    /\ pending_apply' = NoEnvelope
    /\ Goto("validate")
    /\ CommitFrame
    /\ UNCHANGED <<status, current, applied, healing, landings,
                   apply_attempts, corrections, hitl, spins>>

CommitDenied ==
    /\ CommitReady
    /\ pending_apply.decision = "deny"
    /\ Settle("failed")
    /\ UNCHANGED <<landings, hitl, spins>>

CommitPauses ==
    /\ CommitReady
    /\ AsksHuman
    /\ paused' = TRUE
    /\ CommitFrame
    /\ UNCHANGED <<status, current, pending_apply, applied, healing, landings,
                   apply_attempts, corrections, node, outcome, spins,
                   inflight, answers>>

CommitUnasked ==
    /\ CommitReady
    /\ pending_apply.decision # "deny"
    /\ ~AsksHuman
    /\ Effect("allow")
    /\ UNCHANGED <<hitl, spins>>

-----------------------------------------------------------------------------
(***************************************************************************)
(* The human and the resume.  A card is answered once; the reply may reach *)
(* the core up to MaxCopies times (two client surfaces, a retried frame).  *)
(* The core matches a reply to the session's pause, never to its card.     *)
(***************************************************************************)
Respond(answer) ==
    /\ paused
    /\ \A a \in answers : a.card # Card
    /\ answers' = answers \cup {[card |-> Card, answer |-> answer]}
    /\ inflight' = inflight \cup
        {[card |-> Card, answer |-> answer, copy |-> c] : c \in 1..MaxCopies}
    /\ UNCHANGED <<mission, staging, budgets, run, current, pending_apply,
                   applied, healing, killed, landings, paused>>

\* client_hitl_response with no paused graph: no approval event matches.
ReplyDropped(r) ==
    /\ r \in inflight
    /\ ~paused
    /\ inflight' = inflight \ {r}
    /\ UNCHANGED <<mission, staging, budgets, run, current, pending_apply,
                   applied, healing, killed, landings, paused, answers>>

\* resume_graph: pop the pause, re-enter the thread with the reply.
Resumes(r, n) ==
    /\ r \in inflight
    /\ paused
    /\ node = n
    /\ paused' = FALSE
    /\ inflight' = inflight \ {r}
    /\ spins' = 0
    /\ UNCHANGED answers

FinopsResumes(r) ==
    /\ Resumes(r, "finops")
    /\ IF r.answer = "approve" THEN Goto("supervisor") ELSE End("budget")
    /\ GateFrame
    /\ UNCHANGED killed

\* Faulty variant of CommitApproved: a reply with a comment counts as consent.
CommitNotDeclined(r) ==
    /\ Resumes(r, "commit")
    /\ r.answer # "decline"
    /\ Effect("hitl")

CommitApproved(r) ==
    /\ Resumes(r, "commit")
    /\ r.answer = "approve"
    /\ Effect("hitl")

\* _handle_declined with a comment and a round left: back to the coder.
CommitRevised(r) ==
    /\ Resumes(r, "commit")
    /\ r.answer = "revise"
    /\ pending_apply.attempt < RejectMax
    /\ apply_attempts' =
        [apply_attempts EXCEPT ![Target] = pending_apply.attempt + 1]
    /\ Resolve("revision_requested")
    /\ UNCHANGED <<applied, healing, corrections, landings>>

\* Faulty variant of CommitRejected: a revision past the limit has no branch.
CommitRejectedOnlyDeclines(r) ==
    /\ Resumes(r, "commit")
    /\ r.answer = "decline"
    /\ Settle("rejected")
    /\ UNCHANGED landings

CommitRejected(r) ==
    /\ Resumes(r, "commit")
    /\ \/ r.answer = "decline"
       \/ r.answer = "revise" /\ pending_apply.attempt >= RejectMax
    /\ Settle("rejected")
    /\ UNCHANGED landings

-----------------------------------------------------------------------------
(***************************************************************************)
(* validate_output and route_after_validation.  Going round again costs a  *)
(* lap of the recursion limit; a spent limit raises GraphRecursionError.   *)
(***************************************************************************)
ValidateFrame == UNCHANGED <<mission, staging, hitl, current, pending_apply,
                             applied, healing, killed, landings,
                             apply_attempts, corrections, turn>>

LoopTo(n) ==
    /\ laps' = laps + 1
    /\ spins' = spins + 1
    /\ IF spins < MaxLaps THEN Goto(n) ELSE End("recursion")

\* Schema failure with a retry left: the coder runs the channel's step again.
GuardrailRetries ==
    /\ node = "validate"
    /\ FALSE \in Guardrail
    /\ retries < GuardrailMax
    /\ retries' = retries + 1
    /\ sent' = current
    /\ LoopTo("coder")
    /\ ValidateFrame

Validated ==
    /\ node = "validate"
    /\ TRUE \in Guardrail \/ retries >= GuardrailMax
    /\ UNCHANGED <<retries, sent>>
    /\ ValidateFrame

\* The stall guard: the channel's step is neither terminal nor revisable.
Stalled ==
    /\ current # 0
    /\ ~IsTerminal(current)
    /\ status[current] # "revision_requested"

ValidateHeals ==
    /\ Validated
    /\ healing
    /\ LoopTo("heal")

ValidateStalls ==
    /\ Validated
    /\ ~healing
    /\ Stalled
    /\ End("stall")
    /\ UNCHANGED <<laps, spins>>

ValidateAdvances ==
    /\ Validated
    /\ ~healing
    /\ ~Stalled
    /\ \E s \in Steps : IsDispatchable(s)
    /\ LoopTo("dispatch")

\* Nothing left to dispatch: deep runs the acceptance checks first.
ValidateEnds ==
    /\ Validated
    /\ ~healing
    /\ ~Stalled
    /\ \A s \in Steps : ~IsDispatchable(s)
    /\ IF Effort = "deep" THEN Goto("checks") ELSE End("done")
    /\ UNCHANGED <<laps, spins>>

RunChecks ==
    /\ node = "checks"
    /\ End("done")
    /\ ValidateFrame
    /\ UNCHANGED <<retries, sent, laps, spins>>

\* abort_session cancels a live runner at any await; a paused turn has none.
Abort ==
    /\ Running
    /\ End("abort")
    /\ UNCHANGED <<mission, staging, budgets, hitl, current, pending_apply,
                   applied, healing, killed, landings, sent, turn, laps, spins>>

\* The session rests once the turns of the instance are used up.
Rest ==
    /\ node = "idle"
    /\ turn = MaxTurns
    /\ UNCHANGED vars

GraphStep ==
    \/ Dispatch \/ DispatchNothing
    \/ Coder \/ Cell \/ ErrorCorrection
    \/ FinopsPasses \/ FinopsPauses \/ Supervisor
    \/ PrepareSkips \/ PrepareFails
    \/ \E d \in Verdicts, a \in AutoAccept : Prepare(d, a)
    \/ CommitNothing \/ CommitAlreadyApplied \/ CommitDenied
    \/ CommitPauses \/ CommitUnasked
    \/ GuardrailRetries \/ ValidateHeals \/ ValidateStalls
    \/ ValidateAdvances \/ ValidateEnds \/ RunChecks

HandleReply(r) ==
    \/ ReplyDropped(r)
    \/ FinopsResumes(r)
    \/ CommitApproved(r) \/ CommitRevised(r) \/ CommitRejected(r)

Next ==
    \/ PlanAndRun \/ PlanOnly \/ RunAcceptedPlan
    \/ GraphStep
    \/ \E a \in Answers : Respond(a)
    \/ \E r \in inflight : HandleReply(r)
    \/ Abort
    \/ Rest

Spec == Init /\ [][Next]_vars

(***************************************************************************)
(* Fairness: the event loop keeps running a live graph, and a reply that   *)
(* reached the core is handled.  Nothing makes the human answer.           *)
(***************************************************************************)
FairSpec ==
    /\ Spec
    /\ WF_vars(GraphStep)
    /\ WF_vars(\E r \in inflight : HandleReply(r))

-----------------------------------------------------------------------------
(***************************************************************************)
(* Properties.                                                             *)
(***************************************************************************)

\* No step is written or executed twice in one turn, whatever guardrail
\* retries, duplicated replies, aborts and leftovers of earlier turns do: what
\* the ledger check at the head of run_apply_commit_node is for.
EffectAtMostOnce ==
    \A a, b \in landings : a.turn = b.turn /\ a.step = b.step => a = b

\* An effect the permission gate reserved for the human happens only if the
\* human approved the very card that announced it.
ApprovalProvenance ==
    \A l \in landings : l.gate = "hitl" =>
        [card |-> [turn |-> l.turn, lap |-> l.lap, step |-> l.step],
         answer |-> "approve"] \in answers

LandedThisTurn(s) == \E l \in landings : l.turn = turn /\ l.step = s

\* The checklist the human reads does not lie: a completed file or command
\* step did land, and a step shown as untouched, under revision or rejected
\* has no effect of this turn behind it, unless the turn was aborted.
StatusTellsTheTruth ==
    \A s \in Steps :
        /\ (status[s] = "completed" /\ plan.kind[s] # "read") =>
               \E l \in landings : l.step = s
        /\ status[s] \in {"pending", "revision_requested", "rejected"} =>
               (~LandedThisTurn(s) \/ outcome = "abort")

\* An effect happens only once everything its step depends on is completed.
DependenciesRespected ==
    [][\A l \in landings' \ landings :
           \A d \in plan.deps[l.step] : status[d] = "completed"]_vars

\* When a turn ends by itself, every step has been decided, except those
\* blocked behind a step that did not complete.
SettledAtEnd ==
    outcome \in {"done", "stall", "empty", "recursion"} =>
        \A s \in Steps :
            \/ IsTerminal(s)
            \/ /\ status[s] = "pending"
               /\ \E d \in plan.deps[s] : status[d] # "completed"

\* The plan is scheduled soundly: nothing runs before what it depends on, and
\* nothing that could run is left when the turn ends.
ScheduleIsSound == DependenciesRespected /\ []SettledAtEnd

\* The human can ask for changes to one step at most RejectMax + 1 times in a
\* turn, the last of them being taken as a rejection: _handle_declined bounds
\* the loop through the coder by a count that travels in the envelope.
RevisionsBounded ==
    \A s \in Steps :
        Cardinality({a \in answers : /\ a.card.turn = turn
                                     /\ a.card.step = s
                                     /\ a.answer = "revise"}) <= RejectMax + 1

\* A run never spends the laps the recursion limit leaves it: between two
\* human replies the loop advances a step or spends a correction each lap.
NeverHitsRecursionLimit == outcome # "recursion"

\* The two loops of a turn, through the human and through the coder, end by
\* their own counters and not by the limit of the graph runtime.
LoopsAreBounded == RevisionsBounded /\ NeverHitsRecursionLimit

\* A live turn comes to rest: it ends, or it waits for a human who has not
\* answered its card yet.
TurnConcludes ==
    (node # "idle") ~>
        (node = "idle" \/ (paused /\ \A a \in answers : a.card # Card))

=============================================================================
