--------------------------- MODULE Mission_proofs ---------------------------
(***************************************************************************)
(* Machine-checked proofs about the mission loop, for every number of      *)
(* steps, every set of plans and every bound.                              *)
(***************************************************************************)
EXTENDS Mission, TLAPS, FiniteSetTheorems

\* A pause is always at a gate, and at the apply gate there is an undecided
\* envelope to decide on.
PauseInv ==
    paused =>
        \/ node = "finops"
        \/ /\ node = "commit"
           /\ pending_apply # NoEnvelope
           /\ pending_apply.step \notin applied

Inv == TypeOK /\ PauseInv

USE StepsAssumption, PlansAssumption, EffortAssumption, VerdictAssumption,
    OutcomeAssumption, BoundAssumption

-----------------------------------------------------------------------------
\* What an envelope that is not NoEnvelope looks like.
LEMMA EnvelopeFields ==
    ASSUME TypeGate, pending_apply # NoEnvelope
    PROVE  /\ pending_apply.step \in Steps
           /\ pending_apply.kind \in {"file", "command"}
           /\ pending_apply.attempt \in Nat
           /\ pending_apply.drafted \in 0..MaxTurns
  BY DEF TypeGate, Envelopes

\* The initial state satisfies the invariant.
LEMMA InitInv == Init => Inv
<1> SUFFICES ASSUME Init PROVE Inv
  OBVIOUS
<1>1. TypeMission
  BY DEF Init, TypeMission, Statuses
<1>2. TypeGate
  BY DEF Init, TypeGate, Envelopes
<1>3. TypeCounters
  BY DEF Init, TypeCounters
<1>4. TypeControl /\ PauseInv
  BY DEF Init, TypeControl, Nodes, Outcomes, PauseInv
<1>5. TypeHistory
  BY DEF Init, TypeHistory
<1> QED
  BY <1>1, <1>2, <1>3, <1>4, <1>5 DEF Inv, TypeOK

-----------------------------------------------------------------------------
(***************************************************************************)
(* One lemma per group of actions; under it, one step per conjunct.        *)
(***************************************************************************)

\* Starting a turn preserves the invariant.
LEMMA TurnInv ==
    ASSUME Inv, PlanAndRun \/ PlanOnly \/ RunAcceptedPlan
    PROVE  Inv'
<1> USE DEF Inv, TypeOK, PlanAndRun, PlanOnly, RunAcceptedPlan, SeedTurn,
            Submittable, End, mission, staging
<1>1. TypeMission'
  BY DEF TypeMission, Statuses
<1>2. TypeGate'
  BY DEF TypeGate
<1>3. TypeCounters'
  BY DEF TypeCounters
<1>4. TypeControl' /\ PauseInv'
  BY DEF TypeControl, Nodes, Outcomes, PauseInv
<1>5. TypeHistory'
  BY DEF TypeHistory
<1> QED
  BY <1>1, <1>2, <1>3, <1>4, <1>5

\* Dispatching, the cell and error correction preserve the invariant.
LEMMA DispatchInv ==
    ASSUME Inv, Dispatch \/ DispatchNothing \/ Cell \/ ErrorCorrection
    PROVE  Inv'
<1> USE DEF Inv, TypeOK, Dispatch, DispatchNothing, Cell, ErrorCorrection,
            End, Goto, mission, staging, budgets, hitl
<1>1. TypeMission' /\ TypeGate'
  BY DEF TypeMission, TypeGate
<1>2. TypeCounters'
  BY DEF TypeCounters, Steps
<1>3. TypeControl'
  BY DEF TypeControl, Nodes, Outcomes
<1>4. PauseInv'
  BY DEF PauseInv
<1>5. TypeHistory'
  BY DEF TypeHistory
<1> QED
  BY <1>1, <1>2, <1>3, <1>4, <1>5

\* The coder preserves the invariant.
LEMMA CoderInv ==
    ASSUME Inv, Coder
    PROVE  Inv'
<1> USE DEF Inv, TypeOK, Coder, CoderFrame, hitl
<1>1. TypeMission'
  <2> USE DEF TypeMission, TypeCounters, mission, staging
  <2>1. CASE CoderReads
    BY <2>1 DEF CoderReads, CoderReturns, MarkStatus, Statuses
  <2>2. CASE CoderFails
    BY <2>2 DEF CoderFails, CoderReturns, MarkStatus, Statuses
  <2>3. CASE CoderStagesCommand
    BY <2>3 DEF CoderStagesCommand, CoderReturns, MarkStatus, Statuses
  <2>4. CASE CoderStagesFiles
    <3>1. PICK t \in {0, turn} : files' = [files EXCEPT ![sent] = t]
      BY <2>4 DEF CoderStagesFiles
    <3>2. t \in 0..MaxTurns
      OBVIOUS
    <3>3. files' \in [Steps -> 0..MaxTurns]
      BY <3>1, <3>2
    <3> QED
      BY <2>4, <3>3 DEF CoderStagesFiles, CoderReturns, MarkStatus, Statuses
  <2>5. CASE CoderWithoutStep \/ CoderRaises \/ CoderConcedes
    BY <2>5 DEF CoderWithoutStep, CoderRaises, CoderConcedes
  <2> QED
    BY <2>1, <2>2, <2>3, <2>4, <2>5
<1> USE DEF CoderReads, CoderFails, CoderStagesCommand, CoderStagesFiles,
            CoderWithoutStep, CoderRaises, CoderConcedes, CoderReturns,
            RouteAfterCoder, End, Goto
<1>2. TypeGate'
  BY DEF TypeGate
<1>3. TypeCounters'
  BY DEF TypeCounters, WriteCurrent
<1>4. TypeControl'
  BY DEF TypeControl, Nodes, Outcomes
<1>5. PauseInv'
  BY DEF PauseInv
<1>6. TypeHistory'
  BY DEF TypeHistory
<1> QED
  BY <1>1, <1>2, <1>3, <1>4, <1>5, <1>6

\* The budget gates preserve the invariant.
LEMMA GateInv ==
    ASSUME Inv, FinopsPasses \/ FinopsPauses \/ Supervisor
    PROVE  Inv'
<1> USE DEF Inv, TypeOK, FinopsPasses, FinopsPauses, Supervisor, GateFrame,
            End, Goto, mission, staging, budgets, hitl
<1>1. TypeMission' /\ TypeGate'
  BY DEF TypeMission, TypeGate
<1>2. TypeCounters'
  BY DEF TypeCounters
<1>3. TypeControl'
  BY DEF TypeControl, Nodes, Outcomes
<1>4. PauseInv'
  BY DEF PauseInv
<1>5. TypeHistory'
  BY DEF TypeHistory
<1> QED
  BY <1>1, <1>2, <1>3, <1>4, <1>5

\* PREPARE preserves the invariant.
LEMMA PrepareInv ==
    ASSUME Inv,
           \/ PrepareSkips
           \/ PrepareFails
           \/ \E d \in Verdicts, a \in AutoAccept : Prepare(d, a)
    PROVE  Inv'
<1> USE DEF Inv, TypeOK, PrepareFrame
<1>1. TypeGate'
  <2>1. CASE PrepareSkips \/ PrepareFails
    BY <2>1 DEF PrepareSkips, PrepareFails, PreparesTarget, TypeGate
  <2>2. ASSUME NEW d \in Verdicts, NEW a \in AutoAccept, Prepare(d, a)
        PROVE  TypeGate'
    <3>1. /\ current \in Steps
          /\ apply_attempts[current] \in Nat
          /\ command[current] \in 0..MaxTurns
          /\ files[current] \in 0..MaxTurns
      BY <2>2 DEF Prepare, PreparesTarget, HasTarget, TypeCounters, TypeMission,
                  Steps
    <3>2. d \in {"allow", "hitl", "deny"} /\ a \in BOOLEAN
      OBVIOUS
    <3>3. pending_apply' \in Envelopes
      BY <2>2, <3>1, <3>2 DEF Prepare, Envelopes
    <3> QED
      BY <2>2, <3>3 DEF Prepare, PreparesTarget, TypeGate
  <2> QED
    BY <2>1, <2>2
<1> USE DEF PrepareSkips, PrepareFails, Prepare, PreparesTarget, Goto,
            staging, budgets, hitl
<1>2. TypeMission'
  BY DEF TypeMission, MarkStatus, Statuses
<1>3. TypeCounters'
  BY DEF TypeCounters
<1>4. TypeControl'
  BY DEF TypeControl, Nodes, Outcomes
<1>5. PauseInv'
  BY DEF PauseInv
<1>6. TypeHistory'
  BY DEF TypeHistory
<1> QED
  BY <1>1, <1>2, <1>3, <1>4, <1>5, <1>6

\* The branches of COMMIT that decide nothing preserve the invariant.
LEMMA CommitInv ==
    ASSUME Inv, CommitNothing \/ CommitAlreadyApplied \/ CommitPauses
    PROVE  Inv'
<1> USE DEF Inv, TypeOK, CommitNothing, CommitAlreadyApplied, CommitPauses,
            CommitFrame, CommitReady, Goto, staging, hitl
<1>1. TypeMission' /\ TypeCounters'
  BY DEF TypeMission, TypeCounters
<1>2. TypeGate'
  BY DEF TypeGate, Envelopes
<1>3. TypeControl'
  BY DEF TypeControl, Nodes, Outcomes
<1>4. PauseInv'
  <2>1. CASE CommitNothing \/ CommitAlreadyApplied
    BY <2>1 DEF PauseInv
  <2>2. CASE CommitPauses
    BY <2>2 DEF PauseInv, Target
  <2> QED
    BY <2>1, <2>2
<1>5. TypeHistory'
  BY DEF TypeHistory
<1> QED
  BY <1>1, <1>2, <1>3, <1>4, <1>5

\* validate_output, the acceptance checks and an abort preserve the invariant.
LEMMA ValidateInv ==
    ASSUME Inv,
           \/ GuardrailRetries \/ ValidateHeals \/ ValidateStalls
           \/ ValidateAdvances \/ ValidateEnds \/ RunChecks \/ Abort
    PROVE  Inv'
<1> USE DEF Inv, TypeOK, ValidateFrame, Validated, LoopTo, End, Goto,
            mission, staging, budgets, hitl
<1>1. TypeCounters'
  <2> USE DEF TypeCounters
  <2>1. CASE GuardrailRetries
    BY <2>1 DEF GuardrailRetries
  <2>2. CASE ValidateHeals \/ ValidateAdvances
    <3>1. /\ laps' = laps + 1 /\ spins' = spins + 1
          /\ UNCHANGED <<retries, sent, current, corrections, turn>>
      BY <2>2, Zenon DEF ValidateHeals, ValidateAdvances
    <3> QED
      BY <3>1
  <2>3. CASE ValidateStalls \/ ValidateEnds \/ RunChecks \/ Abort
    BY <2>3 DEF ValidateStalls, ValidateEnds, RunChecks, Abort
  <2> QED
    BY <2>1, <2>2, <2>3
<1> USE DEF GuardrailRetries, ValidateHeals, ValidateStalls, ValidateAdvances,
            ValidateEnds, RunChecks, Abort, Running
<1>2. TypeMission' /\ TypeGate'
  BY DEF TypeMission, TypeGate
<1>3. TypeControl'
  BY DEF TypeControl, Nodes, Outcomes
<1>4. PauseInv'
  BY DEF PauseInv
<1>5. TypeHistory'
  BY DEF TypeHistory
<1> QED
  BY <1>1, <1>2, <1>3, <1>4, <1>5

-----------------------------------------------------------------------------
(***************************************************************************)
(* Deciding a step.  Every branch ends in Resolve, so its typing is proved *)
(* once.                                                                   *)
(***************************************************************************)

\* What Resolve leaves behind is well typed.
LEMMA ResolveTypes ==
    ASSUME TypeOK, pending_apply # NoEnvelope, NEW st \in Statuses, Resolve(st)
    PROVE  /\ status' \in [Steps -> Statuses]
           /\ current' \in 0..NSteps
           /\ pending_apply' \in Envelopes
           /\ node' = "validate"
           /\ UNCHANGED <<outcome, plan, files, command, retries, killed, sent,
                          turn, laps>>
<1>1. Target \in Steps
  BY EnvelopeFields DEF TypeOK, Target
<1>2. status' \in [Steps -> Statuses]
  BY DEF Resolve, MarkStatus, TypeOK, TypeMission
<1>3. current' \in 0..NSteps
  BY <1>1 DEF Resolve, WriteCurrent, TypeOK, TypeCounters, Steps
<1> QED
  BY <1>2, <1>3 DEF Resolve, Goto, CommitFrame, staging, Envelopes

\* A recorded landing is well typed.
LEMMA LandTypes ==
    ASSUME TypeOK, pending_apply # NoEnvelope, NEW gate \in {"allow", "hitl"},
           Land(gate)
    PROVE  landings' \subseteq Landings
<1> DEFINE l == [turn |-> turn, lap |-> laps, step |-> Target, gate |-> gate,
                 drafted |-> pending_apply.drafted]
<1>1. Target \in Steps /\ pending_apply.drafted \in 0..MaxTurns
  BY EnvelopeFields DEF TypeOK, Target
<1>2. l \in Landings
  BY <1>1 DEF Landings, TypeOK, TypeCounters
<1> QED
  BY <1>2 DEF Land, TypeOK, TypeHistory

\* Whatever way an effect ends, the invariant is preserved.
LEMMA EffectInv ==
    ASSUME Inv, pending_apply # NoEnvelope, NEW gate \in {"allow", "hitl"},
           Effect(gate), paused' = FALSE, inflight' \subseteq inflight,
           answers' = answers, spins' \in Nat
    PROVE  Inv'
<1> USE DEF Inv
<1>0. Target \in Steps
  BY EnvelopeFields DEF TypeOK, Target
<1>1. ASSUME NEW st \in Statuses, Resolve(st), landings' \subseteq Landings,
             applied' \subseteq Steps, apply_attempts' \in [Steps -> Nat],
             corrections' \in Nat, healing' \in BOOLEAN
      PROVE  Inv'
  <2>1. TypeMission' /\ TypeGate'
    BY <1>1, ResolveTypes DEF TypeOK, TypeMission, TypeGate
  <2>2. TypeCounters'
    BY <1>1, ResolveTypes DEF TypeOK, TypeCounters
  <2>3. TypeControl'
    BY <1>1, ResolveTypes DEF TypeOK, TypeControl, Nodes
  <2>4. TypeHistory'
    BY <1>1 DEF TypeOK, TypeHistory
  <2> QED
    BY <2>1, <2>2, <2>3, <2>4 DEF TypeOK, PauseInv
<1>2. ASSUME NEW st \in Statuses, Settle(st), landings' \subseteq Landings
      PROVE  Inv'
  <2>1. /\ Resolve(st)
        /\ applied' \subseteq Steps
        /\ apply_attempts' \in [Steps -> Nat]
        /\ corrections' \in Nat
    BY <1>0, <1>2 DEF Settle, TypeOK, TypeGate, TypeMission, TypeCounters
  <2>2. healing' \in BOOLEAN
    BY <1>2 DEF Settle, TypeOK, TypeControl
  <2> QED
    BY <1>1, <1>2, <2>1, <2>2
<1>3. ASSUME RequestHealing, Resolve("failed"), landings' \subseteq Landings,
             applied' \subseteq Steps
      PROVE  Inv'
  <2>1. /\ apply_attempts' \in [Steps -> Nat]
        /\ corrections' \in Nat
        /\ healing' \in BOOLEAN
    BY <1>3 DEF RequestHealing, TypeOK, TypeMission, TypeCounters
  <2> QED
    BY <1>1, <1>3, <2>1 DEF Statuses
<1>4. CASE CommandSucceeds(gate)
  BY <1>2, <1>4, LandTypes DEF CommandSucceeds, Statuses
<1>5. CASE CommandFails(gate)
  BY <1>0, <1>2, <1>3, <1>5, LandTypes
     DEF CommandFails, Statuses, TypeOK, TypeGate
<1>6. CASE PatchFailsGate
  BY <1>2, <1>3, <1>6
     DEF PatchFailsGate, Statuses, TypeOK, TypeGate, TypeHistory
<1>7. CASE WriteRefused
  BY <1>2, <1>7 DEF WriteRefused, Statuses, TypeOK, TypeHistory
<1>8. CASE WriteUnacknowledged(gate)
  BY <1>2, <1>8, LandTypes DEF WriteUnacknowledged, Statuses
<1>9. CASE WriteLands(gate)
  BY <1>2, <1>9, LandTypes DEF WriteLands, Statuses
<1>10. CASE CancelledAfterEffect(gate)
  <2> USE <1>10 DEF CancelledAfterEffect, CommitFrame, End, TypeOK, staging
  <2>1. TypeMission' /\ TypeGate'
    BY DEF TypeMission, TypeGate
  <2>2. TypeCounters'
    BY DEF TypeCounters
  <2>3. TypeControl' /\ PauseInv'
    BY DEF TypeControl, Nodes, Outcomes, PauseInv
  <2>4. TypeHistory'
    BY LandTypes DEF TypeHistory
  <2> QED
    BY <2>1, <2>2, <2>3, <2>4
<1> QED
  BY <1>4, <1>5, <1>6, <1>7, <1>8, <1>9, <1>10 DEF Effect

-----------------------------------------------------------------------------
\* Denied and unasked commits, and every handled reply, preserve the invariant.
LEMMA DecideInv ==
    ASSUME Inv, CommitDenied \/ CommitUnasked
    PROVE  Inv'
<1> USE DEF Inv
<1>1. /\ pending_apply # NoEnvelope
      /\ paused' = FALSE
      /\ inflight' \subseteq inflight
      /\ answers' = answers
      /\ spins' \in Nat
  BY DEF CommitDenied, CommitUnasked, CommitReady, hitl, TypeOK, TypeCounters,
         TypeControl
<1>2. CASE CommitDenied
  <2>1. Settle("failed") /\ UNCHANGED landings
    BY <1>2 DEF CommitDenied
  <2>2. Target \in Steps
    BY <1>1, EnvelopeFields DEF TypeOK, Target
  <2>3. /\ status' \in [Steps -> Statuses]
        /\ current' \in 0..NSteps
        /\ pending_apply' \in Envelopes
        /\ node' = "validate"
        /\ UNCHANGED <<outcome, plan, files, command, retries, killed, sent,
                       turn, laps>>
    BY <1>1, <2>1, ResolveTypes DEF Settle, Statuses
  <2>4. TypeMission' /\ TypeGate'
    BY <2>1, <2>2, <2>3 DEF Settle, TypeOK, TypeMission, TypeGate
  <2>5. TypeCounters'
    BY <1>1, <2>1, <2>3 DEF Settle, TypeOK, TypeCounters
  <2>6. TypeControl'
    BY <1>1, <2>1, <2>3 DEF Settle, TypeOK, TypeControl, Nodes
  <2>7. TypeHistory' /\ PauseInv'
    BY <1>1, <2>1 DEF TypeOK, TypeHistory, PauseInv
  <2> QED
    BY <2>4, <2>5, <2>6, <2>7 DEF TypeOK
<1>3. CASE CommitUnasked
  BY <1>1, <1>3, EffectInv DEF CommitUnasked
<1> QED
  BY <1>2, <1>3

\* The human answers a card.
LEMMA RespondInv ==
    ASSUME Inv, NEW a \in Answers, Respond(a)
    PROVE  Inv'
<1> USE DEF Inv, TypeOK
<1>1. Card \in Cards
  <2>1. node = "commit" => Target \in 0..NSteps
    BY EnvelopeFields DEF Respond, PauseInv, Target, Steps
  <2> QED
    BY <2>1 DEF Card, Cards, TypeCounters
<1>2. TypeHistory'
  BY <1>1 DEF Respond, TypeHistory, Replies
<1> USE DEF Respond, mission, staging, budgets, run
<1>3. TypeMission' /\ TypeGate'
  BY DEF TypeMission, TypeGate
<1>4. TypeCounters'
  BY DEF TypeCounters
<1>5. TypeControl'
  BY DEF TypeControl
<1>6. PauseInv'
  BY DEF PauseInv
<1> QED
  BY <1>2, <1>3, <1>4, <1>5, <1>6

\* Handling a reply, whether it resumes the graph or finds no pause.
LEMMA ReplyInv ==
    ASSUME Inv, NEW r \in inflight, HandleReply(r)
    PROVE  Inv'
<1> USE DEF Inv
<1>1. CASE ReplyDropped(r)
  <2> USE <1>1 DEF ReplyDropped, TypeOK, mission, staging, budgets, run
  <2>1. TypeMission' /\ TypeGate'
    BY DEF TypeMission, TypeGate
  <2>2. TypeCounters'
    BY DEF TypeCounters
  <2>3. TypeControl' /\ PauseInv'
    BY DEF TypeControl, PauseInv
  <2>4. TypeHistory'
    BY DEF TypeHistory
  <2> QED
    BY <2>1, <2>2, <2>3, <2>4
<1>2. CASE FinopsResumes(r)
  <2> USE <1>2 DEF FinopsResumes, Resumes, GateFrame, Goto, End, TypeOK,
                   mission, staging, budgets
  <2>1. TypeMission' /\ TypeGate'
    BY DEF TypeMission, TypeGate
  <2>2. TypeCounters'
    BY DEF TypeCounters
  <2>3. TypeControl' /\ PauseInv'
    BY DEF TypeControl, PauseInv, Nodes, Outcomes
  <2>4. TypeHistory'
    BY DEF TypeHistory
  <2> QED
    BY <2>1, <2>2, <2>3, <2>4
<1>3. ASSUME Resumes(r, "commit")
      PROVE  /\ pending_apply # NoEnvelope
             /\ paused' = FALSE
             /\ inflight' \subseteq inflight
             /\ answers' = answers
             /\ spins' \in Nat
  BY <1>3 DEF Resumes, PauseInv
<1>4. CASE CommitApproved(r)
  BY <1>3, <1>4, EffectInv DEF CommitApproved
<1>5. CASE CommitRevised(r) \/ CommitRejected(r)
  <2>1. PICK st \in {"revision_requested", "rejected"} :
           Resolve(st) /\ Resumes(r, "commit")
    BY <1>5 DEF CommitRevised, CommitRejected, Settle
  <2>2. Target \in Steps /\ pending_apply.attempt \in Nat
    BY <1>3, <2>1, EnvelopeFields DEF TypeOK, Target
  <2>3. /\ status' \in [Steps -> Statuses]
        /\ current' \in 0..NSteps
        /\ pending_apply' \in Envelopes
        /\ node' = "validate"
        /\ UNCHANGED <<outcome, plan, files, command, retries, killed, sent,
                       turn, laps>>
    BY <1>3, <2>1, ResolveTypes DEF Statuses
  <2>4. /\ apply_attempts' \in [Steps -> Nat]
        /\ applied' \subseteq Steps
        /\ UNCHANGED <<healing, corrections, landings>>
    BY <1>5, <2>2 DEF CommitRevised, CommitRejected, Settle, TypeOK,
                      TypeMission, TypeGate
  <2>5. TypeMission' /\ TypeGate'
    BY <2>3, <2>4 DEF TypeOK, TypeMission, TypeGate
  <2>6. TypeCounters'
    BY <1>3, <2>1, <2>3, <2>4 DEF TypeOK, TypeCounters
  <2>7. TypeControl' /\ PauseInv'
    BY <1>3, <2>1, <2>3, <2>4 DEF TypeOK, TypeControl, Nodes, PauseInv
  <2>8. TypeHistory'
    BY <1>3, <2>1, <2>4 DEF TypeOK, TypeHistory
  <2> QED
    BY <2>5, <2>6, <2>7, <2>8 DEF TypeOK
<1> QED
  BY <1>1, <1>2, <1>4, <1>5 DEF HandleReply

\* Every step of the system preserves the invariant.
LEMMA NextInv == Inv /\ [Next]_vars => Inv'
<1> SUFFICES ASSUME Inv, [Next]_vars PROVE Inv'
  OBVIOUS
<1>1. CASE UNCHANGED vars
  <2> USE <1>1 DEF vars, mission, staging, budgets, run, hitl, Inv, TypeOK
  <2>1. TypeMission' /\ TypeGate'
    BY DEF TypeMission, TypeGate
  <2>2. TypeCounters'
    BY DEF TypeCounters
  <2>3. TypeControl' /\ PauseInv'
    BY DEF TypeControl, PauseInv
  <2>4. TypeHistory'
    BY DEF TypeHistory
  <2> QED
    BY <2>1, <2>2, <2>3, <2>4
<1>2. CASE PlanAndRun \/ PlanOnly \/ RunAcceptedPlan
  BY <1>2, TurnInv
<1>3. CASE GraphStep
  BY <1>3, DispatchInv, CoderInv, GateInv, PrepareInv, CommitInv, DecideInv,
     ValidateInv DEF GraphStep
<1>4. CASE \E a \in Answers : Respond(a)
  BY <1>4, RespondInv
<1>5. CASE \E r \in inflight : HandleReply(r)
  BY <1>5, ReplyInv
<1>6. CASE Abort
  BY <1>6, ValidateInv
<1> QED
  BY <1>1, <1>2, <1>3, <1>4, <1>5, <1>6 DEF Next, Rest

\* The invariant holds in every reachable state.
THEOREM Invariance == Spec => []Inv
  BY InitInv, NextInv, PTL DEF Spec

\* Every variable keeps its type, for every instance of the constants.
THEOREM TypeCorrect == Spec => []TypeOK
<1>1. Inv => TypeOK
  BY DEF Inv
<1> QED
  BY <1>1, Invariance, PTL

-----------------------------------------------------------------------------
(***************************************************************************)
(* Effects.  EffectAtMostOnce is not inductive: the ledger must be tied to *)
(* the effects.  An effect of this turn is in the ledger, unless the       *)
(* runner was cancelled before the node returned, and then the turn is     *)
(* over; and a live run is never marked as aborted.                        *)
(***************************************************************************)
LedgerInv ==
    \A l \in landings :
        /\ l.turn <= turn
        /\ l.turn = turn => \/ l.step \in applied
                            \/ node = "idle" /\ outcome = "abort"

RunInv == node # "idle" => outcome = "running"

EffectInvariant ==
    /\ LedgerInv
    /\ RunInv
    /\ EffectAtMostOnce
    /\ StatusTellsTheTruth

\* What a step that lands nothing may do to a status.
QuietStatus ==
    \A s \in Steps :
        \/ status'[s] = status[s]
        \/ status'[s] \in {"in_progress", "awaiting_approval", "failed"}
        \/ status'[s] = "completed" /\ plan.kind[s] = "read"
        \/ status'[s] \in {"revision_requested", "rejected"} /\ s \notin applied

\* A step of a live run that lands nothing.
Quiet ==
    /\ node # "idle"
    /\ UNCHANGED <<landings, turn, plan>>
    /\ applied \subseteq applied'
    /\ QuietStatus
    /\ node' # "idle" => outcome' = outcome

\* A quiet step preserves the effect invariant.
LEMMA QuietPreserves ==
    ASSUME Inv, EffectInvariant, Quiet
    PROVE  EffectInvariant'
<1> USE DEF EffectInvariant, Quiet
<1>1. LedgerInv'
  BY DEF LedgerInv, RunInv
<1>2. RunInv' /\ EffectAtMostOnce'
  BY DEF RunInv, EffectAtMostOnce
<1>3. outcome # "abort"
  BY DEF RunInv
<1>4. ASSUME NEW s \in Steps
      PROVE  /\ (status'[s] = "completed" /\ plan'.kind[s] # "read") =>
                    \E l \in landings' : l.step = s
             /\ status'[s] \in {"pending", "revision_requested", "rejected"} =>
                    ~LandedThisTurn(s)'
  <2>1. s \notin applied => ~LandedThisTurn(s)
    BY DEF LedgerInv, LandedThisTurn, RunInv
  <2>2. LandedThisTurn(s)' = LandedThisTurn(s)
    BY DEF LandedThisTurn
  <2>3. /\ (status[s] = "completed" /\ plan.kind[s] # "read") =>
               \E l \in landings : l.step = s
        /\ status[s] \in {"pending", "revision_requested", "rejected"} =>
               ~LandedThisTurn(s)
    BY <1>3 DEF StatusTellsTheTruth
  <2> QED
    BY <2>1, <2>2, <2>3 DEF QuietStatus
<1>5. StatusTellsTheTruth'
  BY <1>4 DEF StatusTellsTheTruth
<1> QED
  BY <1>1, <1>2, <1>5

\* Marking one step is quiet when the new status is.
LEMMA MarkIsQuiet ==
    ASSUME TypeMission, NEW s \in 0..NSteps, NEW st, MarkStatus(s, st),
           \/ st \in {"in_progress", "awaiting_approval", "failed"}
           \/ st = "completed" /\ plan.kind[s] = "read"
           \/ st \in {"revision_requested", "rejected"} /\ s \notin applied
    PROVE  QuietStatus
  BY DEF TypeMission, MarkStatus, QuietStatus

\* Everything the graph does without an effect is quiet.
LEMMA GraphIsQuiet ==
    ASSUME Inv,
           \/ Dispatch \/ DispatchNothing \/ Coder \/ Cell \/ ErrorCorrection
           \/ FinopsPasses \/ FinopsPauses \/ Supervisor
           \/ PrepareSkips \/ PrepareFails
           \/ \E d \in Verdicts, a \in AutoAccept : Prepare(d, a)
           \/ CommitNothing \/ CommitAlreadyApplied \/ CommitDenied
           \/ CommitPauses
           \/ GuardrailRetries \/ ValidateHeals \/ ValidateStalls
           \/ ValidateAdvances \/ ValidateEnds \/ RunChecks \/ Abort
    PROVE  Quiet
<1> USE DEF Inv, TypeOK, Goto, End
<1>1. CASE Dispatch \/ DispatchNothing \/ Cell \/ ErrorCorrection
  BY <1>1 DEF Dispatch, DispatchNothing, Cell, ErrorCorrection, Quiet,
              QuietStatus, mission
<1>2. CASE Coder
  <2>1. node # "idle" /\ UNCHANGED <<landings, turn, plan, applied>>
    BY <1>2 DEF Coder, CoderFrame, CoderReads, CoderFails, CoderStagesCommand,
                CoderStagesFiles, CoderWithoutStep, CoderRaises, CoderConcedes,
                CoderReturns, mission
  <2>2. node' # "idle" => outcome' = outcome
    BY <1>2 DEF Coder, CoderReads, CoderFails, CoderStagesCommand,
                CoderStagesFiles, CoderWithoutStep, CoderRaises, CoderConcedes,
                CoderReturns, RouteAfterCoder
  <2>3. QuietStatus
    <3>1. CASE CoderReads
      BY <3>1, MarkIsQuiet DEF CoderReads, CoderReturns, TypeCounters
    <3>2. CASE CoderFails \/ CoderStagesCommand \/ CoderStagesFiles
      BY <3>2, MarkIsQuiet DEF CoderFails, CoderStagesCommand,
            CoderStagesFiles, CoderReturns, TypeCounters
    <3>3. CASE CoderWithoutStep \/ CoderRaises \/ CoderConcedes
      BY <3>3 DEF CoderWithoutStep, CoderRaises, CoderConcedes, mission,
                  QuietStatus
    <3> QED
      BY <1>2, <3>1, <3>2, <3>3 DEF Coder
  <2> QED
    BY <2>1, <2>2, <2>3 DEF Quiet
<1>3. CASE FinopsPasses \/ FinopsPauses \/ Supervisor
  BY <1>3 DEF FinopsPasses, FinopsPauses, Supervisor, GateFrame, mission,
              Quiet, QuietStatus
<1>4. CASE PrepareSkips \/ PrepareFails
  <2>1. QuietStatus
    BY <1>4, MarkIsQuiet DEF PrepareSkips, PrepareFails, QuietStatus,
          TypeCounters
  <2> QED
    BY <1>4, <2>1 DEF PrepareSkips, PrepareFails, PreparesTarget, PrepareFrame,
          Quiet
<1>5. CASE \E d \in Verdicts, a \in AutoAccept : Prepare(d, a)
  <2>1. PICK d \in Verdicts, a \in AutoAccept : Prepare(d, a)
    BY <1>5
  <2>2. QuietStatus
    BY <2>1, MarkIsQuiet DEF Prepare, QuietStatus, TypeCounters
  <2> QED
    BY <2>1, <2>2 DEF Prepare, PreparesTarget, PrepareFrame, Quiet
<1>6. CASE CommitNothing \/ CommitAlreadyApplied \/ CommitPauses
  BY <1>6 DEF CommitNothing, CommitAlreadyApplied, CommitPauses, CommitReady,
              CommitFrame, Quiet, QuietStatus
<1>7. CASE CommitDenied
  <2>1. Target \in 0..NSteps
    BY <1>7, EnvelopeFields DEF CommitDenied, CommitReady, Target, Steps
  <2>2. QuietStatus
    BY <1>7, <2>1, MarkIsQuiet DEF CommitDenied, Settle, Resolve
  <2> QED
    BY <1>7, <2>2 DEF CommitDenied, CommitReady, Settle, Resolve, CommitFrame,
          Quiet
<1>8. CASE \/ GuardrailRetries \/ ValidateHeals \/ ValidateStalls
           \/ ValidateAdvances \/ ValidateEnds \/ RunChecks \/ Abort
  <2>1. /\ node # "idle"
        /\ UNCHANGED <<landings, turn, plan, status, applied>>
    BY <1>8, Zenon DEF GuardrailRetries, ValidateHeals, ValidateStalls,
          ValidateAdvances, ValidateEnds, RunChecks, Abort, Running, Validated,
          ValidateFrame, mission
  <2>2. node' # "idle" => outcome' = outcome
    BY <1>8 DEF GuardrailRetries, ValidateHeals, ValidateStalls,
          ValidateAdvances, ValidateEnds, RunChecks, Abort, LoopTo
  <2> QED
    BY <2>1, <2>2 DEF Quiet, QuietStatus
<1> QED
  BY <1>1, <1>2, <1>3, <1>4, <1>5, <1>6, <1>7, <1>8

\* Landing the target of an undecided envelope preserves the effect invariant:
\* the step is not in the ledger yet, so it has no effect in this turn.
LEMMA LandPreserves ==
    ASSUME Inv, EffectInvariant, node = "commit", pending_apply # NoEnvelope,
           Target \notin applied, NEW gate \in {"allow", "hitl"}, Land(gate),
           UNCHANGED <<turn, plan>>,
           \/ /\ applied' = applied \cup {Target}
              /\ \E st \in {"completed", "failed"} : MarkStatus(Target, st)
              /\ node' = "validate"
              /\ UNCHANGED outcome
           \/ /\ UNCHANGED <<applied, status>>
              /\ End("abort")
    PROVE  EffectInvariant'
<1> DEFINE l0 == [turn |-> turn, lap |-> laps, step |-> Target, gate |-> gate,
                  drafted |-> pending_apply.drafted]
<1>0. landings' = landings \cup {l0} /\ l0.turn = turn /\ l0.step = Target
  BY DEF Land
<1>1. \A l \in landings : l.turn = turn => l.step \in applied
  BY DEF EffectInvariant, LedgerInv
<1>2. turn \in Nat /\ \A l \in landings : l.turn \in Nat
  BY DEF Inv, TypeOK, TypeCounters, TypeHistory, Landings
<1> HIDE DEF l0
<1>3. LedgerInv'
  BY <1>0, <1>1, <1>2 DEF EffectInvariant, LedgerInv, End
<1>4. RunInv'
  BY DEF EffectInvariant, RunInv, End
<1>5. EffectAtMostOnce'
  BY <1>0, <1>1 DEF EffectInvariant, EffectAtMostOnce
<1>6. ASSUME NEW s \in Steps
      PROVE  (status'[s] = "completed" /\ plan'.kind[s] # "read") =>
                 \E l \in landings' : l.step = s
  <2>1. s = Target => \E l \in landings' : l.step = s
    BY <1>0
  <2>2. s # Target => status'[s] = status[s]
    BY DEF MarkStatus, Inv, TypeOK, TypeMission
  <2> QED
    BY <1>0, <2>1, <2>2 DEF EffectInvariant, StatusTellsTheTruth
<1>7. ASSUME NEW s \in Steps, outcome' # "abort",
             status'[s] \in {"pending", "revision_requested", "rejected"}
      PROVE  ~LandedThisTurn(s)'
  <2>1. s # Target /\ status'[s] = status[s]
    BY <1>7 DEF MarkStatus, Inv, TypeOK, TypeMission, End
  <2>2. ~LandedThisTurn(s)
    BY <1>7, <2>1 DEF EffectInvariant, StatusTellsTheTruth, RunInv
  <2> QED
    BY <1>0, <2>1, <2>2 DEF LandedThisTurn
<1>8. StatusTellsTheTruth'
  BY <1>6, <1>7 DEF StatusTellsTheTruth
<1> QED
  BY <1>3, <1>4, <1>5, <1>8 DEF EffectInvariant

\* However an effect ends, the effect invariant is preserved.
LEMMA EffectPreserves ==
    ASSUME Inv, EffectInvariant, node = "commit", pending_apply # NoEnvelope,
           Target \notin applied, NEW gate \in {"allow", "hitl"}, Effect(gate)
    PROVE  EffectInvariant'
<1>1. Target \in Steps
  BY EnvelopeFields DEF Inv, TypeOK, Target
<1>2. UNCHANGED <<turn, plan>>
  BY DEF Effect, CommandSucceeds, CommandFails, PatchFailsGate, WriteRefused,
         WriteUnacknowledged, WriteLands, CancelledAfterEffect, Settle,
         Resolve, CommitFrame
<1>3. CASE \/ CommandSucceeds(gate) \/ CommandFails(gate)
           \/ WriteUnacknowledged(gate) \/ WriteLands(gate)
  <2>1. /\ Land(gate)
        /\ applied' = applied \cup {Target}
        /\ \E st \in {"completed", "failed"} : MarkStatus(Target, st)
        /\ node' = "validate"
        /\ UNCHANGED outcome
    BY <1>3 DEF CommandSucceeds, CommandFails, WriteUnacknowledged, WriteLands,
                Settle, Resolve, Goto
  <2> QED
    BY <1>2, <2>1, LandPreserves
<1>4. CASE CancelledAfterEffect(gate)
  BY <1>2, <1>4, LandPreserves DEF CancelledAfterEffect
<1>5. CASE PatchFailsGate \/ WriteRefused
  <2>1. /\ MarkStatus(Target, "failed")
        /\ applied \subseteq applied'
        /\ UNCHANGED <<landings, outcome>>
    BY <1>5 DEF PatchFailsGate, WriteRefused, Settle, Resolve, Goto
  <2>2. QuietStatus
    BY <1>1, <2>1, MarkIsQuiet DEF Inv, TypeOK, Steps
  <2> QED
    BY <1>2, <2>1, <2>2, QuietPreserves DEF Quiet
<1> QED
  BY <1>3, <1>4, <1>5 DEF Effect

\* A new turn starts with no effect behind it.
LEMMA TurnPreserves ==
    ASSUME Inv, EffectInvariant, PlanAndRun \/ PlanOnly \/ RunAcceptedPlan
    PROVE  EffectInvariant'
<1>1. turn' = turn + 1 /\ UNCHANGED landings
  BY DEF PlanAndRun, PlanOnly, RunAcceptedPlan, SeedTurn
<1>2. turn \in Nat /\ \A l \in landings : l.turn \in Nat /\ l.turn <= turn
  BY DEF Inv, TypeOK, TypeCounters, TypeHistory, Landings, EffectInvariant,
         LedgerInv
<1>3. LedgerInv' /\ \A s \in Steps : ~LandedThisTurn(s)'
  BY <1>1, <1>2 DEF LedgerInv, LandedThisTurn
<1>4. EffectAtMostOnce'
  BY <1>1 DEF EffectInvariant, EffectAtMostOnce
<1>5. RunInv'
  BY DEF RunInv, PlanAndRun, PlanOnly, RunAcceptedPlan, End
<1>6. CASE PlanAndRun \/ PlanOnly
  <2>1. \A s \in Steps : status'[s] = "pending"
    BY <1>6 DEF PlanAndRun, PlanOnly
  <2>2. StatusTellsTheTruth'
    BY <1>3, <2>1 DEF StatusTellsTheTruth
  <2> QED
    BY <1>3, <1>4, <1>5, <2>2 DEF EffectInvariant
<1>7. CASE RunAcceptedPlan
  <2>1. UNCHANGED <<plan, status>>
    BY <1>7 DEF RunAcceptedPlan, mission
  <2>2. StatusTellsTheTruth'
    BY <1>1, <1>3, <2>1 DEF StatusTellsTheTruth, EffectInvariant
  <2> QED
    BY <1>3, <1>4, <1>5, <2>2 DEF EffectInvariant
<1> QED
  BY <1>6, <1>7

\* Handling a reply preserves the effect invariant.
LEMMA ReplyPreserves ==
    ASSUME Inv, EffectInvariant, NEW r \in inflight, HandleReply(r)
    PROVE  EffectInvariant'
<1>1. CASE ReplyDropped(r)
  BY <1>1 DEF ReplyDropped, mission, run, EffectInvariant, LedgerInv, RunInv,
              EffectAtMostOnce, StatusTellsTheTruth, LandedThisTurn
<1>2. CASE FinopsResumes(r)
  <2>1. Quiet
    BY <1>2 DEF FinopsResumes, Resumes, GateFrame, Goto, End, mission, Quiet,
                QuietStatus
  <2> QED
    BY <2>1, QuietPreserves
<1>3. ASSUME Resumes(r, "commit")
      PROVE  /\ node = "commit"
             /\ pending_apply # NoEnvelope
             /\ Target \notin applied
             /\ Target \in 0..NSteps
  <2>1. node = "commit" /\ pending_apply # NoEnvelope /\ Target \notin applied
    BY <1>3 DEF Resumes, Inv, PauseInv, Target
  <2> QED
    BY <2>1, EnvelopeFields DEF Inv, TypeOK, Target, Steps
<1>4. CASE CommitApproved(r)
  BY <1>3, <1>4, EffectPreserves DEF CommitApproved
<1>5. CASE CommitRevised(r) \/ CommitRejected(r)
  <2>1. /\ Resumes(r, "commit")
        /\ UNCHANGED <<landings, turn, plan, outcome>>
        /\ applied \subseteq applied'
        /\ \E st \in {"revision_requested", "rejected"} : MarkStatus(Target, st)
    BY <1>5 DEF CommitRevised, CommitRejected, Settle, Resolve, CommitFrame,
                Goto
  <2>2. QuietStatus
    BY <1>3, <2>1, MarkIsQuiet DEF Inv, TypeOK
  <2>3. Quiet
    BY <1>3, <2>1, <2>2 DEF Quiet
  <2> QED
    BY <2>3, QuietPreserves
<1> QED
  BY <1>1, <1>2, <1>4, <1>5 DEF HandleReply

\* Every step preserves the effect invariant.
LEMMA NextPreserves ==
    Inv /\ EffectInvariant /\ [Next]_vars => EffectInvariant'
<1> SUFFICES ASSUME Inv, EffectInvariant, [Next]_vars PROVE EffectInvariant'
  OBVIOUS
<1>1. CASE UNCHANGED vars
  BY <1>1 DEF vars, mission, run, EffectInvariant, LedgerInv, RunInv,
              EffectAtMostOnce, StatusTellsTheTruth, LandedThisTurn
<1>2. CASE PlanAndRun \/ PlanOnly \/ RunAcceptedPlan
  BY <1>2, TurnPreserves
<1>3. CASE CommitUnasked
  BY <1>3, EffectPreserves DEF CommitUnasked, CommitReady
<1>4. CASE (GraphStep /\ ~CommitUnasked) \/ Abort
  BY <1>4, GraphIsQuiet, QuietPreserves DEF GraphStep
<1>5. CASE \E a \in Answers : Respond(a)
  BY <1>5 DEF Respond, mission, run, EffectInvariant, LedgerInv, RunInv,
              EffectAtMostOnce, StatusTellsTheTruth, LandedThisTurn
<1>6. CASE \E r \in inflight : HandleReply(r)
  BY <1>6, ReplyPreserves
<1> QED
  BY <1>1, <1>2, <1>3, <1>4, <1>5, <1>6 DEF Next, Rest

\* The effect invariant holds in every reachable state.
THEOREM EffectInvariance == Spec => []EffectInvariant
<1>1. Init => EffectInvariant
  BY DEF Init, EffectInvariant, LedgerInv, RunInv, EffectAtMostOnce,
         StatusTellsTheTruth, LandedThisTurn
<1> QED
  BY <1>1, Invariance, NextPreserves, PTL DEF Spec

\* No step is written or executed twice in a turn, for every plan, every
\* number of turns and every delivery of replies (run_apply_commit_node).
THEOREM AtMostOnce == Spec => []EffectAtMostOnce
<1>1. EffectInvariant => EffectAtMostOnce
  BY DEF EffectInvariant
<1> QED
  BY <1>1, EffectInvariance, PTL

\* The statuses of the checklist agree with the effects of the turn, for every
\* instance of the constants (_commit_files, _commit_command, _handle_declined).
THEOREM HonestStatus == Spec => []StatusTellsTheTruth
<1>1. EffectInvariant => StatusTellsTheTruth
  BY DEF EffectInvariant
<1> QED
  BY <1>1, EffectInvariance, PTL

-----------------------------------------------------------------------------
(***************************************************************************)
(* Approvals, when a reply is delivered once and a pause is not abandoned. *)
(* The invariant is that a reply in flight answers the card on screen, and *)
(* that there is at most one: then the reply that resumes the graph is the *)
(* answer to the card it resumes.  Without either assumption the property  *)
(* fails: a second copy of a reply answers the next card.                  *)
(***************************************************************************)
ReplyMatchesCard ==
    \A r \in inflight :
        /\ paused
        /\ r.card = Card
        /\ [card |-> r.card, answer |-> r.answer] \in answers
        /\ \A q \in inflight : q = r

ApprovalInv == ReplyMatchesCard /\ ApprovalProvenance

\* A step of a run that is not paused touches no reply, and a landing it makes
\* is not one the gate reserved for the human.
LEMMA UnpausedKeepsReplies ==
    ASSUME Inv, GraphStep \/ Abort
    PROVE  /\ ~paused
           /\ UNCHANGED <<inflight, answers>>
           /\ \A l \in landings' : l \in landings \/ l.gate = "allow"
<1> USE DEF Inv, PauseInv, GraphStep
<1>1. CASE Dispatch \/ DispatchNothing \/ Cell \/ ErrorCorrection
  BY <1>1 DEF Dispatch, DispatchNothing, Cell, ErrorCorrection, hitl
<1>2. CASE Coder
  BY <1>2 DEF Coder, CoderFrame, CoderReads, CoderFails, CoderStagesCommand,
              CoderStagesFiles, CoderWithoutStep, CoderRaises, CoderConcedes,
              CoderReturns, hitl
<1>3. CASE FinopsPasses \/ FinopsPauses \/ Supervisor
  BY <1>3 DEF FinopsPasses, FinopsPauses, Supervisor, GateFrame, hitl
<1>4. CASE \/ PrepareSkips \/ PrepareFails
           \/ \E d \in Verdicts, a \in AutoAccept : Prepare(d, a)
  BY <1>4 DEF PrepareSkips, PrepareFails, Prepare, PreparesTarget,
              PrepareFrame, hitl
<1>5. CASE CommitNothing \/ CommitAlreadyApplied \/ CommitPauses \/ CommitDenied
  BY <1>5 DEF CommitNothing, CommitAlreadyApplied, CommitPauses, CommitDenied,
              CommitReady, hitl
<1>6. CASE CommitUnasked
  <2>1. ~paused /\ UNCHANGED <<inflight, answers>> /\ Effect("allow")
    BY <1>6 DEF CommitUnasked, CommitReady, hitl
  <2>2. Land("allow") \/ UNCHANGED landings
    BY <2>1 DEF Effect, CommandSucceeds, CommandFails, PatchFailsGate,
          WriteRefused, WriteUnacknowledged, WriteLands, CancelledAfterEffect
  <2> QED
    BY <2>1, <2>2 DEF Land
<1>7. CASE \/ GuardrailRetries \/ ValidateHeals \/ ValidateStalls
           \/ ValidateAdvances \/ ValidateEnds \/ RunChecks \/ Abort
  BY <1>7, Zenon DEF GuardrailRetries, ValidateHeals, ValidateStalls,
        ValidateAdvances, ValidateEnds, RunChecks, Abort, Running, Validated,
        ValidateFrame, hitl
<1> QED
  BY <1>1, <1>2, <1>3, <1>4, <1>5, <1>6, <1>7

\* The human answers a card nobody has answered: no other reply is in flight.
LEMMA RespondMatches ==
    ASSUME Inv, ApprovalInv, MaxCopies = 1, NEW a \in Answers, Respond(a)
    PROVE  ApprovalInv'
<1> USE DEF ApprovalInv
<1>1. inflight = {}
  <2>1. SUFFICES ASSUME NEW r \in inflight PROVE FALSE
    OBVIOUS
  <2> DEFINE given == [card |-> r.card, answer |-> r.answer]
  <2>2. given \in answers /\ r.card = Card
    BY DEF ReplyMatchesCard
  <2>3. given.card = Card
    BY <2>2
  <2> HIDE DEF given
  <2> QED
    BY <2>2, <2>3 DEF Respond
<1>2. inflight' = {[card |-> Card, answer |-> a, copy |-> 1]}
  <2>1. 1..MaxCopies = {1}
    OBVIOUS
  <2> QED
    BY <1>1, <2>1 DEF Respond
<1>3. Card' = Card /\ paused'
  BY DEF Respond, Card, run, Target
<1>4. ReplyMatchesCard'
  <2> DEFINE q == [card |-> Card, answer |-> a, copy |-> 1]
  <2>1. q.card = Card /\ q.answer = a
    OBVIOUS
  <2>2. [card |-> q.card, answer |-> q.answer] \in answers'
    BY <2>1 DEF Respond
  <2>3. inflight' = {q}
    BY <1>2
  <2> HIDE DEF q
  <2> QED
    BY <1>3, <2>1, <2>2, <2>3 DEF ReplyMatchesCard
<1>5. ApprovalProvenance'
  BY DEF ApprovalProvenance, Respond
<1> QED
  BY <1>4, <1>5

\* A handled reply was the only one, and what it approved is its own card.
LEMMA ReplyMatches ==
    ASSUME Inv, ApprovalInv, NEW r \in inflight, HandleReply(r)
    PROVE  ApprovalInv'
<1> USE DEF ApprovalInv
<1>1. inflight' = {} /\ answers' = answers
  BY DEF HandleReply, ReplyDropped, FinopsResumes, CommitApproved,
         CommitRevised, CommitRejected, Resumes, ReplyMatchesCard
<1>2. ReplyMatchesCard'
  BY <1>1 DEF ReplyMatchesCard
<1>3. CASE UNCHANGED landings
  BY <1>1, <1>2, <1>3 DEF ApprovalProvenance
<1>4. CASE CommitApproved(r) /\ Land("hitl")
  <2>1. [card |-> Card, answer |-> "approve"] \in answers /\ node = "commit"
    BY <1>4 DEF CommitApproved, Resumes, ReplyMatchesCard
  <2>2. [card |-> [turn |-> turn, lap |-> laps, step |-> Target],
         answer |-> "approve"] \in answers
    BY <2>1 DEF Card
  <2>3. ApprovalProvenance'
    BY <1>1, <1>4, <2>2 DEF ApprovalProvenance, Land
  <2> QED
    BY <1>2, <2>3
<1>5. UNCHANGED landings \/ (CommitApproved(r) /\ Land("hitl"))
  BY DEF HandleReply, ReplyDropped, FinopsResumes, GateFrame, CommitApproved,
         CommitRevised, CommitRejected, Effect, CommandSucceeds, CommandFails,
         PatchFailsGate, WriteRefused, WriteUnacknowledged, WriteLands,
         CancelledAfterEffect
<1> QED
  BY <1>3, <1>4, <1>5

\* Every step preserves the approval invariant.
LEMMA NextApproval ==
    ASSUME MaxCopies = 1, ~Abandonable
    PROVE  Inv /\ ApprovalInv /\ [Next]_vars => ApprovalInv'
<1> SUFFICES ASSUME Inv, ApprovalInv, [Next]_vars PROVE ApprovalInv'
  OBVIOUS
<1> USE DEF ApprovalInv
<1>1. CASE UNCHANGED vars
  BY <1>1 DEF vars, run, hitl, ReplyMatchesCard, ApprovalProvenance, Card,
              Target
<1>2. CASE PlanAndRun \/ PlanOnly \/ RunAcceptedPlan
  <2>1. ~paused /\ UNCHANGED <<inflight, answers, landings>>
    BY <1>2 DEF PlanAndRun, PlanOnly, RunAcceptedPlan, SeedTurn, Submittable,
                Inv, PauseInv
  <2> QED
    BY <2>1 DEF ReplyMatchesCard, ApprovalProvenance
<1>3. CASE GraphStep \/ Abort
  BY <1>3, UnpausedKeepsReplies DEF ReplyMatchesCard, ApprovalProvenance
<1>4. CASE \E a \in Answers : Respond(a)
  BY <1>4, RespondMatches
<1>5. CASE \E r \in inflight : HandleReply(r)
  BY <1>5, ReplyMatches
<1> QED
  BY <1>1, <1>2, <1>3, <1>4, <1>5 DEF Next, Rest

\* With each reply delivered once and no abandoned pause, nothing the gate
\* reserved for the human happens without the human's approval of that card.
THEOREM ApprovedByHuman ==
    ASSUME MaxCopies = 1, ~Abandonable
    PROVE  Spec => []ApprovalProvenance
<1>1. Init => ApprovalInv
  BY DEF Init, ApprovalInv, ReplyMatchesCard, ApprovalProvenance
<1>2. ApprovalInv => ApprovalProvenance
  BY DEF ApprovalInv
<1>3. Inv /\ ApprovalInv /\ [Next]_vars => ApprovalInv'
  BY NextApproval
<1> QED
  BY <1>1, <1>2, <1>3, Invariance, PTL DEF Spec

-----------------------------------------------------------------------------
(***************************************************************************)
(* The schedule of one turn.  Every step that is taken is the next in list *)
(* order, the run is always where its step allows, and every lap is paid   *)
(* for by a decided step or a spent correction.  Leftovers of an aborted   *)
(* turn, guardrail retries and cell steps break this, and are left out.    *)
(***************************************************************************)

\* One turn of plans in the order the planner's schema asks for, without cell
\* steps, whose outputs the guardrail accepts, under a limit that leaves a lap for
\* every step and every correction.
OneTurn ==
    /\ MaxTurns = 1
    /\ FALSE \notin Guardrail
    /\ \A p \in Plans, s \in Steps : p.kind[s] # "cell" /\ \A d \in p.deps[s] : d < s
    /\ NSteps + CorrectionMax <= MaxLaps

Gates == {"finops", "supervisor", "prepare", "commit"}

\* The channel's step is undecided.
Open == current # 0 /\ ~IsTerminal(current)

\* A step the schedule has left behind: decided, or blocked by one that was.
Passed(s) == IsTerminal(s) \/ (status[s] = "pending" /\ \E d \in plan.deps[s] : status[d] # "completed")

\* Until the session's only turn nothing has happened.
Fresh ==
    turn = 0 => /\ node = "idle" /\ outcome = "none" /\ current = 0 /\ corrections = 0
                /\ pending_apply = NoEnvelope /\ ~healing /\ answers = {} /\ applied = {}
                /\ apply_attempts = [s \in Steps |-> 0]

\* Steps are taken in list order, each only after what it depends on.
InOrder ==
    /\ \A s \in Steps : s > current => status[s] = "pending"
    /\ \A s \in Steps : s < current => Passed(s)
    /\ \A s \in Steps : status[s] # "pending" => \A d \in plan.deps[s] : status[d] = "completed"
    /\ current # 0 => status[current] # "pending"

\* Where a run may be with the step it has taken.
InPlace ==
    /\ outcome = "running" /\ turn = 1 /\ node # "cell"
    /\ node \notin Gates /\ Open => status[current] = "revision_requested"
    /\ node = "coder" => sent \in Steps /\ IsDispatchable(sent) /\ \A s \in Steps : s < sent => ~IsDispatchable(s)
    /\ node = "checks" => \A s \in Steps : ~IsDispatchable(s)
    /\ pending_apply # NoEnvelope => node = "commit" /\ Open /\ pending_apply.step = current
    /\ node = "commit" /\ Open => pending_apply # NoEnvelope
    /\ healing => node \in {"heal", "validate"}
    /\ \A s \in applied : IsTerminal(s)

Decided == {s \in Steps : IsTerminal(s)}
Progress == Cardinality(Decided) + corrections

\* Every lap since the last reply of the human has decided a step or spent a
\* correction; one that heals the step it decided has done both.
LapsArePaid ==
    /\ node \in {"dispatch", "coder"} => spins <= Progress + 1
    /\ node \in {"heal", "validate"} => spins <= Progress
    /\ node = "validate" /\ healing => spins + 1 <= Progress
    /\ node \in Gates => spins <= Progress + (IF Open THEN 1 ELSE 0)

Revisions(s) == {a \in answers : a.card.turn = turn /\ a.card.step = s /\ a.answer = "revise"}

\* The card of the step is up and the human has answered it.
Answered(s) == node = "commit" /\ paused /\ pending_apply.step = s /\ \E a \in answers : a.card = Card

\* The rounds of a step are counted in the channel, but for the one under way.
RoundsAreCounted ==
    /\ \A s \in Steps : node # "idle" /\ ~IsTerminal(s) /\ ~Answered(s) =>
           Cardinality(Revisions(s)) <= apply_attempts[s]
    /\ node # "idle" /\ pending_apply # NoEnvelope => pending_apply.attempt = apply_attempts[pending_apply.step]

RoundsAreFew ==
    /\ IsFiniteSet(answers)
    /\ \A s \in Steps : apply_attempts[s] <= RejectMax /\ Cardinality(Revisions(s)) <= apply_attempts[s] + 1

\* The schedule of the turn under way, its laps and its rounds.
OnSchedule == InOrder /\ InPlace /\ LapsArePaid

RoundsInv == RoundsAreCounted /\ RoundsAreFew

Scheduled ==
    /\ Fresh /\ corrections <= CorrectionMax
    /\ node # "idle" => OnSchedule
    /\ RoundsInv
    /\ outcome # "recursion" /\ SettledAtEnd

\* The inductive invariant.
ScheduleInv == Inv /\ Scheduled

-----------------------------------------------------------------------------
(* The steps that are decided.                                             *)

\* There are at most as many as there are steps, and fewer while one is undecided.
LEMMA DecidedAreFew ==
    /\ IsFiniteSet(Decided) /\ Cardinality(Decided) \in Nat /\ Cardinality(Decided) <= NSteps
    /\ (\E s \in Steps : ~IsTerminal(s)) => Cardinality(Decided) < NSteps
<1>1. IsFiniteSet(Steps) /\ Cardinality(Steps) = NSteps
  BY FS_Interval DEF Steps
<1>2. Decided \subseteq Steps
  BY DEF Decided
<1>3. IsFiniteSet(Decided) /\ Cardinality(Decided) \in Nat /\ Cardinality(Decided) <= NSteps
  BY <1>1, <1>2, FS_Subset, FS_CardinalityType
<1>4. ASSUME NEW s \in Steps, ~IsTerminal(s) PROVE Cardinality(Decided) < NSteps
  <2>1. Decided # Steps
    BY <1>4 DEF Decided
  <2>2. Cardinality(Decided) # Cardinality(Steps)
    BY <1>1, <1>2, <2>1, FS_Subset
  <2> QED BY <1>1, <1>3, <2>2
<1> QED BY <1>3, <1>4

\* Deciding an undecided step adds one.
LEMMA DecideOne ==
    ASSUME TypeMission, NEW s \in Steps, ~IsTerminal(s),
           NEW st \in {"completed", "failed", "rejected"}, MarkStatus(s, st)
    PROVE  Cardinality(Decided') = Cardinality(Decided) + 1
<1>1. Decided' = Decided \cup {s} /\ s \notin Decided
  BY DEF Decided, IsTerminal, MarkStatus, TypeMission
<1> QED BY <1>1, DecidedAreFew, FS_AddElement

\* Any other mark on an undecided step adds none.
LEMMA DecideNone ==
    ASSUME TypeMission, NEW s \in Steps, ~IsTerminal(s),
           NEW st \in {"in_progress", "awaiting_approval", "revision_requested"},
           MarkStatus(s, st)
    PROVE  Decided' = Decided
BY DEF Decided, IsTerminal, MarkStatus, TypeMission

-----------------------------------------------------------------------------
(* The order of the steps.                                                 *)

\* What a plan of one turn looks like.
LEMMA PlanInOrder ==
    ASSUME OneTurn, TypeMission, NEW s \in Steps
    PROVE  /\ plan.kind[s] \in Kinds \ {"cell"}
           /\ \A d \in plan.deps[s] : d \in Steps /\ d < s
BY DEF OneTurn, TypeMission

\* Marking the next step of the schedule, or the one under way, keeps the order.
LEMMA OrderKept ==
    ASSUME OneTurn, TypeMission, TypeCounters, InOrder, NEW s \in Steps, s >= current,
           ~IsTerminal(s), \A d \in plan.deps[s] : status[d] = "completed",
           \A t \in Steps : t < s => Passed(t),
           NEW st \in Statuses \ {"pending"}, MarkStatus(s, st),
           current' = s, plan' = plan
    PROVE  InOrder'
<1>1. \A t \in Steps : status'[t] = IF t = s THEN st ELSE status[t]
  BY DEF MarkStatus, TypeMission
<1>2. \A t \in Steps : t \in Nat
  BY DEF Steps
<1>3. current \in Nat
  BY DEF TypeCounters
<1>4. ASSUME NEW t \in Steps, t > current' PROVE status'[t] = "pending"
  BY <1>1, <1>2, <1>3, <1>4 DEF InOrder
<1>5. ASSUME NEW t \in Steps, t < current' PROVE Passed(t)'
  <2>1. Passed(t) /\ t # s /\ t < s
    BY <1>2, <1>5
  <2>2. \A d \in plan.deps[t] : d \in Steps /\ d # s
    BY <2>1, <1>2, PlanInOrder
  <2> QED BY <1>1, <2>1, <2>2 DEF Passed, IsTerminal
<1>6. ASSUME NEW t \in Steps, status'[t] # "pending", NEW d \in plan'.deps[t]
      PROVE  status'[d] = "completed"
  <2>1. d \in Steps /\ d < t
    BY <1>6, PlanInOrder
  <2>2. status[d] = "completed"
    BY <1>1, <1>6 DEF InOrder
  <2>3. d # s
    BY <2>2 DEF IsTerminal
  <2> QED BY <1>1, <2>1, <2>2, <2>3
<1>7. current' # 0 /\ status'[current'] # "pending"
  BY <1>1, <1>2 DEF Steps
<1> QED BY <1>4, <1>5, <1>6, <1>7 DEF InOrder

\* The first dispatchable step is the next of the schedule.
LEMMA NextInOrder ==
    ASSUME OneTurn, TypeMission, TypeCounters, InOrder, NEW s \in Steps, IsDispatchable(s),
           \A t \in Steps : t < s => ~IsDispatchable(t),
           Open => status[current] = "revision_requested"
    PROVE  /\ s >= current /\ ~IsTerminal(s)
           /\ \A d \in plan.deps[s] : status[d] = "completed"
           /\ \A t \in Steps : t < s => Passed(t)
<1>1. \A t \in Steps : t \in Nat
  BY DEF Steps
<1>2. current \in Nat /\ (current # 0 => current \in Steps)
  BY DEF TypeCounters, Steps
<1>3. ~IsTerminal(s) /\ \A d \in plan.deps[s] : status[d] = "completed"
  BY DEF IsDispatchable, IsTerminal
<1>4. ~(s < current)
  BY <1>3 DEF InOrder, Passed
<1>5. ASSUME NEW t \in Steps, t < s PROVE Passed(t)
  <2>1. ~IsDispatchable(t)
    BY <1>5
  <2>2. CASE t < current
    BY <2>2 DEF InOrder
  <2>3. CASE t = current
    <3>1. current # 0 /\ status[current] # "pending"
      BY <2>3 DEF InOrder, Steps
    <3>2. \A d \in plan.deps[current] : status[d] = "completed"
      BY <1>2, <3>1 DEF InOrder
    <3>3. ~Open
      BY <2>1, <2>3, <3>2 DEF IsDispatchable
    <3> QED BY <2>3, <3>1, <3>3 DEF Open, Passed
  <2>4. CASE t > current
    BY <2>1, <2>4 DEF InOrder, IsDispatchable, Passed
  <2> QED BY <1>1, <1>2, <2>2, <2>3, <2>4
<1> QED BY <1>1, <1>2, <1>3, <1>4, <1>5

\* When nothing can be dispatched, every step has been passed.
LEMMA AllPassed ==
    ASSUME TypeCounters, InOrder, \A t \in Steps : ~IsDispatchable(t),
           Open => status[current] = "revision_requested"
    PROVE  \A t \in Steps : Passed(t)
<1>1. current \in Nat /\ (current # 0 => current \in Steps) /\ \A t \in Steps : t \in Nat
  BY DEF TypeCounters, Steps
<1> SUFFICES ASSUME NEW t \in Steps PROVE Passed(t)
  OBVIOUS
<1>2. CASE t < current
  BY <1>2 DEF InOrder
<1>3. CASE t = current
  <2>1. current # 0 /\ status[current] # "pending"
    BY <1>3 DEF InOrder, Steps
  <2>2. \A d \in plan.deps[current] : status[d] = "completed"
    BY <1>1, <2>1 DEF InOrder
  <2> QED BY <1>3, <2>1, <2>2 DEF IsDispatchable, Open, Passed
<1>4. CASE t > current
  BY <1>4 DEF InOrder, IsDispatchable, Passed
<1> QED BY <1>1, <1>2, <1>3, <1>4

-----------------------------------------------------------------------------
(* What most steps leave alone.                                            *)

\* What holds of a turn under way.
LEMMA UnderWay ==
    ASSUME ScheduleInv, node # "idle"
    PROVE  /\ TypeMission /\ TypeGate /\ TypeCounters /\ PauseInv
           /\ InOrder /\ InPlace /\ LapsArePaid /\ turn = 1
           /\ current \in Nat /\ corrections \in Nat /\ spins \in Nat
           /\ current # 0 => current \in Steps
<1>1. TypeMission /\ TypeGate /\ TypeCounters /\ PauseInv
  BY DEF ScheduleInv, Inv, TypeOK
<1>2. InOrder /\ InPlace /\ LapsArePaid
  BY DEF ScheduleInv, Scheduled, OnSchedule
<1>3. current \in 0..NSteps /\ corrections \in Nat /\ spins \in Nat
  BY <1>1 DEF TypeCounters
<1>4. turn = 1
  BY <1>2 DEF InPlace
<1> QED BY <1>1, <1>2, <1>3, <1>4 DEF Steps

\* Where no human answers, the rounds stay counted as long as no step is
\* reopened and no answered card comes down beside an open step.
LEMMA RoundsKept ==
    ASSUME ScheduleInv, answers' = answers, apply_attempts' = apply_attempts, turn' = turn,
           node' # "idle" => node # "idle",
           \A s \in Steps : node' # "idle" /\ ~IsTerminal(s)'
                              => ~IsTerminal(s) /\ (Answered(s) => Answered(s)'),
           pending_apply' \in {pending_apply, NoEnvelope}
    PROVE  RoundsInv'
<1>1. RoundsAreCounted /\ RoundsAreFew
  BY DEF ScheduleInv, Scheduled, RoundsInv
<1>2. \A s \in Steps : Revisions(s)' = Revisions(s)
  BY DEF Revisions
<1>3. RoundsAreFew'
  BY <1>1, <1>2 DEF RoundsAreFew
<1>4. ASSUME NEW s \in Steps, node' # "idle", ~IsTerminal(s)', ~Answered(s)'
      PROVE  Cardinality(Revisions(s)') <= apply_attempts'[s]
  <2>1. node # "idle" /\ ~IsTerminal(s) /\ ~Answered(s)
    BY <1>4
  <2> QED BY <1>1, <1>2, <2>1 DEF RoundsAreCounted
<1>5. node' # "idle" /\ pending_apply' # NoEnvelope
          => pending_apply'.attempt = apply_attempts'[pending_apply'.step]
  BY <1>1 DEF RoundsAreCounted
<1> QED BY <1>3, <1>4, <1>5 DEF RoundsInv, RoundsAreCounted

\* A turn that ends before its plan does.
LEMMA EndsEarly ==
    ASSUME ScheduleInv, node # "idle", NEW o \in {"abort", "error", "budget"}, End(o),
           answers' = answers, apply_attempts' = apply_attempts, turn' = turn,
           corrections' = corrections
    PROVE  Scheduled'
<1>1. node' = "idle" /\ outcome' = o /\ turn' = 1
  BY UnderWay DEF End
<1>2. Fresh' /\ SettledAtEnd' /\ outcome' # "recursion"
  BY <1>1 DEF Fresh, SettledAtEnd
<1>3. \A s \in Steps : Revisions(s)' = Revisions(s)
  BY DEF Revisions
<1>4. RoundsInv'
  BY <1>1, <1>3 DEF ScheduleInv, Scheduled, RoundsInv, RoundsAreCounted, RoundsAreFew
<1>5. corrections' <= CorrectionMax
  BY DEF ScheduleInv, Scheduled
<1> QED BY <1>1, <1>2, <1>4, <1>5 DEF Scheduled

\* A turn that goes on: what is left to show of it.
LEMMA GoesOn ==
    ASSUME ScheduleInv, node # "idle", turn' = turn, OnSchedule', RoundsInv',
           corrections' <= CorrectionMax
    PROVE  Scheduled'
<1>1. turn' = 1 /\ outcome' = "running"
  BY UnderWay DEF OnSchedule, InPlace
<1> QED BY <1>1 DEF Scheduled, Fresh, SettledAtEnd

-----------------------------------------------------------------------------
(* The coder.                                                              *)

\* A step the coder returns is the next of the schedule.
LEMMA CoderMarks ==
    ASSUME OneTurn, ScheduleInv, NEW st \in {"completed", "failed", "in_progress"},
           CoderReturns(st)
    PROVE  Scheduled'
<1>1. /\ node = "coder" /\ MarkStatus(sent, st) /\ WriteCurrent(sent) /\ plan' = plan
      /\ UNCHANGED <<healing, corrections, apply_attempts, answers, pending_apply, applied, turn, spins>>
  BY DEF CoderReturns, CoderFrame, hitl
<1>2. /\ TypeMission /\ TypeCounters /\ InOrder /\ InPlace /\ LapsArePaid /\ turn = 1
      /\ current \in Nat /\ corrections \in Nat /\ spins \in Nat
  BY <1>1, UnderWay
<1>3. /\ sent \in Steps /\ IsDispatchable(sent) /\ \A s \in Steps : s < sent => ~IsDispatchable(s)
      /\ Open => status[current] = "revision_requested"
      /\ pending_apply = NoEnvelope /\ ~healing /\ outcome = "running"
      /\ \A s \in applied : IsTerminal(s)
  BY <1>1, <1>2 DEF InPlace, Gates
<1>4. /\ sent >= current /\ ~IsTerminal(sent)
      /\ \A d \in plan.deps[sent] : status[d] = "completed"
      /\ \A t \in Steps : t < sent => Passed(t)
  BY <1>2, <1>3, NextInOrder
<1>5. current' = sent /\ sent # 0
  BY <1>1, <1>2, <1>3, <1>4 DEF WriteCurrent, Steps
<1>6. InOrder'
  BY <1>1, <1>2, <1>3, <1>4, <1>5, OrderKept DEF Statuses
<1>7. node' = "finops" /\ outcome' = "running"
  BY <1>3 DEF CoderReturns, RouteAfterCoder, Goto
<1>8. \A s \in Steps : status'[s] = IF s = sent THEN st ELSE status[s]
  BY <1>1, <1>2 DEF MarkStatus, TypeMission
<1>9. applied \subseteq Steps
  BY <1>1, UnderWay DEF TypeGate
<1>10. InPlace'
  <2>1. \A s \in applied' : IsTerminal(s)'
    BY <1>1, <1>3, <1>4, <1>8, <1>9 DEF IsTerminal
  <2> QED BY <1>1, <1>2, <1>3, <1>7, <2>1 DEF InPlace, Gates
<1>11. LapsArePaid'
  <2>1. spins' <= Cardinality(Decided) + corrections' + 1
    BY <1>1, <1>2 DEF LapsArePaid, Progress
  <2>2. CASE st = "in_progress"
    <3>1. Decided' = Decided /\ Open'
      BY <1>1, <1>2, <1>3, <1>4, <1>5, <1>8, <2>2, DecideNone DEF Open, IsTerminal
    <3> QED BY <1>7, <2>1, <3>1 DEF LapsArePaid, Progress, Gates
  <2>3. CASE st # "in_progress"
    <3>1. Cardinality(Decided') = Cardinality(Decided) + 1
      BY <1>1, <1>2, <1>3, <1>4, <2>3, DecideOne
    <3>2. Cardinality(Decided) \in Nat /\ corrections' \in Nat /\ spins' \in Nat
      BY <1>1, <1>2, DecidedAreFew
    <3>3. spins' <= Progress'
      BY <2>1, <3>1, <3>2 DEF Progress
    <3>4. ~Open'
      BY <1>5, <1>8, <1>3, <2>3 DEF Open, IsTerminal
    <3>5. Progress \in Nat /\ Progress' = Progress + 1
      BY <3>1, <3>2, <1>1, <1>2 DEF Progress
    <3> QED BY <1>7, <3>3, <3>4, <3>5 DEF LapsArePaid, Gates
  <2> QED BY <2>2, <2>3
<1>12. RoundsInv'
  <2>1. \A s \in Steps : ~Answered(s)
    BY <1>1 DEF Answered
  <2>2. \A s \in Steps : ~IsTerminal(s)' => ~IsTerminal(s)
    BY <1>4, <1>8 DEF IsTerminal
  <2> QED BY <1>1, <2>1, <2>2, RoundsKept
<1> QED BY <1>1, <1>6, <1>10, <1>11, <1>12, GoesOn DEF OnSchedule, ScheduleInv, Scheduled

\* The coder keeps the schedule.
LEMMA CoderScheduled ==
    ASSUME OneTurn, ScheduleInv, Coder
    PROVE  Scheduled'
<1>1. CASE CoderReads \/ CoderFails \/ CoderStagesCommand \/ CoderStagesFiles
  BY <1>1, CoderMarks DEF CoderReads, CoderFails, CoderStagesCommand, CoderStagesFiles
<1>2. CASE CoderWithoutStep
  <2>1. sent \in Steps
    BY <1>2, UnderWay DEF CoderWithoutStep, InPlace
  <2> QED BY <1>2, <2>1 DEF CoderWithoutStep, Steps
<1>3. CASE CoderRaises
  <2>1. /\ node = "coder" /\ corrections < CorrectionMax /\ healing' /\ corrections' = corrections + 1
        /\ node' = "heal" /\ outcome' = outcome
        /\ UNCHANGED <<plan, status, current, apply_attempts, answers, pending_apply, applied, turn, spins>>
    BY <1>3 DEF CoderRaises, CoderFrame, hitl, mission, Goto
  <2>2. /\ InOrder /\ InPlace /\ LapsArePaid
        /\ corrections \in Nat /\ spins \in Nat
    BY <2>1, UnderWay
  <2>3. InOrder'
    BY <2>1, <2>2 DEF InOrder, Passed, IsTerminal
  <2>4. InPlace'
    BY <2>1, <2>2 DEF InPlace, Open, IsTerminal, Gates
  <2>5. Decided' = Decided
    BY <2>1 DEF Decided, IsTerminal
  <2>6. LapsArePaid'
    <3>1. Progress' = Progress + 1
      BY <2>1, <2>2, <2>5, DecidedAreFew DEF Progress
    <3>2. spins' <= Progress'
      BY <2>1, <2>2, <3>1 DEF LapsArePaid
    <3>3. node' \notin Gates \cup {"dispatch", "coder", "validate"}
      BY <2>1 DEF Gates
    <3> QED BY <3>2, <3>3 DEF LapsArePaid
  <2>7. RoundsInv'
    BY <2>1, RoundsKept DEF Answered, IsTerminal
  <2> QED BY <2>1, <2>2, <2>3, <2>4, <2>6, <2>7, GoesOn DEF OnSchedule
<1>4. CASE CoderConcedes
  BY <1>4, EndsEarly DEF CoderConcedes, CoderFrame, hitl
<1> QED BY <1>1, <1>2, <1>3, <1>4 DEF Coder

-----------------------------------------------------------------------------
(* Steps that move the run on and leave the plan alone.                    *)

\* A run that moves on without a mark keeps its order; what is left are its place
\* and its laps.
LEMMA MovesOn ==
    ASSUME ScheduleInv, node # "idle", UNCHANGED <<plan, status, current, corrections, turn, answers, apply_attempts>>,
           pending_apply' \in {pending_apply, NoEnvelope}, InPlace', LapsArePaid',
           \A s \in Steps : node' # "idle" => (Answered(s) => Answered(s)')
    PROVE  Scheduled'
<1>1. InOrder'
  BY UnderWay DEF InOrder, Passed, IsTerminal
<1>2. RoundsInv'
  <2>1. \A s \in Steps : IsTerminal(s)' = IsTerminal(s)
    BY DEF IsTerminal
  <2> QED BY <2>1, RoundsKept
<1>3. corrections' <= CorrectionMax
  BY DEF ScheduleInv, Scheduled
<1> QED BY <1>1, <1>2, <1>3, GoesOn DEF OnSchedule

\* Progress is a matter of the statuses and the corrections.
LEMMA SameProgress ==
    ASSUME UNCHANGED <<status, current, corrections>>
    PROVE  /\ Progress' = Progress /\ Open' = Open
           /\ \A s \in Steps : IsTerminal(s)' = IsTerminal(s)
BY DEF Progress, Decided, IsTerminal, Open

\* Healing and the gates keep the schedule.
LEMMA GateScheduled ==
    ASSUME OneTurn, ScheduleInv, ErrorCorrection \/ FinopsPasses \/ FinopsPauses \/ Supervisor
    PROVE  Scheduled'
<1>1. /\ node \in {"heal", "finops", "supervisor"} /\ healing' \in {healing, FALSE}
      /\ UNCHANGED <<plan, status, current, corrections, turn, answers, apply_attempts, pending_apply, applied, spins>>
  BY DEF ErrorCorrection, FinopsPasses, FinopsPauses, Supervisor, GateFrame, mission, budgets, hitl
<1>2. /\ InPlace /\ LapsArePaid /\ corrections \in Nat /\ spins \in Nat
  BY <1>1, UnderWay
<1>3. \A s \in Steps : ~Answered(s)
  BY <1>1 DEF Answered
<1>4. CASE node' \in {"finops", "supervisor", "prepare"} /\ outcome' = outcome /\ (node = "heal" => ~healing')
  <2>1. InPlace'
    <3>1. ~healing'
      BY <1>1, <1>2, <1>4 DEF InPlace
    <3> QED BY <1>1, <1>2, <1>4, <3>1 DEF InPlace, Gates, IsTerminal
  <2>2. Progress \in Nat
    BY <1>2, DecidedAreFew DEF Progress
  <2>3. spins <= Progress + (IF Open THEN 1 ELSE 0)
    BY <1>1, <1>2, <2>2 DEF LapsArePaid, Gates
  <2>4. LapsArePaid'
    BY <1>1, <1>4, <2>3, SameProgress DEF LapsArePaid, Gates
  <2> QED BY <1>1, <1>3, <2>1, <2>4, MovesOn
<1>5. CASE Supervisor /\ End("budget")
  BY <1>1, <1>5, EndsEarly
<1> QED BY <1>4, <1>5 DEF ErrorCorrection, FinopsPasses, FinopsPauses, Supervisor, Goto, GateFrame

\* Preparing an envelope, or failing to, keeps the schedule.
LEMMA PrepareScheduled ==
    ASSUME OneTurn, ScheduleInv,
           PrepareSkips \/ PrepareFails \/ \E d \in Verdicts, a \in AutoAccept : Prepare(d, a)
    PROVE  Scheduled'
<1>1. /\ node = "prepare" /\ node' = "commit" /\ outcome' = outcome
      /\ UNCHANGED <<plan, current, corrections, turn, answers, apply_attempts, applied, healing, spins, paused>>
  BY DEF PrepareSkips, PrepareFails, Prepare, PreparesTarget, PrepareFrame, Goto, budgets, hitl
<1>2. /\ TypeMission /\ TypeGate /\ TypeCounters /\ InOrder /\ InPlace /\ LapsArePaid /\ ~paused
      /\ current \in Nat /\ corrections \in Nat /\ spins \in Nat
      /\ current # 0 => current \in Steps
  BY <1>1, UnderWay DEF PauseInv
<1>3. pending_apply = NoEnvelope /\ ~healing /\ outcome = "running"
  BY <1>1, <1>2 DEF InPlace
<1>4. \A s \in Steps : ~Answered(s) /\ ~Answered(s)'
  BY <1>1, <1>2 DEF Answered
<1>5. Progress \in Nat /\ spins <= Progress + (IF Open THEN 1 ELSE 0)
  BY <1>1, <1>2, DecidedAreFew DEF LapsArePaid, Gates, Progress
<1>6. corrections' <= CorrectionMax
  BY <1>1 DEF ScheduleInv, Scheduled
<1>7. CASE PrepareSkips
  <2>1. UNCHANGED <<status, pending_apply>> /\ ~Open
    BY <1>7 DEF PrepareSkips, HasTarget, Open
  <2>2. InPlace'
    BY <1>1, <1>2, <1>3, <2>1 DEF InPlace, Gates, Open, IsTerminal
  <2>3. LapsArePaid'
    BY <1>1, <1>5, <2>1, SameProgress DEF LapsArePaid, Gates
  <2> QED BY <1>1, <1>4, <2>1, <2>2, <2>3, MovesOn
<1>8. ASSUME HasTarget, NEW st \in Statuses \ {"pending"}, MarkStatus(current, st)
      PROVE  /\ InOrder'
             /\ \A s \in Steps : status'[s] = IF s = current THEN st ELSE status[s]
             /\ \A s \in applied' : IsTerminal(s)'
  <2>1. current \in Steps /\ ~IsTerminal(current) /\ current # 0
    BY <1>2, <1>8 DEF HasTarget
  <2>2. \A d \in plan.deps[current] : status[d] = "completed"
    BY <1>2, <2>1 DEF InOrder
  <2>3. InOrder'
    BY <1>1, <1>2, <1>8, <2>1, <2>2, OrderKept DEF InOrder
  <2>4. \A s \in Steps : status'[s] = IF s = current THEN st ELSE status[s]
    BY <1>2, <1>8 DEF MarkStatus, TypeMission
  <2>5. \A s \in applied' : IsTerminal(s)'
    BY <1>1, <1>2, <2>1, <2>4 DEF InPlace, TypeGate, IsTerminal
  <2> QED BY <2>3, <2>4, <2>5
<1>9. CASE PrepareFails
  <2>1. HasTarget /\ MarkStatus(current, "failed") /\ pending_apply' = pending_apply
    BY <1>9 DEF PrepareFails, PreparesTarget
  <2>2. /\ InOrder' /\ \A s \in applied' : IsTerminal(s)'
        /\ \A s \in Steps : status'[s] = IF s = current THEN "failed" ELSE status[s]
    BY <1>8, <2>1 DEF Statuses
  <2>3. current \in Steps /\ ~IsTerminal(current) /\ ~Open'
    BY <1>1, <1>2, <2>1, <2>2 DEF HasTarget, Open, IsTerminal
  <2>4. InPlace'
    BY <1>1, <1>2, <1>3, <2>1, <2>2, <2>3 DEF InPlace, Gates
  <2>5. Progress' = Progress + 1
    BY <1>1, <1>2, <2>1, <2>3, DecideOne, DecidedAreFew DEF Progress
  <2>6. LapsArePaid'
    BY <1>1, <1>2, <1>5, <2>5 DEF LapsArePaid, Gates
  <2>7. RoundsInv'
    BY <1>1, <1>4, <2>1, <2>2, <2>3, RoundsKept DEF IsTerminal
  <2> QED BY <1>1, <1>6, <2>2, <2>4, <2>6, <2>7, GoesOn DEF OnSchedule
<1>10. ASSUME NEW d \in Verdicts, NEW a \in AutoAccept, Prepare(d, a) PROVE Scheduled'
  <2>1. HasTarget /\ current \in Steps
    BY <1>2, <1>10 DEF Prepare, PreparesTarget, HasTarget
  <2>2. /\ pending_apply' # NoEnvelope /\ pending_apply'.step = current
        /\ pending_apply'.attempt = apply_attempts[current]
    BY <1>10, <2>1 DEF Prepare, NoEnvelope, Steps
  <2>3. PICK st \in Statuses \ {"pending", "completed", "failed", "rejected"} : MarkStatus(current, st)
    <3>1. CASE d = "hitl" /\ ~a
      BY <1>10, <3>1 DEF Prepare, Statuses
    <3>2. CASE ~(d = "hitl" /\ ~a)
      <4>1. status' = status
        BY <1>10, <3>2 DEF Prepare
      <4>2. MarkStatus(current, status[current])
        BY <1>2, <4>1 DEF MarkStatus, TypeMission
      <4>3. status[current] \in Statuses \ {"pending", "completed", "failed", "rejected"}
        BY <1>2, <2>1 DEF TypeMission, HasTarget, IsTerminal, InOrder
      <4> QED BY <4>2, <4>3
    <3> QED BY <3>1, <3>2
  <2>4. /\ InOrder' /\ \A s \in applied' : IsTerminal(s)'
        /\ \A s \in Steps : status'[s] = IF s = current THEN st ELSE status[s]
    BY <1>8, <2>1, <2>3
  <2>5. Open /\ Open' /\ \A s \in Steps : IsTerminal(s)' = IsTerminal(s)
    BY <1>1, <2>1, <2>4 DEF HasTarget, Open, IsTerminal, Statuses
  <2>6. InPlace'
    BY <1>1, <1>2, <1>3, <2>2, <2>4, <2>5 DEF InPlace, Gates
  <2>7. Progress' = Progress
    BY <1>1, <2>5 DEF Progress, Decided
  <2>8. LapsArePaid'
    BY <1>1, <1>5, <2>5, <2>7 DEF LapsArePaid, Gates
  <2>9. RoundsInv'
    <3>1. \A s \in Steps : Revisions(s)' = Revisions(s)
      BY <1>1 DEF Revisions
    <3>2. RoundsAreFew'
      BY <1>1, <3>1 DEF ScheduleInv, Scheduled, RoundsInv, RoundsAreFew
    <3>3. \A s \in Steps : ~IsTerminal(s) => Cardinality(Revisions(s)) <= apply_attempts[s]
      BY <1>1, <1>4 DEF ScheduleInv, Scheduled, RoundsInv, RoundsAreCounted
    <3> QED BY <1>1, <2>2, <2>5, <3>1, <3>2, <3>3 DEF RoundsInv, RoundsAreCounted
  <2> QED BY <1>1, <1>6, <2>4, <2>6, <2>8, <2>9, GoesOn DEF OnSchedule
<1> QED BY <1>7, <1>9, <1>10

-----------------------------------------------------------------------------
(* The apply gate.                                                         *)

\* The envelope is for the step under way, and nothing it depends on is missing.
LEMMA TargetIsCurrent ==
    ASSUME ScheduleInv, node = "commit", pending_apply # NoEnvelope
    PROVE  /\ Target = current /\ current \in Steps /\ Open /\ ~IsTerminal(current)
           /\ Target \notin applied /\ ~healing /\ outcome = "running"
           /\ \A d \in plan.deps[current] : status[d] = "completed"
           /\ pending_apply.attempt = apply_attempts[current]
           /\ \A s \in Steps : s # current => ~Answered(s)
<1>1. InOrder /\ InPlace /\ TypeGate /\ current \in Nat /\ (current # 0 => current \in Steps)
  BY UnderWay
<1>2. Target = current /\ Open /\ outcome = "running" /\ ~healing
  BY <1>1 DEF InPlace, Target
<1>3. current \in Steps /\ ~IsTerminal(current) /\ Target \notin applied
  BY <1>1, <1>2 DEF Open, InPlace
<1>4. \A d \in plan.deps[current] : status[d] = "completed"
  BY <1>1, <1>3 DEF InOrder, Steps
<1>5. pending_apply.attempt = apply_attempts[current]
  BY <1>2 DEF ScheduleInv, Scheduled, RoundsInv, RoundsAreCounted, Target
<1>6. \A s \in Steps : s # current => ~Answered(s)
  BY <1>2 DEF Answered, Target
<1> QED BY <1>2, <1>3, <1>4, <1>5, <1>6

\* Whatever the step under way is marked with at the gate, the order stays.
LEMMA ResolveKeepsOrder ==
    ASSUME OneTurn, ScheduleInv, node = "commit", pending_apply # NoEnvelope,
           NEW st \in Statuses \ {"pending"}, Resolve(st)
    PROVE  /\ InOrder' /\ current' = current
           /\ \A s \in Steps : status'[s] = IF s = current THEN st ELSE status[s]
           /\ pending_apply' = NoEnvelope /\ node' = "validate" /\ outcome' = "running"
           /\ turn' = 1
<1>1. /\ TypeMission /\ TypeCounters /\ InOrder /\ current \in Nat /\ turn = 1
  BY UnderWay
<1>2. /\ MarkStatus(current, st) /\ WriteCurrent(current) /\ plan' = plan /\ turn' = turn
      /\ pending_apply' = NoEnvelope /\ node' = "validate" /\ outcome' = "running"
  BY TargetIsCurrent DEF Resolve, CommitFrame, Goto
<1>3. current' = current
  BY <1>2 DEF WriteCurrent
<1>4. InOrder'
  BY <1>1, <1>2, <1>3, TargetIsCurrent, OrderKept DEF InOrder
<1>5. \A s \in Steps : status'[s] = IF s = current THEN st ELSE status[s]
  BY <1>1, <1>2 DEF MarkStatus, TypeMission
<1> QED BY <1>1, <1>2, <1>3, <1>4, <1>5

\* Deciding the step pays for the lap, and asking for healing besides for the lap
\* that heals.
LEMMA DecidedAtTheGate ==
    ASSUME OneTurn, ScheduleInv, node = "commit", pending_apply # NoEnvelope,
           NEW st \in {"completed", "failed", "rejected"}, Resolve(st),
           applied' \subseteq applied \cup {Target}, UNCHANGED <<answers, apply_attempts>>,
           spins' \in {spins, 0}, UNCHANGED <<healing, corrections>> \/ RequestHealing
    PROVE  Scheduled'
<1>1. /\ TypeMission /\ TypeGate /\ TypeCounters /\ InPlace /\ LapsArePaid
      /\ current \in Nat /\ corrections \in Nat /\ spins \in Nat /\ turn = 1
  BY UnderWay
<1>2. /\ InOrder' /\ current' = current
      /\ \A s \in Steps : status'[s] = IF s = current THEN st ELSE status[s]
      /\ pending_apply' = NoEnvelope /\ node' = "validate" /\ outcome' = "running"
      /\ turn' = 1
  BY ResolveKeepsOrder DEF Statuses
<1>3. /\ Target = current /\ current \in Steps /\ Open /\ ~IsTerminal(current) /\ ~healing
      /\ MarkStatus(current, st)
  BY TargetIsCurrent DEF Resolve
<1>4. ~Open' /\ \A s \in applied' : IsTerminal(s)'
  BY <1>1, <1>2, <1>3 DEF Open, IsTerminal, InPlace, TypeGate
<1>5. InPlace'
  BY <1>2, <1>4 DEF InPlace
<1>6. Cardinality(Decided') = Cardinality(Decided) + 1 /\ Cardinality(Decided) \in Nat
  BY <1>1, <1>3, DecideOne, DecidedAreFew
<1>7. spins' \in Nat /\ spins' <= Cardinality(Decided) + corrections + 1
  BY <1>1, <1>3, <1>6 DEF LapsArePaid, Gates, Progress
<1>8. /\ \/ ~healing' /\ corrections' = corrections
         \/ corrections' = corrections + 1
      /\ corrections' <= CorrectionMax
  BY <1>1, <1>3 DEF RequestHealing, CorrectionCeiling, ScheduleInv, Scheduled
<1>9. LapsArePaid'
  <2>1. spins' <= Progress'
    BY <1>1, <1>6, <1>7, <1>8 DEF Progress
  <2>2. healing' => spins' + 1 <= Progress'
    BY <1>1, <1>6, <1>7, <1>8 DEF Progress
  <2> QED BY <1>2, <2>1, <2>2 DEF LapsArePaid, Gates
<1>10. RoundsInv'
  <2>1. \A s \in Steps : ~IsTerminal(s)' => ~IsTerminal(s) /\ ~Answered(s)
    BY <1>2, <1>3, TargetIsCurrent DEF IsTerminal
  <2> QED BY <1>1, <1>2, <2>1, RoundsKept
<1> QED BY <1>1, <1>2, <1>5, <1>8, <1>9, <1>10, GoesOn DEF OnSchedule

\* Every effect of the gate keeps the schedule.
LEMMA EffectScheduled ==
    ASSUME OneTurn, ScheduleInv, node = "commit", pending_apply # NoEnvelope,
           NEW gate, Effect(gate), answers' = answers, spins' \in {spins, 0}
    PROVE  Scheduled'
<1>1. CASE CancelledAfterEffect(gate)
  BY <1>1, EndsEarly DEF CancelledAfterEffect, CommitFrame
<1>2. ASSUME NEW st \in {"completed", "failed"}, Settle(st) PROVE Scheduled'
  BY <1>2, DecidedAtTheGate DEF Settle
<1>3. ASSUME Resolve("failed"), RequestHealing, applied' \subseteq applied \cup {Target}
      PROVE  Scheduled'
  BY <1>3, DecidedAtTheGate DEF RequestHealing
<1> QED BY <1>1, <1>2, <1>3 DEF Effect, CommandSucceeds, CommandFails, PatchFailsGate, WriteRefused,
           WriteUnacknowledged, WriteLands

\* The steps of the gate that wait for no reply keep the schedule.
LEMMA CommitScheduled ==
    ASSUME OneTurn, ScheduleInv,
           CommitNothing \/ CommitAlreadyApplied \/ CommitDenied \/ CommitPauses \/ CommitUnasked
    PROVE  Scheduled'
<1>1. node = "commit" /\ answers' = answers /\ spins' = spins /\ ~paused
  BY DEF CommitNothing, CommitAlreadyApplied, CommitDenied, CommitPauses, CommitUnasked,
         CommitReady, hitl
<1>2. CASE CommitAlreadyApplied
  BY <1>1, <1>2, TargetIsCurrent DEF CommitAlreadyApplied
<1>3. CASE CommitDenied
  BY <1>1, <1>3, DecidedAtTheGate DEF CommitDenied, CommitReady, Settle
<1>4. CASE CommitUnasked
  BY <1>1, <1>4, EffectScheduled DEF CommitUnasked, CommitReady
<1>5. CASE CommitNothing \/ CommitPauses
  <2>1. UNCHANGED <<plan, status, current, corrections, turn, apply_attempts, pending_apply, applied,
                    healing, outcome>>
    BY <1>5 DEF CommitNothing, CommitPauses, CommitFrame, Goto
  <2>2. InPlace /\ LapsArePaid /\ spins \in Nat /\ Progress \in Nat /\ ~healing
    BY <1>1, UnderWay, DecidedAreFew DEF Progress, InPlace
  <2>3. CASE CommitNothing
    <3>1. node' = "validate" /\ pending_apply = NoEnvelope
      BY <2>3 DEF CommitNothing, Goto
    <3>2. ~Open
      BY <1>1, <2>2, <3>1 DEF InPlace
    <3>3. InPlace'
      BY <2>1, <2>2, <3>1, <3>2, SameProgress DEF InPlace, IsTerminal
    <3>4. LapsArePaid'
      BY <1>1, <2>1, <2>2, <3>1, <3>2, SameProgress DEF LapsArePaid, Gates
    <3> QED BY <1>1, <2>1, <3>3, <3>4, MovesOn DEF Answered
  <2>4. CASE CommitPauses
    <3>1. node' = "commit"
      BY <1>1, <2>4 DEF CommitPauses
    <3>2. InPlace'
      BY <1>1, <2>1, <2>2, <3>1, SameProgress DEF InPlace, IsTerminal, Gates
    <3>3. LapsArePaid'
      BY <1>1, <2>1, <2>2, <3>1, SameProgress DEF LapsArePaid, Gates
    <3> QED BY <1>1, <2>1, <3>2, <3>3, MovesOn DEF Answered
  <2> QED BY <1>5, <2>3, <2>4
<1> QED BY <1>2, <1>3, <1>4, <1>5

-----------------------------------------------------------------------------
(* The dispatcher and the router.                                          *)

\* A turn that ends with nothing left to dispatch has settled its steps.
LEMMA EndsSettled ==
    ASSUME ScheduleInv, node # "idle", NEW o \in {"done", "empty"}, End(o),
           UNCHANGED <<plan, status, corrections, turn, answers, apply_attempts>>,
           \A s \in Steps : Passed(s)
    PROVE  Scheduled'
<1>1. node' = "idle" /\ outcome' = o /\ turn' = 1
  BY UnderWay DEF End
<1>2. SettledAtEnd'
  BY DEF SettledAtEnd, Passed, IsTerminal
<1>3. \A s \in Steps : Revisions(s)' = Revisions(s)
  BY DEF Revisions
<1>4. RoundsInv'
  BY <1>1, <1>3 DEF ScheduleInv, Scheduled, RoundsInv, RoundsAreCounted, RoundsAreFew
<1>5. corrections' <= CorrectionMax
  BY DEF ScheduleInv, Scheduled
<1> QED BY <1>1, <1>2, <1>4, <1>5 DEF Scheduled, Fresh

\* Sending a step, or finding none, keeps the schedule.
LEMMA DispatchScheduled ==
    ASSUME OneTurn, ScheduleInv, Dispatch \/ DispatchNothing
    PROVE  Scheduled'
<1>1. /\ node = "dispatch"
      /\ UNCHANGED <<plan, status, current, corrections, turn, answers, apply_attempts,
                     pending_apply, applied, healing, spins>>
  BY DEF Dispatch, DispatchNothing, mission, budgets, hitl
<1>2. TypeMission /\ TypeCounters /\ InOrder /\ InPlace /\ LapsArePaid
  BY <1>1, UnderWay
<1>3. Open => status[current] = "revision_requested"
  BY <1>1, <1>2 DEF InPlace, Gates
<1>4. CASE Dispatch
  <2>1. PICK s \in Steps : /\ IsDispatchable(s) /\ \A t \in Steps : t < s => ~IsDispatchable(t)
                           /\ sent' = s /\ Goto(IF plan.kind[s] = "cell" THEN "cell" ELSE "coder")
    BY <1>4 DEF Dispatch
  <2>2. node' = "coder" /\ outcome' = outcome
    BY <1>2, <2>1, PlanInOrder DEF Goto
  <2>3. \A t \in Steps : IsDispatchable(t)' = IsDispatchable(t)
    BY <1>1 DEF IsDispatchable
  <2>4. InPlace'
    BY <1>1, <1>2, <1>3, <2>1, <2>2, <2>3 DEF InPlace, Gates, Open, IsTerminal
  <2>5. LapsArePaid'
    BY <1>1, <1>2, <2>2, SameProgress DEF LapsArePaid, Gates
  <2> QED BY <1>1, <2>4, <2>5, MovesOn DEF Answered
<1>5. CASE DispatchNothing
  BY <1>1, <1>2, <1>3, <1>5, AllPassed, EndsSettled DEF DispatchNothing
<1> QED BY <1>4, <1>5

\* Every lap the router starts is paid for, so it never hits the limit.
LEMMA LoopScheduled ==
    ASSUME OneTurn, ScheduleInv, ValidateHeals \/ ValidateAdvances
    PROVE  Scheduled'
<1>1. /\ node = "validate" /\ spins' = spins + 1
      /\ UNCHANGED <<plan, status, current, corrections, turn, answers, apply_attempts,
                     pending_apply, applied, healing>>
  BY DEF ValidateHeals, ValidateAdvances, Validated, ValidateFrame, LoopTo, mission, hitl
<1>2. InOrder /\ InPlace /\ LapsArePaid /\ spins \in Nat /\ corrections \in Nat
  BY <1>1, UnderWay
<1>3. /\ corrections <= CorrectionMax /\ NSteps + CorrectionMax <= MaxLaps
      /\ Cardinality(Decided) \in Nat /\ Cardinality(Decided) <= NSteps
  BY DecidedAreFew DEF ScheduleInv, Scheduled, OneTurn
<1>4. Open => status[current] = "revision_requested"
  BY <1>1, <1>2 DEF InPlace, Gates
<1>5. \A t \in Steps : IsDispatchable(t)' = IsDispatchable(t)
  BY <1>1 DEF IsDispatchable
<1>6. Progress \in Nat /\ Progress <= MaxLaps /\ (Cardinality(Decided) < NSteps => Progress < MaxLaps)
  BY <1>2, <1>3 DEF Progress
<1>7. CASE ValidateHeals
  <2>1. healing /\ spins + 1 <= Progress
    BY <1>1, <1>2, <1>7 DEF ValidateHeals, LapsArePaid
  <2>2. node' = "heal" /\ outcome' = outcome
    BY <1>2, <1>6, <1>7, <2>1 DEF ValidateHeals, LoopTo, Goto
  <2>3. InPlace'
    BY <1>1, <1>2, <1>4, <2>2 DEF InPlace, Gates, Open, IsTerminal
  <2>4. LapsArePaid'
    BY <1>1, <2>1, <2>2, SameProgress DEF LapsArePaid, Gates
  <2> QED BY <1>1, <2>3, <2>4, MovesOn DEF Answered
<1>8. CASE ValidateAdvances
  <2>1. ~healing /\ spins <= Progress /\ \E s \in Steps : ~IsTerminal(s)
    BY <1>1, <1>2, <1>8 DEF ValidateAdvances, LapsArePaid, IsDispatchable, IsTerminal
  <2>2. Cardinality(Decided) < NSteps
    BY <2>1, DecidedAreFew
  <2>3. node' = "dispatch" /\ outcome' = outcome
    BY <1>2, <1>6, <1>8, <2>1, <2>2 DEF ValidateAdvances, LoopTo, Goto
  <2>4. InPlace'
    BY <1>1, <1>2, <1>4, <2>1, <2>3 DEF InPlace, Gates, Open, IsTerminal
  <2>5. LapsArePaid'
    BY <1>1, <1>2, <1>6, <2>1, <2>3, SameProgress DEF LapsArePaid, Gates
  <2> QED BY <1>1, <2>4, <2>5, MovesOn DEF Answered
<1> QED BY <1>7, <1>8

\* The router and the checks keep the schedule; it never stalls.
LEMMA ValidateScheduled ==
    ASSUME OneTurn, ScheduleInv,
           GuardrailRetries \/ ValidateHeals \/ ValidateStalls \/ ValidateAdvances
           \/ ValidateEnds \/ RunChecks
    PROVE  Scheduled'
<1>1. CASE GuardrailRetries
  BY <1>1 DEF GuardrailRetries, OneTurn
<1>2. CASE ValidateHeals \/ ValidateAdvances
  BY <1>2, LoopScheduled
<1>3. CASE ValidateStalls
  <2>1. node = "validate" /\ Stalled
    BY <1>3 DEF ValidateStalls, Validated
  <2>2. Open => status[current] = "revision_requested"
    BY <2>1, UnderWay DEF InPlace, Gates
  <2> QED BY <2>1, <2>2 DEF Stalled, Open
<1>4. CASE ValidateEnds \/ RunChecks
  <2>1. /\ node \in {"validate", "checks"}
        /\ UNCHANGED <<plan, status, current, corrections, turn, answers, apply_attempts,
                       pending_apply, applied, healing, spins>>
    BY <1>4 DEF ValidateEnds, RunChecks, Validated, ValidateFrame, mission, hitl
  <2>2. TypeCounters /\ InOrder /\ InPlace /\ LapsArePaid
    BY <2>1, UnderWay
  <2>3. \A s \in Steps : ~IsDispatchable(s)
    BY <1>4, <2>2 DEF ValidateEnds, RunChecks, InPlace
  <2>4. Open => status[current] = "revision_requested"
    BY <2>1, <2>2 DEF InPlace, Gates
  <2>5. \A s \in Steps : Passed(s)
    BY <2>2, <2>3, <2>4, AllPassed
  <2>6. CASE End("done")
    BY <2>1, <2>5, <2>6, EndsSettled
  <2>7. CASE ValidateEnds /\ Goto("checks")
    <3>1. node' = "checks" /\ outcome' = outcome /\ ~healing
      BY <2>7 DEF ValidateEnds, Goto
    <3>2. \A t \in Steps : IsDispatchable(t)' = IsDispatchable(t)
      BY <2>1 DEF IsDispatchable
    <3>3. InPlace'
      BY <2>1, <2>2, <2>3, <2>4, <3>1, <3>2 DEF InPlace, Gates, Open, IsTerminal
    <3>4. LapsArePaid'
      BY <3>1 DEF LapsArePaid, Gates
    <3> QED BY <2>1, <3>3, <3>4, MovesOn DEF Answered
  <2> QED BY <1>4, <2>6, <2>7 DEF ValidateEnds, RunChecks
<1> QED BY <1>1, <1>2, <1>3, <1>4

-----------------------------------------------------------------------------
(* The turn and the human.                                                 *)

\* Revisions of a session nobody has answered in.
LEMMA NoRevisions ==
    ASSUME answers = {} PROVE \A s \in Steps : Cardinality(Revisions(s)) = 0
BY FS_EmptySet DEF Revisions

\* The session's only turn starts with the schedule untouched.
LEMMA TurnScheduled ==
    ASSUME OneTurn, ScheduleInv, PlanAndRun \/ PlanOnly \/ RunAcceptedPlan
    PROVE  Scheduled'
<1>1. turn = 0 /\ turn' = 1
  BY DEF PlanAndRun, PlanOnly, RunAcceptedPlan, SeedTurn, Submittable, OneTurn, ScheduleInv, Inv,
         TypeOK, TypeCounters
<1>2. Fresh /\ corrections <= CorrectionMax
  BY DEF ScheduleInv, Scheduled
<1>3. /\ node' \in {"dispatch", "idle"} /\ (node' = "dispatch" => outcome' = "running")
      /\ (node' = "idle" => outcome' = "planned")
      /\ status' = [s \in Steps |-> "pending"] /\ spins' = 0
      /\ UNCHANGED <<current, pending_apply, apply_attempts, applied, healing, corrections, answers>>
  BY <1>1 DEF PlanAndRun, PlanOnly, RunAcceptedPlan, SeedTurn, End
<1>4. /\ current = 0 /\ pending_apply = NoEnvelope /\ ~healing /\ answers = {} /\ applied = {}
      /\ apply_attempts = [s \in Steps |-> 0]
  BY <1>1, <1>2 DEF Fresh
<1>5. node' # "idle" => OnSchedule'
  <2>1. ASSUME node' # "idle" PROVE InOrder'
    BY <1>3, <1>4 DEF InOrder, Steps
  <2>2. ASSUME node' # "idle" PROVE InPlace'
    BY <1>1, <1>3, <1>4, <2>2 DEF InPlace, Open, Gates
  <2>3. corrections' \in Nat
    BY <1>3 DEF ScheduleInv, Inv, TypeOK, TypeCounters
  <2>4. Progress' = corrections'
    <3>1. Decided' = {}
      BY <1>3 DEF Decided, IsTerminal
    <3> QED BY <2>3, <3>1, FS_EmptySet DEF Progress
  <2>5. ASSUME node' # "idle" PROVE LapsArePaid'
    <3>1. spins' <= Progress' + 1
      BY <1>3, <2>3, <2>4
    <3> QED BY <1>3, <2>5, <3>1 DEF LapsArePaid, Gates
  <2> QED BY <2>1, <2>2, <2>5 DEF OnSchedule
<1>6. RoundsInv'
  <2>1. \A s \in Steps : Revisions(s)' = {}
    BY <1>3, <1>4 DEF Revisions
  <2>2. IsFiniteSet(answers') /\ Cardinality({}) = 0
    BY <1>3, <1>4, FS_EmptySet
  <2>3. RoundsAreFew'
    <3>1. \A s \in Steps : apply_attempts'[s] = 0
      BY <1>3, <1>4
    <3>2. 0 <= RejectMax /\ 0 <= 0 + 1
      OBVIOUS
    <3> QED BY <2>1, <2>2, <3>1, <3>2 DEF RoundsAreFew
  <2>4. RoundsAreCounted'
    BY <1>3, <1>4, <2>1, <2>2 DEF RoundsAreCounted
  <2> QED BY <2>3, <2>4 DEF RoundsInv
<1> QED BY <1>1, <1>2, <1>3, <1>5, <1>6 DEF Scheduled, Fresh, SettledAtEnd

\* An answer adds a round to no step but the one on the card, and that card had
\* no answer yet.
LEMMA RespondScheduled ==
    ASSUME OneTurn, ScheduleInv, NEW a \in Answers, Respond(a)
    PROVE  Scheduled'
<1>1. /\ paused /\ \A b \in answers : b.card # Card
      /\ answers' = answers \cup {[card |-> Card, answer |-> a]}
      /\ UNCHANGED <<plan, status, current, corrections, turn, apply_attempts, pending_apply,
                     applied, healing, spins, node, outcome, paused, laps, sent>>
  BY DEF Respond, mission, budgets, run
<1>2. /\ node # "idle" /\ TypeGate /\ InOrder /\ InPlace /\ LapsArePaid /\ turn = 1
      /\ RoundsAreCounted /\ RoundsAreFew /\ corrections <= CorrectionMax
      /\ (node = "commit" => pending_apply # NoEnvelope)
  BY <1>1, UnderWay DEF ScheduleInv, Scheduled, RoundsInv, Inv, PauseInv
<1>3. InOrder' /\ InPlace' /\ LapsArePaid'
  <2>1. InOrder'
    BY <1>1, <1>2 DEF InOrder, Passed, IsTerminal
  <2>2. InPlace'
    BY <1>1, <1>2 DEF InPlace, Open, IsTerminal, IsDispatchable, Gates
  <2>3. LapsArePaid'
    BY <1>1, <1>2, SameProgress DEF LapsArePaid, Gates
  <2> QED BY <2>1, <2>2, <2>3
<1>4. Card' = Card /\ Card.step = IF node = "commit" THEN Target ELSE 0
  BY <1>1 DEF Card, Target
<1>5. ASSUME NEW s \in Steps, ~(node = "commit" /\ Target = s)
      PROVE  Revisions(s)' = Revisions(s) /\ (Answered(s) => Answered(s)')
  <2>1. Card.step # s
    BY <1>4, <1>5 DEF Steps
  <2> QED BY <1>1, <1>4, <2>1 DEF Revisions, Answered
<1>6. ASSUME NEW s \in Steps, node = "commit", Target = s
      PROVE  /\ Answered(s)' /\ ~Answered(s) /\ ~IsTerminal(s)
             /\ Cardinality(Revisions(s)') \in Nat
             /\ Cardinality(Revisions(s)') <= Cardinality(Revisions(s)) + 1
  <2>1. Answered(s)' /\ ~Answered(s)
    <3>1. [card |-> Card, answer |-> a] \in answers' /\ [card |-> Card, answer |-> a].card = Card'
      BY <1>1, <1>4
    <3>2. \E b \in answers' : b.card = Card'
      BY <3>1
    <3>3. node' = "commit" /\ paused' /\ pending_apply'.step = s
      BY <1>1, <1>6 DEF Target
    <3> QED BY <1>1, <3>2, <3>3 DEF Answered
  <2>2. ~IsTerminal(s)
    BY <1>2, <1>6, TargetIsCurrent
  <2>3. PICK reply : reply = [card |-> Card, answer |-> a]
    OBVIOUS
  <2>4. Revisions(s)' \subseteq Revisions(s) \cup {reply}
    BY <1>1, <2>3 DEF Revisions
  <2>5. IsFiniteSet(Revisions(s))
    BY <1>2, FS_Subset DEF RoundsAreFew, Revisions
  <2>6. /\ IsFiniteSet(Revisions(s) \cup {reply}) /\ Cardinality(Revisions(s)) \in Nat
        /\ Cardinality(Revisions(s) \cup {reply}) <= Cardinality(Revisions(s)) + 1
    <3>1. Cardinality(Revisions(s)) \in Nat
      BY <2>5, FS_CardinalityType
    <3>2. /\ IsFiniteSet(Revisions(s) \cup {reply})
          /\ \/ Cardinality(Revisions(s) \cup {reply}) = Cardinality(Revisions(s))
             \/ Cardinality(Revisions(s) \cup {reply}) = Cardinality(Revisions(s)) + 1
      BY <2>5, FS_AddElement
    <3> QED BY <3>1, <3>2
  <2>7. /\ IsFiniteSet(Revisions(s)')
        /\ Cardinality(Revisions(s)') <= Cardinality(Revisions(s) \cup {reply})
    BY <2>4, <2>6, FS_Subset
  <2>8. /\ Cardinality(Revisions(s)') \in Nat /\ Cardinality(Revisions(s) \cup {reply}) \in Nat
    BY <2>6, <2>7, FS_CardinalityType
  <2> QED BY <2>1, <2>2, <2>6, <2>7, <2>8
<1>7. RoundsAreFew'
  <2>1. IsFiniteSet(answers')
    BY <1>1, <1>2, FS_AddElement DEF RoundsAreFew
  <2>2. ASSUME NEW s \in Steps
        PROVE  /\ apply_attempts'[s] <= RejectMax
               /\ Cardinality(Revisions(s)') <= apply_attempts'[s] + 1
    <3>1. CASE node = "commit" /\ Target = s
      <4>1. Cardinality(Revisions(s)) <= apply_attempts[s]
        BY <1>2, <1>6, <3>1 DEF RoundsAreCounted
      <4>2. apply_attempts[s] \in Nat /\ Cardinality(Revisions(s)) \in Nat
        <5>1. IsFiniteSet(Revisions(s))
          BY <1>2, FS_Subset DEF RoundsAreFew, Revisions
        <5> QED BY <5>1, FS_CardinalityType, UnderWay, <1>2 DEF TypeMission
      <4> QED BY <1>1, <1>2, <1>6, <3>1, <4>1, <4>2 DEF RoundsAreFew
    <3>2. CASE ~(node = "commit" /\ Target = s)
      BY <1>1, <1>2, <1>5, <3>2 DEF RoundsAreFew
    <3> QED BY <3>1, <3>2
  <2> QED BY <2>1, <2>2 DEF RoundsAreFew
<1>8. RoundsAreCounted'
  <2>1. ASSUME NEW s \in Steps, ~IsTerminal(s)', ~Answered(s)'
        PROVE  Cardinality(Revisions(s)') <= apply_attempts'[s]
    <3>1. ~(node = "commit" /\ Target = s)
      BY <1>6, <2>1
    <3>2. ~IsTerminal(s) /\ ~Answered(s) /\ Revisions(s)' = Revisions(s)
      BY <1>1, <1>5, <2>1, <3>1 DEF IsTerminal
    <3> QED BY <1>1, <1>2, <3>2 DEF RoundsAreCounted
  <2> QED BY <1>1, <1>2, <2>1 DEF RoundsAreCounted
<1> QED BY <1>1, <1>2, <1>3, <1>7, <1>8, GoesOn DEF OnSchedule, RoundsInv

\* What the core does with a reply, whatever card it was given to, keeps the
\* schedule; a revision is one more round of the step on the card.
LEMMA ReplyScheduled ==
    ASSUME OneTurn, ScheduleInv, NEW r \in inflight, HandleReply(r)
    PROVE  Scheduled'
<1>1. CASE ReplyDropped(r)
  <2>1. UNCHANGED <<plan, status, current, corrections, turn, apply_attempts, pending_apply, applied,
                    healing, spins, node, outcome, paused, answers, laps, sent>>
    BY <1>1 DEF ReplyDropped, mission, budgets, run
  <2>2. CASE node = "idle"
    <3>1. RoundsInv'
      <4>1. \A s \in Steps : Revisions(s)' = Revisions(s)
        BY <2>1 DEF Revisions
      <4> QED BY <2>1, <2>2, <4>1 DEF ScheduleInv, Scheduled, RoundsInv, RoundsAreCounted, RoundsAreFew
    <3>2. Fresh' /\ SettledAtEnd' /\ corrections' <= CorrectionMax /\ outcome' # "recursion"
      BY <2>1 DEF ScheduleInv, Scheduled, Fresh, SettledAtEnd, IsTerminal
    <3> QED BY <2>1, <2>2, <3>1, <3>2 DEF Scheduled
  <2>3. CASE node # "idle"
    <3>1. InPlace /\ LapsArePaid
      BY <2>3, UnderWay
    <3>2. InPlace'
      BY <2>1, <3>1 DEF InPlace, Open, IsTerminal, IsDispatchable, Gates
    <3>3. LapsArePaid'
      BY <2>1, <3>1, SameProgress DEF LapsArePaid, Gates
    <3>4. Card' = Card
      BY <2>1 DEF Card, Target
    <3> QED BY <2>1, <2>3, <3>2, <3>3, <3>4, MovesOn DEF Answered
  <2> QED BY <2>2, <2>3
<1>2. CASE FinopsResumes(r)
  <2>1. /\ node = "finops" /\ spins' = 0 /\ answers' = answers
        /\ UNCHANGED <<plan, status, current, corrections, turn, apply_attempts, pending_apply,
                       applied, healing>>
    BY <1>2 DEF FinopsResumes, Resumes, GateFrame, mission, budgets
  <2>2. CASE Goto("supervisor")
    <3>1. InPlace /\ corrections \in Nat
      BY <2>1, UnderWay
    <3>2. InPlace'
      BY <2>1, <2>2, <3>1 DEF Goto, InPlace, Open, IsTerminal, Gates
    <3>3. Progress \in Nat
      BY <3>1, DecidedAreFew DEF Progress
    <3>4. spins' <= Progress + (IF Open THEN 1 ELSE 0)
      BY <2>1, <3>3
    <3>5. LapsArePaid'
      BY <2>1, <2>2, <3>4, SameProgress DEF Goto, LapsArePaid, Gates
    <3> QED BY <2>1, <3>2, <3>5, MovesOn DEF Answered
  <2>3. CASE End("budget")
    BY <2>1, <2>3, EndsEarly
  <2> QED BY <1>2, <2>2, <2>3 DEF FinopsResumes
<1>3. ASSUME CommitApproved(r) \/ CommitRevised(r) \/ CommitRejected(r)
      PROVE  node = "commit" /\ pending_apply # NoEnvelope /\ answers' = answers /\ spins' = 0
  BY <1>3 DEF CommitApproved, CommitRevised, CommitRejected, Resumes, ScheduleInv, Inv, PauseInv
<1>4. CASE CommitApproved(r)
  BY <1>3, <1>4, EffectScheduled DEF CommitApproved
<1>5. CASE CommitRejected(r)
  BY <1>3, <1>5, DecidedAtTheGate DEF CommitRejected, Settle
<1>6. CASE CommitRevised(r)
  <2>1. /\ Resolve("revision_requested") /\ UNCHANGED <<applied, healing, corrections, answers>>
        /\ spins' = 0 /\ pending_apply.attempt < RejectMax
        /\ apply_attempts' = [apply_attempts EXCEPT ![Target] = pending_apply.attempt + 1]
    BY <1>3, <1>6 DEF CommitRevised
  <2>2. /\ TypeMission /\ TypeGate /\ InPlace /\ corrections \in Nat /\ turn = 1
        /\ RoundsAreCounted /\ RoundsAreFew /\ corrections <= CorrectionMax
    BY <1>3, <1>6, UnderWay DEF ScheduleInv, Scheduled, RoundsInv
  <2>3. /\ Target = current /\ current \in Steps /\ ~IsTerminal(current) /\ ~healing
        /\ pending_apply.attempt = apply_attempts[current]
        /\ \A s \in Steps : s # current => ~Answered(s)
    BY <1>3, <1>6, TargetIsCurrent
  <2>4. /\ InOrder' /\ current' = current /\ turn' = 1
        /\ \A s \in Steps : status'[s] = IF s = current THEN "revision_requested" ELSE status[s]
        /\ pending_apply' = NoEnvelope /\ node' = "validate" /\ outcome' = "running"
    BY <1>3, <1>6, <2>1, ResolveKeepsOrder DEF Statuses
  <2>5. InPlace'
    <3>1. \A s \in applied' : IsTerminal(s)'
      BY <2>1, <2>2, <2>3, <2>4 DEF InPlace, TypeGate, IsTerminal
    <3> QED BY <2>1, <2>3, <2>4, <3>1 DEF InPlace, Gates
  <2>6. LapsArePaid'
    <3>1. Decided' = Decided
      BY <2>3, <2>4 DEF Decided, IsTerminal
    <3>2. spins' <= Progress' /\ ~healing'
      BY <2>1, <2>2, <2>3, <3>1, DecidedAreFew DEF Progress
    <3> QED BY <2>4, <3>2 DEF LapsArePaid, Gates
  <2>7. \A s \in Steps : /\ Revisions(s)' = Revisions(s) /\ (IsTerminal(s)' <=> IsTerminal(s))
                          /\ apply_attempts'[s] = IF s = current THEN apply_attempts[s] + 1
                                                                 ELSE apply_attempts[s]
    BY <2>1, <2>2, <2>3, <2>4 DEF Revisions, IsTerminal, TypeMission
  <2>8. /\ apply_attempts[current] \in Nat /\ apply_attempts[current] < RejectMax
        /\ Cardinality(Revisions(current)) \in Nat
        /\ Cardinality(Revisions(current)) <= apply_attempts[current] + 1
    <3>1. IsFiniteSet(Revisions(current))
      BY <2>2, FS_Subset DEF RoundsAreFew, Revisions
    <3> QED BY <2>1, <2>2, <2>3, <3>1, FS_CardinalityType DEF TypeMission, RoundsAreFew
  <2>9. RoundsAreFew'
    <3>1. ASSUME NEW s \in Steps
          PROVE  /\ apply_attempts'[s] <= RejectMax
                 /\ Cardinality(Revisions(s)') <= apply_attempts'[s] + 1
      <4>1. CASE s = current
        BY <2>7, <2>8, <4>1
      <4>2. CASE s # current
        BY <2>2, <2>7, <4>2 DEF RoundsAreFew
      <4> QED BY <4>1, <4>2
    <3> QED BY <2>1, <2>2, <3>1 DEF RoundsAreFew
  <2>10. RoundsAreCounted'
    <3>1. ASSUME NEW s \in Steps, ~IsTerminal(s)'
          PROVE  Cardinality(Revisions(s)') <= apply_attempts'[s]
      <4>1. CASE s = current
        BY <2>7, <2>8, <4>1
      <4>2. CASE s # current
        BY <1>3, <1>6, <2>2, <2>3, <2>7, <3>1, <4>2 DEF RoundsAreCounted
      <4> QED BY <4>1, <4>2
    <3> QED BY <2>4, <3>1 DEF RoundsAreCounted
  <2> QED BY <1>3, <1>6, <2>1, <2>2, <2>4, <2>5, <2>6, <2>9, <2>10, GoesOn DEF OnSchedule, RoundsInv
<1> QED BY <1>1, <1>2, <1>4, <1>5, <1>6 DEF HandleReply

-----------------------------------------------------------------------------
(* The theorems.                                                           *)

\* Every step keeps the schedule.
LEMMA NextScheduled == OneTurn /\ ScheduleInv /\ [Next]_vars => ScheduleInv'
<1> SUFFICES ASSUME OneTurn, ScheduleInv, [Next]_vars PROVE Scheduled'
  BY NextInv DEF ScheduleInv
<1>1. CASE PlanAndRun \/ PlanOnly \/ RunAcceptedPlan
  BY <1>1, TurnScheduled
<1>2. CASE Dispatch \/ DispatchNothing
  BY <1>2, DispatchScheduled
<1>3. CASE Coder
  BY <1>3, CoderScheduled
<1>4. CASE Cell
  BY <1>4, UnderWay DEF Cell, InPlace
<1>5. CASE ErrorCorrection \/ FinopsPasses \/ FinopsPauses \/ Supervisor
  BY <1>5, GateScheduled
<1>6. CASE PrepareSkips \/ PrepareFails \/ \E d \in Verdicts, a \in AutoAccept : Prepare(d, a)
  BY <1>6, PrepareScheduled
<1>7. CASE CommitNothing \/ CommitAlreadyApplied \/ CommitDenied \/ CommitPauses \/ CommitUnasked
  BY <1>7, CommitScheduled
<1>8. CASE GuardrailRetries \/ ValidateHeals \/ ValidateStalls \/ ValidateAdvances
           \/ ValidateEnds \/ RunChecks
  BY <1>8, ValidateScheduled
<1>9. CASE \E a \in Answers : Respond(a)
  BY <1>9, RespondScheduled
<1>10. CASE \E r \in inflight : HandleReply(r)
  BY <1>10, ReplyScheduled
<1>11. CASE Abort
  BY <1>11, EndsEarly DEF Abort, Running, budgets, hitl
<1>12. CASE UNCHANGED vars
  <2>1. UNCHANGED <<plan, status, current, corrections, turn, apply_attempts, pending_apply, applied,
                    healing, spins, node, outcome, paused, answers, laps, sent>>
    BY <1>12 DEF vars, mission, budgets, run, hitl
  <2>2. UNCHANGED <<Fresh, InOrder, LapsArePaid, SettledAtEnd>>
    BY <2>1 DEF Fresh, InOrder, Passed, LapsArePaid, Progress, Decided, Open, SettledAtEnd, IsTerminal
  <2>3. InPlace' = InPlace
    BY <2>1 DEF InPlace, Open, IsTerminal, IsDispatchable
  <2>4. RoundsInv' = RoundsInv
    BY <2>1 DEF RoundsInv, RoundsAreCounted, RoundsAreFew, Revisions, Answered, Card, Target, IsTerminal
  <2> QED BY <2>1, <2>2, <2>3, <2>4 DEF ScheduleInv, Scheduled, OnSchedule
<1>13. CASE Rest
  BY <1>12, <1>13 DEF Rest
<1> QED BY <1>1, <1>2, <1>3, <1>4, <1>5, <1>6, <1>7, <1>8, <1>9, <1>10, <1>11, <1>12, <1>13
        DEF Next, GraphStep

\* A new session has nothing behind it.
LEMMA InitScheduled == Init => ScheduleInv
<1> SUFFICES ASSUME Init PROVE ScheduleInv
  OBVIOUS
<1>1. Fresh /\ SettledAtEnd /\ outcome # "recursion" /\ corrections <= CorrectionMax /\ node = "idle"
  BY DEF Init, Fresh, SettledAtEnd
<1>2. RoundsInv
  <2>1. answers = {} /\ \A s \in Steps : apply_attempts[s] = 0
    BY DEF Init
  <2>2. \A s \in Steps : Cardinality(Revisions(s)) = 0
    BY <2>1, NoRevisions
  <2>3. 0 <= RejectMax /\ 0 <= 0 + 1
    OBVIOUS
  <2>4. RoundsAreFew
    BY <2>1, <2>2, <2>3, FS_EmptySet DEF RoundsAreFew
  <2> QED BY <1>1, <2>4 DEF RoundsInv, RoundsAreCounted
<1> QED BY <1>1, <1>2, InitInv DEF ScheduleInv, Scheduled

\* An effect is that of the step under way, which was taken after what it depends on.
LEMMA EffectsInOrder ==
    ASSUME ScheduleInv, [Next]_vars, NEW l \in landings' \ landings, NEW d \in plan.deps[l.step]
    PROVE  status[d] = "completed"
<1>1. \E gate \in {"allow", "hitl"} : Land(gate) /\ node = "commit" /\ pending_apply # NoEnvelope
  <2>1. CASE CommitUnasked
    BY <2>1 DEF CommitUnasked, CommitReady, Effect, CommandSucceeds, CommandFails, PatchFailsGate,
       WriteRefused, WriteUnacknowledged, WriteLands, CancelledAfterEffect
  <2>2. CASE \E r \in inflight : CommitApproved(r)
    BY <2>2 DEF CommitApproved, Resumes, ScheduleInv, Inv, PauseInv, Effect, CommandSucceeds,
       CommandFails, PatchFailsGate, WriteRefused, WriteUnacknowledged, WriteLands, CancelledAfterEffect
  <2>3. CASE landings' = landings
    BY <2>3
  <2>4. \/ landings' = landings \/ CommitUnasked \/ \E r \in inflight : CommitApproved(r)
    <3>1. CASE GraphStep
      BY <3>1 DEF GraphStep, Dispatch, DispatchNothing, Coder, CoderReads, CoderFails,
         CoderStagesCommand, CoderStagesFiles, CoderWithoutStep, CoderRaises, CoderConcedes,
         CoderReturns, CoderFrame, Cell, ErrorCorrection, FinopsPasses, FinopsPauses, Supervisor,
         GateFrame, PrepareSkips, PrepareFails, Prepare, PreparesTarget, PrepareFrame,
         CommitNothing, CommitAlreadyApplied, CommitDenied, CommitPauses, GuardrailRetries,
         ValidateHeals, ValidateStalls, ValidateAdvances, ValidateEnds, Validated, RunChecks,
         ValidateFrame
    <3>2. CASE PlanAndRun \/ PlanOnly \/ RunAcceptedPlan \/ Abort \/ Rest \/ UNCHANGED vars
               \/ \E a \in Answers : Respond(a)
      BY <3>2 DEF PlanAndRun, PlanOnly, RunAcceptedPlan, SeedTurn, Abort, Rest, vars, Respond
    <3>3. CASE \E r \in inflight : HandleReply(r)
      BY <3>3 DEF HandleReply, ReplyDropped, FinopsResumes, GateFrame, CommitRevised, CommitRejected
    <3> QED BY <3>1, <3>2, <3>3 DEF Next
  <2> QED BY <2>1, <2>2, <2>3, <2>4
<1>2. l.step = Target
  BY <1>1 DEF Land
<1> QED BY <1>1, <1>2, TargetIsCurrent

\* The invariant behind the two theorems that follow.
LEMMA ScheduleHolds == ASSUME OneTurn PROVE Spec => []ScheduleInv
<1>1. ScheduleInv /\ [Next]_vars => ScheduleInv'
  BY NextScheduled
<1> QED BY <1>1, InitScheduled, PTL DEF Spec

\* However often the human asks for changes, and however many copies of a reply
\* arrive, a turn ends by its own counters: the rounds of the apply gate
\* (_handle_declined) and the corrections of the coder, not the recursion limit.
THEOREM LoopsEnd == ASSUME OneTurn PROVE Spec => []LoopsAreBounded
<1>1. ScheduleInv => LoopsAreBounded
  <2> SUFFICES ASSUME ScheduleInv PROVE LoopsAreBounded
    OBVIOUS
  <2>1. outcome # "recursion" /\ RoundsAreFew /\ TypeMission
    BY DEF ScheduleInv, Scheduled, RoundsInv, Inv, TypeOK
  <2>2. ASSUME NEW s \in Steps PROVE Cardinality(Revisions(s)) <= RejectMax + 1
    <3>1. Cardinality(Revisions(s)) \in Nat
      <4>1. IsFiniteSet(Revisions(s))
        BY <2>1, FS_Subset DEF RoundsAreFew, Revisions
      <4> QED BY <4>1, FS_CardinalityType
    <3> QED BY <2>1, <3>1 DEF RoundsAreFew, TypeMission
  <2> QED BY <2>1, <2>2 DEF LoopsAreBounded, RevisionsBounded, NeverHitsRecursionLimit, Revisions
<1> QED BY <1>1, ScheduleHolds, PTL

\* No effect happens before what its step depends on is completed, and a turn that
\* ends by itself leaves no step that could have been taken (step_dispatch,
\* route_to_coders, route_after_validation).
THEOREM ScheduledSoundly == ASSUME OneTurn PROVE Spec => ScheduleIsSound
<1>1. ScheduleInv => SettledAtEnd
  BY DEF ScheduleInv, Scheduled
<1>2. ScheduleInv /\ [Next]_vars
         => [\A l \in landings' \ landings : \A d \in plan.deps[l.step] : status[d] = "completed"]_vars
  BY EffectsInOrder
<1> QED BY <1>1, <1>2, ScheduleHolds, PTL DEF Spec, ScheduleIsSound, DependenciesRespected

=============================================================================
