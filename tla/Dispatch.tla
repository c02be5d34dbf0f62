------------------------------ MODULE Dispatch ------------------------------
(***************************************************************************)
(* The dynamic subagent dispatch of brain/dispatch.py and its neighbours:  *)
(* the researcher or the planner may emit a plan of subagent tasks; the    *)
(* dispatch subgraph admits it against the ceilings and the budget, fans   *)
(* it out in waves of parallel workers, opens further rounds for the       *)
(* patterns that need them, and synthesis digests the envelopes, settles   *)
(* the reservation and rejoins the spine.                                  *)
(*                                                                         *)
(* Each action is one super-step of the graph: the writes of the parallel  *)
(* workers of a wave are committed together.  Money is counted in units.   *)
(***************************************************************************)
EXTENDS Integers, Sequences, FiniteSets

CONSTANTS
    Plans,          \* the plans an agent may emit
    Outcomes,       \* what a worker may report: a status and a cost
    CriticEstimate, \* estimate_task_cost of the critic task
    StepCosts,      \* what executing the mission may add to the cost
    Cap,            \* MAX_CONCURRENT_SUBAGENTS
    MaxDepth,       \* MAX_DISPATCH_DEPTH
    MaxWidth,       \* MAX_DISPATCH_WIDTH
    MaxRounds,      \* MAX_DISPATCH_ROUNDS
    Budget,         \* max_budget_usd; 0 is no ceiling
    MaxTurns,       \* bound: turns of the session
    MaxDispatches   \* bound: plans emitted

PlanType == [pattern : {"one_round", "adversarial", "loop"},
             width : Nat \ {0}, estimate : Nat]

ASSUME DispatchAssumption ==
    /\ Plans \subseteq PlanType
    /\ Outcomes \subseteq [status : {"ok", "done", "error"}, cost : Nat]
    /\ CriticEstimate \in Nat
    /\ StepCosts \subseteq Nat
    /\ Cap \in Nat \ {0}
    /\ MaxDepth \in Nat
    /\ MaxWidth \in Nat \ {0}
    /\ MaxRounds \in Nat \ {0}
    /\ Budget \in Nat
    /\ MaxTurns \in Nat
    /\ MaxDispatches \in Nat

VARIABLES
    at,             \* the node the turn executes next
    plan,           \* dispatch_plan
    returnNode,     \* dispatch_return_node
    wave,           \* dispatch_wave_count
    round,          \* dispatch_round_count
    admission,      \* _dispatch_admission
    results,        \* _dispatch_results, appended to and never cleared
    consumed,       \* _dispatch_consumed
    batch,          \* dispatch_batch_result
    cost,           \* current_cost_usd
    reserved,       \* _dispatch_reserved_usd
    reservedRound,  \* _dispatch_reserved_round
    turn,           \* counter of the bound
    dispatch,       \* history: plans emitted so far
    emitted,        \* history: the plan last emitted
    opened,         \* history: the cost when it was emitted
    emittedIn,      \* history: the turn that emitted it
    closed          \* history: the dispatches synthesised

counters == <<wave, round>>
ledger == <<cost, reserved, reservedRound>>
history == <<dispatch, emitted, opened, emittedIn, closed>>
vars == <<at, plan, returnNode, counters, admission, results, consumed,
          batch, ledger, turn, history>>

NoPlan == [pattern |-> "none", width |-> 0, estimate |-> 0]
Subgraph == {"dispatch_origin", "dispatch_fanout", "subagent_worker",
             "dispatch_gate", "dispatch_advance", "dispatch_synthesize"}
\* No turn is running: the last one ended, or was aborted.
Between == {"idle", "aborted"}

Init ==
    /\ at = "idle"
    /\ plan = NoPlan /\ returnNode = "none"
    /\ wave = 0 /\ round = 0 /\ admission = "none"
    /\ results = <<>> /\ consumed = 0 /\ batch = <<>>
    /\ cost = 0 /\ reserved = 0 /\ reservedRound = -1
    /\ turn = 0
    /\ dispatch = 0 /\ emitted = NoPlan /\ opened = 0
    /\ emittedIn = 0 /\ closed = {}

-----------------------------------------------------------------------------
(* The spine around the subgraph. *)

\* A new turn on the thread.  The seed writes none of the dispatch channels,
\* and its cost of 0 is added to the channel.  An accepted plan is executed
\* at once, any other request goes to the researcher.
StartTurn ==
    /\ at \in Between /\ turn < MaxTurns
    /\ turn' = turn + 1
    /\ at' \in {"researcher_agent", "step_dispatch"}
    /\ UNCHANGED <<plan, returnNode, counters, admission, results, consumed,
                   batch, ledger, history>>

\* _fresh_dispatch_channels: everything but the watermark is reset.
FreshChannels(p, node) ==
    /\ plan' = p /\ returnNode' = node
    /\ wave' = 0 /\ round' = 0
    /\ reserved' = 0 /\ reservedRound' = -1
    /\ admission' = "none"
    /\ dispatch' = dispatch + 1 /\ emitted' = p /\ opened' = cost
    /\ emittedIn' = turn
    /\ UNCHANGED <<cost, closed>>

\* maybe_emit_dispatch: a validated plan, or nothing.
MaybeEmit(node) ==
    \/ /\ dispatch < MaxDispatches
       /\ \E p \in Plans : FreshChannels(p, node)
    \/ UNCHANGED <<plan, returnNode, counters, admission, ledger, history>>

Researcher ==
    /\ at = "researcher_agent"
    /\ MaybeEmit("planner_agent")
    /\ at' = IF plan' # NoPlan THEN "dispatch_origin" ELSE "planner_agent"
    /\ UNCHANGED <<results, consumed, batch, turn>>

Planner ==
    /\ at = "planner_agent"
    /\ MaybeEmit("step_dispatch")
    /\ at' = IF plan' # NoPlan THEN "dispatch_origin" ELSE "step_dispatch"
    /\ UNCHANGED <<results, consumed, batch, turn>>

\* A PLAN_ONLY session stops after planning, whatever the planner emitted.
PlanOnly ==
    /\ at = "planner_agent"
    /\ MaybeEmit("step_dispatch")
    /\ at' = "idle"
    /\ UNCHANGED <<results, consumed, batch, turn>>

\* The planner returns without a mission, or the operator cancels the tier
\* review in front of it.
PlannerFails ==
    /\ at = "planner_agent"
    /\ at' = "idle"
    /\ UNCHANGED <<plan, returnNode, counters, admission, results, consumed,
                   batch, ledger, turn, history>>

\* The mission is executed; the agentic cell books what it spends.
ExecuteSteps ==
    /\ at = "step_dispatch"
    /\ \E c \in StepCosts : cost' = cost + c
    /\ at' = "idle"
    /\ UNCHANGED <<plan, returnNode, counters, admission, results, consumed,
                   batch, reserved, reservedRound, turn, history>>

\* The abort mesh cancels the run: the checkpoint keeps the last super-step.
Abort ==
    /\ at \notin Between
    /\ at' = "aborted"
    /\ UNCHANGED <<plan, returnNode, counters, admission, results, consumed,
                   batch, ledger, turn, history>>

-----------------------------------------------------------------------------
(* Admission. *)

Lesser(a, b) == IF a < b THEN a ELSE b

\* One envelope for each of the tasks first..last of the plan.
Report(first, last, out) ==
    [i \in 1..(last - first + 1) |->
        [dispatch |-> dispatch, round |-> round, task |-> first + i - 1,
         status |-> out[first + i - 1].status,
         cost |-> out[first + i - 1].cost]]

\* _denied_envelopes: at most MAX_DISPATCH_WIDTH of them.
DeniedEnvelopes(status) ==
    LET last == Lesser(plan.width, MaxWidth)
    IN  Report(1, last, [t \in 1..last |-> [status |-> status, cost |-> 0]])

\* The depth of the thread itself is always 0: only the workers' copies of
\* the state carry an incremented depth.
OverCeiling == MaxDepth = 0 \/ plan.width > MaxWidth

\* A later wave, a round already reserved, or no ceiling.
NothingToReserve == wave # 0 \/ round <= reservedRound \/ Budget = 0

Affordable == cost + plan.estimate <= Budget

OriginDenies ==
    /\ at = "dispatch_origin" /\ OverCeiling
    /\ admission' = "denied"
    /\ results' = results \o DeniedEnvelopes("denied")
    /\ at' = "dispatch_synthesize"
    /\ UNCHANGED <<plan, returnNode, counters, consumed, batch, ledger, turn,
                   history>>

OriginPasses ==
    /\ at = "dispatch_origin" /\ ~OverCeiling /\ NothingToReserve
    /\ admission' = "admit"
    /\ at' = "dispatch_fanout"
    /\ UNCHANGED <<plan, returnNode, counters, results, consumed, batch,
                   ledger, turn, history>>

OriginReserves ==
    /\ at = "dispatch_origin" /\ ~OverCeiling /\ ~NothingToReserve
    /\ Affordable
    /\ admission' = "admit"
    /\ cost' = cost + plan.estimate
    /\ reserved' = reserved + plan.estimate
    /\ reservedRound' = round
    /\ at' = "dispatch_fanout"
    /\ UNCHANGED <<plan, returnNode, counters, results, consumed, batch, turn,
                   history>>

OriginExhausted ==
    /\ at = "dispatch_origin" /\ ~OverCeiling /\ ~NothingToReserve
    /\ ~Affordable
    /\ admission' = "budget_exhausted"
    /\ results' = results \o DeniedEnvelopes("budget_exhausted")
    /\ at' = "dispatch_synthesize"
    /\ UNCHANGED <<plan, returnNode, counters, consumed, batch, ledger, turn,
                   history>>

-----------------------------------------------------------------------------
(* Waves and rounds. *)

WaveStart == wave * Cap + 1
WaveEnd == Lesser((wave + 1) * Cap, plan.width)

\* build_dispatch_sends: an empty slice sends nothing, and a graph with
\* nothing scheduled ends there.
Fanout ==
    /\ at = "dispatch_fanout"
    /\ at' = IF WaveStart <= WaveEnd THEN "subagent_worker" ELSE "idle"
    /\ UNCHANGED <<plan, returnNode, counters, admission, results, consumed,
                   batch, ledger, turn, history>>

\* The workers of the wave: a worker reports every failure as an envelope.
Workers ==
    /\ at = "subagent_worker"
    /\ \E out \in [WaveStart..WaveEnd -> Outcomes] :
          results' = results \o Report(WaveStart, WaveEnd, out)
    /\ at' = "dispatch_gate"
    /\ UNCHANGED <<plan, returnNode, counters, admission, consumed, batch,
                   ledger, turn, history>>

SinceWatermark == SubSeq(results, consumed + 1, Len(results))

\* One wave too many when the width is a multiple of the cap.
MoreWavesOffByOne(done) == done * Cap <= plan.width

MoreWaves(done) == done * Cap < plan.width

LoopDone ==
    \E i \in 1..Len(SinceWatermark) : SinceWatermark[i].status = "done"

NeedsAnotherRound ==
    /\ plan.pattern \in {"adversarial", "loop"}
    /\ round < MaxRounds
    /\ Budget > 0 => cost < Budget
    /\ IF plan.pattern = "adversarial" THEN round = 0 ELSE ~LoopDone

\* dispatch_gate and route_after_workers.
Gate ==
    /\ at = "dispatch_gate"
    /\ wave' = wave + 1
    /\ at' = CASE MoreWaves(wave + 1) -> "dispatch_origin"
               [] ~MoreWaves(wave + 1) /\ NeedsAnotherRound -> "dispatch_advance"
               [] OTHER -> "dispatch_synthesize"
    /\ UNCHANGED <<plan, returnNode, round, admission, results, consumed,
                   batch, ledger, turn, history>>

CriticPlan ==
    [pattern |-> "adversarial", width |-> 1, estimate |-> CriticEstimate]

Followup == IF plan.pattern = "adversarial" THEN CriticPlan ELSE plan

Advance ==
    /\ at = "dispatch_advance"
    /\ plan' = Followup
    /\ wave' = 0
    /\ round' = round + 1
    /\ at' = "dispatch_origin"
    /\ UNCHANGED <<returnNode, admission, results, consumed, batch, ledger,
                   turn, history>>

-----------------------------------------------------------------------------
(* Synthesis. *)

\* What the envelopes at the given positions of the channel cost together.
TotalCost(positions) ==
    LET sum[n \in 0..Len(results)] ==
            IF n = 0 THEN 0
            ELSE sum[n - 1] + (IF n \in positions THEN results[n].cost ELSE 0)
    IN  sum[Len(results)]

\* dispatch_synthesize slices the channel at its watermark.
Fresh == (consumed + 1)..Len(results)

\* commit_dispatch_actual: what the reservation exceeds the actual cost by,
\* and nothing for an overrun.
Refund(actual) == IF reserved > actual THEN reserved - actual ELSE 0

\* Whole envelopes in order until the next one overflows the ceiling; the
\* first is always kept.
Packed(envelopes) ==
    {SubSeq(envelopes, 1, n) :
        n \in Lesser(1, Len(envelopes))..Len(envelopes)}

\* The refund is computed from the envelopes kept in the digest.
SynthesizeBillsDigest ==
    /\ at = "dispatch_synthesize"
    /\ batch' \in Packed(SinceWatermark)
    /\ consumed' = Len(results)
    /\ plan' = NoPlan
    /\ cost' = cost - Refund(TotalCost((consumed + 1)..(consumed + Len(batch'))))
    /\ reserved' = 0
    /\ at' = IF returnNode = "none" THEN "step_dispatch" ELSE returnNode
    /\ closed' = closed \cup {dispatch}
    /\ UNCHANGED <<returnNode, counters, admission, results, reservedRound,
                   turn, dispatch, emitted, opened, emittedIn>>

\* dispatch_synthesize and route_after_synthesis.
Synthesize ==
    /\ at = "dispatch_synthesize"
    /\ batch' \in Packed(SinceWatermark)
    /\ consumed' = Len(results)
    /\ plan' = NoPlan
    /\ cost' = cost - Refund(TotalCost(Fresh))
    /\ reserved' = 0
    /\ at' = IF returnNode = "none" THEN "step_dispatch" ELSE returnNode
    /\ closed' = closed \cup {dispatch}
    /\ UNCHANGED <<returnNode, counters, admission, results, reservedRound,
                   turn, dispatch, emitted, opened, emittedIn>>

-----------------------------------------------------------------------------
SubgraphStep ==
    \/ OriginDenies \/ OriginPasses \/ OriginReserves \/ OriginExhausted
    \/ Fanout \/ Workers \/ Gate \/ Advance \/ Synthesize

SpineStep ==
    \/ Researcher \/ Planner \/ PlanOnly \/ PlannerFails \/ ExecuteSteps

\* Where the bound ends the session.
Rest ==
    /\ at \in Between /\ turn = MaxTurns
    /\ UNCHANGED vars

Next == StartTurn \/ SpineStep \/ SubgraphStep \/ Abort \/ Rest

Spec == Init /\ [][Next]_vars

\* The graph runner executes the scheduled node: a turn never just stops.
FairSpec == Spec /\ WF_vars(SpineStep \/ SubgraphStep)

-----------------------------------------------------------------------------
(* Properties.  A turn that is aborted or stops after planning may leave a  *)
(* plan on the state, which the next turn's researcher exit then dispatches *)
(* although nothing was emitted: the properties that such a dispatch does   *)
(* not have are about a plan dispatched in the turn that emitted it.        *)

InItsTurn == emittedIn = turn

\* What rounds 0..reservedRound of the emitted plan were estimated to cost.
Estimated ==
    IF reservedRound < 0 THEN 0
    ELSE emitted.estimate + reservedRound *
            (IF emitted.pattern = "adversarial" THEN CriticEstimate
                                                ELSE emitted.estimate)

\* While a dispatch is open, the cost is what it was when the plan was emitted
\* plus one estimate for each round admitted, however many waves the round
\* took, and a reservation never passes the ceiling (dispatch_origin,
\* reserve_dispatch_budget).
ReservedWithinBudget ==
    at \in Subgraph /\ InItsTurn =>
        /\ reserved = Estimated
        /\ cost = opened + reserved
        /\ reserved > 0 => cost <= Budget

\* How many tasks of round r report: none past the width ceiling of a denial.
Reporting(r) ==
    IF r > 0 /\ emitted.pattern = "adversarial" THEN 1
    ELSE Lesser(emitted.width, MaxWidth)

\* When a dispatch comes to synthesis, every task of every round it opened
\* has left exactly one envelope past the watermark, whatever the waves, the
\* failures and the denials were (build_dispatch_sends, _denied_envelopes).
OneReportPerTask ==
    at = "dispatch_synthesize" /\ InItsTurn =>
        \A r \in 0..round, t \in 1..emitted.width :
            Cardinality({i \in Fresh :
                            /\ results[i].dispatch = dispatch
                            /\ results[i].round = r
                            /\ results[i].task = t})
                = IF t <= Reporting(r) THEN 1 ELSE 0

\* No synthesis digests an envelope that an earlier one has digested, turns
\* that were aborted in between included ("a second dispatch in the same run
\* never re-digests the first's", brain/dispatch.py).
DigestedOnce ==
    at = "dispatch_synthesize" =>
        \A i \in Fresh : results[i].dispatch \notin closed

\* What synthesis digests is the work of the dispatch it closes and of no
\* other ("this dispatch's envelopes only", dispatch_synthesize).
BatchIsOwn ==
    at = "dispatch_synthesize" =>
        \A i \in Fresh : results[i].dispatch = dispatch

\* What the envelopes of the current dispatch report to have cost.
ActualCost ==
    TotalCost({i \in 1..Len(results) : results[i].dispatch = dispatch})

\* A dispatch that returns to the spine has been charged for exactly what its
\* own workers reported, up to its reservation: nothing is charged twice,
\* trimmed from the bill or refunded beyond the reservation.  Only envelopes
\* that an aborted dispatch left behind can add to its bill.
ChargedForItsWork ==
    [][/\ at = "dispatch_synthesize" /\ at' # "aborted"
       /\ InItsTurn /\ BatchIsOwn
       => cost' = opened + Lesser(ActualCost, Estimated)]_vars

\* The books of a dispatch are exact from the reservation to the bill: rounds
\* are reserved once, tasks report once, reports are digested once, and the
\* charge is for the work.
DispatchIsExact ==
    /\ [](ReservedWithinBudget /\ OneReportPerTask /\ DigestedOnce)
    /\ ChargedForItsWork

\* A dispatch rejoins the spine where the emitting agent asked for it, unless
\* the turn is aborted (route_after_workers, route_after_synthesis).
DispatchRejoins ==
    \A node \in {"planner_agent", "step_dispatch"} :
        at = "dispatch_origin" /\ InItsTurn /\ returnNode = node
            ~> at \in {node, "aborted"}

=============================================================================
