----------------------------- MODULE Planning -----------------------------
(***************************************************************************)
(* The planner node (agents/planner.py) of the sessions of one project:    *)
(* it assembles its context under a token budget, asks the response cache, *)
(* drafts with the model and a critic, checks the draft's order and cost   *)
(* (tools/planner_tools.py) and commits the plan.  The GPU lock the drafts *)
(* are made under is in Gateway; what a plan then goes through is in       *)
(* Mission.  A token stands for a character in the sizes.                  *)
(***************************************************************************)
EXTENDS Naturals, FiniteSets, Sequences, SequencesExt, FiniteSetsExt

CONSTANTS
    Planners,           \* the sessions whose turns plan
    Asks,               \* what a user may request
    Contents,           \* what the active file may hold, up to its syntax tree
    Decisions,          \* routing decisions a turn may carry
    Plans,              \* the schema-valid specifications the model may draft
    Polyglot,           \* files of mixed syntax
    Pinned,             \* sizes of identity, rules, instructions, skills, memory
    Volatile,           \* sizes of the IDE context
    Budget,             \* resolve_context_budget: what the profile declares
    RealWindow,         \* resolve_real_window: what the engine serves
    MAX_PLANNER_RETRIES,
    EMPTY_WBS_MAX_RETRIES,
    MaxIssues,          \* _MAX_ISSUES_RETURNED
    MaxPlanTurns,
    MaxTouched          \* saves, expiries and edits of the rules

\* What PlannerOutput's schema admits; noted says that the note on mixed syntax is
\* on the step.
PlanTasks == [num : Nat, action : {"read_file", "run_command", "edit_file", "write_file"},
              file : Seq(STRING), deps : SUBSET Nat, noted : BOOLEAN]

ASSUME PlanningAssumption ==
    /\ Plans \subseteq [tasks : Seq(PlanTasks), scope : SUBSET Seq(STRING)]
    /\ {MAX_PLANNER_RETRIES, EMPTY_WBS_MAX_RETRIES} \subseteq Nat

Identity == 1           \* tokens of the static identity prompt
Instruction == 1        \* tokens of the instruction around the context
Alert == 1              \* AMNESIA_ALERT
SafetyBuffer == 1       \* _SAFETY_BUFFER
MarkerTokens == 2       \* _MARKER_TOKENS
Margin == 1             \* OUTPUT_BUDGET_MARGIN_TOKENS
MinUsable == 1          \* OUTPUT_BUDGET_MIN_USABLE_TOKENS
CorrectiveTokens == 1
NoPlan == <<>>

VARIABLES
    content,            \* the active file
    rules,              \* version of rules, instructions and skills
    planCache,          \* entries [key, draft, wrote]; wrote is a ghost: its inputs
    turn,               \* the planner's locals, per session
    mission,            \* state["mission_spec"] the node is given
    estimate,           \* state["budget_estimate"]
    planTurns, touched

planningVars == <<content, rules, planCache, turn, mission, estimate, planTurns, touched>>

---------------------------------------------------------------------------
(* tools/planner_tools.py.                                                  *)

Consumes(t) == t.action \in {"read_file", "run_command", "edit_file"}
Nums(p) == {t.num : t \in Range(p.tasks)}
Writers(p, f) == {t.num : t \in {t \in Range(p.tasks) : t.action = "write_file" /\ t.file = f}}

ForwardReferences(p) ==
    {t \in Range(p.tasks) : /\ Consumes(t) /\ Writers(p, t.file) # {}
                            /\ t.num < Min(Writers(p, t.file))}

\* A path is its segments; a leading slash is an empty first segment.
NormalizeScopePath(path) ==
    FoldLeft(LAMBDA done, seg :
                 CASE seg \in {"", "."} -> done
                   [] seg = ".." /\ done # <<>> /\ Last(done) # ".." -> Front(done)
                   [] OTHER -> Append(done, seg),
             <<>>, path)

\* Entries of one segment, with no slash, are prose and bound nothing.
OutOfScope(p) ==
    LET bounds == {NormalizeScopePath(s) : s \in {s \in p.scope : Len(s) > 1}}
    IN  {t \in Range(p.tasks) :
            bounds # {} /\ \A b \in bounds : ~IsPrefix(b, NormalizeScopePath(t.file))}

RedundantWrites(p) ==
    {t \in Range(p.tasks) :
        LET before == {n \in Writers(p, t.file) : n < t.num}
        IN  /\ t.action = "write_file" /\ before # {}
            /\ ~\E c \in Range(p.tasks) :
                    Consumes(c) /\ c.file = t.file /\ Max(before) <= c.num /\ c.num < t.num}

DepsOf(p, n) == UNION {t.deps : t \in {t \in Range(p.tasks) : t.num = n}}
MissingDeps(p) == UNION {t.deps : t \in Range(p.tasks)} \ Nums(p)

\* The steps Kahn's queue lets through in k rounds.
Processed(p) ==
    LET round[k \in 0..Len(p.tasks)] ==
            IF k = 0 THEN {} ELSE {n \in Nums(p) : DepsOf(p, n) \cap Nums(p) \subseteq round[k - 1]}
    IN  round[Len(p.tasks)]
HasCycle(p) == /\ UNION {t.deps : t \in Range(p.tasks)} # {}
               /\ Cardinality(Processed(p)) < Len(p.tasks)

\* What a plan must not have: a step before its input exists, a file out of
\* the declared scope, a dependency on no step, or a circle.
Blocking(p) == \/ ForwardReferences(p) # {} \/ OutOfScope(p) # {}
               \/ MissingDeps(p) # {} \/ HasCycle(p)

\* The issues are cut to the cap in the order they are found, so advisory
\* ones can crowd out the dependency issues, which come last.
ValidateWBSDependencies(spec) ==
    \/ spec = NoPlan
    \/ LET early == Cardinality(ForwardReferences(spec)) + Cardinality(OutOfScope(spec))
       IN  /\ early = 0
           /\ \/ MissingDeps(spec) = {} /\ ~HasCycle(spec)
              \/ Cardinality(RedundantWrites(spec)) >= MaxIssues

\* Heuristic tokens of a step by its action.
BaseTokens == [read_file |-> 1, run_command |-> 1, edit_file |-> 2, write_file |-> 3]
BudgetEstimator(spec) ==
    IF spec = NoPlan THEN 0
    ELSE FoldLeft(LAMBDA sum, t : sum + BaseTokens[t.action], 0, spec.tasks)

---------------------------------------------------------------------------
(* brain/context_pipeline.py and brain/agent_context.py.                    *)

\* The conversation has two thirds of what is left, the execution layer a
\* third, and what one does not want goes to the other.
SplitDiscretionary(remaining, conversation, execution) ==
    LET share == (2 * remaining) \div 3
        c == Min({conversation, share})
        e == Min({execution, remaining - share})
        surplus == remaining - c - e
    IN  CASE conversation > c -> <<c + Min({surplus, conversation - c}), e>>
          [] conversation <= c /\ execution > e -> <<c, e + Min({surplus, execution - e})>>
          [] OTHER -> <<c, e>>

\* One chunk: cut at the tail to leave room for the marker, or left out.
TailTruncate(size, budget) ==
    CASE size <= budget -> size
      [] size > budget /\ budget < MarkerTokens -> 0
      [] OTHER -> Max({1, budget - MarkerTokens}) + MarkerTokens

\* The planner has no running conversation.  When the pinned layers alone
\* fill the window it keeps its identity, and says what it lost.
BuildAgentContext(pinned, volatile) ==
    IF Budget <= SafetyBuffer + pinned
    THEN [size |-> Identity + volatile + Alert, whole |-> FALSE]
    ELSE [size |-> pinned + TailTruncate(volatile,
                       SplitDiscretionary(Budget - SafetyBuffer - pinned, 0, volatile)[2]),
          whole |-> TRUE]

ResolveOutputBudget(prompt) == RealWindow >= prompt + Margin + MinUsable

---------------------------------------------------------------------------
(* agents/planner.py.                                                       *)

\* The routing decision names the tier, never one below the planner's floor.
ResolveModelAlias(decision) == IF decision = "CLOUD" THEN "cloud" ELSE "big"

InjectPolyglotConstraints(p) ==
    [p EXCEPT !.tasks = [i \in DOMAIN p.tasks |->
        [p.tasks[i] EXCEPT !.noted = @ \/ p.tasks[i].file \in Polyglot]]]

\* Mutant: the tier is left out of the key.
KeyWithoutTier(in) == [ask |-> in.ask, content |-> in.content, budget |-> Budget,
                       model |-> "big"]
\* Rules, instructions, skills and the workspace tree are in the prompt and
\* not in the key.
PlannerKey(in) == [ask |-> in.ask, content |-> in.content, budget |-> Budget,
                   model |-> ResolveModelAlias(in.decision)]

Entries(in) == {e \in planCache : e.key = PlannerKey(in)}
\* The node returns and its locals are gone, but for the plan.
TurnOver(t, pc) == [t EXCEPT !.pc = pc, !.base = 0, !.prompt = 0, !.retries = 0,
                         !.stepless = 0, !.last = "none"]
TurnGoes(s, pc) == turn' = [turn EXCEPT ![s] = IF pc = "drafting" THEN [@ EXCEPT !.pc = pc]
                                                              ELSE TurnOver(@, pc)]
PlannerRests(s) == turn[s].pc \in {"idle", "planned", "failed"}
NoInput == [ask |-> "none", content |-> "none", decision |-> "none", rules |-> 0, dirty |-> FALSE]

PlanningInit ==
    /\ content \in Contents /\ rules = 0 /\ planCache = {}
    /\ turn = [s \in Planners |-> [pc |-> "idle", in |-> NoInput, base |-> 0, prompt |-> 0,
                                   retries |-> 0, stepless |-> 0, last |-> "none",
                                   plan |-> NoPlan, from |-> NoInput]]
    /\ mission = [s \in Planners |-> NoPlan]
    /\ estimate = [s \in Planners |-> 0]
    /\ planTurns = 0 /\ touched = 0

\* A turn that does not execute an approved plan starts with none.
StartTurn(s, ask, decision, dirty) ==
    /\ PlannerRests(s) /\ planTurns < MaxPlanTurns
    /\ turn' = [turn EXCEPT ![s] =
           [@ EXCEPT !.pc = "assembling", !.plan = NoPlan, !.from = NoInput,
                     !.in = [ask |-> ask, content |-> content, decision |-> decision,
                             rules |-> rules, dirty |-> dirty]]]
    /\ mission' = [mission EXCEPT ![s] = NoPlan]
    /\ planTurns' = planTurns + 1
    /\ UNCHANGED <<content, rules, planCache, estimate, touched>>

\* Rules and instructions are read here, after the turn was submitted.
Assemble(s, pinned, volatile) ==
    /\ turn[s].pc = "assembling"
    /\ LET size == BuildAgentContext(pinned, volatile).size + Instruction
       IN  turn' = [turn EXCEPT ![s] =
               [@ EXCEPT !.pc = IF turn[s].in.dirty THEN "drafting" ELSE "probing",
                         !.in.rules = rules, !.base = size, !.prompt = size]]
    /\ UNCHANGED <<content, rules, planCache, mission, estimate, planTurns, touched>>

\* A hit costs no lock and no draft, and carries no budget estimate.
PlanHit(s) ==
    /\ turn[s].pc = "probing"
    /\ \E e \in Entries(turn[s].in) :
          turn' = [turn EXCEPT ![s] = [TurnOver(@, "planned") EXCEPT !.from = e.wrote,
                                           !.plan = InjectPolyglotConstraints(e.draft)]]
    /\ mission' = [mission EXCEPT ![s] = turn'[s].plan]
    /\ estimate' = [estimate EXCEPT ![s] = 0]
    /\ UNCHANGED <<content, rules, planCache, planTurns, touched>>

PlanMiss(s) ==
    /\ turn[s].pc = "probing" /\ Entries(turn[s].in) = {}
    /\ TurnGoes(s, "drafting")
    /\ UNCHANGED <<content, rules, planCache, mission, estimate, planTurns, touched>>

\* The user may choose to cancel while another model holds the GPU.
CancelPlanning(s) ==
    /\ turn[s].pc = "drafting" /\ turn[s].retries = 0
    /\ TurnGoes(s, "failed")
    /\ UNCHANGED <<content, rules, planCache, mission, estimate, planTurns, touched>>

\* A retry replaces the last corrective, against the first prompt.
Corrected(t) == IF t.last = "none" THEN t.base ELSE t.base + CorrectiveTokens

\* The request goes out if the real window leaves room for an answer.
Request(s) ==
    /\ turn[s].pc = "drafting"
    /\ turn[s].retries <= MAX_PLANNER_RETRIES
    /\ LET prompt == Corrected(turn[s])
       IN  turn' = [turn EXCEPT ![s] =
               IF ResolveOutputBudget(prompt) THEN [@ EXCEPT !.pc = "asking", !.prompt = prompt]
                                              ELSE TurnOver(@, "failed")]
    /\ UNCHANGED <<content, rules, planCache, mission, estimate, planTurns, touched>>

\* The answer holds no object, or fails the schema; what an earlier draft
\* left in mission_plan stays there.
Rejects(s) ==
    /\ turn[s].pc = "asking"
    /\ turn' = [turn EXCEPT ![s] = [@ EXCEPT !.pc = "drafting", !.last = "rejected",
                                             !.retries = turn[s].retries + 1]]
    /\ UNCHANGED <<content, rules, planCache, mission, estimate, planTurns, touched>>

\* A plan without steps has its own, smaller, allowance.
Stepless(s) ==
    /\ turn[s].pc = "asking"
    /\ LET concede == turn[s].stepless = EMPTY_WBS_MAX_RETRIES
       IN  turn' = [turn EXCEPT ![s] =
               IF concede THEN [TurnOver(@, "failed") EXCEPT !.plan = NoPlan]
               ELSE [@ EXCEPT !.pc = "drafting", !.stepless = turn[s].stepless + 1,
                              !.last = "stepless", !.plan = NoPlan,
                              !.retries = turn[s].retries + 1]]
    /\ UNCHANGED <<content, rules, planCache, mission, estimate, planTurns, touched>>

\* The gates are given the state, and read the mission in it, not the draft.
Drafts(s, p) ==
    /\ turn[s].pc = "asking"
    /\ LET valid == ValidateWBSDependencies(mission[s])
           fit == [turn[s] EXCEPT !.plan = InjectPolyglotConstraints(p), !.from = turn[s].in]
       IN  /\ turn' = [turn EXCEPT ![s] =
                  IF valid THEN TurnOver(fit, "planned")
                  ELSE [fit EXCEPT !.pc = "drafting", !.last = "rejected", !.retries = @ + 1]]
           /\ planCache' = IF ~valid \/ turn[s].in.dirty THEN planCache
                           ELSE {e \in planCache : e.key # PlannerKey(turn[s].in)}
                                \cup {[key |-> PlannerKey(turn[s].in), draft |-> p,
                                       wrote |-> turn[s].in]}
           /\ estimate' = [estimate EXCEPT ![s] = BudgetEstimator(mission[s])]
           /\ mission' = IF valid THEN [mission EXCEPT ![s] = fit.plan] ELSE mission
    /\ UNCHANGED <<content, rules, planTurns, touched>>

\* Retries are used up: whatever draft the last attempts left is returned.
Exhausted(s) ==
    /\ turn[s].pc = "drafting" /\ turn[s].retries > MAX_PLANNER_RETRIES
    /\ TurnGoes(s, IF turn[s].plan = NoPlan THEN "failed" ELSE "planned")
    /\ mission' = [mission EXCEPT ![s] = turn[s].plan]
    /\ UNCHANGED <<content, rules, planCache, estimate, planTurns, touched>>

\* A transport fault leaves the node for the graph's own failure handling.
Raises(s) ==
    /\ turn[s].pc = "asking"
    /\ TurnGoes(s, "failed")
    /\ UNCHANGED <<content, rules, planCache, mission, estimate, planTurns, touched>>

\* A save changes the file and drops what was planned about it; entries age.
SaveActive(c) ==
    /\ touched < MaxTouched /\ c # content
    /\ content' = c /\ planCache' = {} /\ touched' = touched + 1
    /\ UNCHANGED <<rules, turn, mission, estimate, planTurns>>

\* An edit in another tool: the index hears of it later, or not at all.
EditUnseen(c) ==
    /\ touched < MaxTouched /\ c # content
    /\ content' = c /\ touched' = touched + 1
    /\ UNCHANGED <<rules, planCache, turn, mission, estimate, planTurns>>

EditRules ==
    /\ touched < MaxTouched
    /\ rules' = rules + 1 /\ touched' = touched + 1
    /\ UNCHANGED <<content, planCache, turn, mission, estimate, planTurns>>

PlanStep(s) ==
    \/ \E p \in Pinned, v \in Volatile : Assemble(s, p, v)
    \/ PlanHit(s) \/ PlanMiss(s) \/ CancelPlanning(s) \/ Request(s)
    \/ Rejects(s) \/ Stepless(s) \/ Exhausted(s) \/ Raises(s)
    \/ \E p \in Plans : Drafts(s, p)

PlanningNext ==
    \/ \E s \in Planners :
          \/ \E a \in Asks, d \in Decisions, dirty \in BOOLEAN : StartTurn(s, a, d, dirty)
          \/ PlanStep(s)
    \/ \E c \in Contents : SaveActive(c) \/ EditUnseen(c)
    \/ EditRules

PlanningSpec == PlanningInit /\ [][PlanningNext]_planningVars

---------------------------------------------------------------------------
(* Properties.                                                              *)

\* The plan was drafted for the request, the file content and the model tier of
\* the turn it is committed for, and carries the constraints of mixed-syntax files.
PlanFits(s) ==
    /\ turn[s].from.ask = turn[s].in.ask
    /\ turn[s].from.content = turn[s].in.content
    /\ ResolveModelAlias(turn[s].from.decision) = ResolveModelAlias(turn[s].in.decision)
    /\ \A i \in DOMAIN turn[s].plan.tasks :
          turn[s].plan.tasks[i].file \in Polyglot => turn[s].plan.tasks[i].noted

\* A turn whose first request left room for one corrective is never refused
\* for lack of room on a retry: retrying does not use up the window it needs
\* (planner.py, the corrective replaces the previous one).
RetriesKeepTheirRoom ==
    \A s \in Planners :
        (turn[s].pc = "drafting" /\ turn[s].retries \in 1..MAX_PLANNER_RETRIES /\ turn'[s].pc = "failed")
        => ~ResolveOutputBudget(turn[s].base + CorrectiveTokens)

\* Whatever the sessions stored meanwhile, a committed plan is its own turn's, and a
\* retry is never refused for what the retries before it used (planner.py, the cache
\* key, the probe before the lock and the corrective).
PlansFitTheirTurn ==
    /\ [](\A s \in Planners : turn[s].pc = "planned" => PlanFits(s))
    /\ [][RetriesKeepTheirRoom]_planningVars

\* The comment on the hard gate and the tool's docstring: a plan with a
\* blocking ordering or scope issue is not committed.
PlansAreOrdered ==
    \A s \in Planners : mission[s] # NoPlan => ~Blocking(mission[s])

=============================================================================
