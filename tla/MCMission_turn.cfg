SPECIFICATION FairSpec
CONSTANTS
    NSteps = 2
    Plans <- OneShotPlans
    Effort = "balanced"
    Verdicts = {"allow", "hitl", "deny"}
    AutoAccept = {TRUE, FALSE}
    Guardrail = {TRUE}
    OverBudget = {TRUE, FALSE}
    Supervision = {"pass", "kill"}
    CorrectionMax = 1
    RejectMax = 1
    GuardrailMax = 1
    MaxLaps = 3
    MaxTurns = 1
    MaxCopies = 1
    Abandonable = FALSE
INVARIANTS
    ApprovalProvenance
    LoopsAreBounded
PROPERTIES
    ScheduleIsSound
    TurnConcludes
