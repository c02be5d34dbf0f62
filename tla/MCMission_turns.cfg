SPECIFICATION Spec
CONSTANTS
    NSteps = 2
    Plans <- LeftoverPlans
    Effort = "deep"
    Verdicts = {"allow", "hitl"}
    AutoAccept = {FALSE}
    Guardrail = {TRUE, FALSE}
    OverBudget = {FALSE}
    Supervision = {"pass"}
    CorrectionMax = 1
    RejectMax = 1
    GuardrailMax = 1
    MaxLaps = 1
    MaxTurns = 2
    MaxCopies = 1
    Abandonable = TRUE
INVARIANTS
    TypeOK
    EffectAtMostOnce
    StatusTellsTheTruth

