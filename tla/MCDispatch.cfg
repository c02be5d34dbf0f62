SPECIFICATION FairSpec
CONSTANTS
    Plans <- MCPlans
    Outcomes <- MCOutcomes
    CriticEstimate = 1
    StepCosts = {0, 2}
    Cap = 2
    MaxDepth = 2
    MaxWidth = 3
    MaxRounds = 1
    Budget = 7
    MaxTurns = 2
    MaxDispatches = 2
PROPERTIES
    DispatchIsExact
    DispatchRejoins
