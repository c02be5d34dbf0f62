SPECIFICATION PlanningSpec
CONSTANTS
    Planners = {s1, s2}
    Asks = {"build"}
    Contents = {"old", "new"}
    Decisions = {"CLOUD", "LOCAL_SMALL"}
    Plans <- MCPlans
    Polyglot <- MCPolyglot
    Pinned = {2, 7}
    Volatile = {6}
    Budget = 8
    RealWindow = 11
    MAX_PLANNER_RETRIES = 2
    EMPTY_WBS_MAX_RETRIES = 1
    MaxIssues = 2
    MaxPlanTurns = 2
    MaxTouched = 1
INVARIANT PlansAreOrdered
CHECK_DEADLOCK FALSE
