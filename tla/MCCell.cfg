SPECIFICATION Spec
CONSTANTS
    Paths <- MCPaths
    Modes <- MCModes
    Approvers <- MCApprovers
    MaxSteps = 1
    Grant = 1
    MaxSteers = 1
    MaxCalls = 2
    MaxEdits = 2
    MaxAsks = 2
    MaxVisits = 2
    p1 = p1
INVARIANTS
    EditsOutliveTheSurface
    DeferralIsSafe
PROPERTIES
    CellConcludes
\* The session ends with its last visit to the cell.
CHECK_DEADLOCK FALSE
