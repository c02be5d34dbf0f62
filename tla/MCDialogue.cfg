SPECIFICATION Spec
CONSTANTS
    BootSchemas <- MCBootSchemas
    McpSchemas <- MCMcpSchemas
    FamilyTools <- MCFamilyTools
    FactoryTools = {"run_tests", "tool_search"}
    Unregistered = {"guard_env_file"}
    LoopUnsafe = {"toggle_plan_mode"}
    CommandTools = {"run_tests"}
    Workers = {"sub", "pre"}
    RoleOf <- MCRoleOf
    Grounding = {"pre"}
    TaskModes = {"PLAN_ONLY", "READ_ONLY", "STANDARD", "ASK_EXECUTE", "ASK_ALL"}
    EagerLimit = 2
    TopK = 1
    SearchLimit = 3
    MaxLoop = 2
    Clients = {"w1", "w2"}
    Projects = {"p1"}
    ProjectOf <- MCProjectOf
    MaxSockets = 2
    MaxDials = 2
    MaxSaves = 1
    MaxPasses = 2
    BucketCapacity = 1
    MaxRounds = 3
    MaxRevisions = 3
    HasFailover = TRUE
    MaxIdeaTurns = 3
    MaxStops = 1
    Tasks = {"t1"}
    Contexts = {"x", "y"}
    FilesOf <- MCFilesOf
    Cap = 2
    Slots = 1
    MaxEntries = 1
    LocalJudge = TRUE
    Attempts = {0}
    MaxJobs = 3
    MaxChurn = 1
    Runners <- MCRunners
    KindOf <- MCKindOf
    KeyOf <- MCKeyOf
    MemOf <- MCMemOf
    Connection = "connection"
    RetryOf <- MCRetryOf
    MaxDeltas = 2
    MaxHistory = 2
    MaxCancels = 1
    MaxSpawned = 2
    Planners = {"s1", "s2"}
    Asks = {"build"}
    Contents = {"old", "new"}
    Decisions = {"CLOUD", "LOCAL_SMALL"}
    Plans <- MCPlannedOnce
    Polyglot <- MCPolyglot
    Pinned = {2, 7}
    Volatile = {6}
    Budget = 8
    RealWindow = 11
    MAX_PLANNER_RETRIES = 2
    EMPTY_WBS_MAX_RETRIES = 1
    MaxIssues = 2
    MaxPlanTurns = 2
    MaxTouched = 1
    Requests = {"r1", "r2"}
    Bodies <- MCBodies
    Ladder <- MCLadder
    Local = {"ollama"}
    Embeds = {"openai"}
    EnvKeys = {}
    Architecture = 3
    Ceiling = 4
    Served = 1
    Affordable = {1, 3}
    MaxRequests = 3
INVARIANTS
    StreamsAreSound
    PassesAreCurrent
    AnswersMeetTheirQuestions
    ToolsKeepTheirGates
    CacheIsSound
PROPERTIES
    OnlyReviewedBriefs
    PlansFitTheirTurn
    EngineFollowsTheChoice
CHECK_DEADLOCK FALSE
