SPECIFICATION WorkspaceSpec
CONSTANTS
    Jobs = {"j1", "j2", "j3"}
    Workloads <- MCWorkloads
    Sessions <- MCSessions
    Shared = "shared"
    RootOf <- MCRootOf
    Tiers = {"DOCKER", "WASM", "NATIVE_HITL"}
    MaxContainers = 1
    MaxQueued = 2
    MaxMade = 2
    None = None
    Transports = {"pty", "bridge"}
    MaxCmds = 3
    MaxOut = 2
    MaxWire = 2
    RawCap = 3
    HighWater = 2
    LowWater = 1
    OutCap = 1
    BgTasks = {"t1", "t2"}
    Managers = {"m1", "m2"}
    Roles = {"core_dev", "orchestrator"}
    MaxStops = 3
    McpServers = {"s1", "s2"}
    McpJobs = {"j1", "j2"}
    MaxChildren = 3
    MaxMcpCalls = 3
    MaxSecrets = 1
    Tracers = {"t1", "t2"}
    BoundaryFiles <- MCBoundaryFiles
    Channels <- MCChannels
    MaxSaves = 1
    MaxStopped = 1
    Paths = {"f1", "f2"}
    Revisions = {"c1", "c2"}
    Size <- MCSize
    Imports <- MCImports
    Crawlers = {"k1"}
    FailThreshold = 1
    MassThreshold = 1
    WarmupMinFiles = 2
    MaxHappenings = 3
    MaxEvents = 3
    Callers = {"c1", "c2"}
    Projects = {"p", "q"}
    Files = {"a", "b", "c", "d", "e"}
    KindOf <- MCKindOf
    Patterns <- MCPatterns
    Buffers <- MCBuffers
    HasRules = {"p"}
    MaxReads = 2
    MaxChanges = 1
    Clones = {"a", "b"}
    SourceFiles = {"f", "g"}
    FirstClone = "a"
    FirstTrees <- MCFirstTrees
    Exporters = {"e1"}
    Windows = {"w1"}
    MaxRepoEvents = 2
INVARIANTS
    PoolIsSafe
    ShellStaysInStep
    ServersAreTracked
    NoOrphanedWaiter
    IndexIsExact
    GraphAnswersAreExact
    CachedRulesAreTheirs
    WarmStartMatches
PROPERTIES
    CancellationWins
    FirstDraftKeepsUserLines
CHECK_DEADLOCK FALSE
