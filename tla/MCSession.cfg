SPECIFICATION FairSpec
CONSTANTS
    MaxTasks = 3
    MaxTurns = 2
    MaxReopens = 1
    MaxRestarts = 1
    MaxMessages = 1
    QueueMax = 1
    Overlaps = FALSE
INVARIANTS
    RunnerIsTracked
    PauseMatchesThread
PROPERTIES
    TurnsAreIsolated
    NeverStuckBusy
