SPECIFICATION FairSpec
CONSTANTS
    Workers = {w1, w2}
    NoWorker = NoWorker
    NTasks = 2
    Deps <- Chain
    BatchSize = 1
    MaxRetries = 1
    HttpResults = FALSE
    PromptCommit = TRUE
    PromptCancel = TRUE
    Timers = {tm1}
    CallDepth = 1
    MaxFaults = 0
    MaxPoolFaults = 0
    MaxShutdowns = 0
    MaxCrashes = 0
    MaxJoins = 0
    MaxTimeouts = 0
CHECK_DEADLOCK FALSE
INVARIANT TimerGuardsPool
PROPERTY EventuallySettled
