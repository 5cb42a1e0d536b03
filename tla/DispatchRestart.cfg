SPECIFICATION Spec
CONSTANTS
    Workers = {w1, w2}
    NoWorker = NoWorker
    NTasks = 1
    Deps <- Chain
    BatchSize = 1
    MaxRetries = 0
    HttpResults = FALSE
    PromptCommit = FALSE
    PromptCancel = TRUE
    Timers = {tm1}
    CallDepth = 0
    MaxFaults = 1
    MaxPoolFaults = 1
    MaxShutdowns = 1
    MaxCrashes = 0
    MaxJoins = 1
    MaxTimeouts = 0
CHECK_DEADLOCK FALSE
SYMMETRY Symmetry
INVARIANT
    PendingNotLost
