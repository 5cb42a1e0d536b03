SPECIFICATION Spec
CONSTANTS
    Workers = {w1, w2}
    NoWorker = NoWorker
    NTasks = 2
    Deps <- Chain
    BatchSize = 2
    MaxRetries = 1
    HttpResults = TRUE
    PromptCommit = FALSE
    PromptCancel = TRUE
    Timers = {tm1}
    CallDepth = 0
    MaxFaults = 0
    MaxPoolFaults = 1
    MaxShutdowns = 0
    MaxCrashes = 1
    MaxJoins = 0
    MaxTimeouts = 1
CHECK_DEADLOCK FALSE
SYMMETRY Symmetry
INVARIANTS
    DoneHasRun
    DependenciesRan
    
    
    Sound
    PendingNotLost
PROPERTY ContractSpec
