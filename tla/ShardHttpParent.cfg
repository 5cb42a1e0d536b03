SPECIFICATION Spec
CONSTANTS
    NShards = 2
    NWorkers = 2
    MaxRetries = 0
    HttpResults = TRUE
    PromptEnroll = TRUE
    MaxFailures = 0
    MaxFaults = 0
    MaxShutdowns = 0
    MaxJoins = 0
    MaxTimeouts = 0
    MaxBadWrites = 0
CHECK_DEADLOCK FALSE
INVARIANTS
    AggregatedCompletes
