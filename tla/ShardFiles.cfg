SPECIFICATION FairSpec
CONSTANTS
    NShards = 2
    NWorkers = 3
    MaxRetries = 1
    HttpResults = FALSE
    PromptEnroll = TRUE
    MaxFailures = 2
    MaxFaults = 0
    MaxShutdowns = 0
    MaxJoins = 0
    MaxTimeouts = 0
    MaxBadWrites = 0
CHECK_DEADLOCK FALSE
INVARIANTS
    DoneShardsRan
PROPERTIES
    ParentSettles
