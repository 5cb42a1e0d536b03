SPECIFICATION Spec
CONSTANTS
    NShards = 2
    NWorkers = 2
    MaxRetries = 1
    HttpResults = TRUE
    PromptEnroll = TRUE
    MaxFailures = 1
    MaxFaults = 1
    MaxShutdowns = 1
    MaxJoins = 1
    MaxTimeouts = 1
    MaxBadWrites = 1
CHECK_DEADLOCK FALSE
INVARIANTS
    TypeOK
    AggregateHasFanout
    CompleteIsAggregated
    ShardNotForgotten
    GatheringSound
PROPERTIES
    GatheringSpec
