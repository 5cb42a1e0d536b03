SPECIFICATION Spec
CONSTANTS
    NTasks = 3
    Size <- TwoFirst
    MaxRetries = 1
    PromptIngest = TRUE
    MaxFailures = 1
    MaxTimeouts = 1
    MaxFaults = 1
CHECK_DEADLOCK FALSE
INVARIANTS
    TypeOK
    OwnItemsFirst
    DoneHasResult
    ItemsOutOnce
