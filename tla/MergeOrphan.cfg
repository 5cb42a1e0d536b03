SPECIFICATION FairSpec
CONSTANTS
    NTasks = 3
    Size <- OneEach
    MaxRetries = 1
    PromptIngest = TRUE
    MaxFailures = 1
    MaxTimeouts = 0
    MaxFaults = 0
CHECK_DEADLOCK FALSE
PROPERTY ChildSettles
