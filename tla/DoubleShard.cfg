SPECIFICATION RowsSpec
CONSTANTS
    RowCount = 7
    ShardCounts = {2, 3, 4}
    Percents = {0, 10, 55, 100}
    PostRetries = 2
CHECK_DEADLOCK FALSE
INVARIANTS
    AllRowsAnswered
