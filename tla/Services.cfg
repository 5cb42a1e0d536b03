SPECIFICATION ServicesSpec
CONSTANTS
  \* StateSnapshot
  Jobs = {1, 2}
  JobNeeds <- ChainJobs
  Sharded = {2}
  MaxCrashes = 1
  MaxTaskFailures = 1
  Failing = {1}
  PromptListen = TRUE
  JoinInTime = TRUE
  \* MetricsLedger
  PlainTasks = {p1}
  ParentTask = sp
  ShardTasks = {s1}
  SloTasks = {p1}
  TryLimit = 1
  PostedResults = TRUE
  PromptRecord = TRUE
  PromptReports = TRUE
  LossLimit = 1
  \* WorkerPresence
  Members = {wr, ws}
  SocketMembers = {ws}
  PromptListener = TRUE
  MaxStarts = 2
  \* WorkflowGraph
  MaxNodes = 3
  MaxEdges = 3
  MaxLosses = 1
  \* ShardRows
  RowCount = 7
  ShardCounts = {2, 3, 4}
  Percents = {0, 10, 55, 100}
  PostRetries = 2
  \* BatchPlanning
  PlanTasks = {1, 2, 3}
  Needs <- SecondNeedsFirst
  ModelOf <- ThirdDiffers
  Timed = {2}
  Parallel = {1, 3}
  MaxShards = 8
  Hardware <- Machines
  Requires <- Wants
  PoolBatch = 2
  CacheSize = 1
  MaxFailures = 1
  MaxLateEnds = 1
CHECK_DEADLOCK FALSE
INVARIANTS
  SnapInv
  LedgerInv
  PresenceInv
  GraphInv
  RowsInv
  PlanInv
PROPERTIES
  Persistence
  ReserveKept
