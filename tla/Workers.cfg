SPECIFICATION WorkersSpec
CONSTANTS
  \* WsConnections
  Sent = {1, 2}
  MaxConns = 5
  MaxCuts = 1
  PromptClose = TRUE
  OtherSubscribers = TRUE
  \* AgentStream
  MaxPrompts = 2
  MaxSubtasks = 2
  \* WorkforcePlan
  PlanLength = 2
  MaxUpdates = 2
  MaxTries = 2
  \* WorkerEngines
  MaxTasks = 2
  Models = {m1, m2}
  Adapters = {a1}
  \* TrainingRun
  NumRanks = 2
CHECK_DEADLOCK FALSE
INVARIANTS
  WsInv
  AgentInv
  WorkforceInv
  EngineInv
  TrainingInv
PROPERTIES
  EventuallyAttached
  EndsOrStarves
