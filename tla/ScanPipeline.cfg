SPECIFICATION FairSpec
CONSTANTS
  Stages <- AgentStages
  MaxRetries = 3
  Backoffs <- AgentBackoffs
  Reads <- AgentReads
INVARIANTS
  TypeOK
  OneCollectionPerReport
  CallsBounded
  RateLimitExhausted
PROPERTIES
  ScanReturns
  ImplementsFairContract
CHECK_DEADLOCK FALSE
