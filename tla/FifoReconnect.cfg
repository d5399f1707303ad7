SPECIFICATION FairSpec
CONSTANTS
  Runs = 2
  MaxRequests = 1
  MaxAttempts = 2
  MayBeKilled = FALSE
  WorkerKills = 0
  MaxInt = 3
  OperationOf <- EdgeOf
PROPERTIES
  ConnectionEnds
CHECK_DEADLOCK FALSE
