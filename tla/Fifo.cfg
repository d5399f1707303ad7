SPECIFICATION FairSpec
CONSTANTS
  Runs = 2
  MaxRequests = 3
  MaxAttempts = 2
  MayBeKilled = TRUE
  WorkerKills = 2
  MaxInt = 3
  OperationOf <- EdgeOf
INVARIANTS
  TypeOK
  AnswersInTurn
  PrintsResult
PROPERTIES
  RequestEnds
CHECK_DEADLOCK FALSE
