SPECIFICATION FairSessionSpec
CONSTANTS
  Replicas = {1, 2}
  Requests = {p1, p2, pBad}
  Mine = {p1, p2}
  Values = {p1, p2, pBad}
  Keys = {k1}
  KeyOf <- SameKey
  ValueOf <- OwnValue
  ModeOf <- AllStrong
  MayCrash = {2}
  MayTimeOut = TRUE
  NoEntry = none
  EmptyKey = emptyKey
  none = none
  emptyKey = emptyKey
  k1 = k1
  p1 = p1
  p2 = p2
  pBad = pBad
PROPERTIES
  PutAnswered
  SessionMovesForward
CHECK_DEADLOCK FALSE
