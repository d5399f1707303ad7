SPECIFICATION SenderSpec
CONSTANTS
  Replicas = {1, 2, 3}
  Requests = {p1, p2}
  Values = {p1, p2}
  Keys = {k1}
  KeyOf <- SameKey
  ValueOf <- OwnValue
  ModeOf <- AllStrong
  MayCrash = {3}
  MayTimeOut = TRUE
  NoEntry = none
  EmptyKey = emptyKey
  none = none
  emptyKey = emptyKey
  k1 = k1
  k2 = k2
  p1 = p1
  p2 = p2
  p3 = p3
  pBad = pBad
  a = a
  b = b
INVARIANTS
  TypeOK
  QuorumCoverage
  LatestShown
PROPERTIES
  NeverStepsBack
  WriteDominates
  PutAnswered
CHECK_DEADLOCK FALSE
