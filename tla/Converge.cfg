SPECIFICATION FairSpec
CONSTANTS
  Replicas = {1, 2, 3}
  Requests = {p1, p2, p3}
  Values = {p1, p2, p3}
  Keys = {k1, k2}
  KeyOf <- TwoKeys
  ValueOf <- OwnValue
  ModeOf <- AllEventual
  MayCrash = {}
  MayTimeOut = FALSE
  NoEntry = none
  EmptyKey = emptyKey
  none = none
  emptyKey = emptyKey
  k1 = k1
  k2 = k2
  p1 = p1
  p2 = p2
  p3 = p3
  pBad = pBad
  a = a
  b = b
PROPERTIES
  EventuallyConsistent
  ImplementsFairRegister
CHECK_DEADLOCK FALSE
