SPECIFICATION Spec
CONSTANTS
  Replicas = {1, 2, 3}
  Requests = {p1, p2, p3}
  Values = {a, b}
  Keys = {k1}
  KeyOf <- SameKey
  ValueOf <- RepeatedValue
  ModeOf <- AllEventual
  MayCrash = {}
  MayTimeOut = FALSE
  NoEntry = none
  EmptyKey = emptyKey
  none = none
  emptyKey = emptyKey
  k1 = k1
  k2 = k2
  p1 = p1
  p2 = p2
  p3 = p3
  pBad = pBad
  a = a
  b = b
INVARIANTS
  SameUpdatesSameValue
CHECK_DEADLOCK FALSE
