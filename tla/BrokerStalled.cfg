SPECIFICATION FairSpec
CONSTANTS
  Subscribers = {s1, s2}
  MaxAlerts = 3
  Room = 1
  MayStop = {s2}
  s1 = s1
  s2 = s2
  s3 = s3
PROPERTIES
  Delivered
CHECK_DEADLOCK FALSE
