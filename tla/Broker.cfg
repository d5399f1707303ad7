SPECIFICATION OneKindSpec
CONSTANTS
  Subscribers = {s1, s2}
  MaxAlerts = 2
  Room = 1
  MayStop = {}
  Consumers = {1, 2, 3, 4}
  MB <- Sizes
  MaxLength = 3
  Threshold = 1
  Logins <- LoginForms
  Views <- FileQueries
  HashOf <- Digests
  BaseOf <- BaseNames
  Accounts <- AccountFiles
  Unreadable = unreadable
  Contents = {"image"}
  Absent = absent
  s1 = s1
  s2 = s2
  absent = absent
  unreadable = unreadable
INVARIANTS
  TypeOK
  StreamComplete
  SiloKeepsAll
  LoginJudged
  FileServed
PROPERTIES
  Delivered
  ImplementsFeed
  FollowsFeed
  BreachReported
  ConsumeAnswered
  PageAnswered
CHECK_DEADLOCK FALSE
