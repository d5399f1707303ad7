SPECIFICATION FairSpec
CONSTANTS
  Trials <- OneThenMany
  TotalTasks = 4
INVARIANTS
  TypeOK
  EveryTaskMeasuredOnce
  TrialsApart
PROPERTIES
  AllTrialsEnd
