SPECIFICATION FairSpec
CONSTANTS
  Backups = {b1}
  Cadences = {NULL, "data_backup", "monthly"}
  Period <- Periods
  NULL = NULL
  MaxAttempts = 2
  MaxTime = 2
  MaxRuns = 2
  MaxManual = 1
  MaxFaults = 1
CHECK_DEADLOCK FALSE
INVARIANTS
  TypeOK
  
  
PROPERTIES
  DueIsTaken
  EveryRunEnds
