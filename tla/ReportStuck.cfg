SPECIFICATION FairSpec
CONSTANTS
  Backups = {b1}
  Cadences = {NULL, "data_backup", "monthly"}
  Period <- Periods
  NULL = NULL
  MaxAttempts = 1
  MaxTime = 2
  MaxRuns = 1
  MaxManual = 1
  MaxFaults = 1
CHECK_DEADLOCK FALSE
PROPERTIES
  LostCallbackIsReconciled
