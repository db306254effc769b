SPECIFICATION FairSpec
CONSTANTS
  StartConfigs <- Starts
  Patches = {p1}
  Bodies <- PatchBodies
  Cadences = {"daily", "monthly"}
  Period <- Periods
  PollInterval = 1
  Jitters = {0}
  MaxRetries = 1
  MaxTime = 2
  MaxFaults = 2
  NULL = NULL
PROPERTIES
  DueEventuallyServed
