SPECIFICATION Spec
CONSTANTS
  StartConfigs <- Starts
  Patches = {p1, p2}
  Bodies <- PatchBodies
  Cadences = {"daily", "monthly"}
  Period <- Periods
  PollInterval = 1
  Jitters = {0}
  MaxRetries = 1
  MaxTime = 2
  MaxFaults = 2
  NULL = NULL
SYMMETRY Symmetry
INVARIANTS
  TypeOK
  AlarmIsEarliest
  FireOncePerDelivery
  
