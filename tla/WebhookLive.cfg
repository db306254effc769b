SPECIFICATION FairSpec
CONSTANTS
  Cells = {c1}
  Runs = {r1, r2}
  MaxChanges = 1
  MaxFaults = 1
  NULL = NULL
PROPERTIES
  EventuallyCaughtUp
