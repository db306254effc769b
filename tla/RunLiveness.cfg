SPECIFICATION FairSpec
CONSTANTS
  Bases = {b1, b2}
  Cancels = {c1}
  Outcomes = {"succeeded", "failed"}
  Origins = {"engine"}
  NULL = NULL
  MaxAttempts = 1
  MaxPages = 1
  MaxFaults = 1
PROPERTIES
  EventuallySettles
  EveryRunRests
