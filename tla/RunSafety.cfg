SPECIFICATION Spec
CONSTANTS
  Bases = {b1, b2}
  Cancels = {c1}
  Outcomes = {"succeeded", "failed"}
  Origins = {"web", "engine"}
  NULL = NULL
  MaxAttempts = 2
  MaxPages = 0
  MaxFaults = 2
SYMMETRY Symmetry
INVARIANTS
  TypeOK
  PendingLedger
  SuccessMeansDelivered
  FailDecisionIsSafe

  
