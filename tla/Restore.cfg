SPECIFICATION FairSpec
CONSTANTS
  Task = Task
  MaxAttempts = 2
  MaxPages = 1
  MaxFaults = 3
INVARIANTS
  TypeOK
  CreditedOnce
  SuccessWasReported
  SweepSparesLiveTask
PROPERTIES
  EventuallySettles
