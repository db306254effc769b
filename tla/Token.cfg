SPECIFICATION FairSpec
CONSTANTS
  Callers = {c1, c2}
  Grace = 2
  MaxExpiries = 2
  MaxReconnects = 1
  MaxFaults = 1
INVARIANTS
  TypeOK
  SpentNeverReplayed
  SpentHasSuccessor
PROPERTIES
  EventuallyFresh
  PendingEnds
