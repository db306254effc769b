SPECIFICATION FairSpec
CONSTANTS
  Tasks = {t1, t2, t3}
  Restores = {t3}
  TTL = 2
  MaxWait = 2
  MaxHold = 3
  MaxEvictions = 1
  MaxFaults = 2
INVARIANTS
  TypeOK
PROPERTIES
  ImplementsLease
  LockIsFreed
