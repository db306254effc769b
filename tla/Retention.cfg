SPECIFICATION FairSpec
CONSTANTS
  NumBases = 2
  Policies <- MCPolicies
  CustomDefault <- MCCustomDefault
  WeekDays = 2
  MonthDays = 3
  MaxDay = 4
  MaxRuns = 3
  MaxActs = 1
  MaxFaults = 1
INVARIANTS
  TypeOK
  
  
  PassIsIdempotent
PROPERTIES
  ExpiredIsPruned
