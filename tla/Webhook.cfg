SPECIFICATION Spec
CONSTANTS
  Cells = {c1}
  Runs = {r1, r2}
  MaxChanges = 2
  MaxFaults = 1
  NULL = NULL
SYMMETRY Symmetry
INVARIANTS
  TypeOK
  NoChangeLost
  
  RestIsCaughtUp
