CONSTANTS
  Workers = {w1}
  Reapers = {}
  Admins = {a1}
  Total = 2
  MaxPages = 3
  MaxFull = 5
  MaxRuns = 2

SPECIFICATION Spec
CHECK_DEADLOCK FALSE

INVARIANTS
  SuccessIsComplete
