\* The rows keep the promise of LeasedTask.
CONSTANTS
  Workers = {w1, w2}
  Reapers = {r1}
  Admins = {a1, a2}
  Total = 2
  MaxPages = 2
  MaxFull = 2
  MaxRuns = 3

SPECIFICATION Spec

PROPERTY
  ImplementsLeasedTask
CHECK_DEADLOCK FALSE
