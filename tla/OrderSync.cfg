CONSTANTS
  Workers = {w1, w2}
  Reapers = {r1}
  Admins = {a1, a2}
  Total = 4
  MaxPages = 4
  MaxFull = 2
  MaxRuns = 3

SPECIFICATION Spec
SYMMETRY Symmetry

INVARIANTS
  NoPageIsForgotten

\* A task that has ended may stay as it is: nobody has to retry it.
CHECK_DEADLOCK FALSE
