\* The rows keep the promise of LeasedTask.
CONSTANTS
  Tasks = {t1}
  Workers = {w1, w2}
  Reapers = {r1}
  Admins = {a1, a2}
  MaxDefers = 1
  MaxAsks = 3
  MaxFaults = 1

SPECIFICATION Spec

PROPERTY
  ImplementsLeasedTask
CHECK_DEADLOCK FALSE
