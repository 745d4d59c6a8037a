CONSTANTS
  Tasks = {t1}
  Workers = {w1, w2}
  Reapers = {r1}
  Admins = {a1, a2}
  MaxDefers = 1
  MaxAsks = 3
  MaxFaults = 1

SPECIFICATION FairSpec

INVARIANTS
  TypeOK
  PushedNoMoreThanAsked
  SuccessIsPushed
  OneExecutor
PROPERTIES
  FinishesItsOwn
  RunningEnds
  WaitingEnds
CHECK_DEADLOCK FALSE
