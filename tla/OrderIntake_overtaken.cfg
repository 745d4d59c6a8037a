\* Two workers handle two events of the order at once.
SPECIFICATION Spec
CONSTANTS
  Requests = {r1}
  Workers = {w1, w2}
  Pollers = {}
  Events = {e1, e2}
  Contents <- MadeAndPaid
  Payloads <- Orders4
  Polled = {}
  Revision <- RevisionOf
  Rank <- RankOf
  Lifecycle <- LifecycleOf
  Digest <- DigestOf
  MaxFaults = 0
PROPERTY
  NeverBack
CHECK_DEADLOCK FALSE
