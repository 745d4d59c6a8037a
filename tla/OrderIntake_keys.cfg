\* What happens to the keys of an event and of a revision.
SPECIFICATION Spec
CONSTANTS
  Requests = {r1, r2}
  Workers = {w1, w2}
  Pollers = {i1}
  Events = {e1}
  Contents <- OneEvent
  Payloads <- Orders4
  Polled = {"made", "paid2", "items"}
  Revision <- RevisionOf
  Rank <- RankOf
  Lifecycle <- LifecycleOf
  Digest <- DigestOf
  MaxFaults = 1
PROPERTY KeysFollowTheProtocol
CHECK_DEADLOCK FALSE
