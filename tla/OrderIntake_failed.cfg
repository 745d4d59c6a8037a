\* An event whose revision a page has imported with another amount.
SPECIFICATION FairSpec
CONSTANTS
  Requests = {r1}
  Workers = {w1}
  Pollers = {i1}
  Events = {e1}
  Contents <- OneEvent
  Payloads <- Orders4
  Polled = {"paid2"}
  Revision <- RevisionOf
  Rank <- RankOf
  Lifecycle <- LifecycleOf
  Digest <- DigestOf
  MaxFaults = 0
PROPERTY
  FailedIsRetried
CHECK_DEADLOCK FALSE
