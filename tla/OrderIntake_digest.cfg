\* An event and a page of one revision that differ in the items only.
SPECIFICATION Spec
CONSTANTS
  Requests = {r1}
  Workers = {w1}
  Pollers = {i1}
  Events = {e1}
  Contents <- OneEvent
  Payloads <- Orders4
  Polled = {"items"}
  Revision <- RevisionOf
  Rank <- RankOf
  Lifecycle <- LifecycleOf
  Digest <- DigestOf
  MaxFaults = 0
INVARIANT RevisionHasOneContent
CHECK_DEADLOCK FALSE
