SPECIFICATION FairSpec
CONSTANTS
  Requests = {r1, r2}
  Workers = {w1, w2}
  Pollers = {i1}
  Events = {e1}
  Contents <- AnyEvent
  Payloads <- Orders4
  Polled = {"paid2", "items"}
  Revision <- RevisionOf
  Rank <- RankOf
  Lifecycle <- LifecycleOf
  Digest <- DigestOf
  MaxFaults = 1
INVARIANTS
  TypeOK
  ProcessedIsReflected
  RevisionHasOneDigest
  HandledByOne
PROPERTIES
  AckedIsTaken
CHECK_DEADLOCK FALSE
