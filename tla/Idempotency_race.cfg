CONSTANTS
  Requests = {r1, r2}
  OwnerOf <- DistinctOwners
  HashOf <- SamePayload
  Lenient = {}
  MaxRuns = 4
  MaxExcuses = 3

SPECIFICATION Spec

INVARIANTS
  ConflictIsAnotherPayload
