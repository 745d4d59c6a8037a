CONSTANTS
  Requests = {r1, r2, r3}
  OwnerOf <- DistinctOwners
  HashOf <- TwoPayloads
  Lenient <- OneLenient
  MaxRuns = 4
  MaxExcuses = 3

SPECIFICATION Spec

PROPERTIES
  FinalIsFinal
