CONSTANTS
  Requests = {r1, r2, r3}
  OwnerOf <- SharedOwner
  HashOf <- TwoPayloads
  Lenient = {}
  MaxRuns = 4
  MaxExcuses = 2

SPECIFICATION YoungSpec

INVARIANTS
  AnswersAsKey
PROPERTIES
  ImplementsKeyProtocol
