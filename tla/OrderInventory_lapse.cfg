\* An order of one line: two callers of different owners, one of whom picks the
\* warehouse, two lapses, expiries, edits or transfers.
SPECIFICATION Spec
CONSTANTS
  Lines = {"l1"}
  Skus = {"s1"}
  Orders <- OneLine
  Placed <- OnePlaced
  Warehouses = {"main", "south"}
  Main = "main"
  Priority <- SouthFirst
  Open = {"main", "south"}
  Callers = {c1, c2}
  Adjusters = {}
  Options <- ByHand
  Quantities = {1, 2}
  Levels = {}
  Opening <- Two
  Purchases <- Inbound
  MaxRounds = 2
  MaxEvents = 2
SYMMETRY Symmetry
INVARIANTS
  RoundsAlternate
  KeysMatchTheBooks
  WarehousesHoldTheirOwn
