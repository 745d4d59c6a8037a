\* An order of two lines for one SKU that lies in two warehouses, two callers
\* of different owners, one of whom picks the warehouse, who deduct and restore
\* it, an administrator who sets the stock by hand.
SPECIFICATION Spec
CONSTANTS
  Lines = {"l1", "l2"}
  Skus = {"s1"}
  Orders <- TwoLines
  Placed <- TwoPlaced
  Warehouses = {"main", "south"}
  Main = "main"
  Priority <- SouthFirst
  Open = {"main", "south"}
  Callers = {c1, c2}
  Adjusters = {a1}
  Options <- ByHand
  Quantities = {1, 2}
  Levels = {2}
  Opening <- Two
  Purchases <- Inbound
  MaxRounds = 1
  MaxEvents = 1
SYMMETRY Symmetry
INVARIANTS
  TypeOK
  NoOversell
  RoundsAlternate
  LedgerAddsUp
  KeysMatchTheBooks
  WarehousesHoldTheirOwn
