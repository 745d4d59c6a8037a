\* An order of two lines for one SKU that lies in two warehouses, two callers
\* who deduct and restore it, an administrator who sets the stock by hand.
SPECIFICATION Spec
CONSTANTS
  Lines = {"l1", "l2"}
  Skus = {"s1"}
  Orders <- TwoLines
  Placed <- TwoPlaced
  Warehouses = {"main", "south"}
  Main = "main"
  Priority <- SouthFirst
  Open = {"main", "south"}
  Callers = {c1, c2}
  Adjusters = {a1}
  Options <- CreateOnly
  Quantities = {1, 2}
  Levels = {2}
  Opening <- Two
  Purchases <- Inbound
  MaxRounds = 2
  MaxEvents = 1
SYMMETRY Symmetry
INVARIANTS
  TypeOK
  NoOversell
  RoundsAlternate
  LedgerAddsUp
