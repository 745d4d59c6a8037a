\* An administrator sets the stock of a SKU twice.
SPECIFICATION Spec
CONSTANTS
  Lines = {"l1"}
  Skus = {"s1"}
  Orders <- OneLine
  Placed <- OnePlaced
  Warehouses = {"main", "south"}
  Main = "main"
  Priority <- SouthFirst
  Open = {"main", "south"}
  Callers = {c1}
  Adjusters = {a1}
  Options <- CreateOnly
  Quantities = {1, 2}
  Levels = {1, 2}
  Opening <- Two
  Purchases <- Inbound
  MaxRounds = 0
  MaxEvents = 2
PROPERTY
  AdjustmentsAreKept
