\* One caller deducts an order and restores it; the line is changed meanwhile.
SPECIFICATION Spec
CONSTANTS
  Lines = {"l1"}
  Skus = {"s1"}
  Orders <- OneLine
  Placed <- OnePlaced
  Warehouses = {"main", "south"}
  Main = "main"
  Priority <- SouthFirst
  Open = {"main", "south"}
  Callers = {c1}
  Adjusters = {}
  Options <- CreateOnly
  Quantities = {1, 2}
  Levels = {}
  Opening <- Two
  Purchases <- Inbound
  MaxRounds = 0
  MaxEvents = 1
INVARIANT
  RestoreMirrorsDeduct
