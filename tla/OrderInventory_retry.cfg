\* A deduction that fails for want of stock, goods that come in, and a retry
\* of the same order by one caller.
SPECIFICATION Spec
CONSTANTS
  Lines = {"l1"}
  Skus = {"s1"}
  Orders <- OneLine
  Placed <- OnePlaced
  Warehouses = {"main", "south"}
  Main = "main"
  Priority <- SouthFirst
  Open = {"main", "south"}
  Callers = {c1}
  Adjusters = {}
  Options <- CreateOnly
  Quantities = {1, 2}
  Levels = {}
  Opening <- One
  Purchases <- Inbound
  MaxRounds = 0
  MaxEvents = 1
PROPERTY
  RetryIsNotRefused
