SPECIFICATION Spec
CONSTANTS
  Operators = {x1}
  Orders = {o1}
  Prices = {1, 2}
  MaxRetries = 1
  None = None
  Callers = {k1}
  Tokens = {t1}
  Confirmations = {c1, c2}
  TokenLimit = 1
  TenantLimit = 2
  SingleLimit = 1
  DailyLimit = 1
CHECK_DEADLOCK FALSE
PROPERTY PaidAsConfirmed
