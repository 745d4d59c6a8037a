CONSTANTS
  Users = {u1}
  Sessions = {s1, s2}
  Payloads = {p1}
  DraftKeys = {d1}
  ReviewKeys = {r1}
  ExecKeys = {e1, e2, e3}
  NoKey = NoKey
  MaxManualRetryAttempts = 1
  MaxAbandons = 0

SPECIFICATION Spec
SYMMETRY Symmetry

INVARIANTS
  RetryLimit
