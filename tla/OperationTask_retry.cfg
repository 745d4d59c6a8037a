CONSTANTS
  Users = {u1}
  Sessions = {s1}
  Payloads = {p1}
  DraftKeys = {d1, d2}
  ReviewKeys = {r1}
  ExecKeys = {e1, e2, e3, e4}
  NoKey = NoKey
  MaxManualRetryAttempts = 2
  MaxAbandons = 0

SPECIFICATION FairSpec

PROPERTIES
  ExecutionEnds
