CONSTANTS
  Users = {u1, u2}
  Sessions = {s1, s2}
  Payloads = {p1, p2}
  DraftKeys = {d1, d2, d3}
  ReviewKeys = {r1, r2}
  ExecKeys = {e1, e2}
  NoKey = NoKey
  MaxManualRetryAttempts = 1
  MaxAbandons = 1

SPECIFICATION Spec
SYMMETRY Symmetry

INVARIANTS
  TypeOK
  OnlyReviewedContentIsExecuted
  ExecutingIffOneRunning
  NoDoubleCall
PROPERTIES
  UnknownOutcomeIsNotRepeated
  NoExecutionOverUnreviewedEdit
  ImplementsReviewGate
