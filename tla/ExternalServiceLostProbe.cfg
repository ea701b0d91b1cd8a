SPECIFICATION Spec
CONSTANTS
  c1 = c1
  c2 = c2
  Call = {c1, c2}
  FailureThreshold = 1
  RecoveryTimeout = 1
  TotalTimeout = 2
  MaxAttempts = 1
  BaseDelay = 1
  MaxDelay = 1
  Unexpected = TRUE
INVARIANTS HalfOpenHasProbe
