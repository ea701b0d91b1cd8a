SPECIFICATION FairSpec
CONSTANTS
  c1 = c1
  c2 = c2
  c3 = c3
  Call = {c1, c2, c3}
  FailureThreshold = 2
  RecoveryTimeout = 4
  TotalTimeout = 3
  MaxAttempts = 3
  BaseDelay = 1
  MaxDelay = 2
  Unexpected = TRUE
INVARIANTS TypeOK CountMatchesState ProbeRunsAlone
PROPERTIES CallsEnd ProbeDecides
