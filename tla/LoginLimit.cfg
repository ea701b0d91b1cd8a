SPECIFICATION Spec
CONSTANTS
  i1 = i1
  c1 = c1
  r1 = r1
  r2 = r2
  Client = {c1}
  Instance = {i1}
  Request = {r1, r2}
  Limit = 2
  WindowSeconds = 2
  TickMs = 400
  MaxCount = 4
  Faults = {"redis", "restart"}
INVARIANTS TypeOK AdmissionsBounded RefusalsAreEarned RetryAfterHonest
