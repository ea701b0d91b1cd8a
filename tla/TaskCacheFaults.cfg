SPECIFICATION FairSpec
CONSTANTS
  r1 = r1
  r2 = r2
  w1 = w1
  alice = alice
  seed = seed
  Reader = {r1, r2}
  Writer = {w1}
  Owner = {alice}
  MaxTaskId = 1
  Seed = seed
  PosTtl = 2
  Jitter = 0
  NegTtl = 1
  LockTtl = 1
  WaitAttempts = 2
  FillWindow = 1
  Faults = {"redis", "db", "crash"}
INVARIANTS TypeOK BoundedStaleness
PROPERTIES OnlyHolderReleases RequestsTerminate LocksAreGivenUp
CHECK_DEADLOCK FALSE
