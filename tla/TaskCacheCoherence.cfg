SPECIFICATION Spec
CONSTANTS
  r1 = r1
  r2 = r2
  w1 = w1
  w2 = w2
  w3 = w3
  alice = alice
  bob = bob
  seed = seed
  Reader = {r1, r2}
  Writer = {w1, w2, w3}
  Owner = {alice, bob}
  MaxTaskId = 1
  Seed = seed
  PosTtl = 1
  Jitter = 0
  NegTtl = 1
  LockTtl = 1
  WaitAttempts = 1
  FillWindow = 1
  Faults = {}
SYMMETRY Symmetry
CONSTRAINT OneGetAtATime
INVARIANTS Coherence RepliesFromOwnHistory
CHECK_DEADLOCK FALSE
