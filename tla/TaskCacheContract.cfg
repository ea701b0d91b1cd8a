SPECIFICATION Spec
CONSTANTS
  r1 = r1
  r2 = r2
  w1 = w1
  w2 = w2
  w3 = w3
  alice = alice
  bob = bob
  seed = seed
  Reader = {r1, r2}
  Writer = {w1, w2, w3}
  Owner = {alice, bob}
  MaxTaskId = 1
  Seed = seed
  PosTtl = 1
  Jitter = 0
  NegTtl = 1
  LockTtl = 1
  WaitAttempts = 1
  FillWindow = 0
  Faults = {"db"}
SYMMETRY Symmetry
CONSTRAINT Contracted
PROPERTIES KeepsContract
CHECK_DEADLOCK FALSE
