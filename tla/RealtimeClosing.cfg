SPECIFICATION Spec
CONSTANTS
  i1 = i1
  s1 = s1
  s2 = s2
  s3 = s3
  alice = alice
  bob = bob
  Instance = {i1}
  Socket = {s1, s2}
  User = {alice, bob}
  Home <- HomeOne
  Owner <- OwnerTwo
  MaxMessages = 1
  InitialDelay = 1
  MaximumDelay = 1
  Events = {"reject"}
INVARIANTS BroadcastContinues
CHECK_DEADLOCK FALSE
