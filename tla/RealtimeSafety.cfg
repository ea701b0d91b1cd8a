SPECIFICATION Spec
CONSTANTS
  i1 = i1
  s1 = s1
  s2 = s2
  s3 = s3
  alice = alice
  bob = bob
  Instance = {i1}
  Socket = {s1, s2, s3}
  User = {alice, bob}
  Home <- HomeOne
  Owner <- OwnerTwo
  MaxMessages = 2
  InitialDelay = 1
  MaximumDelay = 3
  Events = {"redis", "fatal", "publish", "leave", "reject", "stop"}
INVARIANTS TypeOK DeliveredInOrder NoGaps RegistryIsServed
PROPERTIES KeepsPromise
CHECK_DEADLOCK FALSE
