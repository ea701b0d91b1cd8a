SPECIFICATION FairSpec
CONSTANTS
  i1 = i1
  s1 = s1
  s2 = s2
  s3 = s3
  alice = alice
  bob = bob
  Instance = {i1}
  Socket = {s1, s2}
  User = {alice, bob}
  Home <- HomeOne
  Owner <- OwnerTwo
  MaxMessages = 2
  InitialDelay = 1
  MaximumDelay = 2
  Events = {"redis", "publish", "leave", "reject"}
INVARIANTS OnlyClosesOrphan
PROPERTIES StartupEnds Resubscribes MessagesAreRead
CHECK_DEADLOCK FALSE
