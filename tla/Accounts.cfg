SPECIFICATION FairSpec
CONSTANTS
  p1 = p1
  p2 = p2
  p3 = p3
  t1 = t1
  t2 = t2
  s1 = s1
  s2 = s2
  alice = alice
  bob = bob
  Person = {p1, p2, p3}
  Name = {alice, bob}
  Username <- SharedName
  Ticket = {t1}
  Socket = {s1, s2}
  MaxUserId = 2
  TokenTtl = 1
  TicketTtl = 1
  Faults = {"redis", "db", "deactivate"}
INVARIANTS TypeOK OneAccountPerName AnswersAreTrue TicketOpensOneSocket SocketsBelongToTheirAskers
PROPERTIES DeactivationHolds TicketsVanish
