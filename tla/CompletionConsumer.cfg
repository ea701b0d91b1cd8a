SPECIFICATION FairSpec
CONSTANTS
  w1 = w1
  w2 = w2
  e1 = e1
  Worker = {w1, w2}
  Last = 2
  Event = {e1}
  EventOf <- OneEvent
  Amount <- Disagree
  MaxAttempts = 2
  MaxFailures = 3
  Faults = {"redis", "db", "crash"}
INVARIANTS TypeOK LettersAreEarned
PROPERTIES KeepsOutcome MessagesClose
CHECK_DEADLOCK FALSE
