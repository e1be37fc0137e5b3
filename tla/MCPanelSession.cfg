SPECIFICATION FairSpec
CONSTANTS
  Clients = {c1, c2}
  Slots = {page, s1}
  Page = page
  ClientLimit = 2
  AccountLimit = 3
  Lockout = 2
  TTL = 2
  MaxTime = 3
  MaxPasswords = 2
  MaxSessions = 2
  MaxFaults = 1
INVARIANTS
  GuessesBounded
  SignOutHolds
PROPERTIES
  ExpiredIsNoticed
CHECK_DEADLOCK FALSE
