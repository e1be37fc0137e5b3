SPECIFICATION FairSpec
CONSTANTS
  Commands = {save, reveal}
  Reads = {reveal}
  Admins = {reveal}
  None = None
  MaxConnections = 3
  MaxPending = 1
  MaxRunning = 1
  MaxFaults = 1
INVARIANTS
  OnLiveConnection
PROPERTIES
  ImplementsDirect
  Answered
  Reconnects
CHECK_DEADLOCK FALSE
