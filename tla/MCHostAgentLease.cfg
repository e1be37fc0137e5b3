SPECIFICATION Spec
CONSTANTS
  Ops = {start, backup}
  LongOps = {start}
  Refused = {}
  NoOp = NoOp
  LeaseTicks = 2
  RetryLimit = 2
  Unwritable = {}
  MaxFaults = 0
INVARIANT
  LeaseWhileActive
CHECK_DEADLOCK FALSE
