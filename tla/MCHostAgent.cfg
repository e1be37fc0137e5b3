SPECIFICATION FairSpec
CONSTANTS
  Ops = {start, update, job}
  LongOps = {start, update}
  Refused = {update, job}
  NoOp = NoOp
  LeaseTicks = 2
  RetryLimit = 2
  Unwritable = {update, job}
  MaxFaults = 2
INVARIANTS
  HostExclusive
  Truthful
  Accounted
  WorkerKeepsLease
PROPERTIES
  ExecutedOnce
  Settles
  LettersDelivered
CHECK_DEADLOCK FALSE
