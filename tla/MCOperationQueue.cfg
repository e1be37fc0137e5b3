CONSTANTS
  Ops = {work, read}
  ReadOps = {read}
  Users = {u1, u2}
  Agents = {a1}
  NoOp = NoOp
  LeaseTicks = 1
  Cursors = {1}
  KeepEvents = 3
  MaxEvents = 4
  MaxFaults = 1
SPECIFICATION FairSpec
INVARIANTS
  OneActive
  ReadersServed
PROPERTIES
  ImplementsLifecycle
  QueueMoves
  ReadersAnswered
