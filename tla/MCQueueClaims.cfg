CONSTANTS
  Ops = {work, read}
  ReadOps = {read}
  Users = {u1}
  Agents = {a1, a2}
  NoOp = NoOp
  LeaseTicks = 1
  Cursors = {1, 2}
  KeepEvents = 3
  MaxEvents = 4
  MaxFaults = 0
SPECIFICATION Spec
SYMMETRY Symmetry
INVARIANTS
  EventOrder
  LogsOnce
