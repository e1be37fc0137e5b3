SPECIFICATION FairSpec
CONSTANTS
  Page = 2
  Keep = 3
  Window = 2
  MaxDrops = 3
  MaxRows = 6
  MaxFiles = 2
  MaxLines = 2
  TailLines = 1
  Batch = 2
  None = None
  MaxFaults = 1
INVARIANTS
  NoHoles
  OnlyNewUnlessExcused
  PassedIsStored
PROPERTIES
  Shown
CONSTRAINT FewFailures
CHECK_DEADLOCK FALSE
