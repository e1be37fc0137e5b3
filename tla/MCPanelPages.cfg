SPECIFICATION FairSpec
CONSTANTS
  Hosts = {h1, h2}
  Values = {v1, v2}
  Capabilities = {c1, c2}
  None = None
  MaxDrops = 1
  MaxOps = 2
INVARIANTS
  EnrolledIsAgent
  ReportedIsSo
PROPERTIES
  AppliedAsReviewed
  PageSettles
CHECK_DEADLOCK FALSE
