SPECIFICATION Spec
CONSTANTS
  Clients = {a, b, c}
  None = None
  Torn = Torn
  Keep = 2
  MaxEdits = 0
  MaxFaults = 0
SYMMETRY Symmetry
INVARIANTS
  BackedUp
