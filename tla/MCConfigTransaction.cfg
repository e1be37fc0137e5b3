SPECIFICATION Spec
CONSTANTS
  Clients = {a, b}
  None = None
  Torn = Torn
  Keep = 1
  MaxEdits = 1
  MaxFaults = 2
SYMMETRY Symmetry
INVARIANTS
  Recoverable
  NeverHalfApplied
  Durable
  Informed
  EditsKept
