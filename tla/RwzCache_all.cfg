SPECIFICATION Spec
CONSTANTS
  r1 = r1
  r2 = r2
  r3 = r3
  NoOne = NoOne
  Requests = {r1, r2, r3}
  KmlRequests = {}
  Faults = {"query", "pipe", "spawn", "blank", "disk", "kill"}
SYMMETRY MCSymmetry
INVARIANTS
  TypeOK
  ServedWhole
  NeverOlderThanBuilt
  OneBuilder
PROPERTIES
  StableWhileRead
  ImplementsSlot
CHECK_DEADLOCK FALSE
