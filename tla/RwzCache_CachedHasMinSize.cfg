SPECIFICATION Spec
CONSTANTS
  r1 = r1
  r2 = r2
  r3 = r3
  NoOne = NoOne
  Requests = {r1, r2, r3}
  KmlRequests = {}
  Faults = {"kill"}
INVARIANT CachedHasMinSize
CHECK_DEADLOCK FALSE
