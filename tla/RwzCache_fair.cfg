SPECIFICATION FairSpec
CONSTANTS
  r1 = r1
  r2 = r2
  r3 = r3
  NoOne = NoOne
  Requests = {r1, r2, r3}
  KmlRequests = {r3}
  Faults = {"query", "pipe"}
INVARIANTS
  QueryOutlivesWorker
PROPERTIES
  Answered
