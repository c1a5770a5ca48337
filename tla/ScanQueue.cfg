SPECIFICATION FairSpec
CONSTANTS
  Quads = {q1, q2}
  Prios = {1, 2}
  None = None
  MaxAsks = 3
  MaxKills = 2
CHECK_DEADLOCK FALSE
INVARIANT TypeOK
INVARIANT FirstPassDone
PROPERTY Drained
