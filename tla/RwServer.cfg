SPECIFICATION FairSpec
CONSTANTS
  t1 = t1
  t2 = t2
  Threads = {t1, t2}
  MaxPending = 1
  Free = Free
  Orphan = Orphan
INVARIANTS
  TypeOK
  NoRequestCut
  FewAfterAbort
  StopWasAsked
PROPERTIES
  Terminates
  Recovers
