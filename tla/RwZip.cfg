SPECIFICATION Spec
CONSTANTS
  f1 = f1
  f2 = f2
  f3 = f3
  Files = {f1, f2, f3}
  Logo = Logo
  Dir = Dir
  Cap = 1
INVARIANTS
  TypeOK
  NoFileMissed
  WholeZip
  NoneLeftBehind
PROPERTIES
  Ends
CHECK_DEADLOCK FALSE
