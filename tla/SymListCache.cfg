SPECIFICATION Spec
CONSTANTS
  g1 = g1
  g2 = g2
  f1 = f1
  f2 = f2
  f3 = f3
  f4 = f4
  f5 = f5
  a1 = a1
  a2 = a2
  a3 = a3
  a4 = a4
  a5 = a5
  Guards = {g1, g2}
  Files = {f1, f2, f3, f4, f5}
  Addrs = {a1, a2, a3, a4, a5}
  MaxSize = 1
  MaxBoxes = 2
  Garbage = {"null"}
SYMMETRY MCSymmetry
INVARIANTS
  TypeOK
  NoDangling
  LockCount
  OneListPerFile
  BoundedByPins
