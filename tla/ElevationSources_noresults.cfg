SPECIFICATION Spec
CONSTANTS
  t1 = t1
  t2 = t2
  a = a
  b = b
  bad = bad
  main = main
  off = off
  Rasters = {a, b, bad}
  Bad = {bad}
  Points = {1, 2, 3}
  Cover <- MCCover
  MaxOpen = 1
  Callers = {t1, t2}
  None = None
  Rings = {main, off}
  Keys <- MCKeys
  N = 3
  Chunk = 2
  Wrap = 2
  Day = 1
PROPERTIES
  Released
