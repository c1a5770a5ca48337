SPECIFICATION FairSpec
CONSTANTS
  top = top
  left = left
  right = right
  shared1 = shared1
  leaf = leaf
  t1 = t1
  t2 = t2
  t3 = t3
  Pages = {top, left, right, shared1, leaf}
  Links <- MCLinks
  Start <- MCStart
  Threads = {t1, t2, t3}
  Flaky = {left, right}
  Archives = {right}
  Leftovers <- MCLeftovers
  MaxTorn = 1
INVARIANTS
  TypeOK
  Complete
  ErrorsReported
PROPERTIES
  ImplementsCrawl
  Returns
