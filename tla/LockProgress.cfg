\* Two goroutines, two ids, one token: a call always ends.
CONSTANTS
  p1 = p1
  p2 = p2
  a = a
  b = b
  s1 = s1
  s2 = s2
  Procs = {p1, p2}
  Ids = {a, b}
  States = {s1, s2}
  Kinds = {"block", "context", "try"}
  MaxParallel = 1
SPECIFICATION FairSpec
INVARIANTS
  GlobalLimit
PROPERTIES
  EveryCallEnds
