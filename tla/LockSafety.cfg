\* Four goroutines contend for one id, acquiring in every way; three tokens, so
\* that three of them can use the id's state and the fourth finds no token.
CONSTANTS
  p1 = p1
  p2 = p2
  p3 = p3
  p4 = p4
  a = a
  s1 = s1
  s2 = s2
  Procs = {p1, p2, p3, p4}
  Ids = {a}
  States = {s1, s2}
  Kinds = {"block", "context", "try"}
  MaxParallel = 3
SYMMETRY LockSymmetry
SPECIFICATION Spec
INVARIANTS
  Inductive MutualExclusion RunsUnderLock
