\* Two processes that share the database and may die, with every goroutine in time; or
\* one, with goroutines that take any time, so that claims are taken over under live
\* runs.  Writes may fail in both.
CONSTANTS
  h1 = h1
  h2 = h2
  s1 = s1
  u1 = u1
  a1 = a1
  a2 = a2
  Hosts = {h1, h2}
  Schedules = {s1}
  Operators = {u1}
  Attempts = {a1, a2}
  Policies = {"skip", "allow"}
  Every = 1
  Wait = 0
  RunMax = 1
  Lag = 0
  MayStall = TRUE
  StoreFails = TRUE
  MaxTime = 3
  MaxGen = 1
  MaxRuns = 2
SYMMETRY ScheduleSymmetry
SPECIFICATION SchedulesSpec
INVARIANTS
  Inductive HeldAlone HeldOccurrence
PROPERTIES
  HeldOutcomesInOrder DueNeverRegresses
CHECK_DEADLOCK FALSE
