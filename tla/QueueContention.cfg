\* A download and a generic job compete for one slot and one place in the registry;
\* history writes may fail.
CONSTANTS
  d1 = d1
  g1 = g1
  Jobs = {d1, g1}
  Generic = {g1}
  c1 = c1
  Clients = {c1}
  Concurrency = 1
  MaxQueueSize = 1
  MaxRun = 0
  StoreFails = TRUE
SPECIFICATION FairSpec
INVARIANTS
  LiveJobsKept
PROPERTIES
  ActiveSettles
CHECK_DEADLOCK FALSE
