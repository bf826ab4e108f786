\* One download paused, resumed and retried while its earlier goroutine still holds
\* the only slot.
CONSTANTS
  d1 = d1
  Jobs = {d1}
  Generic = {}
  c1 = c1
  Clients = {c1}
  Concurrency = 1
  MaxQueueSize = 1
  MaxRun = 1
  StoreFails = FALSE
SPECIFICATION FairSpec
PROPERTIES
  CancelTakesEffect
CHECK_DEADLOCK FALSE
