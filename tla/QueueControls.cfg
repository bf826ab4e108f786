\* One download, two concurrent requests, two attempts, two slots: every
\* interleaving of the controls, the goroutines of both attempts and their recorders.
CONSTANTS
  d1 = d1
  Jobs = {d1}
  Generic = {}
  c1 = c1
  c2 = c2
  Clients = {c1, c2}
  Concurrency = 2
  MaxQueueSize = 2
  MaxRun = 1
  StoreFails = FALSE
SYMMETRY ClientSymmetry
SPECIFICATION Spec
INVARIANTS
  Inductive CancelHonoured OneLiveTransfer OutcomesTold
PROPERTIES
   ImplementsJobControl
CHECK_DEADLOCK FALSE
