\* Two loads of one plugin, and two goroutines that call it or one job.
CONSTANTS
  v1 = v1
  v2 = v2
  VMs = {v1, v2}
  a1 = a1
  a2 = a2
  Admins = {a1, a2}
  c1 = c1
  c2 = c2
  Callers = {c1, c2}
  j1 = j1
  Jobs = {j1}
  Budget = 1
  NoVM = NoVM
  Nobody = Nobody
SYMMETRY PluginSymmetry
SPECIFICATION LivesSpec
INVARIANTS
  VMsSound JobsSettle
PROPERTIES
  PublishedServes
CHECK_DEADLOCK FALSE
