----------------------------- MODULE MCPluginVM -----------------------------
(* The life of a plugin for TLC, with requests that call it or with jobs that *)
(* it runs: an instance has one of the two, chosen at the start.  With jobs,  *)
(* two administrators act at once or the manager closes, not both.            *)
EXTENDS PluginVM, TLC

VARIABLE guests

livesVars == <<guests, pluginVars>>

PluginSymmetry == Permutations(Admins) \cup Permutations(Callers) \cup Permutations(Jobs) \cup Permutations(VMs)

LivesInit == guests \in {"calls", "jobs"} /\ PluginInit

LivesNext ==
  /\ PluginNext
  /\ guests = "calls" => work' = work
  /\ guests = "jobs" => /\ call' = call
                        /\ \/ closer' = "running"
                           \/ Cardinality({a \in Admins : admin'[a] # Idle}) <= 1
  /\ UNCHANGED guests

LivesSpec == LivesInit /\ [][LivesNext]_livesVars
=============================================================================
