------------------------------ MODULE MCIdLock ------------------------------
(* Instances of IdLock for TLC.                                              *)
EXTENDS IdLock, TLC

\* Goroutines, ids and allocations are interchangeable.
LockSymmetry == Permutations(Procs) \cup Permutations(Ids) \cup Permutations(States)
=============================================================================
