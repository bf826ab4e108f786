-------------------------- MODULE MCResourceStore --------------------------
(* The store for TLC: clients and contents are interchangeable.                *)
EXTENDS ResourceStore, TLC

StoreSymmetry == Permutations(Clients) \cup Permutations(Contents)
=============================================================================
