-------------------------- MODULE MCDownloadQueue --------------------------
(* Instances of DownloadQueue for TLC.                                       *)
EXTENDS DownloadQueue, TLC

\* Requests are interchangeable.
ClientSymmetry == Permutations(Clients)
=============================================================================
