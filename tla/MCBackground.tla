---------------------------- MODULE MCBackground ----------------------------
(* Two kinds of rows that goroutines in the background write while requests    *)
(* change and delete them, for TLC: those of the download history and those of *)
(* the image hashes. An instance has the history with two requests, the        *)
(* history with one request and the sweep, the hashes with two goroutines, or  *)
(* the hashes with one of them at work at a time and an end of the process or  *)
(* of a recompute.                                                             *)
EXTENDS DownloadHistory, HashWorker, TLC

VARIABLE table

backgroundVars == <<table, vars, hashVars>>

MCAlike == {{"cat"}}
MCNear == {{"cat"}, {"cat", "dog"}}

BackgroundSymmetry ==
  Permutations(Jobs \ Failed) \cup Permutations(Calls) \cup Permutations(Hashers)

\* The old hash is of a cat; what does not run has one initial state.
BackgroundInit ==
  /\ table \in {"requests", "sweep", "hashes", "ends"}
  /\ Init /\ HashInit
  /\ \A i \in Legacy : file[i] = "cat"

BackgroundNext ==
  \/ table = "requests" /\ Next /\ UNCHANGED <<table, sweeper, hashVars>>
  \/ table = "sweep" /\ Next /\ Cardinality({c \in Calls : calls'[c] # Unmade}) <= 1
     /\ UNCHANGED <<table, hashVars>>
  \/ table = "hashes" /\ HashNext /\ tally'.ends = 0 /\ UNCHANGED <<table, vars>>
  \/ table = "ends" /\ HashNext /\ Cardinality({w \in Hashers : hasher'[w] # NoImage}) <= 1
     /\ UNCHANGED <<table, vars>>

BackgroundSpec == BackgroundInit /\ [][BackgroundNext]_backgroundVars
=============================================================================
