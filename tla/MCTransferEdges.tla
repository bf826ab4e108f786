-------------------------- MODULE MCTransferEdges --------------------------
(* The two ends of a transfer for TLC: its reader and the stop of the process. *)
(* They share no state: an instance runs one of them, chosen at the start.     *)
EXTENDS TimeoutReader, QueueShutdown, TLC

VARIABLE part

edgeVars == <<part, readerVars, shutdownVars>>

EdgesInit == part \in {"reader", "shutdown"} /\ ReaderInit /\ ShutdownInit

EdgesNext ==
  \/ part = "reader" /\ ReaderNext /\ UNCHANGED <<part, shutdownVars>>
  \/ part = "shutdown" /\ ShutdownNext /\ UNCHANGED <<part, readerVars>>

EdgesSpec ==
  /\ EdgesInit /\ [][EdgesNext]_edgeVars
  /\ WF_edgeVars(part = "reader" /\ ReadStep /\ UNCHANGED <<part, shutdownVars>>)
  /\ WF_edgeVars(part = "reader" /\ WatchTimeout /\ UNCHANGED <<part, shutdownVars>>)
  /\ WF_edgeVars(part = "reader" /\ Tick /\ UNCHANGED <<part, shutdownVars>>)
=============================================================================
