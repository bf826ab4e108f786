----------------------------- MODULE JobControl -----------------------------
(* What the queue of src/download_queue promises about one job, whatever its *)
(* workers and requests interleave into: the phases a job goes through, who  *)
(* may move it, and what an accepted cancel rules out.  DownloadQueue        *)
(* implements it.                                                            *)
EXTENDS Naturals

CONSTANTS
  Jobs,      \* every job that may ever be submitted
  Generic    \* the jobs that cannot be paused

VARIABLES
  phase,     \* [Jobs -> Phases]
  attempt,   \* [Jobs -> Nat], how often the job was resumed or retried
  accepted   \* [Jobs -> BOOLEAN], a cancel of the current attempt was accepted

vars == <<phase, attempt, accepted>>

Outcomes == {"completed", "failed", "cancelled"}

Phases == {"unborn", "waiting", "running", "paused"} \cup Outcomes

Init ==
  /\ phase = [j \in Jobs |-> "unborn"]
  /\ attempt = [j \in Jobs |-> 0]
  /\ accepted = [j \in Jobs |-> FALSE]

Move(j, to) == phase' = [phase EXCEPT ![j] = to]

Submit(j) ==
  /\ phase[j] = "unborn"
  /\ Move(j, "waiting")
  /\ UNCHANGED <<attempt, accepted>>

Start(j) ==
  /\ phase[j] = "waiting"
  /\ Move(j, "running")
  /\ UNCHANGED <<attempt, accepted>>

\* A pause cannot take back a cancel that has been accepted.
Pause(j) ==
  /\ j \notin Generic
  /\ phase[j] \in {"waiting", "running"}
  /\ ~accepted[j]
  /\ Move(j, "paused")
  /\ UNCHANGED <<attempt, accepted>>

Resume(j) ==
  /\ phase[j] = "paused"
  /\ Move(j, "waiting")
  /\ attempt' = [attempt EXCEPT ![j] = @ + 1]
  /\ UNCHANGED accepted

\* Accepting the cancel of an attempt leaves its end to the attempt; a paused
\* job has none, and ends on the spot.
AcceptCancel(j) ==
  /\ phase[j] \in {"waiting", "running", "paused"}
  /\ accepted' = [accepted EXCEPT ![j] = TRUE]
  /\ Move(j, IF phase[j] = "paused" THEN "cancelled" ELSE phase[j])
  /\ UNCHANGED attempt

\* An attempt ends in a cancellation only when a cancel was accepted, never in
\* a success after one, and only a cancellation reaches a job that never ran.
End(j, outcome) ==
  /\ phase[j] \in {"waiting", "running"}
  /\ outcome = "cancelled" => accepted[j]
  /\ outcome = "completed" => ~accepted[j]
  /\ phase[j] = "waiting" => outcome = "cancelled"
  /\ Move(j, outcome)
  /\ UNCHANGED <<attempt, accepted>>

\* The only way out of an outcome, and not out of a success.
Retry(j) ==
  /\ phase[j] \in {"failed", "cancelled"}
  /\ Move(j, "waiting")
  /\ attempt' = [attempt EXCEPT ![j] = @ + 1]
  /\ accepted' = [accepted EXCEPT ![j] = FALSE]

Next ==
  \E j \in Jobs :
    \/ Submit(j) \/ Start(j) \/ Pause(j) \/ Resume(j) \/ AcceptCancel(j) \/ Retry(j)
    \/ \E outcome \in Outcomes : End(j, outcome)

Spec == Init /\ [][Next]_vars
=============================================================================
