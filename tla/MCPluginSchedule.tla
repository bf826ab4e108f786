-------------------------- MODULE MCPluginSchedule --------------------------
(* Instances of PluginSchedule for TLC: two processes whose goroutines keep  *)
(* their bounds, or one whose goroutines and writes do as they like.         *)
EXTENDS PluginSchedule, TLC

VARIABLE part

schedulesVars == <<part, vars>>

\* Processes and dispatch goroutines are interchangeable.
ScheduleSymmetry == Permutations(Hosts) \cup Permutations(Attempts)

SchedulesInit == part \in {"in time", "stalls"} /\ Init

\* Time waits for who is at the limit, and every schedule has the policy skip.
InTimeNext ==
  /\ Next
  /\ clock' # clock => (\A a \in Attempts : InTime(a)) /\ (\A h \in Hosts : TickerInTime(h))
  /\ \A h \in Hosts : plugin'[h].overlap = "skip"

\* The first process that does anything is the only one.
StallsNext ==
  /\ Next
  /\ Cardinality({h \in Hosts : plugin'[h].gen > 0 \/ ticker'[h] # IdleTicker}) <= 1

SchedulesNext ==
  /\ (part = "in time" /\ InTimeNext) \/ (part = "stalls" /\ StallsNext)
  /\ UNCHANGED part

SchedulesSpec == SchedulesInit /\ [][SchedulesNext]_schedulesVars
=============================================================================
