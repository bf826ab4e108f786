--------------------------- MODULE QueueShutdown ---------------------------
(* The stop of the process, from the end of the HTTP server to the exit: the   *)
(* deferred stops of main in their order (the job event dispatcher before the  *)
(* download manager), Shutdown of the manager against the workers it drains    *)
(* and against requests that the server's own stop did not wait for.           *)
EXTENDS Naturals, Sequences, FiniteSets

CONSTANTS
  Downloads,   \* downloads, as the manager's registry has them
  QueueSize,   \* jobEventQueueSize
  MaxRuns      \* bound on the attempts of a download

ASSUME ShutdownAssumption == QueueSize \in Nat \ {0} /\ MaxRuns \in Nat \ {0}

VARIABLES
  jobs,        \* [Downloads -> [status, run, doomed]], doomed for a cancelled context
  workers,     \* attempts: [job, run, pc, outcome]
  requests,    \* requests past the lookup of a Pause
  recorded,    \* downloads whose last outcome is in the history
  main,        \* where main and Shutdown are
  todo,        \* jobs Shutdown has not looked at, or not claimed
  paused,      \* jobs Shutdown has collected as paused
  overrun,     \* srv.Shutdown gave up on its handlers
  undrained,   \* Shutdown gave up on its workers
  stopping,    \* done of the dispatcher is closed
  dispatcher,  \* its goroutine: [pc, event]
  buffer,      \* events
  accepted,    \* events the dispatcher took, in order, with when it did
  heard,       \* events plugins were told of, in order
  dropped      \* d.dropped

shutdownVars == <<jobs, workers, requests, recorded, main, todo, paused, overrun,
                  undrained, stopping, dispatcher, buffer, accepted, heard, dropped>>

queueVars == <<jobs, workers, requests, recorded>>
mainVars == <<main, todo, paused, overrun, undrained>>
eventVars == <<stopping, dispatcher, buffer, accepted, heard, dropped>>

NoDownload == "none"

ASSUME NoDownloadAssumption == NoDownload \notin Downloads

NoJob == [status |-> "none", run |-> 0, doomed |-> FALSE]

Live == {"pending", "downloading"}

ShutdownInit ==
  /\ jobs = [d \in Downloads |-> NoJob]
  /\ workers = {} /\ requests = {} /\ recorded = {}
  /\ main = [pc |-> "serving", job |-> NoDownload] /\ todo = {} /\ paused = {}
  /\ overrun = FALSE /\ undrained = FALSE
  /\ stopping = FALSE /\ dispatcher = [pc |-> "select", event |-> <<>>]
  /\ buffer = <<>> /\ accepted = <<>> /\ heard = <<>> /\ dropped = 0

Registered == {d \in Downloads : jobs[d].status # "none"}

\* Shutdown holds dm.mu while it goes through the registry.
Locked == main.pc \in {"looking", "cancelling"}

\* Requests arrive until the server is stopped; one that overran may still run.
Serving == main.pc \in {"serving", "closing"} \/ overrun

-----------------------------------------------------------------------------
(* Requests.                                                                 *)

NewAttempt(d) ==
  /\ jobs' = [jobs EXCEPT ![d] = [status |-> "pending", run |-> @.run + 1, doomed |-> FALSE]]
  /\ workers' = workers \cup {[job |-> d, run |-> jobs[d].run + 1, pc |-> "queued", outcome |-> "none"]}

Submit(d) ==
  /\ main.pc = "serving" /\ jobs[d].status = "none"
  /\ NewAttempt(d)
  /\ UNCHANGED <<requests, recorded, mainVars, eventVars>>

\* Resume holds the registry's lock to its end.
Resume(d) ==
  /\ Serving /\ ~Locked /\ main.pc # "exit"
  /\ jobs[d].status = "paused" /\ jobs[d].run < MaxRuns
  /\ NewAttempt(d)
  /\ UNCHANGED <<requests, recorded, mainVars, eventVars>>

\* Pause holds it for its lookup only.
LookupPause(d) ==
  /\ Serving /\ ~Locked /\ main.pc # "exit"
  /\ d \in Registered /\ d \notin requests
  /\ requests' = requests \cup {d}
  /\ UNCHANGED <<jobs, workers, recorded, mainVars, eventVars>>

ClaimPause(d) ==
  /\ d \in requests /\ main.pc # "exit"
  /\ requests' = requests \ {d}
  /\ jobs' = IF jobs[d].status \in Live
             THEN [jobs EXCEPT ![d].status = "paused", ![d].doomed = TRUE] ELSE jobs
  /\ UNCHANGED <<workers, recorded, mainVars, eventVars>>

-----------------------------------------------------------------------------
(* Workers.                                                                  *)

Running == main.pc # "exit"

Becomes(w, pc) == workers' = (workers \ {w}) \cup {[w EXCEPT !.pc = pc]}

\* Mutant of Owns: whichever attempt comes first ends the job.
OwnsJob(w) == jobs[w.job].status # "paused"

Owns(w) == jobs[w.job].run = w.run /\ jobs[w.job].status \in Live

\* The context the worker took: a later attempt has its own.
Doomed(w) == jobs[w.job].run # w.run \/ jobs[w.job].doomed

ClaimStart(w) ==
  /\ Running /\ w.pc = "queued"
  /\ IF Owns(w) THEN /\ jobs' = [jobs EXCEPT ![w.job].status = "downloading"]
                     /\ Becomes(w, "transfer")
     ELSE jobs' = jobs /\ workers' = workers \ {w}
  /\ UNCHANGED <<requests, recorded, mainVars, eventVars>>

\* finishSnapshot: of an attempt that still owns its job; completed stands for
\* failed as well.
finishSnapshot(w, outcome) ==
  /\ Running
  /\ \/ w.pc = "transfer" /\ (outcome = "cancelled" <=> Doomed(w))
     \/ w.pc = "queued" /\ Doomed(w) /\ outcome = "cancelled"
  /\ IF Owns(w)
     THEN /\ jobs' = [jobs EXCEPT ![w.job].status = outcome]
          /\ workers' = (workers \ {w}) \cup {[w EXCEPT !.pc = "record", !.outcome = outcome]}
     ELSE jobs' = jobs /\ workers' = workers \ {w}
  /\ UNCHANGED <<requests, recorded, mainVars, eventVars>>

recordTerminal(w) ==
  /\ Running /\ w.pc = "record"
  /\ recorded' = recorded \cup {w.job}
  /\ Becomes(w, "announce")
  /\ UNCHANGED <<jobs, requests, mainVars, eventVars>>

-----------------------------------------------------------------------------
(* The job event dispatcher.                                                 *)

\* RecordJobEvent looks at done first.
CheckDone(w) ==
  /\ Running /\ w.pc = "announce"
  /\ IF stopping THEN workers' = workers \ {w} ELSE Becomes(w, "hand")
  /\ UNCHANGED <<jobs, requests, recorded, mainVars, eventVars>>

\* Then it hands the event over or drops it.
HandOver(w) ==
  /\ Running /\ w.pc = "hand"
  /\ IF Len(buffer) < QueueSize
     THEN /\ buffer' = Append(buffer, <<w.job, w.outcome>>)
          /\ accepted' = Append(accepted, [event |-> <<w.job, w.outcome>>, late |-> stopping])
          /\ dropped' = dropped
     ELSE UNCHANGED <<buffer, accepted>> /\ dropped' = dropped + 1
  /\ workers' = workers \ {w}
  /\ UNCHANGED <<jobs, requests, recorded, mainVars, stopping, dispatcher, heard>>

\* Mutant of Dispatch: an event is told of and stays with the goroutine.
DispatchAgain ==
  /\ Running /\ dispatcher.pc \in {"dispatch", "dispatchlast"} /\ Len(heard) < Len(accepted)
  /\ heard' = Append(heard, dispatcher.event)
  /\ UNCHANGED <<queueVars, mainVars, stopping, dispatcher, buffer, accepted, dropped>>

TakeEvent ==
  /\ Running /\ dispatcher.pc \in {"select", "drain"} /\ buffer # <<>>
  /\ dispatcher' = [pc |-> IF dispatcher.pc = "drain" THEN "dispatchlast" ELSE "dispatch",
                    event |-> Head(buffer)]
  /\ buffer' = Tail(buffer)
  /\ UNCHANGED <<queueVars, mainVars, stopping, accepted, heard, dropped>>

\* dispatch, whose handlers may take any time.
Dispatch ==
  /\ Running /\ dispatcher.pc \in {"dispatch", "dispatchlast"}
  /\ heard' = Append(heard, dispatcher.event)
  /\ dispatcher' = [pc |-> IF dispatcher.pc = "dispatch" THEN "select" ELSE "drain", event |-> <<>>]
  /\ UNCHANGED <<queueVars, mainVars, stopping, buffer, accepted, dropped>>

\* Mutant of SeeDone: the goroutine leaves as soon as it sees done.
SeeDoneAndLeave ==
  /\ Running /\ stopping /\ dispatcher.pc = "select"
  /\ dispatcher' = [dispatcher EXCEPT !.pc = "gone"]
  /\ UNCHANGED <<queueVars, mainVars, stopping, buffer, accepted, heard, dropped>>

\* The select between done and events is not ranked; what is queued is drained
\* before the goroutine leaves.
SeeDone ==
  /\ Running
  /\ \/ stopping /\ dispatcher.pc = "select" /\ dispatcher' = [dispatcher EXCEPT !.pc = "drain"]
     \/ dispatcher.pc = "drain" /\ buffer = <<>> /\ dispatcher' = [dispatcher EXCEPT !.pc = "gone"]
  /\ UNCHANGED <<queueVars, mainVars, stopping, buffer, accepted, heard, dropped>>

-----------------------------------------------------------------------------
(* main after the signal, and Shutdown.                                      *)

Goes(pc, d) == main' = [pc |-> pc, job |-> d]

Signal ==
  /\ main.pc = "serving" /\ Goes("closing", NoDownload)
  /\ UNCHANGED <<queueVars, todo, paused, overrun, undrained, eventVars>>

\* srv.Shutdown waits for its handlers, up to its deadline; the dispatcher's Stop
\* is the first of the deferred ones.
StopDispatcher ==
  /\ main.pc = "closing"
  /\ overrun' \in IF requests = {} THEN BOOLEAN ELSE {TRUE}
  /\ stopping' = TRUE
  /\ Goes("draining", NoDownload)
  /\ UNCHANGED <<queueVars, todo, paused, undrained, dispatcher, buffer, accepted, heard, dropped>>

\* Stop returns when its goroutine has left, or after jobEventDrainTimeout; the
\* scheduler and the thumbnail worker stop, and Shutdown takes dm.mu.
LockRegistry ==
  /\ main.pc = "draining" /\ Goes("looking", NoDownload)
  /\ todo' = Registered
  /\ UNCHANGED <<queueVars, paused, overrun, undrained, eventVars>>

\* Mutant of Look: only what is active is looked for.
LookForActive(d) ==
  /\ main.pc = "looking" /\ d \in todo
  /\ todo' = todo \ {d}
  /\ IF jobs[d].status \in Live THEN Goes("cancelling", d) ELSE main' = main
  /\ UNCHANGED <<queueVars, paused, overrun, undrained, eventVars>>

\* What is active is to be cancelled, what is paused is collected.
Look(d) ==
  /\ main.pc = "looking" /\ d \in todo
  /\ todo' = todo \ {d}
  /\ IF jobs[d].status \in Live THEN Goes("cancelling", d) ELSE main' = main
  /\ paused' = IF jobs[d].status = "paused" THEN paused \cup {d} ELSE paused
  /\ UNCHANGED <<queueVars, overrun, undrained, eventVars>>

\* job.Cancel, after the job's lock was let go of and taken again.
CancelContext ==
  /\ main.pc = "cancelling"
  /\ jobs' = [jobs EXCEPT ![main.job].doomed = TRUE]
  /\ Goes("looking", NoDownload)
  /\ UNCHANGED <<workers, requests, recorded, todo, paused, overrun, undrained, eventVars>>

UnlockRegistry ==
  /\ main.pc = "looking" /\ todo = {}
  /\ Goes("abandoning", NoDownload)
  /\ UNCHANGED <<queueVars, todo, paused, overrun, undrained, eventVars>>

\* claimCancel of a job that was paused, whose outcome Shutdown itself records
\* and announces, as attempt 0; one that was resumed meanwhile loses its context.
Abandon(d) ==
  /\ main.pc = "abandoning" /\ d \in paused
  /\ paused' = paused \ {d}
  /\ CASE jobs[d].status = "paused" ->
            /\ jobs' = [jobs EXCEPT ![d].status = "cancelled"]
            /\ workers' = workers \cup {[job |-> d, run |-> 0, pc |-> "record", outcome |-> "cancelled"]}
            /\ Goes("recording", NoDownload)
       [] jobs[d].status \in Live ->
            jobs' = [jobs EXCEPT ![d].doomed = TRUE] /\ UNCHANGED <<workers, main>>
       [] OTHER -> UNCHANGED <<jobs, workers, main>>
  /\ UNCHANGED <<requests, recorded, todo, overrun, undrained, eventVars>>

Abandoned ==
  /\ main.pc = "recording" /\ \A w \in workers : w.run # 0
  /\ Goes("abandoning", NoDownload)
  /\ UNCHANGED <<queueVars, todo, paused, overrun, undrained, eventVars>>

\* The wait for the workers, up to ShutdownDrainTimeout, and the exit.
Exit ==
  /\ main.pc = "abandoning" /\ paused = {}
  /\ undrained' = (workers # {})
  /\ Goes("exit", NoDownload)
  /\ UNCHANGED <<queueVars, todo, paused, overrun, eventVars>>

-----------------------------------------------------------------------------
ShutdownNext ==
  \/ \E d \in Downloads :
       Submit(d) \/ Resume(d) \/ LookupPause(d) \/ ClaimPause(d) \/ Look(d) \/ Abandon(d)
  \/ \E w \in workers :
       \/ ClaimStart(w) \/ recordTerminal(w) \/ CheckDone(w) \/ HandOver(w)
       \/ \E outcome \in {"completed", "cancelled"} : finishSnapshot(w, outcome)
  \/ TakeEvent \/ Dispatch \/ SeeDone
  \/ Signal \/ StopDispatcher \/ LockRegistry \/ CancelContext \/ UnlockRegistry
  \/ Abandoned \/ Exit

ShutdownSpec == ShutdownInit /\ [][ShutdownNext]_shutdownVars

-----------------------------------------------------------------------------
(* Properties.                                                               *)

Terminal == {"completed", "cancelled"}

Reporting == {"record", "announce", "hand"}

Stopping == {"draining", "looking", "cancelling", "abandoning", "recording", "exit"}

\* Plugins are told of the events in the order the queue finished the jobs, each
\* once, across the drain of a stop: what was accepted is what was heard, what is
\* being dispatched and what is in the buffer.
HeardInOrder ==
  [i \in DOMAIN accepted |-> accepted[i].event] =
    heard \o (IF dispatcher.event = <<>> THEN <<>> ELSE <<dispatcher.event>>) \o buffer

\* "A shutdown does not discard events the queue already handed over": when the
\* goroutine has left, it leaves none that was handed over before done was closed.
HandedOverHeard ==
  dispatcher.pc = "gone" => \A i \in DOMAIN accepted : i > Len(heard) => accepted[i].late

\* No download ends twice: not by its worker and by Shutdown, not by two attempts.
OneOutcomeEach ==
  \A i, j \in DOMAIN accepted : accepted[i].event[1] = accepted[j].event[1] => i = j

\* The exit leaves no download without its outcome in the history, paused ones
\* included, unless a bound was overrun.
OutcomesRecorded ==
  main.pc = "exit" /\ ~undrained /\ ~overrun => Registered \subseteq recorded

\* Every variable of the stop keeps its type.
ShutdownTypes ==
  /\ jobs \in [Downloads -> [status : {"none", "paused"} \cup Live \cup Terminal,
                            run : Nat, doomed : BOOLEAN]]
  /\ workers \subseteq [job : Downloads, run : Nat,
                       pc : {"queued", "transfer"} \cup Reporting, outcome : {"none"} \cup Terminal]
  /\ requests \subseteq Downloads /\ recorded \subseteq Downloads
  /\ main \in [pc : {"serving", "closing"} \cup Stopping, job : Downloads \cup {NoDownload}]
  /\ todo \subseteq Downloads /\ paused \subseteq Downloads
  /\ overrun \in BOOLEAN /\ undrained \in BOOLEAN /\ stopping \in BOOLEAN
  /\ dispatcher \in [pc : {"select", "dispatch", "drain", "dispatchlast", "gone"},
                     event : {<<>>} \cup (Downloads \X Terminal)]
  /\ buffer \in Seq(Downloads \X Terminal) /\ heard \in Seq(Downloads \X Terminal)
  /\ accepted \in Seq([event : Downloads \X Terminal, late : BOOLEAN])
  /\ dropped \in Nat

\* The dispatcher holds an event exactly while it tells of one, and leaves the
\* select for good only when it is stopped.
DispatcherInStep ==
  /\ dispatcher.event # <<>> <=> dispatcher.pc \in {"dispatch", "dispatchlast"}
  /\ dispatcher.pc \in {"drain", "dispatchlast", "gone"} => stopping

\* Whoever reports an outcome is the one who brought the job to it, and reports once.
ReportersSettle ==
  /\ \A v, w \in workers : v.pc \in Reporting /\ w.pc \in Reporting /\ v.job = w.job => v = w
  /\ \A w \in workers : w.pc \in Reporting =>
       w.outcome \in Terminal /\ jobs[w.job].status \in Terminal
  /\ \A i \in DOMAIN accepted :
       /\ jobs[accepted[i].event[1]].status \in Terminal
       /\ \A w \in workers : w.pc \in Reporting => w.job # accepted[i].event[1]

\* A live download has an attempt that still owns it, one that is over is in the
\* history or with who records it.
DownloadsManned ==
  \A d \in Downloads :
    /\ jobs[d].status \in Live =>
         \E w \in workers : w.job = d /\ w.run = jobs[d].run /\ w.pc \in {"queued", "transfer"}
    /\ jobs[d].status \in Terminal =>
         d \in recorded \/ \E w \in workers : w.job = d /\ w.pc = "record"

\* A stop that waited for every request finds each paused download: it has yet to
\* look at it or has collected it.
PausedFound ==
  main.pc \in Stopping /\ ~overrun =>
    /\ requests = {}
    /\ main.pc # "draining" => \A d \in Downloads :
         jobs[d].status = "paused" =>
           d \in paused \/ (d \in todo /\ main.pc \in {"looking", "cancelling"})
    /\ main.pc = "exit" => paused = {} /\ (undrained \/ workers = {})

ShutdownStrengthening ==
  ShutdownTypes /\ DispatcherInStep /\ ReportersSettle /\ DownloadsManned /\ PausedFound

\* A stop: one outcome for each download, every one recorded, and their events heard in
\* order, once, with none lost that was handed over in time; and what makes that
\* inductive.
StopLosesNothing ==
  OneOutcomeEach /\ OutcomesRecorded /\ HeardInOrder /\ HandedOverHeard /\ ShutdownStrengthening
=============================================================================
