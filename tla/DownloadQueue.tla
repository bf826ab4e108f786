--------------------------- MODULE DownloadQueue ---------------------------
(* The background job queue of src/download_queue: the registry of jobs, the *)
(* per-attempt worker goroutines, and the controls (Cancel, Pause, Resume,   *)
(* Retry, ClearFinished, RemoveFinished) that HTTP requests issue beside     *)
(* them.  One step is one critical section, channel operation or database    *)
(* statement of the code; a goroutine can be descheduled between any two.    *)
EXTENDS Naturals, FiniteSets

CONSTANTS
  Jobs,          \* every job that may ever be submitted
  Generic,       \* the jobs with a runFn: exports, imports, plugin jobs
  Clients,       \* request goroutines calling the manager
  Concurrency,   \* capacity of the semaphore (MaxConcurrentDownloads)
  MaxQueueSize,  \* capacity of the registry
  MaxRun,        \* bound on runID: at most MaxRun Resumes and Retries of a job
  StoreFails     \* whether a history write may fail (the error is swallowed)

ASSUME QueueAssumption ==
  /\ Generic \subseteq Jobs
  /\ Concurrency \in Nat \ {0}
  /\ MaxQueueSize \in Nat \ {0}
  /\ MaxRun \in Nat
  /\ StoreFails \in BOOLEAN

Runs == 0..MaxRun

\* A goroutine is named by its job and by the run that spawned it; the run it
\* works for is what attempt() returned, which may be a later one.
Workers == Jobs \X Runs

Active   == {"pending", "downloading", "processing"}
Terminal == {"completed", "failed", "cancelled"}
Unborn   == "unborn"     \* the job has not been submitted yet

VARIABLES
  job,        \* [Jobs -> the DownloadJob's fields]
  ctxDone,    \* the <<job, run>> whose context has been cancelled
  clock,      \* [Jobs -> Nat], the latest completedAt stamped on the job
  registry,   \* the jobs in the manager's map
  older,      \* jobOrder: <<j, k>> when j was submitted before k
  worker,     \* [Workers -> state of the goroutine]
  client,     \* [Clients -> state of the request]
  view,       \* [Jobs -> the row a subscriber that keeps up is showing]
  history,    \* [Jobs -> the download_history_entries row]
  announced   \* [Jobs \X Runs -> number of job events emitted for the run]

vars == <<job, ctxDone, clock, registry, older, worker, client, view,
          history, announced>>

-----------------------------------------------------------------------------
(* State.                                                                    *)

Statuses == Active \cup Terminal \cup {"paused", Unborn}

\* What snapshotLocked copies, as far as anything here reads it; run is the
\* attempt the snapshot was taken of.
Snapshots == [status : Statuses, run : Nat, completedAt : Nat, resourceID : Nat]

NoSnapshot == [status |-> Unborn, run |-> 0, completedAt |-> 0, resourceID |-> 0]

snapshotLocked(fields) ==
  [status |-> fields.status, run |-> fields.runID,
   completedAt |-> fields.completedAt, resourceID |-> fields.resourceID]

NewJob == [status |-> Unborn, runID |-> 0, cancelRequested |-> FALSE,
           completedAt |-> 0, resourceID |-> 0, discarded |-> FALSE]

NoJob == "no job"

IdleClient == [pc |-> "idle", job |-> NoJob, run |-> 0, time |-> 0,
               snap |-> NoSnapshot, rest |-> {}]

NoWorker == [pc |-> "none", run |-> 0, slot |-> FALSE, outcome |-> Unborn,
             snap |-> NoSnapshot]

Init ==
  /\ job = [j \in Jobs |-> NewJob]
  /\ ctxDone = {}
  /\ clock = [j \in Jobs |-> 0]
  /\ registry = {}
  /\ older = {}
  /\ worker = [w \in Workers |-> NoWorker]
  /\ client = [c \in Clients |-> IdleClient]
  /\ view = [j \in Jobs |-> Unborn]
  /\ history = [j \in Jobs |-> NoSnapshot]
  /\ announced = [w \in Workers |-> 0]

-----------------------------------------------------------------------------
(* Predicates and writes shared by the actions.                              *)

activeLocked(j) == job[j].status \in Active

\* Mutants of ownedByRunLocked, not the code: the job's run is not compared, and
\* a pending job is taken to have no owner.
OwnedByAnyRun(j, run) == activeLocked(j)
OwnedOnceStarted(j, run) == job[j].runID = run /\ job[j].status \in {"downloading", "processing"}

ownedByRunLocked(j, run) == job[j].runID = run /\ activeLocked(j)

canCancelLocked(j) == job[j].status \in Active \cup {"paused"}

canPauseLocked(j) == j \notin Generic /\ job[j].status \in {"pending", "downloading"}

\* Mutant of canRetryLocked: every finished job can be retried.
CanRetryFinished(j) == job[j].status \in Terminal

canRetryLocked(j) == job[j].status \in {"failed", "cancelled"}

Cancelled(j, run) == <<j, run>> \in ctxDone

\* cancelLocked: cancels the context of the attempt the job currently holds.
cancelLocked(j) == ctxDone' = ctxDone \cup {<<j, job[j].runID>>}

\* Mutant of Shown: an update about a row that is not shown creates it.
ShownAgain(event, row, now) == IF event = "removed" THEN Unborn ELSE now

\* The subscriber's row after an event about a job whose status is now: an
\* update is looked up by id, so one about a row it does not have is dropped.
Shown(event, row, now) ==
  IF event = "removed" \/ (event = "updated" /\ row = Unborn) THEN Unborn ELSE now

\* Snapshot and publish are one step (notifyMu).
notifyJob(event, j) ==
  view' = [view EXCEPT ![j] = Shown(event, @, job[j].status)]

\* Resume and Retry hold the registry's read lock until they have notified.
Reading == \E c \in Clients : client[c].pc \in {"restarting", "restarted"}

InStatus(S) == {j \in registry : job[j].status \in S}

\* The singleton of the job of S that jobOrder lists first.
Oldest(S) == {j \in S : \A k \in S \ {j} : <<j, k>> \in older}

\* makeRoomForNewJob: the jobs evicted to admit one more.
Full == Cardinality(registry) >= MaxQueueSize

Evicted ==
  IF ~Full THEN {}
  ELSE IF InStatus({"completed"}) # {} THEN Oldest(InStatus({"completed"}))
  ELSE Oldest(InStatus({"failed", "cancelled"}))

Holders == {w \in Workers : worker[w].slot}

\* Mutants of Upsert: the last writer wins, and the first one does.
LastRow(row, snap) == snap
FirstRow(row, snap) == IF row = NoSnapshot THEN snap ELSE row

\* The upsert of RecordTerminalDownload: an outcome never overwrites a newer one.
Upsert(row, snap) ==
  IF row = NoSnapshot \/ snap.completedAt >= row.completedAt THEN snap ELSE row

-----------------------------------------------------------------------------
(* Requests.                                                                 *)

ClientAt(c, pc) == client[c].pc = pc

\* Submit and SubmitJobWithOptions, up to the registry's unlock.  Eviction and
\* the "added" event happen under the registry lock.
Submit(c, j) ==
  /\ ClientAt(c, "idle")
  /\ job[j].status = Unborn
  /\ ~Reading
  /\ Full => InStatus(Terminal) # {}
  /\ registry' = (registry \ Evicted) \cup {j}
  /\ older' = older \cup (registry \X {j})
  /\ job' = [job EXCEPT ![j].status = "pending"]
  /\ view' = [k \in Jobs |-> IF k = j THEN "pending"
                             ELSE IF k \in Evicted THEN Unborn ELSE view[k]]
  /\ client' = [client EXCEPT ![c] = [IdleClient EXCEPT !.pc = "submitted", !.job = j]]
  /\ UNCHANGED <<ctxDone, clock, worker, history, announced>>

\* The go statement of a run: after Submit's unlock, or inside Resume / Retry.
Spawn(c) ==
  LET w == <<client[c].job, client[c].run>> IN
  /\ client[c].pc \in {"submitted", "restarting"}
  /\ worker' = [worker EXCEPT ![w].pc = "spawned"]
  /\ client' = [client EXCEPT ![c] =
                  IF ClientAt(c, "submitted") THEN IdleClient
                  ELSE [client[c] EXCEPT !.pc = "restarted"]]
  /\ UNCHANGED <<job, ctxDone, clock, registry, older, view, history, announced>>

\* Cancel and Pause look the job up, drop the registry lock, and claim later.
\* Cancel's time.Now() is evaluated before claimCancel takes the job's lock.
Lookup(c, j, claim) ==
  /\ ClientAt(c, "idle")
  /\ j \in registry
  /\ client' = [client EXCEPT ![c] =
                  [IdleClient EXCEPT !.pc = claim, !.job = j,
                     !.time = IF claim = "cancelling" THEN clock[j] + 1 ELSE 0]]
  /\ UNCHANGED <<job, ctxDone, clock, registry, older, worker, view, history, announced>>

\* Mutant of CancelActive: the context is cancelled, the intent is not recorded.
CancelContextOnly(c) ==
  /\ ClientAt(c, "cancelling")
  /\ activeLocked(client[c].job)
  /\ cancelLocked(client[c].job)
  /\ client' = [client EXCEPT ![c] = IdleClient]
  /\ UNCHANGED <<job, clock, registry, older, worker, view, history, announced>>

\* claimCancel on an active job: the terminal state is left to the worker.
CancelActive(c) ==
  LET j == client[c].job IN
  /\ ClientAt(c, "cancelling")
  /\ activeLocked(j)
  /\ job' = [job EXCEPT ![j].cancelRequested = TRUE]
  /\ cancelLocked(j)
  /\ client' = [client EXCEPT ![c] = IdleClient]
  /\ UNCHANGED <<clock, registry, older, worker, view, history, announced>>

\* Mutant of CancelPaused: the completion time is left to a worker.
CancelPausedUnstamped(c) ==
  LET after == [job[client[c].job] EXCEPT !.status = "cancelled", !.cancelRequested = TRUE] IN
  /\ ClientAt(c, "cancelling")
  /\ job[client[c].job].status = "paused"
  /\ job' = [job EXCEPT ![client[c].job] = after]
  /\ cancelLocked(client[c].job)
  /\ client' = [client EXCEPT ![c].pc = "stamped", ![c].snap = snapshotLocked(after)]
  /\ UNCHANGED <<clock, registry, older, worker, view, history, announced>>

\* claimCancel on a paused job: no worker is left, so the claim stamps it.
CancelPaused(c) ==
  LET j == client[c].job
      after == [job[j] EXCEPT !.status = "cancelled", !.cancelRequested = TRUE,
                              !.completedAt = client[c].time]
  IN
  /\ ClientAt(c, "cancelling")
  /\ job[j].status = "paused"
  /\ job' = [job EXCEPT ![j] = after]
  /\ cancelLocked(j)
  /\ clock' = [clock EXCEPT ![j] = IF client[c].time > @ THEN client[c].time ELSE @]
  /\ client' = [client EXCEPT ![c].pc = "stamped", ![c].snap = snapshotLocked(after)]
  /\ UNCHANGED <<registry, older, worker, view, history, announced>>

\* Mutants of ClaimPause: an accepted cancel does not refuse it, and the attempt's
\* context is left alone.
PauseDespiteCancel(c) ==
  LET j == client[c].job IN
  /\ ClientAt(c, "pausing")
  /\ canPauseLocked(j)
  /\ job' = [job EXCEPT ![j].status = "paused"]
  /\ cancelLocked(j)
  /\ client' = [client EXCEPT ![c].pc = "notifying"]
  /\ UNCHANGED <<clock, registry, older, worker, view, history, announced>>

PauseKeepsContext(c) ==
  LET j == client[c].job IN
  /\ ClientAt(c, "pausing")
  /\ ~job[j].cancelRequested
  /\ canPauseLocked(j)
  /\ job' = [job EXCEPT ![j].status = "paused"]
  /\ client' = [client EXCEPT ![c].pc = "notifying"]
  /\ UNCHANGED <<ctxDone, clock, registry, older, worker, view, history, announced>>

\* claimPause: refused once a cancel is accepted, and for generic jobs.
ClaimPause(c) ==
  LET j == client[c].job IN
  /\ ClientAt(c, "pausing")
  /\ ~job[j].cancelRequested
  /\ canPauseLocked(j)
  /\ job' = [job EXCEPT ![j].status = "paused"]
  /\ cancelLocked(j)
  /\ client' = [client EXCEPT ![c].pc = "notifying"]
  /\ UNCHANGED <<clock, registry, older, worker, view, history, announced>>

\* A claim that lost: the caller is told of the conflict and nothing changes.
ClaimRefused(c) ==
  LET j == client[c].job IN
  /\ \/ ClientAt(c, "cancelling") /\ ~canCancelLocked(j)
     \/ ClientAt(c, "pausing") /\ (job[j].cancelRequested \/ ~canPauseLocked(j))
  /\ client' = [client EXCEPT ![c] = IdleClient]
  /\ UNCHANGED <<job, ctxDone, clock, registry, older, worker, view, history, announced>>

\* Mutant of Restart: the request is answered without a worker for the new run.
RestartUnmanned(c, j, after) ==
  /\ ClientAt(c, "idle")
  /\ j \in registry
  /\ job[j].runID < MaxRun
  /\ job' = [job EXCEPT ![j] = after]
  /\ client' = [client EXCEPT ![c] = [IdleClient EXCEPT !.pc = "restarted", !.job = j,
                                                       !.run = after.runID]]
  /\ UNCHANGED <<ctxDone, clock, registry, older, worker, view, history, announced>>

\* Resume and Retry: lookup and claim under the registry's read lock, which the
\* request keeps until its worker is spawned and the change is notified.
Restart(c, j, after) ==
  /\ ClientAt(c, "idle")
  /\ j \in registry
  /\ job[j].runID < MaxRun
  /\ job' = [job EXCEPT ![j] = after]
  /\ client' = [client EXCEPT ![c] = [IdleClient EXCEPT !.pc = "restarting", !.job = j,
                                                       !.run = after.runID]]
  /\ UNCHANGED <<ctxDone, clock, registry, older, worker, view, history, announced>>

Resume(c, j) ==
  /\ ~job[j].cancelRequested
  /\ job[j].status = "paused"
  /\ Restart(c, j, [job[j] EXCEPT !.runID = job[j].runID + 1, !.status = "pending"])

\* Mutant of Retry: the completion time of the failed attempt stays.
RetryKeepsTime(c, j) ==
  /\ canRetryLocked(j)
  /\ Restart(c, j, [job[j] EXCEPT !.runID = job[j].runID + 1, !.status = "pending",
                                  !.cancelRequested = FALSE, !.resourceID = 0])

Retry(c, j) ==
  /\ canRetryLocked(j)
  /\ Restart(c, j, [job[j] EXCEPT !.runID = job[j].runID + 1, !.status = "pending",
                                  !.cancelRequested = FALSE,
                                  !.completedAt = 0, !.resourceID = 0])

\* The notification that ends Pause, Resume and Retry.
NotifyControl(c) ==
  /\ client[c].pc \in {"notifying", "restarted"}
  /\ notifyJob("updated", client[c].job)
  /\ client' = [client EXCEPT ![c] = IdleClient]
  /\ UNCHANGED <<job, ctxDone, clock, registry, older, worker, history, announced>>

\* Mutant of RemoveTerminal: the status of the jobs is not looked at again.
RemoveAny(c, gone, pc) ==
  /\ ClientAt(c, "idle")
  /\ ~Reading
  /\ gone # {}
  /\ gone \subseteq registry
  /\ registry' = registry \ gone
  /\ client' = [client EXCEPT ![c] = [IdleClient EXCEPT !.pc = pc, !.rest = gone]]
  /\ UNCHANGED <<job, ctxDone, clock, older, worker, view, history, announced>>

\* ClearFinished and RemoveFinished delete under the write lock the terminal
\* jobs the caller may see (and, for the latter, has named), then tell the
\* subscribers outside it.
RemoveTerminal(c, gone, pc) ==
  /\ ClientAt(c, "idle")
  /\ ~Reading
  /\ gone # {}
  /\ gone \subseteq InStatus(Terminal)
  /\ registry' = registry \ gone
  /\ client' = [client EXCEPT ![c] = [IdleClient EXCEPT !.pc = pc, !.rest = gone]]
  /\ UNCHANGED <<job, ctxDone, clock, older, worker, view, history, announced>>

ClearFinished(c) == \E gone \in SUBSET registry : RemoveTerminal(c, gone, "clearing")

RemoveFinished(c) == \E gone \in SUBSET registry : RemoveTerminal(c, gone, "discarding")

\* RemoveFinished marks a job before announcing that it has gone.
MarkDiscarded(c, j) ==
  /\ ClientAt(c, "discarding")
  /\ j \in client[c].rest
  /\ job' = [job EXCEPT ![j].discarded = TRUE]
  /\ client' = [client EXCEPT ![c].pc = "discarded", ![c].job = j]
  /\ UNCHANGED <<ctxDone, clock, registry, older, worker, view, history, announced>>

NotifyRemoved(c, j) ==
  /\ \/ ClientAt(c, "clearing") /\ j \in client[c].rest
     \/ ClientAt(c, "discarded") /\ j = client[c].job
  /\ notifyJob("removed", j)
  /\ client' = [client EXCEPT ![c] =
                  IF client[c].rest = {j} THEN IdleClient
                  ELSE [IdleClient EXCEPT
                          !.rest = client[c].rest \ {j},
                          !.pc = IF ClientAt(c, "clearing") THEN "clearing" ELSE "discarding"]]
  /\ UNCHANGED <<job, ctxDone, clock, registry, older, worker, history, announced>>

\* cleanupOldJobs: ages are abstracted, so any job with a completion time and
\* any paused job may be past its retention window.
CleanupOldJobs ==
  /\ ~Reading
  /\ \E gone \in SUBSET {j \in registry : job[j].completedAt # 0 \/ job[j].status = "paused"} :
       /\ gone # {}
       /\ registry' = registry \ gone
       /\ view' = [j \in Jobs |-> IF j \in gone THEN Unborn ELSE view[j]]
  /\ UNCHANGED <<job, ctxDone, clock, older, worker, client, history, announced>>

-----------------------------------------------------------------------------
(* Workers: processJob and processGenericJob.                                *)

WorkerAt(w, pc) == worker[w].pc = pc

\* Mutant of Returned: the slot is not given back.
ReturnedWithSlot(w) == [worker[w] EXCEPT !.pc = "returned", !.outcome = Unborn, !.snap = NoSnapshot]

\* The goroutine returns and its deferred functions run.
Returned(w) == [NoWorker EXCEPT !.pc = "returned", !.run = worker[w].run]

\* attempt(): the run and the context are read when the goroutine first runs.
Attempt(w) ==
  /\ WorkerAt(w, "spawned")
  /\ worker' = [worker EXCEPT ![w].pc = "queued", ![w].run = job[w[1]].runID]
  /\ UNCHANGED <<job, ctxDone, clock, registry, older, client, view, history, announced>>

AcquireSlot(w) ==
  /\ WorkerAt(w, "queued")
  /\ Cardinality(Holders) < Concurrency
  /\ worker' = [worker EXCEPT ![w].pc = "slot", ![w].slot = TRUE]
  /\ UNCHANGED <<job, ctxDone, clock, registry, older, client, view, history, announced>>

\* Mutant of finishSnapshot: a success is a success, whatever has been requested.
FinishAsDecided(w, status, resourceID) ==
  LET j == w[1]
      after == [job[j] EXCEPT !.status = status, !.completedAt = clock[j] + 2,
                  !.resourceID = IF resourceID # 0 THEN resourceID ELSE job[j].resourceID]
  IN
  IF ownedByRunLocked(j, worker[w].run)
  THEN /\ job' = [job EXCEPT ![j] = after]
       /\ clock' = [clock EXCEPT ![j] = after.completedAt]
       /\ worker' = [worker EXCEPT ![w].pc = "stamped", ![w].snap = snapshotLocked(after),
                                   ![w].outcome = Unborn]
  ELSE /\ worker' = [worker EXCEPT ![w] = Returned(w)]
       /\ UNCHANGED <<job, clock>>

\* finishSnapshot: one critical section that refuses a run that no longer owns
\* the job, and turns the success of a cancelled job into a cancellation.
finishSnapshot(w, status, resourceID) ==
  LET j == w[1]
      after == [job[j] EXCEPT
                  !.status = IF status = "completed" /\ job[j].cancelRequested
                             THEN "cancelled" ELSE status,
                  !.completedAt = clock[j] + 2,
                  !.resourceID = IF resourceID # 0 THEN resourceID ELSE job[j].resourceID]
  IN
  IF ownedByRunLocked(j, worker[w].run)
  THEN /\ job' = [job EXCEPT ![j] = after]
       /\ clock' = [clock EXCEPT ![j] = after.completedAt]
       /\ worker' = [worker EXCEPT ![w].pc = "stamped", ![w].snap = snapshotLocked(after),
                                   ![w].outcome = Unborn]
  ELSE /\ worker' = [worker EXCEPT ![w] = Returned(w)]
       /\ UNCHANGED <<job, clock>>

\* Mutant of GiveUpQueued: the worker leaves without a terminal write.
GiveUpUnstamped(w) ==
  /\ WorkerAt(w, "queued")
  /\ Cancelled(w[1], worker[w].run)
  /\ worker' = [worker EXCEPT ![w] = Returned(w)]
  /\ UNCHANGED <<job, ctxDone, clock, registry, older, client, view, history, announced>>

\* The other arm of the select: the context ended before a slot was free.
GiveUpQueued(w) ==
  /\ WorkerAt(w, "queued")
  /\ Cancelled(w[1], worker[w].run)
  /\ finishSnapshot(w, "cancelled", 0)
  /\ UNCHANGED <<ctxDone, registry, older, client, view, history, announced>>

\* Mutant of ClaimStart: a job whose cancel was accepted is not started.
ClaimStartUncancelled(w) ==
  LET j == w[1] IN
  /\ WorkerAt(w, "slot")
  /\ IF job[j].runID = worker[w].run /\ job[j].status = "pending" /\ ~job[j].cancelRequested
     THEN /\ job' = [job EXCEPT ![j].status = "downloading"]
          /\ worker' = [worker EXCEPT ![w].pc = "started"]
     ELSE /\ worker' = [worker EXCEPT ![w] = Returned(w)]
          /\ UNCHANGED job
  /\ UNCHANGED <<ctxDone, clock, registry, older, client, view, history, announced>>

ClaimStart(w) ==
  LET j == w[1] IN
  /\ WorkerAt(w, "slot")
  /\ IF job[j].runID = worker[w].run /\ job[j].status = "pending"
     THEN /\ job' = [job EXCEPT ![j].status =
                        IF j \in Generic THEN "processing" ELSE "downloading"]
          /\ worker' = [worker EXCEPT ![w].pc = "started"]
     ELSE /\ worker' = [worker EXCEPT ![w] = Returned(w)]
          /\ UNCHANGED job
  /\ UNCHANGED <<ctxDone, clock, registry, older, client, view, history, announced>>

\* A progress write.  A download's is gated on owning the job; the sink of a
\* generic job writes unconditionally.  Counters are not modelled, their
\* notification is.
Progress(w) ==
  /\ WorkerAt(w, "fetching")
  /\ w[1] \in Generic \/ ownedByRunLocked(w[1], worker[w].run)
  /\ worker' = [worker EXCEPT ![w].pc = "progress"]
  /\ UNCHANGED <<job, ctxDone, clock, registry, older, client, view, history, announced>>

\* The transfer reads EOF: only possible while its context is live, because an
\* abandoned read outranks its result.
ReachEOF(w) ==
  /\ WorkerAt(w, "fetching")
  /\ w[1] \notin Generic
  /\ ~Cancelled(w[1], worker[w].run)
  /\ worker' = [worker EXCEPT ![w].pc = "eof"]
  /\ UNCHANGED <<job, ctxDone, clock, registry, older, client, view, history, announced>>

\* onComplete: the status first, then the notification, and neither when the
\* run no longer owns the job.
SetProcessing(w) ==
  LET j == w[1] IN
  /\ WorkerAt(w, "eof")
  /\ IF ownedByRunLocked(j, worker[w].run)
     THEN /\ job' = [job EXCEPT ![j].status = "processing"]
          /\ worker' = [worker EXCEPT ![w].pc = "processing"]
     ELSE /\ worker' = [worker EXCEPT ![w].pc = "saving"]
          /\ UNCHANGED job
  /\ UNCHANGED <<ctxDone, clock, registry, older, client, view, history, announced>>

\* Mutant of TransferFails: the outcome is read off the job, not off the context.
FailsAsShown(w) ==
  /\ worker[w].pc \in {"fetching", "saving"}
  /\ w[1] \notin Generic
  /\ worker' = [worker EXCEPT ![w].pc = "finishing", ![w].outcome = job[w[1]].status]
  /\ UNCHANGED <<job, ctxDone, clock, registry, older, client, view, history, announced>>

\* The transfer or the resource write fails; ctx.Err() says how to call it.
TransferFails(w) ==
  /\ worker[w].pc \in {"fetching", "saving"}
  /\ w[1] \notin Generic
  /\ worker' = [worker EXCEPT ![w].pc = "finishing",
                  ![w].outcome = IF Cancelled(w[1], worker[w].run) THEN "cancelled" ELSE "failed"]
  /\ UNCHANGED <<job, ctxDone, clock, registry, older, client, view, history, announced>>

\* AddResource succeeds: the file exists whatever has happened to the job.
SaveResource(w) ==
  /\ WorkerAt(w, "saving")
  /\ worker' = [worker EXCEPT ![w].pc = "finishing", ![w].outcome = "completed"]
  /\ UNCHANGED <<job, ctxDone, clock, registry, older, client, view, history, announced>>

\* A generic job's runFn returns; its context outranks what it returned.
RunFnReturns(w) ==
  /\ WorkerAt(w, "fetching")
  /\ w[1] \in Generic
  /\ \E outcome \in {"completed", "failed"} :
       worker' = [worker EXCEPT ![w].pc = "finishing",
                    ![w].outcome = IF Cancelled(w[1], worker[w].run) THEN "cancelled" ELSE outcome]
  /\ UNCHANGED <<job, ctxDone, clock, registry, older, client, view, history, announced>>

\* The terminal write.  A resource is numbered by the run that saved it.
Finish(w) ==
  LET saved == worker[w].outcome = "completed" /\ w[1] \notin Generic IN
  /\ WorkerAt(w, "finishing")
  /\ finishSnapshot(w, worker[w].outcome, IF saved THEN worker[w].run + 1 ELSE 0)
  /\ UNCHANGED <<ctxDone, registry, older, client, view, history, announced>>

\* The notification that follows each write of a worker, and where it leads.
AfterNotify(w) ==
  CASE worker[w].pc = "started"    -> [worker[w] EXCEPT !.pc = "fetching"]
    [] worker[w].pc = "progress"   -> [worker[w] EXCEPT !.pc = "fetching"]
    [] worker[w].pc = "processing" -> [worker[w] EXCEPT !.pc = "saving"]
    [] worker[w].pc = "stamped"    -> IF w[1] \in Generic THEN Returned(w)
                                      ELSE [worker[w] EXCEPT !.pc = "recording"]

NotifyWorker(w) ==
  /\ worker[w].pc \in {"started", "progress", "processing", "stamped"}
  /\ notifyJob("updated", w[1])
  /\ worker' = [worker EXCEPT ![w] = AfterNotify(w)]
  /\ UNCHANGED <<job, ctxDone, clock, registry, older, client, history, announced>>

-----------------------------------------------------------------------------
(* recordTerminal and emitJobEvent, called with the snapshot of the stamp by *)
(* the worker that stamped, or by the Cancel that stamped a paused job.      *)

\* The row is skipped when the job was discarded by the time of the check.
NextAfterCheck(j) == IF job[j].discarded THEN "emitting" ELSE "writing"

\* Mutant of RecordRow: the job is read again instead of the stamp's snapshot.
RecordLive(j, snap) == history' = [history EXCEPT ![j] = Upsert(@, snapshotLocked(job[j]))]

RecordRow(j, snap) ==
  \/ history' = [history EXCEPT ![j] = Upsert(@, snap)]
  \/ StoreFails /\ UNCHANGED history

\* Mutant of emitJobEvent: the event is about the job's run at the time it is sent.
EmitLive(j, snap) == announced' = [announced EXCEPT ![<<j, job[j].runID>>] = @ + 1]

emitJobEvent(j, snap) == announced' = [announced EXCEPT ![<<j, snap.run>>] = @ + 1]

CheckWorker(w) ==
  /\ WorkerAt(w, "recording")
  /\ worker' = [worker EXCEPT ![w].pc = NextAfterCheck(w[1])]
  /\ UNCHANGED <<job, ctxDone, clock, registry, older, client, view, history, announced>>

RecordWorker(w) ==
  /\ WorkerAt(w, "writing")
  /\ RecordRow(w[1], worker[w].snap)
  /\ worker' = [worker EXCEPT ![w].pc = "emitting"]
  /\ UNCHANGED <<job, ctxDone, clock, registry, older, client, view, announced>>

EmitWorker(w) ==
  /\ WorkerAt(w, "emitting")
  /\ emitJobEvent(w[1], worker[w].snap)
  /\ worker' = [worker EXCEPT ![w] = Returned(w)]
  /\ UNCHANGED <<job, ctxDone, clock, registry, older, client, view, history>>

\* The same four steps of a Cancel that stamped a paused job.
NotifyCancelled(c) ==
  /\ ClientAt(c, "stamped")
  /\ notifyJob("updated", client[c].job)
  /\ client' = [client EXCEPT ![c].pc = "recording"]
  /\ UNCHANGED <<job, ctxDone, clock, registry, older, worker, history, announced>>

CheckClient(c) ==
  /\ ClientAt(c, "recording")
  /\ client' = [client EXCEPT ![c].pc = NextAfterCheck(client[c].job)]
  /\ UNCHANGED <<job, ctxDone, clock, registry, older, worker, view, history, announced>>

RecordClient(c) ==
  /\ ClientAt(c, "writing")
  /\ RecordRow(client[c].job, client[c].snap)
  /\ client' = [client EXCEPT ![c].pc = "emitting"]
  /\ UNCHANGED <<job, ctxDone, clock, registry, older, worker, view, announced>>

EmitClient(c) ==
  /\ ClientAt(c, "emitting")
  /\ emitJobEvent(client[c].job, client[c].snap)
  /\ client' = [client EXCEPT ![c] = IdleClient]
  /\ UNCHANGED <<job, ctxDone, clock, registry, older, worker, view, history>>

-----------------------------------------------------------------------------
(* The specification.                                                        *)

\* What a request may begin; nothing obliges it to.
Request(c) ==
  \/ \E j \in Jobs : \/ Submit(c, j)
                     \/ Lookup(c, j, "cancelling")
                     \/ Lookup(c, j, "pausing")
                     \/ Resume(c, j)
                     \/ Retry(c, j)
  \/ ClearFinished(c)
  \/ RemoveFinished(c)

\* What a request that has begun still has to do.
Serve(c) ==
  \/ Spawn(c) \/ CancelActive(c) \/ CancelPaused(c) \/ ClaimPause(c) \/ ClaimRefused(c)
  \/ NotifyControl(c) \/ NotifyCancelled(c)
  \/ CheckClient(c) \/ RecordClient(c) \/ EmitClient(c)
  \/ \E j \in Jobs : MarkDiscarded(c, j) \/ NotifyRemoved(c, j)

\* The ways a transfer, a resource write or a runFn ends.
EndTransfer(w) == ReachEOF(w) \/ TransferFails(w) \/ SaveResource(w) \/ RunFnReturns(w)

Run(w) ==
  \/ Attempt(w) \/ AcquireSlot(w) \/ GiveUpQueued(w) \/ ClaimStart(w)
  \/ Progress(w) \/ EndTransfer(w) \/ SetProcessing(w) \/ Finish(w)
  \/ NotifyWorker(w) \/ CheckWorker(w) \/ RecordWorker(w) \/ EmitWorker(w)

Next ==
  \/ \E c \in Clients : Request(c) \/ Serve(c)
  \/ \E w \in Workers : Run(w)
  \/ CleanupOldJobs

Spec == Init /\ [][Next]_vars

\* The scheduler runs every goroutine that can run; the semaphore's channel
\* queues blocked senders in order, so a slot is not withheld forever; the
\* overall timeout of the HTTP client bounds a transfer however often it
\* reports progress, and a runFn is taken to return.
Fairness ==
  /\ \A c \in Clients : WF_vars(Serve(c))
  /\ \A w \in Workers : /\ WF_vars(Run(w))
                        /\ SF_vars(AcquireSlot(w))
                        /\ SF_vars(EndTransfer(w))

FairSpec == Spec /\ Fairness

-----------------------------------------------------------------------------
(* Safety.                                                                   *)

JobFields ==
  [status : Statuses, runID : Runs, cancelRequested : BOOLEAN,
   completedAt : Nat, resourceID : Nat, discarded : BOOLEAN]

WorkerPcs ==
  {"none", "spawned", "queued", "slot", "started", "fetching", "progress", "eof",
   "processing", "saving", "finishing", "stamped", "recording", "writing",
   "emitting", "returned"}

WorkerStates ==
  [pc : WorkerPcs, run : Runs, slot : BOOLEAN, outcome : Terminal \cup {Unborn},
   snap : Snapshots]

ClientPcs ==
  {"idle", "submitted", "restarting", "restarted", "cancelling", "pausing",
   "notifying", "stamped", "recording", "writing", "emitting", "clearing",
   "discarding", "discarded"}

ClientStates ==
  [pc : ClientPcs, job : Jobs \cup {NoJob}, run : Runs, time : Nat,
   snap : Snapshots, rest : SUBSET Jobs]

TypeOK ==
  /\ job \in [Jobs -> JobFields]
  /\ ctxDone \subseteq Workers
  /\ clock \in [Jobs -> Nat]
  /\ registry \subseteq Jobs
  /\ older \subseteq Jobs \X Jobs
  /\ worker \in [Workers -> WorkerStates]
  /\ client \in [Clients -> ClientStates]
  /\ view \in [Jobs -> Statuses]
  /\ history \in [Jobs -> Snapshots]
  /\ announced \in [Workers -> Nat]

\* A job that is pending or running is in the registry, so it can be listed and
\* cancelled: no eviction, clear or retention sweep ever drops a live job, not
\* even while a Resume or a Retry is restarting it.
ActiveRegistered == \A j \in Jobs : activeLocked(j) => j \in registry

\* A completion time is set exactly while the job is over.  The retention sweep
\* decides by the time alone, so a time left on a restarted job would let it
\* remove a running one.
StampedIffOver == \A j \in Jobs : job[j].completedAt # 0 <=> job[j].status \in Terminal

\* Once Cancel has answered, the job is never paused again and never reported
\* completed, whichever control or worker gets there next.
CancelHonoured ==
  \A j \in Jobs : job[j].cancelRequested => job[j].status \notin {"paused", "completed"}

\* The goroutine is between its start and its terminal write.
Transferring(w) ==
  worker[w].pc \in {"started", "fetching", "progress", "eof", "processing", "saving", "finishing"}

\* However often a job is paused and resumed or retried, at most one goroutine
\* transfers under a live context, and it works for the current attempt of a
\* job that is shown as running.
OneLiveTransfer ==
  \A w \in Workers :
    Transferring(w) /\ ~Cancelled(w[1], worker[w].run) =>
      /\ worker[w].run = job[w[1]].runID
      /\ job[w[1]].status \in {"downloading", "processing"}
      /\ \A v \in Workers \ {w} :
           v[1] = w[1] /\ Transferring(v) => Cancelled(v[1], worker[v].run)

\* Somebody is left to end every pending or running job: a goroutine of its
\* current attempt that has not finished, one that will read the attempt when
\* it is first scheduled, or the request that is about to spawn one.
ActiveHasWorker ==
  \A j \in Jobs : activeLocked(j) =>
    \/ \E w \in Workers :
         /\ w[1] = j
         /\ \/ worker[w].pc = "spawned"
            \/ /\ worker[w].run = job[j].runID
               /\ worker[w].pc \in {"queued", "slot"} \/ Transferring(w)
    \/ \E c \in Clients : client[c].pc \in {"submitted", "restarting"} /\ client[c].job = j

\* A job names a resource only once it is over, and the resource is the one its
\* current attempt saved: a stale attempt never lands its file on a later one.
ResourceOfAttempt ==
  \A j \in Jobs : job[j].resourceID # 0 =>
    job[j].resourceID = job[j].runID + 1 /\ job[j].status \in Terminal

\* Nobody has an event about the job still to publish.
NotifiedAbout(j) ==
  /\ \A w \in Workers : w[1] = j =>
       worker[w].pc \notin {"started", "progress", "processing", "stamped"}
  /\ \A c \in Clients :
       /\ client[c].job = j => client[c].pc \notin {"restarting", "restarted", "notifying", "stamped"}
       /\ j \notin client[c].rest

\* Once the last event about a job is out, the panel of a subscriber that keeps
\* up shows the job as it is, and does not show a job that was removed.
ViewConverges ==
  \A j \in Jobs : NotifiedAbout(j) =>
    view[j] = IF j \in registry THEN job[j].status ELSE Unborn

\* Nobody is between a terminal stamp of the job and the event that reports it.
ReportedAbout(j) ==
  /\ \A w \in Workers : w[1] = j =>
       worker[w].pc \notin {"stamped", "recording", "writing", "emitting"}
  /\ \A c \in Clients : client[c].job = j =>
       client[c].pc \notin {"stamped", "recording", "writing", "emitting"}

\* A history row describes one attempt that ended, as it was when it ended:
\* never the pending job a Retry has made of it by the time the row is written.
HistoryTruthful ==
  \A j \in Jobs : history[j] # NoSnapshot =>
    /\ j \notin Generic
    /\ history[j].status \in Terminal
    /\ history[j].completedAt # 0
    /\ history[j].resourceID \in {0, history[j].run + 1}
    /\ history[j].status = "completed" => history[j].resourceID # 0

\* When every recorder is through, the row is no older than the outcome the
\* queue shows, although recorders of several attempts may write in any order.
HistoryKeepsNewest ==
  \A j \in Jobs \ Generic :
    ReportedAbout(j) /\ ~job[j].discarded /\ ~StoreFails =>
      history[j].completedAt >= job[j].completedAt

\* The end of a download is announced once per attempt, and none is missed.
AnnouncedOnce ==
  /\ \A w \in Workers : announced[w] <= 1
  /\ \A j \in Jobs \ Generic : ReportedAbout(j) /\ job[j].status \in Terminal =>
       announced[<<j, job[j].runID>>] = 1

\* What is told of an attempt is true of it, by the job itself, the panel, its history
\* row and its event, and nothing is told twice or left out, whichever recorder is last.
OutcomesTold ==
  ResourceOfAttempt /\ ViewConverges /\ HistoryTruthful /\ HistoryKeepsNewest /\ AnnouncedOnce

\* A live job can be found, and has somebody left to end it.
LiveJobsKept == ActiveRegistered /\ ActiveHasWorker

-----------------------------------------------------------------------------
(* What the proofs of DownloadQueueProofs strengthen the invariants with.    *)

\* What the registry lists was submitted; so was what a request past its lookup
\* holds or has still to announce, and a Cancel holds a time to stamp it with.
RequestHolds ==
  /\ \A j \in registry : job[j].status # Unborn
  /\ \A c \in Clients :
       /\ client[c].pc \notin {"idle", "clearing", "discarding"} =>
            client[c].job \in Jobs /\ job[client[c].job].status # Unborn
       /\ ClientAt(c, "cancelling") => client[c].time # 0
       /\ \A j \in client[c].rest : job[j].status # Unborn

\* A worker about to finish has decided on an outcome, and on a cancellation
\* only if its context had ended.
OutcomeDecided ==
  \A w \in Workers : WorkerAt(w, "finishing") =>
    /\ worker[w].outcome \in Terminal
    /\ worker[w].outcome = "cancelled" => Cancelled(w[1], worker[w].run)

\* A goroutine works for an attempt that has begun; once it has started one,
\* that attempt is not pending any more and nobody else has started it.
StartedOnce ==
  \A w \in Workers :
    /\ worker[w].run <= job[w[1]].runID
    /\ worker[w].pc # "none" => job[w[1]].status # Unborn
    /\ Transferring(w) /\ worker[w].run = job[w[1]].runID => job[w[1]].status # "pending"
    /\ Transferring(w) => \A v \in Workers \ {w} :
         v[1] = w[1] /\ Transferring(v) => worker[v].run # worker[w].run

\* The contexts of attempts to come are live.  That of the current attempt ends
\* with a pause or an accepted cancel; that of an attempt which is over or was
\* left behind has ended if a goroutine still transfers for it.
ContextsEnd ==
  /\ \A x \in ctxDone : x[2] <= job[x[1]].runID /\ job[x[1]].status # Unborn
  /\ \A j \in Jobs : job[j].status = "paused" => Cancelled(j, job[j].runID)
  /\ \A j \in Jobs : activeLocked(j) /\ Cancelled(j, job[j].runID) => job[j].cancelRequested
  /\ \A w \in Workers :
       Transferring(w) /\ (worker[w].run # job[w[1]].runID \/ job[w[1]].status \in Terminal) =>
         Cancelled(w[1], worker[w].run)

Strengthening == RequestHolds /\ OutcomeDecided /\ StartedOnce /\ ContextsEnd

JobsSafe == ActiveRegistered /\ StampedIffOver /\ CancelHonoured

\* A request that has still to start its goroutine is the only one to start it,
\* and no goroutine runs yet under the name it will have.
Spawning(c) == client[c].pc \in {"submitted", "restarting"}

SpawnsOnce ==
  /\ \A w \in Workers : worker[w].pc # "none" => w[2] <= job[w[1]].runID
  /\ \A c \in Clients : Spawning(c) =>
       /\ WorkerAt(<<client[c].job, client[c].run>>, "none")
       /\ client[c].run <= job[client[c].job].runID
       /\ \A d \in Clients \ {c} :
            Spawning(d) /\ client[d].job = client[c].job => client[d].run # client[c].run

\* A pending job has a goroutine on its way to start it, or a request about to
\* spawn one; a running job has one that transfers for its current attempt.
Manned ==
  \A j \in Jobs :
    /\ job[j].status = "pending" =>
         \/ \E w \in Workers :
              /\ w[1] = j
              /\ \/ WorkerAt(w, "spawned")
                 \/ worker[w].run = job[j].runID /\ worker[w].pc \in {"queued", "slot"}
         \/ \E c \in Clients : Spawning(c) /\ client[c].job = j
    /\ job[j].status \in {"downloading", "processing"} =>
         \E w \in Workers : w[1] = j /\ worker[w].run = job[j].runID /\ Transferring(w)

\* A listed job has a row, which is right or about to be corrected; a job that
\* was removed has none, or a request is about to remove it.
PanelKept ==
  /\ \A j \in registry :
       /\ view[j] # Unborn
       /\ \/ view[j] = job[j].status
          \/ \E w \in Workers :
               w[1] = j /\ worker[w].pc \in {"started", "progress", "processing", "stamped"}
          \/ \E c \in Clients :
               /\ client[c].job = j
               /\ client[c].pc \in {"restarting", "restarted", "notifying", "stamped"}
  /\ \A j \in Jobs \ registry : view[j] = Unborn \/ \E c \in Clients : j \in client[c].rest
  /\ \A c \in Clients :
       /\ client[c].rest \cap registry = {}
       /\ ClientAt(c, "discarded") => client[c].job \in client[c].rest
       /\ client[c].pc \notin {"clearing", "discarding", "discarded"} => client[c].rest = {}

\* A recorder has a snapshot to report: it is still at work on its outcome.
Reporting == {"stamped", "recording", "writing", "emitting"}

\* A snapshot of an attempt of a download as it ended.
Truthful(snap) ==
  /\ snap.status \in Terminal
  /\ snap.completedAt # 0
  /\ snap.resourceID \in {0, snap.run + 1}
  /\ snap.status = "completed" => snap.resourceID # 0

\* Only downloads are recorded, and every recorder holds such a snapshot.
RecordersTruthful ==
  /\ \A j \in Generic : job[j].status # "paused"
  /\ \A w \in Workers :
       /\ worker[w].pc \in Reporting \ {"stamped"} => w[1] \notin Generic
       /\ worker[w].pc \in Reporting => w[1] \in Generic \/ Truthful(worker[w].snap)
  /\ \A c \in Clients : client[c].pc \in Reporting =>
       client[c].job \notin Generic /\ Truthful(client[c].snap)

\* The newest outcome of a download is in its row, or a recorder still holds it.
RowsCover ==
  ~StoreFails => \A j \in Jobs \ Generic : ~job[j].discarded =>
    \/ history[j].completedAt >= job[j].completedAt
    \/ \E w \in Workers :
         /\ w[1] = j /\ worker[w].pc \in Reporting \ {"emitting"}
         /\ worker[w].snap.completedAt >= job[j].completedAt
    \/ \E c \in Clients :
         /\ client[c].job = j /\ client[c].pc \in Reporting \ {"emitting"}
         /\ client[c].snap.completedAt >= job[j].completedAt

WorkerReports(w, x) ==
  w[1] = x[1] /\ worker[w].pc \in Reporting /\ worker[w].snap.run = x[2]

ClientReports(c, x) ==
  client[c].job = x[1] /\ client[c].pc \in Reporting /\ client[c].snap.run = x[2]

\* The attempt x = <<job, run>> has ended.
Over(x) ==
  \/ x[2] < job[x[1]].runID
  \/ x[2] = job[x[1]].runID /\ job[x[1]].status \in Terminal

\* An attempt has at most one recorder, only once it is over and until its event
\* is out; the last attempt of a download has had one as soon as it is over.
EventsOnce ==
  \A x \in Workers :
    /\ announced[x] <= 1
    /\ announced[x] # 0 => Over(x)
    /\ \A w \in Workers : WorkerReports(w, x) =>
         /\ announced[x] = 0 /\ Over(x)
         /\ \A v \in Workers \ {w} : ~WorkerReports(v, x)
         /\ \A c \in Clients : ~ClientReports(c, x)
    /\ \A c \in Clients : ClientReports(c, x) =>
         /\ announced[x] = 0 /\ Over(x)
         /\ \A d \in Clients \ {c} : ~ClientReports(d, x)
    /\ x[1] \notin Generic /\ x[2] = job[x[1]].runID /\ job[x[1]].status \in Terminal =>
         \/ announced[x] = 1
         \/ \E w \in Workers : WorkerReports(w, x)
         \/ \E c \in Clients : ClientReports(c, x)

\* What the job, the panel, the history and the events of an attempt rely on.
Telling ==
  /\ SpawnsOnce /\ Manned /\ PanelKept /\ ResourceOfAttempt
  /\ RecordersTruthful /\ HistoryTruthful /\ RowsCover /\ EventsOnce

\* The inductive invariant: the types, what the registry and the sweep rely on, what
\* every goroutine and request holds between two of its steps, and what they tell.
Inductive == TypeOK /\ JobsSafe /\ Strengthening /\ Telling

-----------------------------------------------------------------------------
(* Action properties and refinement.                                         *)

\* A history row is never replaced by an older outcome.
HistoryNeverRegresses ==
  [][\A j \in Jobs : history'[j].completedAt >= history[j].completedAt]_vars

Phase(status) ==
  CASE status = "pending" -> "waiting"
    [] status \in {"downloading", "processing"} -> "running"
    [] OTHER -> status

Control == INSTANCE JobControl WITH
  phase <- [j \in Jobs |-> Phase(job[j].status)],
  attempt <- [j \in Jobs |-> job[j].runID],
  accepted <- [j \in Jobs |-> job[j].cancelRequested]

\* The queue implements JobControl: whatever interleaves, a job's status takes
\* only the transitions the abstract job has.
ImplementsJobControl == Control!Spec

-----------------------------------------------------------------------------
(* Liveness.                                                                 *)

\* A cancel that was answered ends the job.
CancelTakesEffect ==
  \A j \in Jobs : job[j].cancelRequested ~> job[j].status \in Terminal

\* A job that waits or runs does not do so forever: it ends or is paused.
ActiveSettles == \A j \in Jobs : activeLocked(j) ~> ~activeLocked(j)
=============================================================================
