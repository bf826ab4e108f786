------------------------ MODULE DownloadQueueProofs ------------------------
(* Theorems about DownloadQueue for every set of jobs and requests and every *)
(* value of the bounds, and the proof that it implements JobControl.         *)
EXTENDS DownloadQueue, TLAPS

-----------------------------------------------------------------------------
(* Type correctness.                                                         *)

\* The values the actions reset a state to, and every snapshot, have the type
\* of what they are stored in.
LEMMA Values ==
  ASSUME TypeOK
  PROVE  /\ 0 \in Runs
         /\ NoSnapshot \in Snapshots
         /\ NewJob \in JobFields
         /\ IdleClient \in ClientStates
         /\ NoWorker \in WorkerStates
         /\ \A fields \in JobFields : snapshotLocked(fields) \in Snapshots
<1> USE QueueAssumption
<1>1. 0 \in Runs /\ NoSnapshot \in Snapshots
  BY DEF Runs, NoSnapshot, Snapshots, Statuses
<1>2. NewJob \in JobFields
  BY <1>1 DEF NewJob, JobFields, Statuses
<1>3. IdleClient \in ClientStates
  BY <1>1 DEF IdleClient, ClientStates, ClientPcs
<1>4. NoWorker \in WorkerStates
  BY <1>1 DEF NoWorker, WorkerStates, WorkerPcs
<1>5. ASSUME NEW fields \in JobFields PROVE snapshotLocked(fields) \in Snapshots
  BY DEF snapshotLocked, Snapshots, JobFields, Runs
<1>6. QED
  BY <1>1, <1>2, <1>3, <1>4, <1>5

\* A request only ever moves its own record, within its type.
LEMMA RequestTypes ==
  ASSUME TypeOK, NEW c \in Clients, Request(c)
  PROVE  TypeOK'
<1> USE DEF TypeOK
<1>0. NoSnapshot \in Snapshots /\ IdleClient \in ClientStates /\ 0 \in Runs
  BY Values
<1>1. ASSUME NEW j \in Jobs, Submit(c, j) PROVE TypeOK'
  <2>1. job' \in [Jobs -> JobFields]
    BY <1>1 DEF Submit, JobFields, Statuses, Active
  <2>2. client' \in [Clients -> ClientStates]
    BY <1>1, <1>0 DEF Submit, ClientStates, ClientPcs
  <2>3. view' \in [Jobs -> Statuses]
    BY <1>1 DEF Submit, Statuses, Active
  <2>4. registry' \subseteq Jobs
    BY <1>1 DEF Submit
  <2>5. registry \X {j} \subseteq Jobs \X Jobs
    OBVIOUS
  <2>6. older' \subseteq Jobs \X Jobs
    BY <1>1, <2>5 DEF Submit
  <2>7. QED
    BY <1>1, <2>1, <2>2, <2>3, <2>4, <2>6 DEF Submit
<1>2. ASSUME NEW j \in Jobs, NEW claim \in {"cancelling", "pausing"}, Lookup(c, j, claim) PROVE TypeOK'
  <2>0. clock[j] + 1 \in Nat /\ 0 \in Nat
    OBVIOUS
  <2>1. [IdleClient EXCEPT !.pc = claim, !.job = j,
                           !.time = IF claim = "cancelling" THEN clock[j] + 1 ELSE 0] \in ClientStates
    BY <1>0, <2>0 DEF ClientStates, ClientPcs
  <2>2. client' \in [Clients -> ClientStates]
    BY <1>2, <2>1 DEF Lookup
  <2>3. QED
    BY <1>2, <2>2 DEF Lookup
<1>3. ASSUME NEW j \in Jobs, NEW after \in JobFields, Restart(c, j, after) PROVE TypeOK'
  <2>1. client' \in [Clients -> ClientStates]
    BY <1>3, <1>0 DEF Restart, ClientStates, ClientPcs, JobFields
  <2>2. QED
    BY <1>3, <2>1 DEF Restart
<1>4. ASSUME NEW gone \in SUBSET registry, NEW pc \in {"clearing", "discarding"}, RemoveTerminal(c, gone, pc)
      PROVE  TypeOK'
  <2>1. client' \in [Clients -> ClientStates]
    BY <1>4, <1>0 DEF RemoveTerminal, ClientStates, ClientPcs
  <2>2. QED
    BY <1>4, <2>1 DEF RemoveTerminal
<1>5. ASSUME NEW j \in Jobs, Resume(c, j) \/ Retry(c, j) PROVE TypeOK'
  <2>1. job[j].runID < MaxRun => job[j].runID + 1 \in Runs
    BY QueueAssumption DEF JobFields, Runs
  <2>2. CASE Resume(c, j)
    <3>1. [job[j] EXCEPT !.runID = job[j].runID + 1, !.status = "pending"] \in JobFields
      BY <2>1, <2>2 DEF Resume, Restart, JobFields, Statuses, Active
    <3>2. QED
      BY <2>2, <3>1, <1>3 DEF Resume
  <2>3. CASE Retry(c, j)
    <3>1. [job[j] EXCEPT !.runID = job[j].runID + 1, !.status = "pending", !.cancelRequested = FALSE,
                         !.completedAt = 0, !.resourceID = 0] \in JobFields
      BY <2>1, <2>3 DEF Retry, Restart, JobFields, Statuses, Active
    <3>2. QED
      BY <2>3, <3>1, <1>3 DEF Retry
  <2>4. QED
    BY <1>5, <2>2, <2>3
<1>6. QED
  BY <1>1, <1>2, <1>4, <1>5 DEF Request, ClearFinished, RemoveFinished

\* What a request still has to do keeps the types too.  That it holds a job is
\* what makes the context it cancels one of a worker.
LEMMA ServeTypes ==
  ASSUME TypeOK, RequestHolds, NEW c \in Clients, Serve(c)
  PROVE  TypeOK'
<1> USE DEF TypeOK
<1>0. /\ NoSnapshot \in Snapshots /\ IdleClient \in ClientStates /\ 0 \in Runs
      /\ client[c] \in ClientStates
      /\ \A fields \in JobFields : snapshotLocked(fields) \in Snapshots
  BY Values
<1>a. ASSUME NEW x PROVE [announced EXCEPT ![x] = announced[x] + 1] \in [Workers -> Nat]
  <2>1. x \in Workers => announced[x] + 1 \in Nat
    OBVIOUS
  <2>2. QED
    BY <2>1
<1>1. ASSUME ClientAt(c, "cancelling") \/ ClientAt(c, "pausing"), cancelLocked(client[c].job)
      PROVE  ctxDone' \subseteq Workers
  BY <1>1 DEF RequestHolds, ClientAt, cancelLocked, Workers, JobFields
<1>2. CASE Spawn(c)
  <2>1. client' \in [Clients -> ClientStates]
    BY <1>2, <1>0 DEF Spawn, ClientStates, ClientPcs
  <2>2. worker' \in [Workers -> WorkerStates]
    BY <1>2 DEF Spawn, WorkerStates, WorkerPcs
  <2>3. QED
    BY <1>2, <2>1, <2>2 DEF Spawn
<1>3. CASE CancelActive(c)
  <2>1. job' \in [Jobs -> JobFields]
    BY <1>3 DEF CancelActive, JobFields
  <2>2. client' \in [Clients -> ClientStates]
    BY <1>3, <1>0 DEF CancelActive
  <2>3. QED
    BY <1>3, <1>1, <2>1, <2>2 DEF CancelActive
<1>4. CASE CancelPaused(c)
  <2> DEFINE after == [job[client[c].job] EXCEPT !.status = "cancelled", !.cancelRequested = TRUE,
                                                 !.completedAt = client[c].time]
  <2>0. job[client[c].job] \in JobFields /\ client[c].time \in Nat
    BY <1>4, <1>0 DEF CancelPaused, RequestHolds, ClientAt, ClientStates
  <2>1. after \in JobFields
    BY <2>0 DEF JobFields, Statuses, Terminal
  <2>2. job' \in [Jobs -> JobFields]
    BY <1>4, <2>1 DEF CancelPaused
  <2>3. client' \in [Clients -> ClientStates]
    <3>1. snapshotLocked(after) \in Snapshots
      BY <2>1, <1>0
    <3>2. QED
      BY <1>4, <1>0, <3>1 DEF CancelPaused, ClientStates, ClientPcs
  <2>4. clock' \in [Jobs -> Nat]
    BY <1>4, <1>0 DEF CancelPaused, ClientStates
  <2>5. QED
    BY <1>4, <1>1, <2>2, <2>3, <2>4 DEF CancelPaused
<1>5. CASE ClaimPause(c)
  <2>1. job' \in [Jobs -> JobFields]
    BY <1>5 DEF ClaimPause, JobFields, Statuses
  <2>2. client' \in [Clients -> ClientStates]
    BY <1>5, <1>0 DEF ClaimPause, ClientStates, ClientPcs
  <2>3. QED
    BY <1>5, <1>1, <2>1, <2>2 DEF ClaimPause
<1>6. CASE ClaimRefused(c)
  BY <1>6, <1>0 DEF ClaimRefused
<1>7. ASSUME NEW event, NEW j, notifyJob(event, j) PROVE view' \in [Jobs -> Statuses]
  BY <1>7 DEF notifyJob, Shown, JobFields, Statuses
<1>8. CASE NotifyControl(c)
  BY <1>8, <1>0, <1>7 DEF NotifyControl
<1>9. CASE NotifyCancelled(c)
  <2>1. client' \in [Clients -> ClientStates]
    BY <1>9, <1>0 DEF NotifyCancelled, ClientStates, ClientPcs
  <2>2. QED
    BY <1>9, <2>1, <1>7 DEF NotifyCancelled
<1>10. CASE CheckClient(c)
  <2>1. client' \in [Clients -> ClientStates]
    BY <1>10, <1>0 DEF CheckClient, NextAfterCheck, ClientStates, ClientPcs
  <2>2. QED
    BY <1>10, <2>1 DEF CheckClient
<1>11. CASE RecordClient(c)
  <2>1. client' \in [Clients -> ClientStates]
    BY <1>11, <1>0 DEF RecordClient, ClientStates, ClientPcs
  <2>2. history' \in [Jobs -> Snapshots]
    BY <1>11, <1>0 DEF RecordClient, RecordRow, Upsert, ClientStates
  <2>3. QED
    BY <1>11, <2>1, <2>2 DEF RecordClient
<1>EMIT. CASE EmitClient(c)
  <2>1. client' \in [Clients -> ClientStates]
    BY <1>EMIT, <1>0 DEF EmitClient
  <2>2. announced' \in [Workers -> Nat]
    BY <1>EMIT, <1>a DEF EmitClient, emitJobEvent
  <2>3. QED
    BY <1>EMIT, <2>1, <2>2 DEF EmitClient
<1>13. ASSUME NEW j \in Jobs, MarkDiscarded(c, j) PROVE TypeOK'
  <2>1. client' \in [Clients -> ClientStates]
    BY <1>13, <1>0 DEF MarkDiscarded, ClientStates, ClientPcs
  <2>2. job' \in [Jobs -> JobFields]
    BY <1>13 DEF MarkDiscarded, JobFields
  <2>3. QED
    BY <1>13, <2>1, <2>2 DEF MarkDiscarded
<1>14. ASSUME NEW j \in Jobs, NotifyRemoved(c, j) PROVE TypeOK'
  <2>1. client' \in [Clients -> ClientStates]
    BY <1>14, <1>0 DEF NotifyRemoved, ClientStates, ClientPcs
  <2>2. QED
    BY <1>14, <2>1, <1>7 DEF NotifyRemoved
<1>15. QED
  BY <1>2, <1>3, <1>4, <1>5, <1>6, <1>8, <1>9, <1>10, <1>11, <1>EMIT, <1>13, <1>14 DEF Serve

\* A goroutine only ever moves its own record, and what it writes is typed.
LEMMA RunTypes ==
  ASSUME TypeOK, OutcomeDecided, NEW w \in Workers, Run(w)
  PROVE  TypeOK'
<1> USE DEF TypeOK
<1>0. /\ NoWorker \in WorkerStates /\ w[1] \in Jobs /\ worker[w] \in WorkerStates
      /\ \A fields \in JobFields : snapshotLocked(fields) \in Snapshots
  BY Values DEF Workers
<1>a. ASSUME NEW x PROVE [announced EXCEPT ![x] = announced[x] + 1] \in [Workers -> Nat]
  <2>1. x \in Workers => announced[x] + 1 \in Nat
    OBVIOUS
  <2>2. QED
    BY <2>1
<1>1. Returned(w) \in WorkerStates
  BY <1>0 DEF Returned, WorkerStates, WorkerPcs
<1>2. ASSUME NEW status \in Terminal, NEW resourceID \in Nat, finishSnapshot(w, status, resourceID)
      PROVE  /\ job' \in [Jobs -> JobFields]
             /\ clock' \in [Jobs -> Nat]
             /\ worker' \in [Workers -> WorkerStates]
  <2> DEFINE after == [job[w[1]] EXCEPT
                  !.status = IF status = "completed" /\ job[w[1]].cancelRequested
                             THEN "cancelled" ELSE status,
                  !.completedAt = clock[w[1]] + 2,
                  !.resourceID = IF resourceID # 0 THEN resourceID ELSE job[w[1]].resourceID]
  <2>0. job[w[1]] \in JobFields /\ clock[w[1]] + 2 \in Nat
    BY <1>0
  <2>1. after \in JobFields /\ after.completedAt \in Nat
    BY <2>0 DEF JobFields, Statuses, Terminal
  <2>2. snapshotLocked(after) \in Snapshots
    BY <2>1, <1>0
  <2>3. CASE ownedByRunLocked(w[1], worker[w].run)
    <3> HIDE DEF after
    <3>1. job' = [job EXCEPT ![w[1]] = after] /\ clock' = [clock EXCEPT ![w[1]] = after.completedAt]
      BY <1>2, <2>3 DEF finishSnapshot, after
    <3>2. worker' = [worker EXCEPT ![w].pc = "stamped", ![w].snap = snapshotLocked(after),
                                   ![w].outcome = Unborn]
      BY <1>2, <2>3 DEF finishSnapshot, after
    <3>3. worker' \in [Workers -> WorkerStates]
      BY <3>2, <2>2, <1>0 DEF WorkerStates, WorkerPcs
    <3>4. QED
      BY <3>1, <3>3, <2>1
  <2>4. CASE ~ownedByRunLocked(w[1], worker[w].run)
    BY <1>2, <2>4, <1>1 DEF finishSnapshot
  <2>5. QED
    BY <2>3, <2>4
<1>3. CASE Attempt(w)
  <2>1. worker' \in [Workers -> WorkerStates]
    BY <1>3, <1>0 DEF Attempt, WorkerStates, WorkerPcs, JobFields
  <2>2. QED
    BY <1>3, <2>1 DEF Attempt
<1>4. CASE AcquireSlot(w)
  <2>1. worker' \in [Workers -> WorkerStates]
    BY <1>4, <1>0 DEF AcquireSlot, WorkerStates, WorkerPcs
  <2>2. QED
    BY <1>4, <2>1 DEF AcquireSlot
<1>5. CASE GiveUpQueued(w)
  BY <1>5, <1>2 DEF GiveUpQueued, Terminal
<1>6. CASE ClaimStart(w)
  <2>1. job' \in [Jobs -> JobFields]
    BY <1>6, <1>0 DEF ClaimStart, JobFields, Statuses, Active
  <2>2. worker' \in [Workers -> WorkerStates]
    <3>1. [worker[w] EXCEPT !.pc = "started"] \in WorkerStates
      BY <1>0 DEF WorkerStates, WorkerPcs
    <3>2. QED
      BY <1>6, <3>1, <1>1 DEF ClaimStart
  <2>3. QED
    BY <1>6, <2>1, <2>2 DEF ClaimStart
<1>7. CASE Progress(w)
  <2>1. worker' \in [Workers -> WorkerStates]
    BY <1>7, <1>0 DEF Progress, WorkerStates, WorkerPcs
  <2>2. QED
    BY <1>7, <2>1 DEF Progress
<1>8. CASE EndTransfer(w)
  <2>1. worker' \in [Workers -> WorkerStates]
    BY <1>8, <1>0 DEF EndTransfer, ReachEOF, TransferFails, SaveResource, RunFnReturns,
                      WorkerStates, WorkerPcs, Terminal
  <2>2. QED
    BY <1>8, <2>1 DEF EndTransfer, ReachEOF, TransferFails, SaveResource, RunFnReturns
<1>9. CASE SetProcessing(w)
  <2>1. job' \in [Jobs -> JobFields]
    <3>1. [job[w[1]] EXCEPT !.status = "processing"] \in JobFields
      <4>1. job[w[1]] \in JobFields /\ "processing" \in Statuses
        BY <1>0 DEF Statuses, Active
      <4>2. QED
        BY ONLY <4>1 DEF JobFields
    <3>2. QED
      BY <1>9, <3>1 DEF SetProcessing
  <2>2. worker' \in [Workers -> WorkerStates]
    BY <1>9, <1>0 DEF SetProcessing, WorkerStates, WorkerPcs
  <2>3. QED
    BY <1>9, <2>1, <2>2 DEF SetProcessing
<1>10. CASE Finish(w)
  <2>1. worker[w].outcome \in Terminal
    BY <1>10 DEF Finish, OutcomeDecided
  <2>2. worker[w].run + 1 \in Nat /\ 0 \in Nat
    BY <1>0, QueueAssumption DEF WorkerStates, Runs
  <2>3. QED
    BY <1>10, <1>2, <2>1, <2>2 DEF Finish
<1>11. CASE NotifyWorker(w)
  <2>1. worker' \in [Workers -> WorkerStates]
    BY <1>11, <1>0, <1>1 DEF NotifyWorker, AfterNotify, WorkerStates, WorkerPcs
  <2>2. view' \in [Jobs -> Statuses]
    BY <1>11 DEF NotifyWorker, notifyJob, Shown, JobFields, Statuses
  <2>3. QED
    BY <1>11, <2>1, <2>2 DEF NotifyWorker
<1>EMIT. CASE CheckWorker(w)
  <2>1. worker' \in [Workers -> WorkerStates]
    BY <1>EMIT, <1>0 DEF CheckWorker, NextAfterCheck, WorkerStates, WorkerPcs
  <2>2. QED
    BY <1>EMIT, <2>1 DEF CheckWorker
<1>13. CASE RecordWorker(w)
  <2>1. worker' \in [Workers -> WorkerStates]
    BY <1>13, <1>0 DEF RecordWorker, WorkerStates, WorkerPcs
  <2>2. history' \in [Jobs -> Snapshots]
    BY <1>13, <1>0 DEF RecordWorker, RecordRow, Upsert, WorkerStates
  <2>3. QED
    BY <1>13, <2>1, <2>2 DEF RecordWorker
<1>14. CASE EmitWorker(w)
  <2>1. worker' \in [Workers -> WorkerStates]
    BY <1>14, <1>1 DEF EmitWorker
  <2>2. announced' \in [Workers -> Nat]
    BY <1>14, <1>a DEF EmitWorker, emitJobEvent
  <2>3. QED
    BY <1>14, <2>1, <2>2 DEF EmitWorker
<1>15. QED
  BY <1>3, <1>4, <1>5, <1>6, <1>7, <1>8, <1>9, <1>10, <1>11, <1>EMIT, <1>13, <1>14 DEF Run

LEMMA TypesInit == Init => TypeOK
<1> SUFFICES ASSUME Init PROVE TypeOK
  OBVIOUS
<1>1. /\ 0 \in Runs
      /\ NoSnapshot \in Snapshots
      /\ NewJob \in JobFields
      /\ IdleClient \in ClientStates
      /\ NoWorker \in WorkerStates
  <2>1. 0 \in Runs /\ NoSnapshot \in Snapshots
    BY QueueAssumption DEF Runs, NoSnapshot, Snapshots, Statuses
  <2>2. QED
    BY <2>1 DEF NewJob, JobFields, IdleClient, ClientStates, ClientPcs, NoWorker, WorkerStates,
                WorkerPcs, Statuses
<1>2. QED
  BY <1>1 DEF Init, TypeOK, Statuses

LEMMA TypesNext == TypeOK /\ RequestHolds /\ OutcomeDecided /\ [Next]_vars => TypeOK'
<1> SUFFICES ASSUME TypeOK, RequestHolds, OutcomeDecided, [Next]_vars PROVE TypeOK'
  OBVIOUS
<1>1. ASSUME NEW c \in Clients, Request(c) \/ Serve(c) PROVE TypeOK'
  BY <1>1, RequestTypes, ServeTypes
<1>2. ASSUME NEW w \in Workers, Run(w) PROVE TypeOK'
  BY <1>2, RunTypes
<1>3. CASE CleanupOldJobs
  BY <1>3 DEF CleanupOldJobs, TypeOK, Statuses
<1>4. CASE UNCHANGED vars
  BY <1>4 DEF vars, TypeOK
<1>5. QED
  BY <1>1, <1>2, <1>3, <1>4 DEF Next

-----------------------------------------------------------------------------
(* The registry, the completion time and an accepted cancel.                 *)

\* Most steps leave the jobs and the registry alone.
LEMMA JobsSafeUnchanged == JobsSafe /\ UNCHANGED <<job, registry>> => JobsSafe'
BY DEF JobsSafe, ActiveRegistered, StampedIffOver, CancelHonoured, activeLocked

\* What makeRoomForNewJob evicts is over.
LEMMA EvictedOver == TypeOK => \A j \in Evicted : job[j].status \in Terminal
BY DEF Evicted, Oldest, InStatus, Terminal

LEMMA RequestKeepsJobsSafe ==
  ASSUME TypeOK, JobsSafe, NEW c \in Clients, Request(c)
  PROVE  JobsSafe'
<1> USE DEF TypeOK, JobsSafe, ActiveRegistered, StampedIffOver, CancelHonoured, activeLocked,
            Active, Terminal
<1>1. ASSUME NEW j \in Jobs, Submit(c, j) PROVE JobsSafe'
  BY <1>1, EvictedOver DEF Submit, JobFields, Unborn
<1>2. ASSUME NEW j \in Jobs, NEW claim, Lookup(c, j, claim) PROVE JobsSafe'
  BY <1>2, JobsSafeUnchanged DEF Lookup
<1>3. ASSUME NEW j \in Jobs, Resume(c, j) PROVE JobsSafe'
  BY <1>3 DEF Resume, Restart, JobFields
<1>4. ASSUME NEW j \in Jobs, Retry(c, j) PROVE JobsSafe'
  BY <1>4 DEF Retry, Restart, JobFields
<1>5. ASSUME NEW gone \in SUBSET registry, NEW pc, RemoveTerminal(c, gone, pc) PROVE JobsSafe'
  BY <1>5 DEF RemoveTerminal, InStatus
<1>6. QED
  BY <1>1, <1>2, <1>3, <1>4, <1>5 DEF Request, ClearFinished, RemoveFinished

LEMMA ServeKeepsJobsSafe ==
  ASSUME TypeOK, RequestHolds, JobsSafe, NEW c \in Clients, Serve(c)
  PROVE  JobsSafe'
<1> USE DEF TypeOK, JobsSafe, ActiveRegistered, StampedIffOver, CancelHonoured, activeLocked,
            Active, Terminal
<1>1. CASE CancelActive(c)
  BY <1>1 DEF CancelActive, JobFields
<1>2. CASE CancelPaused(c)
  BY <1>2 DEF CancelPaused, RequestHolds, JobFields, ClientAt
<1>3. CASE ClaimPause(c)
  BY <1>3 DEF ClaimPause, canPauseLocked, JobFields
<1>4. ASSUME NEW j \in Jobs, MarkDiscarded(c, j) PROVE JobsSafe'
  BY <1>4 DEF MarkDiscarded, JobFields
<1>5. CASE UNCHANGED <<job, registry>>
  BY <1>5, JobsSafeUnchanged
<1>6. QED
  BY <1>1, <1>2, <1>3, <1>4, <1>5
     DEF Serve, Spawn, ClaimRefused, NotifyControl, NotifyCancelled, CheckClient, RecordClient,
         EmitClient, NotifyRemoved

LEMMA RunKeepsJobsSafe ==
  ASSUME TypeOK, OutcomeDecided, JobsSafe, NEW w \in Workers, Run(w)
  PROVE  JobsSafe'
<1> USE DEF TypeOK, JobsSafe, ActiveRegistered, StampedIffOver, CancelHonoured, activeLocked,
            Active, Terminal
<1>0. w[1] \in Jobs
  BY DEF Workers
<1>1. ASSUME NEW status \in Terminal, NEW resourceID, finishSnapshot(w, status, resourceID),
             UNCHANGED registry
      PROVE  JobsSafe'
  <2>1. CASE ownedByRunLocked(w[1], worker[w].run)
    <3>1. \A k \in Jobs : k # w[1] => job'[k] = job[k]
      BY <1>0, <1>1, <2>1 DEF finishSnapshot
    <3>2. /\ job'[w[1]].status = IF status = "completed" /\ job[w[1]].cancelRequested
                                 THEN "cancelled" ELSE status
          /\ job'[w[1]].completedAt = clock[w[1]] + 2
          /\ job'[w[1]].cancelRequested = job[w[1]].cancelRequested
      <4> DEFINE after ==
            [job[w[1]] EXCEPT
               !.status = IF status = "completed" /\ job[w[1]].cancelRequested
                          THEN "cancelled" ELSE status,
               !.completedAt = clock[w[1]] + 2,
               !.resourceID = IF resourceID # 0 THEN resourceID ELSE job[w[1]].resourceID]
      <4>1. job' = [job EXCEPT ![w[1]] = after]
        BY <1>1, <2>1 DEF finishSnapshot
      <4>2. job'[w[1]] = after
        BY <1>0, <4>1
      <4>3. job[w[1]] \in JobFields
        BY <1>0
      <4>4. /\ after.status = IF status = "completed" /\ job[w[1]].cancelRequested
                              THEN "cancelled" ELSE status
            /\ after.completedAt = clock[w[1]] + 2
            /\ after.cancelRequested = job[w[1]].cancelRequested
        BY <4>3 DEF JobFields
      <4>5. QED
        BY <4>2, <4>4
    <3>3. clock[w[1]] + 2 # 0
      BY <1>0
    <3>4. QED
      BY <1>0, <1>1, <3>1, <3>2, <3>3
  <2>2. CASE ~ownedByRunLocked(w[1], worker[w].run)
    BY <1>1, <2>2, JobsSafeUnchanged DEF finishSnapshot
  <2>3. QED
    BY <2>1, <2>2
<1>2. CASE GiveUpQueued(w)
  BY <1>2, <1>1 DEF GiveUpQueued
<1>3. CASE Finish(w)
  BY <1>3, <1>1 DEF Finish, OutcomeDecided
<1>4. CASE ClaimStart(w)
  <2>1. CASE UNCHANGED job
    BY <1>4, <2>1, JobsSafeUnchanged DEF ClaimStart
  <2>2. CASE /\ activeLocked(w[1])
             /\ \E status \in Active : job' = [job EXCEPT ![w[1]].status = status]
             /\ UNCHANGED registry
    <3>1. /\ \A k \in Jobs : k # w[1] => job'[k] = job[k]
          /\ job'[w[1]].status \in Active
          /\ job'[w[1]].completedAt = job[w[1]].completedAt
      BY <1>0, <2>2 DEF JobFields
    <3>2. QED
      BY <1>0, <2>2, <3>1
  <2>3. QED
    BY <1>4, <2>1, <2>2 DEF ClaimStart
<1>5. CASE SetProcessing(w)
  <2>1. CASE UNCHANGED job
    BY <1>5, <2>1, JobsSafeUnchanged DEF SetProcessing
  <2>2. CASE /\ activeLocked(w[1])
             /\ \E status \in Active : job' = [job EXCEPT ![w[1]].status = status]
             /\ UNCHANGED registry
    <3>1. /\ \A k \in Jobs : k # w[1] => job'[k] = job[k]
          /\ job'[w[1]].status \in Active
          /\ job'[w[1]].completedAt = job[w[1]].completedAt
      BY <1>0, <2>2 DEF JobFields
    <3>2. QED
      BY <1>0, <2>2, <3>1
  <2>3. QED
    BY <1>5, <2>1, <2>2 DEF SetProcessing, ownedByRunLocked
<1>6. CASE UNCHANGED <<job, registry>>
  BY <1>6, JobsSafeUnchanged
<1>7. QED
  BY <1>2, <1>3, <1>4, <1>5, <1>6
     DEF Run, Attempt, AcquireSlot, Progress, EndTransfer, ReachEOF, TransferFails, SaveResource,
         RunFnReturns, NotifyWorker, CheckWorker, RecordWorker, EmitWorker

LEMMA JobsSafeInit == Init => JobsSafe
BY DEF Init, NewJob, JobsSafe, ActiveRegistered, StampedIffOver, CancelHonoured, activeLocked,
       Active, Terminal, Unborn

LEMMA JobsSafeNext == TypeOK /\ RequestHolds /\ OutcomeDecided /\ JobsSafe /\ [Next]_vars => JobsSafe'
<1> SUFFICES ASSUME TypeOK, RequestHolds, OutcomeDecided, JobsSafe, [Next]_vars PROVE JobsSafe'
  OBVIOUS
<1>1. ASSUME NEW c \in Clients, Request(c) \/ Serve(c) PROVE JobsSafe'
  BY <1>1, RequestKeepsJobsSafe, ServeKeepsJobsSafe
<1>2. ASSUME NEW w \in Workers, Run(w) PROVE JobsSafe'
  BY <1>2, RunKeepsJobsSafe
\* A completion time marks the jobs the sweep takes as over, or they are paused.
<1>3. CASE CleanupOldJobs
  BY <1>3 DEF CleanupOldJobs, TypeOK, JobsSafe, ActiveRegistered, StampedIffOver, CancelHonoured,
              activeLocked, Active, Terminal
<1>4. CASE UNCHANGED vars
  BY <1>4, JobsSafeUnchanged DEF vars
<1>5. QED
  BY <1>1, <1>2, <1>3, <1>4 DEF Next
-----------------------------------------------------------------------------
(* What a request, a request being served and a goroutine do to the jobs,    *)
(* the contexts and the goroutines: the facts the last invariants need.      *)

\* Neither the status, the attempt nor the accepted cancel of j changes.
Untouched(j) ==
  /\ job'[j].status = job[j].status
  /\ job'[j].runID = job[j].runID
  /\ job'[j].cancelRequested = job[j].cancelRequested

Restarted(j) ==
  /\ job[j].status \in {"paused", "failed", "cancelled"}
  /\ job'[j].status = "pending"
  /\ job'[j].runID = job[j].runID + 1

Submitted(j) ==
  /\ job[j].status = Unborn
  /\ job'[j].status = "pending"
  /\ job'[j].runID = job[j].runID

\* A request leaves goroutines and contexts alone: it submits or restarts.
LEMMA RequestEffect ==
  ASSUME TypeOK, NEW c \in Clients, Request(c)
  PROVE  /\ UNCHANGED <<worker, ctxDone>>
         /\ \A j \in Jobs : Untouched(j) \/ Submitted(j) \/ Restarted(j)
<1> USE DEF TypeOK, Untouched, Submitted, Restarted, JobFields
<1>1. ASSUME NEW j \in Jobs, Submit(c, j)
      PROVE  UNCHANGED <<worker, ctxDone>> /\ \A k \in Jobs : Untouched(k) \/ Submitted(k)
  BY <1>1 DEF Submit
<1>2. ASSUME NEW j \in Jobs, Resume(c, j) \/ Retry(c, j)
      PROVE  UNCHANGED <<worker, ctxDone>> /\ \A k \in Jobs : Untouched(k) \/ Restarted(k)
  <2>1. CASE Resume(c, j)
    BY <2>1 DEF Resume, Restart, Runs
  <2>2. CASE Retry(c, j)
    BY <2>2 DEF Retry, Restart, canRetryLocked, Runs
  <2>3. QED
    BY <1>2, <2>1, <2>2
<1>3. ASSUME NEW j \in Jobs, NEW claim, Lookup(c, j, claim)
      PROVE  UNCHANGED <<worker, ctxDone, job>>
  BY <1>3 DEF Lookup
<1>4. CASE ClearFinished(c) \/ RemoveFinished(c)
  BY <1>4 DEF ClearFinished, RemoveFinished, RemoveTerminal
<1>5. QED
  BY <1>1, <1>2, <1>3, <1>4 DEF Request

\* A request being served spawns a goroutine, or ends the context of the
\* attempt of a job it cancels or pauses.
LEMMA ServeEffect ==
  ASSUME TypeOK, RequestHolds, NEW c \in Clients, Serve(c)
  PROVE  /\ \A w \in Workers :
              \/ worker'[w] = worker[w]
              \/ /\ worker'[w].pc = "spawned"
                 /\ worker'[w].run = worker[w].run
                 /\ job[w[1]].status # Unborn
         /\ \/ UNCHANGED ctxDone /\ \A j \in Jobs : Untouched(j)
            \/ \E j \in Jobs :
                 /\ ctxDone' = ctxDone \cup {<<j, job[j].runID>>}
                 /\ \A k \in Jobs \ {j} : Untouched(k)
                 /\ job[j].status # Unborn
                 /\ job'[j].runID = job[j].runID
                 /\ \/ job'[j].status = job[j].status /\ activeLocked(j) /\ job'[j].cancelRequested
                    \/ job'[j].status \in {"paused", "cancelled"}
<1> USE DEF TypeOK, Untouched, JobFields
<1> DEFINE j == client[c].job
<1>0. client[c].pc \notin {"idle", "clearing", "discarding"} => j \in Jobs /\ job[j].status # Unborn
  BY DEF RequestHolds
<1>1. CASE Spawn(c)
  <2> DEFINE s == <<j, client[c].run>>
  <2>1. UNCHANGED <<job, ctxDone>> /\ worker' = [worker EXCEPT ![s].pc = "spawned"]
    BY <1>1 DEF Spawn
  <2>2. j \in Jobs /\ job[j].status # Unborn /\ s[1] = j
    BY <1>0, <1>1 DEF Spawn
  <2>3. ASSUME NEW w \in Workers
        PROVE  \/ worker'[w] = worker[w]
               \/ w = s /\ worker'[w].pc = "spawned" /\ worker'[w].run = worker[w].run
    <3>1. worker[w] \in WorkerStates
      OBVIOUS
    <3>2. QED
      BY <2>1, <3>1 DEF WorkerStates
  <2>4. QED
    BY <2>1, <2>2, <2>3
<1>2. CASE CancelActive(c)
  <2>1. /\ ctxDone' = ctxDone \cup {<<j, job[j].runID>>} /\ UNCHANGED worker
        /\ job' = [job EXCEPT ![j].cancelRequested = TRUE] /\ activeLocked(j)
    BY <1>2 DEF CancelActive, cancelLocked
  <2>2. j \in Jobs /\ job[j].status # Unborn
    BY <1>0, <1>2 DEF CancelActive, ClientAt
  <2>3. /\ \A k \in Jobs \ {j} : Untouched(k)
        /\ job'[j].status = job[j].status /\ job'[j].runID = job[j].runID
        /\ job'[j].cancelRequested
    BY <2>1, <2>2
  <2>4. QED
    BY <2>1, <2>2, <2>3
<1>3. CASE CancelPaused(c)
  <2>1. ctxDone' = ctxDone \cup {<<j, job[j].runID>>} /\ UNCHANGED worker
    BY <1>3 DEF CancelPaused, cancelLocked
  <2>2. j \in Jobs /\ job[j].status # Unborn
    BY <1>0, <1>3 DEF CancelPaused, ClientAt
  <2>3. /\ \A k \in Jobs \ {j} : Untouched(k)
        /\ job'[j].status = "cancelled" /\ job'[j].runID = job[j].runID
    BY <1>3, <2>2 DEF CancelPaused
  <2>4. QED
    BY <2>1, <2>2, <2>3
<1>4. CASE ClaimPause(c)
  <2>1. /\ ctxDone' = ctxDone \cup {<<j, job[j].runID>>} /\ UNCHANGED worker
        /\ job' = [job EXCEPT ![j].status = "paused"]
    BY <1>4 DEF ClaimPause, cancelLocked
  <2>2. j \in Jobs /\ job[j].status # Unborn
    BY <1>0, <1>4 DEF ClaimPause, ClientAt
  <2>3. /\ \A k \in Jobs \ {j} : Untouched(k)
        /\ job'[j].status = "paused" /\ job'[j].runID = job[j].runID
    BY <2>1, <2>2
  <2>4. QED
    BY <2>1, <2>2, <2>3
<1>5. ASSUME NEW i \in Jobs, MarkDiscarded(c, i)
      PROVE  UNCHANGED <<worker, ctxDone>> /\ \A k \in Jobs : Untouched(k)
  BY <1>5 DEF MarkDiscarded
<1>6. CASE UNCHANGED <<job, ctxDone, worker>>
  BY <1>6
<1>7. QED
  BY <1>1, <1>2, <1>3, <1>4, <1>5, <1>6
     DEF Serve, ClaimRefused, NotifyControl, NotifyCancelled, CheckClient, RecordClient,
         EmitClient, NotifyRemoved

\* The ways a goroutine changes its own state and the job it works for.
Attempted(w) ==
  /\ worker'[w].pc = "queued"
  /\ worker'[w].run = job[w[1]].runID
  /\ Untouched(w[1])

Began(w) ==
  /\ job[w[1]].status = "pending" /\ job[w[1]].runID = worker[w].run
  /\ worker'[w].pc = "started" /\ worker'[w].run = worker[w].run
  /\ job'[w[1]].status \in {"downloading", "processing"}
  /\ job'[w[1]].runID = job[w[1]].runID
  /\ job'[w[1]].cancelRequested = job[w[1]].cancelRequested

Continued(w) ==
  /\ worker'[w].run = worker[w].run
  /\ Transferring(w)' => Transferring(w)
  /\ WorkerAt(w, "finishing")' =>
       /\ worker'[w].outcome \in Terminal
       /\ worker'[w].outcome = "cancelled" => Cancelled(w[1], worker[w].run)
  /\ \/ Untouched(w[1])
     \/ /\ activeLocked(w[1]) /\ job'[w[1]].status = "processing"
        /\ job'[w[1]].runID = job[w[1]].runID
        /\ job'[w[1]].cancelRequested = job[w[1]].cancelRequested

Ended(w) ==
  /\ ownedByRunLocked(w[1], worker[w].run)
  /\ Transferring(w) \/ Cancelled(w[1], worker[w].run)
  /\ worker'[w].pc = "stamped" /\ worker'[w].run = worker[w].run
  /\ job'[w[1]].status \in Terminal
  /\ job'[w[1]].runID = job[w[1]].runID

LEMMA FinishEffect ==
  ASSUME TypeOK, NEW w \in Workers, NEW status \in Terminal, NEW resourceID,
         finishSnapshot(w, status, resourceID),
         Transferring(w) \/ Cancelled(w[1], worker[w].run)
  PROVE  /\ \A v \in Workers \ {w} : worker'[v] = worker[v]
         /\ \A k \in Jobs \ {w[1]} : Untouched(k)
         /\ Ended(w) \/ Continued(w)
<1> DEFINE after ==
      [job[w[1]] EXCEPT
         !.status = IF status = "completed" /\ job[w[1]].cancelRequested
                    THEN "cancelled" ELSE status,
         !.completedAt = clock[w[1]] + 2,
         !.resourceID = IF resourceID # 0 THEN resourceID ELSE job[w[1]].resourceID]
<1>1. w[1] \in Jobs /\ job[w[1]] \in JobFields /\ worker[w] \in WorkerStates
  BY DEF Workers, TypeOK
<1>2. CASE ownedByRunLocked(w[1], worker[w].run)
  <2>1. /\ job' = [job EXCEPT ![w[1]] = after]
        /\ worker' = [worker EXCEPT ![w].pc = "stamped", ![w].snap = snapshotLocked(after),
                                    ![w].outcome = Unborn]
    BY <1>2 DEF finishSnapshot
  <2>2. job'[w[1]] = after /\ \A k \in Jobs \ {w[1]} : job'[k] = job[k]
    BY <1>1, <2>1 DEF TypeOK
  <2>3. after.status \in Terminal /\ after.runID = job[w[1]].runID
    BY <1>1 DEF JobFields, Terminal
  <2>4. /\ \A v \in Workers \ {w} : worker'[v] = worker[v]
        /\ worker'[w].pc = "stamped" /\ worker'[w].run = worker[w].run
    BY <1>1, <2>1 DEF TypeOK, WorkerStates
  <2>5. QED
    BY <1>2, <2>2, <2>3, <2>4 DEF Ended, Untouched
<1>3. CASE ~ownedByRunLocked(w[1], worker[w].run)
  <2>1. worker' = [worker EXCEPT ![w] = Returned(w)] /\ UNCHANGED job
    BY <1>3 DEF finishSnapshot
  <2>2. /\ \A v \in Workers \ {w} : worker'[v] = worker[v]
        /\ worker'[w].pc = "returned" /\ worker'[w].run = worker[w].run
    BY <2>1 DEF TypeOK, Returned, NoWorker
  <2>3. QED
    BY <2>1, <2>2 DEF Continued, Untouched, Transferring, WorkerAt
<1>4. QED
  BY <1>2, <1>3

LEMMA RunEffect ==
  ASSUME TypeOK, OutcomeDecided, NEW w \in Workers, Run(w)
  PROVE  /\ UNCHANGED <<ctxDone, client>>
         /\ worker[w].pc # "none"
         /\ \A v \in Workers \ {w} : worker'[v] = worker[v]
         /\ \A k \in Jobs \ {w[1]} : Untouched(k)
         /\ Attempted(w) \/ Began(w) \/ Continued(w) \/ Ended(w)
<1>1. w[1] \in Jobs /\ job[w[1]] \in JobFields /\ worker[w] \in WorkerStates
  BY DEF Workers, TypeOK
<1>2. CASE Attempt(w)
  BY <1>1, <1>2 DEF Attempt, Attempted, Untouched, TypeOK, WorkerAt, WorkerStates
<1>3. CASE GiveUpQueued(w)
  <2>1. finishSnapshot(w, "cancelled", 0) /\ Cancelled(w[1], worker[w].run)
    BY <1>3 DEF GiveUpQueued
  <2>2. "cancelled" \in Terminal
    BY DEF Terminal
  <2>3. QED
    BY <1>3, <2>1, <2>2, FinishEffect DEF GiveUpQueued, WorkerAt
<1>4. CASE Finish(w)
  <2>1. WorkerAt(w, "finishing") /\ worker[w].outcome \in Terminal
    BY <1>4 DEF Finish, OutcomeDecided
  <2>2. \E resourceID : finishSnapshot(w, worker[w].outcome, resourceID)
    BY <1>4 DEF Finish
  <2>3. Transferring(w)
    BY <2>1 DEF Transferring, WorkerAt
  <2>4. QED
    BY <1>4, <2>1, <2>2, <2>3, FinishEffect DEF Finish, WorkerAt
<1>5. CASE ClaimStart(w)
  <2>1. CASE job[w[1]].runID = worker[w].run /\ job[w[1]].status = "pending"
    BY <1>1, <1>5, <2>1
       DEF ClaimStart, Began, Untouched, TypeOK, WorkerAt, WorkerStates, JobFields
  <2>2. CASE ~(job[w[1]].runID = worker[w].run /\ job[w[1]].status = "pending")
    <3>1. UNCHANGED <<job, ctxDone, client>> /\ worker' = [worker EXCEPT ![w] = Returned(w)]
      BY <1>5, <2>2 DEF ClaimStart
    <3>2. worker'[w].pc = "returned" /\ worker'[w].run = worker[w].run
      BY <3>1 DEF TypeOK, Returned, NoWorker
    <3>3. QED
      BY <1>5, <3>1, <3>2
         DEF ClaimStart, Continued, Untouched, TypeOK, WorkerAt, Transferring
  <2>3. QED
    BY <2>1, <2>2
<1>6. CASE SetProcessing(w)
  <2>1. CASE ownedByRunLocked(w[1], worker[w].run)
    BY <1>1, <1>6, <2>1
       DEF SetProcessing, ownedByRunLocked, Continued, Untouched, TypeOK, WorkerAt, WorkerStates,
           JobFields, Transferring
  <2>2. CASE ~ownedByRunLocked(w[1], worker[w].run)
    BY <1>1, <1>6, <2>2
       DEF SetProcessing, Continued, Untouched, TypeOK, WorkerAt, WorkerStates, Transferring
  <2>3. QED
    BY <2>1, <2>2
<1>7. ASSUME UNCHANGED <<job, ctxDone, client>>, worker[w].pc # "none",
             \A v \in Workers \ {w} : worker'[v] = worker[v], Continued(w)
      PROVE  /\ UNCHANGED <<ctxDone, client>>
             /\ worker[w].pc # "none"
             /\ \A v \in Workers \ {w} : worker'[v] = worker[v]
             /\ \A k \in Jobs \ {w[1]} : Untouched(k)
             /\ Continued(w)
  BY <1>7 DEF Untouched
<1>8. CASE AcquireSlot(w) \/ Progress(w) \/ ReachEOF(w) \/ SaveResource(w) \/ CheckWorker(w)
           \/ RecordWorker(w)
  BY <1>1, <1>7, <1>8
     DEF AcquireSlot, Progress, ReachEOF, SaveResource, CheckWorker, RecordWorker,
         NextAfterCheck, Continued, Untouched, TypeOK, WorkerAt, WorkerStates,
         Transferring, Terminal
<1>9. CASE EmitWorker(w)
  <2>1. UNCHANGED <<job, ctxDone, client>> /\ worker' = [worker EXCEPT ![w] = Returned(w)]
    BY <1>9 DEF EmitWorker
  <2>2. worker'[w].pc = "returned" /\ worker'[w].run = worker[w].run
    BY <2>1 DEF TypeOK, Returned, NoWorker
  <2>3. QED
    BY <1>9, <2>1, <2>2 DEF EmitWorker, Continued, Untouched, TypeOK, WorkerAt, Transferring
<1>10. CASE TransferFails(w) \/ RunFnReturns(w)
  BY <1>1, <1>7, <1>10
     DEF TransferFails, RunFnReturns, Continued, Untouched, TypeOK, WorkerAt, WorkerStates,
         Transferring, Terminal
<1>11. CASE NotifyWorker(w)
  BY <1>1, <1>7, <1>11
     DEF NotifyWorker, AfterNotify, Returned, NoWorker, Continued, Untouched, TypeOK, WorkerAt,
         WorkerStates, Transferring
<1>12. QED
  BY <1>2, <1>3, <1>4, <1>5, <1>6, <1>8, <1>9, <1>10, <1>11 DEF Run, EndTransfer

-----------------------------------------------------------------------------
(* The strengthening: what requests hold and goroutines have decided.        *)

\* A job that was submitted stays submitted.
LEMMA StaysSubmitted ==
  TypeOK /\ RequestHolds /\ OutcomeDecided /\ [Next]_vars =>
    \A j \in Jobs : job[j].status # Unborn => job'[j].status # Unborn
<1> SUFFICES ASSUME TypeOK, RequestHolds, OutcomeDecided, [Next]_vars, NEW j \in Jobs,
                    job[j].status # Unborn
             PROVE  job'[j].status # Unborn
  OBVIOUS
<1> USE DEF Unborn
<1>1. ASSUME NEW c \in Clients, Request(c) PROVE job'[j].status # Unborn
  BY <1>1, RequestEffect DEF Untouched, Submitted, Restarted
<1>2. ASSUME NEW c \in Clients, Serve(c) PROVE job'[j].status # Unborn
  BY <1>2, ServeEffect DEF Untouched
<1>3. ASSUME NEW w \in Workers, Run(w) PROVE job'[j].status # Unborn
  BY <1>3, RunEffect DEF Untouched, Attempted, Began, Continued, Ended, Terminal
<1>4. CASE CleanupOldJobs \/ UNCHANGED vars
  BY <1>4 DEF CleanupOldJobs, vars
<1>5. QED
  BY <1>1, <1>2, <1>3, <1>4 DEF Next

\* What RequestHolds says of one request.
Holds(c) ==
  /\ client[c].pc \notin {"idle", "clearing", "discarding"} =>
       client[c].job \in Jobs /\ job[client[c].job].status # Unborn
  /\ client[c].pc = "cancelling" => client[c].time # 0
  /\ \A j \in client[c].rest : job[j].status # Unborn

LEMMA RequestsHold ==
  ASSUME TypeOK, RequestHolds, NEW c \in Clients, Request(c),
         \A j \in Jobs : job[j].status # Unborn => job'[j].status # Unborn
  PROVE  Holds(c)' /\ \A d \in Clients \ {c} : client'[d] = client[d]
<1> USE DEF TypeOK, IdleClient, NoSnapshot, ClientAt, Holds
<1>0. client[c] \in ClientStates
  OBVIOUS
<1>1. ASSUME NEW j \in Jobs, Submit(c, j)
      PROVE  Holds(c)' /\ \A d \in Clients \ {c} : client'[d] = client[d]
  <2>1. /\ client'[c] = [IdleClient EXCEPT !.pc = "submitted", !.job = j]
        /\ \A d \in Clients \ {c} : client'[d] = client[d]
    BY <1>1 DEF Submit
  <2>2. job'[j].status = "pending"
    BY <1>1 DEF Submit, JobFields
  <2>3. QED
    BY <2>1, <2>2 DEF Unborn
<1>2. ASSUME NEW j \in Jobs, NEW claim, Lookup(c, j, claim)
      PROVE  Holds(c)' /\ \A d \in Clients \ {c} : client'[d] = client[d]
  <2>1. /\ client'[c] = [IdleClient EXCEPT !.pc = claim, !.job = j,
                           !.time = IF claim = "cancelling" THEN clock[j] + 1 ELSE 0]
        /\ \A d \in Clients \ {c} : client'[d] = client[d]
    BY <1>2 DEF Lookup
  <2>2. job'[j].status # Unborn /\ clock[j] + 1 # 0
    BY <1>2 DEF Lookup, RequestHolds
  <2>3. QED
    BY <2>1, <2>2
<1>3. ASSUME NEW j \in Jobs, NEW after, Restart(c, j, after)
      PROVE  Holds(c)' /\ \A d \in Clients \ {c} : client'[d] = client[d]
  <2>1. /\ client'[c] = [IdleClient EXCEPT !.pc = "restarting", !.job = j, !.run = after.runID]
        /\ \A d \in Clients \ {c} : client'[d] = client[d]
    BY <1>3 DEF Restart
  <2>2. job'[j].status # Unborn
    BY <1>3 DEF Restart, RequestHolds
  <2>3. QED
    BY <2>1, <2>2
<1>4. ASSUME NEW gone \in SUBSET registry, NEW pc \in {"clearing", "discarding"},
             RemoveTerminal(c, gone, pc)
      PROVE  Holds(c)' /\ \A d \in Clients \ {c} : client'[d] = client[d]
  <2>1. /\ client'[c] = [IdleClient EXCEPT !.pc = pc, !.rest = gone]
        /\ \A d \in Clients \ {c} : client'[d] = client[d]
    BY <1>4 DEF RemoveTerminal
  <2>2. \A j \in gone : job'[j].status # Unborn
    BY <1>4 DEF RequestHolds
  <2>3. QED
    BY <2>1, <2>2
<1>5. QED
  BY <1>1, <1>2, <1>3, <1>4 DEF Request, Resume, Retry, ClearFinished, RemoveFinished

LEMMA ServedHold ==
  ASSUME TypeOK, RequestHolds, NEW c \in Clients, Serve(c),
         \A j \in Jobs : job[j].status # Unborn => job'[j].status # Unborn
  PROVE  Holds(c)' /\ \A d \in Clients \ {c} : client'[d] = client[d]
<1> USE DEF TypeOK, ClientAt, Holds
<1>0. /\ client[c] \in ClientStates
      /\ Holds(c)
  BY DEF RequestHolds
\* A step that only moves a request on keeps what it holds, and so does its end.
<1>1. ASSUME \A d \in Clients \ {c} : client'[d] = client[d],
             \/ client'[c] = IdleClient
             \/ /\ client[c].pc \notin {"idle", "clearing", "discarding"}
                /\ client'[c].pc # "cancelling"
                /\ client'[c].job = client[c].job /\ client'[c].rest = client[c].rest
      PROVE  Holds(c)' /\ \A d \in Clients \ {c} : client'[d] = client[d]
  BY <1>0, <1>1 DEF IdleClient, ClientStates
<1>2. CASE Spawn(c) \/ CancelActive(c) \/ CancelPaused(c) \/ ClaimPause(c) \/ ClaimRefused(c)
           \/ NotifyControl(c)
  BY <1>0, <1>1, <1>2
     DEF Spawn, CancelActive, CancelPaused, ClaimPause, ClaimRefused, NotifyControl, ClientStates
<1>3. CASE NotifyCancelled(c) \/ CheckClient(c) \/ RecordClient(c) \/ EmitClient(c)
  BY <1>0, <1>1, <1>3
     DEF NotifyCancelled, CheckClient, NextAfterCheck, RecordClient, EmitClient, ClientStates
<1>4. ASSUME NEW j \in Jobs, MarkDiscarded(c, j)
      PROVE  Holds(c)' /\ \A d \in Clients \ {c} : client'[d] = client[d]
  <2>1. /\ client'[c].pc = "discarded" /\ client'[c].job = j /\ client'[c].rest = client[c].rest
        /\ \A d \in Clients \ {c} : client'[d] = client[d]
    BY <1>0, <1>4 DEF MarkDiscarded, ClientStates
  <2>2. job'[j].status # Unborn /\ \A k \in client[c].rest : job'[k].status # Unborn
    BY <1>0, <1>4 DEF MarkDiscarded, ClientStates
  <2>3. QED
    BY <2>1, <2>2
<1>5. ASSUME NEW j \in Jobs, NotifyRemoved(c, j)
      PROVE  Holds(c)' /\ \A d \in Clients \ {c} : client'[d] = client[d]
  <2>1. CASE client[c].rest = {j}
    BY <1>1, <1>5, <2>1 DEF NotifyRemoved
  <2>2. CASE client[c].rest # {j}
    <3>1. /\ client'[c] = [IdleClient EXCEPT
                             !.rest = client[c].rest \ {j},
                             !.pc = IF ClientAt(c, "clearing") THEN "clearing" ELSE "discarding"]
          /\ \A d \in Clients \ {c} : client'[d] = client[d]
      BY <1>5, <2>2 DEF NotifyRemoved
    <3>2. /\ client'[c].rest = client[c].rest \ {j}
          /\ client'[c].pc \in {"clearing", "discarding"}
      BY <3>1 DEF IdleClient
    <3>3. \A k \in client[c].rest : job'[k].status # Unborn
      BY <1>0 DEF ClientStates
    <3>4. QED
      BY <3>1, <3>2, <3>3
  <2>3. QED
    BY <2>1, <2>2
<1>6. QED
  BY <1>2, <1>3, <1>4, <1>5 DEF Serve

LEMMA RequestHoldsNext ==
  TypeOK /\ RequestHolds /\ OutcomeDecided /\ [Next]_vars => RequestHolds'
<1> SUFFICES ASSUME TypeOK, RequestHolds, OutcomeDecided, [Next]_vars PROVE RequestHolds'
  OBVIOUS
<1>1. \A j \in Jobs : job[j].status # Unborn => job'[j].status # Unborn
  BY StaysSubmitted
<1>2. \A c \in Clients : client'[c] = client[c] => Holds(c)'
  BY <1>1 DEF RequestHolds, Holds, ClientAt, TypeOK, ClientStates
<1>3. \A c \in Clients : Holds(c)'
  <2>1. ASSUME NEW c \in Clients, Request(c) \/ Serve(c) PROVE \A d \in Clients : Holds(d)'
    BY <1>1, <1>2, <2>1, RequestsHold, ServedHold
  <2>2. ASSUME NEW w \in Workers, Run(w) PROVE \A d \in Clients : Holds(d)'
    BY <1>2, <2>2, RunEffect
  <2>3. CASE CleanupOldJobs \/ UNCHANGED vars
    BY <1>2, <2>3 DEF CleanupOldJobs, vars
  <2>4. QED
    BY <2>1, <2>2, <2>3 DEF Next
<1>4. \A j \in registry' : job'[j].status # Unborn
  <2>1. ASSUME registry' \subseteq registry PROVE \A j \in registry' : job'[j].status # Unborn
    BY <1>1, <2>1 DEF RequestHolds, TypeOK
  <2>2. ASSUME NEW c \in Clients, NEW j \in Jobs, Submit(c, j)
        PROVE  \A k \in registry' : job'[k].status # Unborn
    <3>1. registry' \subseteq registry \cup {j} /\ job'[j].status = "pending"
      BY <2>2 DEF Submit, TypeOK, JobFields
    <3>2. QED
      BY <1>1, <3>1 DEF RequestHolds, TypeOK, Unborn
  <2>3. ASSUME NEW c \in Clients, Request(c)
        PROVE  registry' \subseteq registry \/ \E j \in Jobs : Submit(c, j)
    BY <2>3
       DEF Request, Lookup, Resume, Retry, Restart, ClearFinished, RemoveFinished, RemoveTerminal
  <2>4. ASSUME NEW c \in Clients, Serve(c) PROVE registry' \subseteq registry
    BY <2>4
       DEF Serve, Spawn, CancelActive, CancelPaused, ClaimPause, ClaimRefused, NotifyControl,
           NotifyCancelled, CheckClient, RecordClient, EmitClient, MarkDiscarded, NotifyRemoved
  <2>5. ASSUME NEW w \in Workers, Run(w) PROVE registry' \subseteq registry
    BY <2>5
       DEF Run, Attempt, AcquireSlot, GiveUpQueued, ClaimStart, Progress, EndTransfer, ReachEOF,
           TransferFails, SaveResource, RunFnReturns, SetProcessing, Finish, NotifyWorker,
           CheckWorker, RecordWorker, EmitWorker
  <2>6. CASE CleanupOldJobs \/ UNCHANGED vars
    BY <2>1, <2>6 DEF CleanupOldJobs, vars
  <2>7. QED
    BY <2>1, <2>2, <2>3, <2>4, <2>5, <2>6 DEF Next
<1>5. QED
  BY <1>3, <1>4 DEF RequestHolds, Holds, ClientAt

LEMMA OutcomeDecidedNext ==
  TypeOK /\ RequestHolds /\ OutcomeDecided /\ [Next]_vars => OutcomeDecided'
<1> SUFFICES ASSUME TypeOK, RequestHolds, OutcomeDecided, [Next]_vars, NEW w \in Workers,
                    WorkerAt(w, "finishing")'
             PROVE  /\ worker'[w].outcome \in Terminal
                    /\ worker'[w].outcome = "cancelled" => Cancelled(w[1], worker[w].run)'
  BY DEF OutcomeDecided
<1> USE DEF WorkerAt, Cancelled
<1>1. ASSUME worker'[w] = worker[w], ctxDone \subseteq ctxDone'
      PROVE  /\ worker'[w].outcome \in Terminal
             /\ worker'[w].outcome = "cancelled" => Cancelled(w[1], worker[w].run)'
  BY <1>1 DEF OutcomeDecided
<1>2. ASSUME NEW c \in Clients, Request(c)
      PROVE  worker'[w] = worker[w] /\ ctxDone \subseteq ctxDone'
  BY <1>2, RequestEffect
<1>3. ASSUME NEW c \in Clients, Serve(c)
      PROVE  worker'[w] = worker[w] /\ ctxDone \subseteq ctxDone'
  BY <1>3, ServeEffect
<1>4. ASSUME NEW v \in Workers, Run(v)
      PROVE  /\ worker'[w].outcome \in Terminal
             /\ worker'[w].outcome = "cancelled" => Cancelled(w[1], worker[w].run)'
  <2>1. UNCHANGED ctxDone
    BY <1>4, RunEffect
  <2>2. CASE w = v
    BY <1>4, <2>1, <2>2, RunEffect DEF Attempted, Began, Continued, Ended
  <2>3. CASE w # v
    BY <1>1, <1>4, <2>1, <2>3, RunEffect
  <2>4. QED
    BY <2>2, <2>3
<1>5. CASE CleanupOldJobs \/ UNCHANGED vars
  BY <1>1, <1>5 DEF CleanupOldJobs, vars
<1>6. QED
  BY <1>1, <1>2, <1>3, <1>4, <1>5 DEF Next

-----------------------------------------------------------------------------
(* One goroutine per attempt, and the contexts of the attempts left behind.  *)

Attempts == TypeOK /\ RequestHolds /\ OutcomeDecided /\ StartedOnce /\ ContextsEnd

\* What a request does keeps both: it starts no transfer, and the attempt a
\* Resume or a Retry leaves behind had ended or been cancelled.
LEMMA RequestKeepsAttempts ==
  ASSUME Attempts, NEW c \in Clients, Request(c)
  PROVE  StartedOnce' /\ ContextsEnd'
<1> USE DEF Attempts, Untouched, Submitted, Restarted, Transferring, Cancelled, Terminal, Unborn,
            Active, activeLocked
<1>1. /\ UNCHANGED <<worker, ctxDone>>
      /\ \A j \in Jobs : Untouched(j) \/ Submitted(j) \/ Restarted(j)
  BY RequestEffect
<1>2. \A w \in Workers : w[1] \in Jobs /\ worker[w] \in WorkerStates
  BY DEF Workers, TypeOK
<1>3. \A j \in Jobs : job[j] \in JobFields
  BY DEF TypeOK
<1>4. StartedOnce'
  BY <1>1, <1>2, <1>3 DEF StartedOnce, JobFields, Runs, WorkerStates
<1>5. \A x \in ctxDone : /\ x[1] \in Jobs /\ x[2] \in Nat
                         /\ x[2] <= job[x[1]].runID /\ job[x[1]].status # Unborn
  BY DEF TypeOK, Workers, Runs, ContextsEnd
<1>6. \A j \in Jobs : job[j].runID \in Nat /\ job'[j].runID \in Nat
  BY <1>1, <1>3 DEF JobFields, Runs
<1>7. \A x \in ctxDone' : x[2] <= job'[x[1]].runID /\ job'[x[1]].status # Unborn
  BY <1>1, <1>5, <1>6
<1>8. \A j \in Jobs : job'[j].status = "paused" => <<j, job'[j].runID>> \in ctxDone'
  BY <1>1 DEF ContextsEnd
<1>9. ASSUME NEW j \in Jobs, job'[j].status \in Active, <<j, job'[j].runID>> \in ctxDone
      PROVE  job'[j].cancelRequested
  <2>1. job[j].status # Unborn /\ job'[j].runID <= job[j].runID
    BY <1>5, <1>9
  <2>2. Untouched(j)
    BY <1>1, <1>6, <2>1
  <2>3. QED
    BY <1>9, <2>2 DEF ContextsEnd
<1>10. ASSUME NEW w \in Workers, Transferring(w),
              worker[w].run # job'[w[1]].runID \/ job'[w[1]].status \in Terminal
       PROVE  <<w[1], worker[w].run>> \in ctxDone
  <2>1. CASE Untouched(w[1]) \/ Submitted(w[1])
    BY <1>2, <1>10, <2>1 DEF ContextsEnd
  <2>2. CASE Restarted(w[1])
    BY <1>2, <1>10, <2>2 DEF ContextsEnd
  <2>3. QED
    BY <1>1, <1>2, <2>1, <2>2
<1>11. ContextsEnd'
  BY <1>1, <1>7, <1>8, <1>9, <1>10 DEF ContextsEnd
<1>12. QED
  BY <1>4, <1>11

\* Serving a request spawns a goroutine, or ends a context of a job it pauses,
\* cancels, or has accepted the cancel of.
LEMMA ServeKeepsAttempts ==
  ASSUME Attempts, NEW c \in Clients, Serve(c)
  PROVE  StartedOnce' /\ ContextsEnd'
<1> USE DEF Attempts, Untouched, Transferring, Cancelled, Terminal, Unborn, Active, activeLocked
<1>1. \A w \in Workers :
        \/ worker'[w] = worker[w]
        \/ worker'[w].pc = "spawned" /\ worker'[w].run = worker[w].run /\ job[w[1]].status # Unborn
  BY ServeEffect
<1>2. \A w \in Workers : w[1] \in Jobs /\ worker[w].run \in Nat
  BY DEF Workers, TypeOK, WorkerStates, Runs
<1>3. \A j \in Jobs : job[j].runID \in Nat
  BY DEF TypeOK, JobFields, Runs
<1>4. \A x \in ctxDone : /\ x[1] \in Jobs /\ x[2] \in Nat
                         /\ x[2] <= job[x[1]].runID /\ job[x[1]].status # Unborn
  BY DEF TypeOK, Workers, Runs, ContextsEnd
<1>5. CASE UNCHANGED ctxDone /\ \A j \in Jobs : Untouched(j)
  <2>1. StartedOnce'
    BY <1>1, <1>2, <1>5 DEF StartedOnce
  <2>2. ContextsEnd'
    BY <1>1, <1>2, <1>4, <1>5 DEF ContextsEnd
  <2>3. QED
    BY <2>1, <2>2
<1>6. ASSUME NEW j \in Jobs,
             ctxDone' = ctxDone \cup {<<j, job[j].runID>>},
             \A k \in Jobs \ {j} : Untouched(k),
             job[j].status # Unborn,
             job'[j].runID = job[j].runID,
             \/ job'[j].status = job[j].status /\ activeLocked(j) /\ job'[j].cancelRequested
             \/ job'[j].status \in {"paused", "cancelled"}
      PROVE  StartedOnce' /\ ContextsEnd'
  <2>1. \A k \in Jobs : /\ job'[k].runID = job[k].runID
                        /\ job[k].status # Unborn => job'[k].status # Unborn
                        /\ job'[k].status = "pending" => job[k].status = "pending"
    BY <1>6
  <2>2. StartedOnce'
    BY <1>1, <1>2, <2>1 DEF StartedOnce
  <2>3. \A x \in ctxDone' : x[2] <= job'[x[1]].runID /\ job'[x[1]].status # Unborn
    BY <1>3, <1>4, <1>6, <2>1
  <2>4. \A k \in Jobs : job'[k].status = "paused" => <<k, job'[k].runID>> \in ctxDone'
    BY <1>6 DEF ContextsEnd
  <2>5. ASSUME NEW k \in Jobs, job'[k].status \in Active, <<k, job'[k].runID>> \in ctxDone'
        PROVE  job'[k].cancelRequested
    BY <1>6, <2>5 DEF ContextsEnd
  <2>6. ASSUME NEW w \in Workers, Transferring(w),
               worker[w].run # job'[w[1]].runID \/ job'[w[1]].status \in Terminal
        PROVE  <<w[1], worker[w].run>> \in ctxDone'
    <3>1. CASE w[1] = j
      BY <1>2, <1>6, <2>6, <3>1 DEF ContextsEnd
    <3>2. CASE w[1] # j
      BY <1>2, <1>6, <2>6, <3>2 DEF ContextsEnd
    <3>3. QED
      BY <3>1, <3>2
  <2>7. ContextsEnd'
    BY <1>1, <2>3, <2>4, <2>5, <2>6 DEF ContextsEnd
  <2>8. QED
    BY <2>2, <2>7
<1>7. QED
  BY <1>5, <1>6, ServeEffect

\* A goroutine starts the attempt only while it is pending, so nobody started it
\* before; and whoever ends it was its only goroutine or ended with its context.
LEMMA RunKeepsAttempts ==
  ASSUME Attempts, NEW w \in Workers, Run(w)
  PROVE  StartedOnce' /\ ContextsEnd'
<1> USE DEF Attempts, Untouched, Transferring, Cancelled, Terminal, Unborn, Active, activeLocked
<1>1. /\ UNCHANGED ctxDone
      /\ worker[w].pc # "none"
      /\ \A v \in Workers \ {w} : worker'[v] = worker[v]
      /\ \A k \in Jobs \ {w[1]} : Untouched(k)
  BY RunEffect
<1>2. \A v \in Workers : v[1] \in Jobs /\ worker[v].run \in Nat
  BY DEF Workers, TypeOK, WorkerStates, Runs
<1>3. \A j \in Jobs : job[j].runID \in Nat
  BY DEF TypeOK, JobFields, Runs
<1>4. job[w[1]].status # Unborn
  BY <1>1 DEF StartedOnce
<1>5. /\ job'[w[1]].runID = job[w[1]].runID
      /\ job'[w[1]].status # Unborn
      /\ job'[w[1]].status \in {"pending", "paused"} => job'[w[1]].status = job[w[1]].status
      /\ job'[w[1]].status \in Active =>
           /\ job[w[1]].status \in Active
           /\ job'[w[1]].cancelRequested = job[w[1]].cancelRequested
  BY <1>4, RunEffect DEF Attempted, Began, Continued, Ended
<1>6. StartedOnce'
  <2>1. CASE Attempted(w)
    BY <1>1, <1>2, <1>3, <1>4, <2>1 DEF Attempted, StartedOnce
  <2>2. CASE Began(w)
    <3>1. \A v \in Workers : v[1] = w[1] /\ Transferring(v) => worker[v].run # worker[w].run
      BY <2>2 DEF Began, StartedOnce
    <3>2. QED
      BY <1>1, <1>2, <1>3, <1>4, <2>2, <3>1 DEF Began, StartedOnce
  <2>3. CASE Continued(w)
    BY <1>1, <1>2, <2>3 DEF Continued, StartedOnce
  <2>4. CASE Ended(w)
    BY <1>1, <1>2, <2>4 DEF Ended, StartedOnce
  <2>5. QED
    BY <2>1, <2>2, <2>3, <2>4, RunEffect
<1>7. \A x \in ctxDone' : x[2] <= job'[x[1]].runID /\ job'[x[1]].status # Unborn
  BY <1>1, <1>2, <1>5 DEF ContextsEnd, TypeOK, Workers
<1>8. \A j \in Jobs : job'[j].status = "paused" => <<j, job'[j].runID>> \in ctxDone'
  BY <1>1, <1>2, <1>5 DEF ContextsEnd
<1>9. \A j \in Jobs : job'[j].status \in Active /\ <<j, job'[j].runID>> \in ctxDone' =>
        job'[j].cancelRequested
  BY <1>1, <1>2, <1>5 DEF ContextsEnd
<1>10. ASSUME NEW v \in Workers, Transferring(v)',
              worker'[v].run # job'[v[1]].runID \/ job'[v[1]].status \in Terminal
       PROVE  <<v[1], worker'[v].run>> \in ctxDone'
  <2>1. CASE Attempted(w) \/ Began(w)
    BY <1>1, <1>2, <1>10, <2>1 DEF Attempted, Began, ContextsEnd
  <2>2. CASE Continued(w)
    BY <1>1, <1>2, <1>10, <2>2 DEF Continued, ContextsEnd
  <2>3. CASE Ended(w)
    <3>1. worker[w].run = job[w[1]].runID /\ v # w /\ worker'[v] = worker[v]
      BY <1>1, <1>10, <2>3 DEF Ended, ownedByRunLocked
    <3>2. CASE v[1] # w[1] \/ worker[v].run # worker[w].run
      BY <1>1, <1>2, <1>5, <1>10, <3>1, <3>2 DEF ContextsEnd
    <3>3. CASE v[1] = w[1] /\ worker[v].run = worker[w].run
      <4>1. Transferring(v)
        BY <1>10, <3>1
      <4>2. ~Transferring(w)
        BY <3>1, <3>3, <4>1 DEF StartedOnce
      <4>3. QED
        BY <1>1, <2>3, <3>1, <3>3, <4>2 DEF Ended
    <3>4. QED
      BY <3>2, <3>3
  <2>4. QED
    BY <2>1, <2>2, <2>3, RunEffect
<1>11. ContextsEnd'
  BY <1>7, <1>8, <1>9, <1>10 DEF ContextsEnd
<1>12. QED
  BY <1>6, <1>11

LEMMA AttemptsNext == Attempts /\ [Next]_vars => StartedOnce' /\ ContextsEnd'
<1> SUFFICES ASSUME Attempts, [Next]_vars PROVE StartedOnce' /\ ContextsEnd'
  OBVIOUS
<1>1. ASSUME NEW c \in Clients, Request(c) \/ Serve(c) PROVE StartedOnce' /\ ContextsEnd'
  BY <1>1, RequestKeepsAttempts, ServeKeepsAttempts
<1>2. ASSUME NEW w \in Workers, Run(w) PROVE StartedOnce' /\ ContextsEnd'
  BY <1>2, RunKeepsAttempts
<1>3. CASE UNCHANGED <<job, ctxDone, worker>>
  BY <1>3 DEF Attempts, StartedOnce, ContextsEnd, Transferring, Cancelled, activeLocked
<1>4. QED
  BY <1>1, <1>2, <1>3 DEF Next, CleanupOldJobs, vars

-----------------------------------------------------------------------------
(* The rows of the history only get newer.                                   *)

LEMMA UpsertKeepsNewest ==
  ASSUME NEW row \in Snapshots, NEW snap \in Snapshots
  PROVE  Upsert(row, snap).completedAt >= row.completedAt
BY DEF Upsert, NoSnapshot, Snapshots

\* What a recorder writes regresses no row.
LEMMA RecordKeepsNewest ==
  ASSUME TypeOK, NEW j, NEW snap \in Snapshots, RecordRow(j, snap)
  PROVE  \A k \in Jobs : history'[k].completedAt >= history[k].completedAt
<1>1. CASE UNCHANGED history
  BY <1>1 DEF TypeOK, Snapshots
<1>2. CASE history' = [history EXCEPT ![j] = Upsert(history[j], snap)]
  BY <1>2, UpsertKeepsNewest DEF TypeOK, Snapshots
<1>3. QED
  BY <1>1, <1>2 DEF RecordRow

LEMMA HistoryStep ==
  Inductive /\ [Next]_vars => \A j \in Jobs : history'[j].completedAt >= history[j].completedAt
<1> SUFFICES ASSUME TypeOK, [Next]_vars
             PROVE  \A j \in Jobs : history'[j].completedAt >= history[j].completedAt
  BY DEF Inductive
<1>1. CASE UNCHANGED history
  BY <1>1 DEF TypeOK, Snapshots
<1>2. ASSUME NEW w \in Workers, RecordWorker(w)
      PROVE  \A j \in Jobs : history'[j].completedAt >= history[j].completedAt
  BY <1>2, RecordKeepsNewest DEF RecordWorker, TypeOK, WorkerStates
<1>3. ASSUME NEW c \in Clients, RecordClient(c)
      PROVE  \A j \in Jobs : history'[j].completedAt >= history[j].completedAt
  BY <1>3, RecordKeepsNewest DEF RecordClient, TypeOK, ClientStates
<1>4. ASSUME NEW c \in Clients, Request(c) PROVE UNCHANGED history
  BY <1>4
     DEF Request, Submit, Lookup, Resume, Retry, Restart, ClearFinished, RemoveFinished,
         RemoveTerminal
<1>5. ASSUME NEW c \in Clients, Serve(c) PROVE UNCHANGED history \/ RecordClient(c)
  BY <1>5
     DEF Serve, Spawn, CancelActive, CancelPaused, ClaimPause, ClaimRefused, NotifyControl,
         NotifyCancelled, CheckClient, EmitClient, MarkDiscarded, NotifyRemoved
<1>6. ASSUME NEW w \in Workers, Run(w) PROVE UNCHANGED history \/ RecordWorker(w)
  BY <1>6
     DEF Run, Attempt, AcquireSlot, GiveUpQueued, ClaimStart, Progress, EndTransfer, ReachEOF,
         TransferFails, SaveResource, RunFnReturns, SetProcessing, Finish, NotifyWorker,
         CheckWorker, EmitWorker
<1>7. QED
  BY <1>1, <1>2, <1>3, <1>4, <1>5, <1>6 DEF Next, CleanupOldJobs, vars

-----------------------------------------------------------------------------
(* The steps, variable by variable: what each does to the job, the panel,    *)
(* the history and the events, as the invariants of what is told need it.    *)

\* Only the status of j changes.
OnlyStatus(j) ==
  /\ job'[j].runID = job[j].runID
  /\ job'[j].completedAt = job[j].completedAt
  /\ job'[j].resourceID = job[j].resourceID
  /\ job'[j].discarded = job[j].discarded

Told == <<view, history, announced>>

\* A goroutine reads the attempt it is to work for.
Queues(w) ==
  /\ UNCHANGED <<job, Told>>
  /\ worker[w].pc = "spawned" /\ worker'[w].pc = "queued"
  /\ worker'[w].run = job[w[1]].runID

\* A goroutine moves on, or leaves an attempt it does not own, and tells nobody.
Moves(w) ==
  /\ UNCHANGED <<job, Told>>
  /\ worker'[w].run = worker[w].run
  /\ \/ worker[w].pc = "queued" /\ worker'[w].pc = "slot"
     \/ /\ worker[w].pc = "slot" /\ worker'[w].pc = "returned"
        /\ ~(job[w[1]].runID = worker[w].run /\ job[w[1]].status = "pending")
     \/ /\ worker[w].pc \in {"queued", "finishing"} /\ worker'[w].pc = "returned"
        /\ ~ownedByRunLocked(w[1], worker[w].run)
     \/ /\ worker[w].pc \in {"fetching", "eof", "saving"}
        /\ worker'[w].pc \in {"progress", "eof", "saving", "finishing"}
     \/ /\ worker[w].pc = "recording" /\ worker'[w].pc = NextAfterCheck(w[1])
        /\ worker'[w].snap = worker[w].snap

Starts(w) ==
  /\ UNCHANGED Told
  /\ worker[w].pc = "slot" /\ worker'[w].pc = "started"
  /\ worker'[w].run = worker[w].run /\ job[w[1]].runID = worker[w].run
  /\ job[w[1]].status = "pending" /\ job'[w[1]].status \in {"downloading", "processing"}
  /\ OnlyStatus(w[1])

Processes(w) ==
  /\ UNCHANGED Told
  /\ worker[w].pc = "eof" /\ worker'[w].pc = "processing"
  /\ worker'[w].run = worker[w].run
  /\ ownedByRunLocked(w[1], worker[w].run) /\ job'[w[1]].status = "processing"
  /\ OnlyStatus(w[1])

\* The terminal write: the snapshot is of the job as it ends.
Stamps(w) ==
  /\ UNCHANGED Told
  /\ worker[w].pc \in {"queued", "finishing"} /\ worker'[w].pc = "stamped"
  /\ worker'[w].run = worker[w].run /\ ownedByRunLocked(w[1], worker[w].run)
  /\ job'[w[1]].status \in Terminal
  /\ job'[w[1]].completedAt # 0
  /\ job'[w[1]].runID = job[w[1]].runID
  /\ job'[w[1]].discarded = job[w[1]].discarded
  /\ job'[w[1]].resourceID \in {job[w[1]].resourceID, worker[w].run + 1}
  /\ job'[w[1]].status = "completed" /\ w[1] \notin Generic => job'[w[1]].resourceID = worker[w].run + 1
  /\ worker'[w].snap = snapshotLocked(job'[w[1]])

\* The row of j, if there is one, shows the job; the other rows are left alone.
RowShown(j) ==
  /\ \A k \in Jobs \ {j} : view'[k] = view[k]
  /\ view'[j] = IF view[j] = Unborn THEN Unborn ELSE job[j].status

Shows(w) ==
  /\ UNCHANGED <<job, history, announced>>
  /\ RowShown(w[1])
  /\ worker'[w].run = worker[w].run
  /\ \/ worker[w].pc \in {"started", "progress"} /\ worker'[w].pc = "fetching"
     \/ worker[w].pc = "processing" /\ worker'[w].pc = "saving"
     \/ worker[w].pc = "stamped" /\ w[1] \in Generic /\ worker'[w].pc = "returned"
     \/ /\ worker[w].pc = "stamped" /\ w[1] \notin Generic /\ worker'[w].pc = "recording"
        /\ worker'[w].snap = worker[w].snap

Records(w) ==
  /\ UNCHANGED <<job, view, announced>>
  /\ worker[w].pc = "writing" /\ worker'[w].pc = "emitting"
  /\ worker'[w].run = worker[w].run /\ worker'[w].snap = worker[w].snap
  /\ RecordRow(w[1], worker[w].snap)

Emits(w) ==
  /\ UNCHANGED <<job, view, history>>
  /\ worker[w].pc = "emitting" /\ worker'[w].pc = "returned"
  /\ worker'[w].run = worker[w].run
  /\ emitJobEvent(w[1], worker[w].snap)

LEMMA FinishFacts ==
  ASSUME TypeOK, NEW w \in Workers, NEW status \in Terminal, NEW resourceID \in Nat,
         finishSnapshot(w, status, resourceID),
         UNCHANGED Told,
         worker[w].pc \in {"queued", "finishing"},
         resourceID \in {0, worker[w].run + 1},
         status = "completed" /\ w[1] \notin Generic => resourceID = worker[w].run + 1
  PROVE  /\ \A v \in Workers \ {w} : worker'[v] = worker[v]
         /\ \A k \in Jobs \ {w[1]} : job'[k] = job[k]
         /\ Moves(w) \/ Stamps(w)
<1> DEFINE after ==
      [job[w[1]] EXCEPT
         !.status = IF status = "completed" /\ job[w[1]].cancelRequested
                    THEN "cancelled" ELSE status,
         !.completedAt = clock[w[1]] + 2,
         !.resourceID = IF resourceID # 0 THEN resourceID ELSE job[w[1]].resourceID]
<1>1. /\ w[1] \in Jobs /\ job[w[1]] \in JobFields /\ worker[w] \in WorkerStates
      /\ clock[w[1]] \in Nat /\ worker[w].run \in Nat
  BY DEF Workers, TypeOK, WorkerStates, Runs
<1>2. CASE ownedByRunLocked(w[1], worker[w].run)
  <2>1. /\ job' = [job EXCEPT ![w[1]] = after]
        /\ worker' = [worker EXCEPT ![w].pc = "stamped", ![w].snap = snapshotLocked(after),
                                    ![w].outcome = Unborn]
    BY <1>2 DEF finishSnapshot
  <2>2. job'[w[1]] = after /\ \A k \in Jobs \ {w[1]} : job'[k] = job[k]
    BY <1>1, <2>1 DEF TypeOK
  <2>3. /\ after.status \in Terminal /\ after.runID = job[w[1]].runID
        /\ after.completedAt # 0 /\ after.discarded = job[w[1]].discarded
        /\ after.resourceID \in {job[w[1]].resourceID, worker[w].run + 1}
        /\ after.status = "completed" /\ w[1] \notin Generic => after.resourceID = worker[w].run + 1
    BY <1>1 DEF JobFields, Terminal
  <2> HIDE DEF after
  <2>4. /\ \A v \in Workers \ {w} : worker'[v] = worker[v]
        /\ worker'[w].pc = "stamped" /\ worker'[w].run = worker[w].run
        /\ worker'[w].snap = snapshotLocked(after)
    BY <1>1, <2>1 DEF TypeOK, WorkerStates
  <2>5. QED
    BY <1>2, <2>2, <2>3, <2>4 DEF Stamps
<1>3. CASE ~ownedByRunLocked(w[1], worker[w].run)
  <2>1. worker' = [worker EXCEPT ![w] = Returned(w)] /\ UNCHANGED job
    BY <1>3 DEF finishSnapshot
  <2>2. /\ \A v \in Workers \ {w} : worker'[v] = worker[v]
        /\ worker'[w].pc = "returned" /\ worker'[w].run = worker[w].run
    BY <2>1 DEF TypeOK, Returned, NoWorker
  <2>3. QED
    BY <1>3, <2>1, <2>2 DEF Moves
<1>4. QED
  BY <1>2, <1>3

\* A step of a goroutine is one of these, and touches nothing else.
LEMMA RunFacts ==
  ASSUME TypeOK, OutcomeDecided, NEW w \in Workers, Run(w)
  PROVE  /\ UNCHANGED <<client, registry>>
         /\ \A v \in Workers \ {w} : worker'[v] = worker[v]
         /\ \A k \in Jobs \ {w[1]} : job'[k] = job[k]
         /\ \/ Queues(w) \/ Moves(w) \/ Starts(w) \/ Processes(w)
            \/ Stamps(w) \/ Shows(w) \/ Records(w) \/ Emits(w)
<1>1. /\ w[1] \in Jobs /\ job[w[1]] \in JobFields /\ worker[w] \in WorkerStates
      /\ worker[w].run \in Nat
  BY DEF Workers, TypeOK, WorkerStates, Runs
<1>2. UNCHANGED <<client, registry>>
  BY DEF Run, Attempt, AcquireSlot, GiveUpQueued, ClaimStart, Progress, EndTransfer, ReachEOF,
         TransferFails, SaveResource, RunFnReturns, SetProcessing, Finish, NotifyWorker,
         CheckWorker, RecordWorker, EmitWorker
<1> DEFINE Others == /\ \A v \in Workers \ {w} : worker'[v] = worker[v]
                     /\ \A k \in Jobs \ {w[1]} : job'[k] = job[k]
<1>3. /\ Returned(w).pc = "returned" /\ Returned(w).run = worker[w].run
  BY DEF Returned, NoWorker
<1>4. CASE Attempt(w)
  BY <1>1, <1>4 DEF Attempt, Queues, Told, TypeOK, WorkerAt, WorkerStates
<1>5. CASE GiveUpQueued(w)
  <2>1. /\ finishSnapshot(w, "cancelled", 0) /\ UNCHANGED Told
        /\ worker[w].pc = "queued" /\ "cancelled" \in Terminal
    BY <1>5 DEF GiveUpQueued, Told, WorkerAt, Terminal
  <2>2. QED
    BY <1>2, <2>1, FinishFacts
<1>6. CASE Finish(w)
  <2> DEFINE id == IF worker[w].outcome = "completed" /\ w[1] \notin Generic
                   THEN worker[w].run + 1 ELSE 0
  <2>1. /\ finishSnapshot(w, worker[w].outcome, id) /\ UNCHANGED Told
        /\ worker[w].pc = "finishing" /\ worker[w].outcome \in Terminal
    BY <1>6 DEF Finish, Told, WorkerAt, OutcomeDecided
  <2>2. /\ id \in Nat /\ id \in {0, worker[w].run + 1}
        /\ worker[w].outcome = "completed" /\ w[1] \notin Generic => id = worker[w].run + 1
    BY <1>1
  <2> HIDE DEF id
  <2>3. QED
    BY <1>2, <2>1, <2>2, FinishFacts
<1>7. CASE ClaimStart(w)
  <2>1. CASE job[w[1]].runID = worker[w].run /\ job[w[1]].status = "pending"
    BY <1>1, <1>2, <1>7, <2>1
       DEF ClaimStart, Starts, OnlyStatus, Told, TypeOK, WorkerAt, WorkerStates, JobFields
  <2>2. CASE ~(job[w[1]].runID = worker[w].run /\ job[w[1]].status = "pending")
    <3>1. UNCHANGED <<job, Told>> /\ worker' = [worker EXCEPT ![w] = Returned(w)]
      BY <1>7, <2>2 DEF ClaimStart, Told
    <3>2. QED
      BY <1>2, <1>3, <1>7, <2>2, <3>1 DEF ClaimStart, Moves, TypeOK, WorkerAt
  <2>3. QED
    BY <2>1, <2>2
<1>8. CASE SetProcessing(w)
  <2>1. CASE ownedByRunLocked(w[1], worker[w].run)
    <3>1. /\ job' = [job EXCEPT ![w[1]].status = "processing"]
          /\ worker' = [worker EXCEPT ![w].pc = "processing"]
          /\ worker[w].pc = "eof" /\ UNCHANGED Told
      BY <1>8, <2>1 DEF SetProcessing, Told, WorkerAt
    <3>2. /\ \A k \in Jobs \ {w[1]} : job'[k] = job[k]
          /\ job'[w[1]].status = "processing" /\ OnlyStatus(w[1])
      BY <1>1, <3>1 DEF TypeOK, OnlyStatus, JobFields
    <3>3. /\ \A v \in Workers \ {w} : worker'[v] = worker[v]
          /\ worker'[w].pc = "processing" /\ worker'[w].run = worker[w].run
      BY <1>1, <3>1 DEF TypeOK, WorkerStates
    <3>4. QED
      BY <1>2, <2>1, <3>1, <3>2, <3>3 DEF Processes
  <2>2. CASE ~ownedByRunLocked(w[1], worker[w].run)
    BY <1>1, <1>2, <1>8, <2>2
       DEF SetProcessing, Moves, Told, TypeOK, WorkerAt, WorkerStates
  <2>3. QED
    BY <2>1, <2>2
<1>9. CASE AcquireSlot(w) \/ Progress(w) \/ ReachEOF(w) \/ SaveResource(w)
  BY <1>1, <1>2, <1>9
     DEF AcquireSlot, Progress, ReachEOF, SaveResource, Moves, Told, TypeOK, WorkerAt, WorkerStates
<1>10. CASE TransferFails(w) \/ RunFnReturns(w)
  BY <1>1, <1>2, <1>10
     DEF TransferFails, RunFnReturns, Moves, Told, TypeOK, WorkerAt, WorkerStates
<1>11. CASE CheckWorker(w)
  BY <1>1, <1>2, <1>11
     DEF CheckWorker, Moves, Told, TypeOK, WorkerAt, WorkerStates
<1>12. CASE RecordWorker(w)
  BY <1>1, <1>2, <1>12
     DEF RecordWorker, Records, TypeOK, WorkerAt, WorkerStates
<1>13. CASE EmitWorker(w)
  BY <1>1, <1>2, <1>3, <1>13
     DEF EmitWorker, Emits, TypeOK, WorkerAt
<1>14. CASE NotifyWorker(w)
  <2>1. /\ worker'[w] = AfterNotify(w) /\ Others
        /\ UNCHANGED <<job, history, announced>>
        /\ worker[w].pc \in {"started", "progress", "processing", "stamped"}
    BY <1>14 DEF NotifyWorker, TypeOK
  <2>2. RowShown(w[1])
    BY <1>1, <1>14 DEF NotifyWorker, notifyJob, Shown, RowShown, TypeOK
  <2>3. /\ worker'[w].run = worker[w].run
        /\ \/ worker[w].pc \in {"started", "progress"} /\ worker'[w].pc = "fetching"
           \/ worker[w].pc = "processing" /\ worker'[w].pc = "saving"
           \/ worker[w].pc = "stamped" /\ w[1] \in Generic /\ worker'[w].pc = "returned"
           \/ /\ worker[w].pc = "stamped" /\ w[1] \notin Generic /\ worker'[w].pc = "recording"
              /\ worker'[w].snap = worker[w].snap
    BY <1>1, <1>3, <2>1 DEF AfterNotify, WorkerStates
  <2>4. QED
    BY <1>2, <2>1, <2>2, <2>3 DEF Shows
<1>15. QED
  BY <1>2, <1>4, <1>5, <1>6, <1>7, <1>8, <1>9, <1>10, <1>11, <1>12, <1>13, <1>14
     DEF Run, EndTransfer

-----------------------------------------------------------------------------
\* What a request begins.
Submits(c, j) ==
  /\ UNCHANGED <<worker, history, announced>>
  /\ job[j].status = Unborn /\ job'[j].status = "pending" /\ OnlyStatus(j)
  /\ \A k \in Jobs \ {j} : job'[k] = job[k]
  /\ j \in registry' /\ \A k \in Jobs \ {j} : k \in registry' => k \in registry
  /\ view'[j] = "pending"
  /\ \A k \in Jobs \ {j} : view'[k] = IF k \in registry /\ k \notin registry' THEN Unborn ELSE view[k]
  /\ client'[c].pc = "submitted" /\ client'[c].job = j
  /\ client'[c].run = 0 /\ client'[c].rest = {}

LooksUp(c) ==
  /\ UNCHANGED <<job, registry, worker, Told>>
  /\ client'[c].pc \in {"cancelling", "pausing"} /\ client'[c].rest = {}

\* The job restarts with its completion time and its resource reset.
Restarts(c, j) ==
  /\ UNCHANGED <<worker, registry, Told>>
  /\ j \in registry
  /\ job[j].status \in {"paused", "failed", "cancelled"} /\ job'[j].status = "pending"
  /\ job'[j].runID = job[j].runID + 1
  /\ job'[j].completedAt \in {0, job[j].completedAt}
  /\ job'[j].resourceID \in {0, job[j].resourceID}
  /\ job[j].status # "paused" => job'[j].resourceID = 0
  /\ job'[j].discarded = job[j].discarded
  /\ \A k \in Jobs \ {j} : job'[k] = job[k]
  /\ client'[c].pc = "restarting" /\ client'[c].job = j
  /\ client'[c].run = job'[j].runID /\ client'[c].rest = {}

Removes(c) ==
  /\ UNCHANGED <<job, worker, Told>>
  /\ client'[c].pc \in {"clearing", "discarding"}
  /\ registry' \subseteq registry /\ client'[c].rest = registry \ registry'

LEMMA RequestFacts ==
  ASSUME TypeOK, NEW c \in Clients, Request(c)
  PROVE  /\ client[c].pc = "idle"
         /\ \A d \in Clients \ {c} : client'[d] = client[d]
         /\ \/ \E j \in Jobs : Submits(c, j) \/ Restarts(c, j)
            \/ LooksUp(c) \/ Removes(c)
<1> USE DEF TypeOK
<1>1. ASSUME NEW j \in Jobs, Submit(c, j)
      PROVE  /\ client[c].pc = "idle"
             /\ \A d \in Clients \ {c} : client'[d] = client[d]
             /\ Submits(c, j)
  <2>1. /\ client[c].pc = "idle" /\ job[j].status = Unborn
        /\ UNCHANGED <<worker, history, announced>>
        /\ registry' = (registry \ Evicted) \cup {j}
        /\ client' = [client EXCEPT ![c] = [IdleClient EXCEPT !.pc = "submitted", !.job = j]]
        /\ job' = [job EXCEPT ![j].status = "pending"]
        /\ view' = [k \in Jobs |-> IF k = j THEN "pending"
                                   ELSE IF k \in Evicted THEN Unborn ELSE view[k]]
    BY <1>1 DEF Submit, ClientAt
  <2>2. Evicted \subseteq registry
    BY DEF Evicted, Oldest, InStatus
  <2>3. /\ j \in registry' /\ \A k \in Jobs \ {j} : k \in registry' => k \in registry
        /\ view'[j] = "pending"
        /\ \A k \in Jobs \ {j} : view'[k] = IF k \in registry /\ k \notin registry' THEN Unborn ELSE view[k]
    BY <2>1, <2>2
  <2>4. /\ \A d \in Clients \ {c} : client'[d] = client[d]
        /\ client'[c].pc = "submitted" /\ client'[c].job = j
        /\ client'[c].run = 0 /\ client'[c].rest = {}
    BY <2>1 DEF IdleClient
  <2>5. /\ \A k \in Jobs \ {j} : job'[k] = job[k]
        /\ job'[j].status = "pending" /\ OnlyStatus(j)
    BY <2>1 DEF OnlyStatus, JobFields
  <2>6. QED
    BY <2>1, <2>3, <2>4, <2>5 DEF Submits
<1>2. ASSUME NEW j \in Jobs, NEW claim \in {"cancelling", "pausing"}, Lookup(c, j, claim)
      PROVE  /\ client[c].pc = "idle"
             /\ \A d \in Clients \ {c} : client'[d] = client[d]
             /\ LooksUp(c)
  BY <1>2 DEF Lookup, LooksUp, Told, ClientAt, IdleClient
<1>3. ASSUME NEW j \in Jobs, Resume(c, j) \/ Retry(c, j)
      PROVE  /\ client[c].pc = "idle"
             /\ \A d \in Clients \ {c} : client'[d] = client[d]
             /\ Restarts(c, j)
  <2>0. job[j] \in JobFields /\ job[j].runID \in Nat
    BY DEF JobFields, Runs
  <2>1. ASSUME NEW after \in JobFields, Restart(c, j, after)
        PROVE  /\ client[c].pc = "idle" /\ j \in registry
               /\ UNCHANGED <<worker, registry, Told>>
               /\ \A d \in Clients \ {c} : client'[d] = client[d]
               /\ \A k \in Jobs \ {j} : job'[k] = job[k]
               /\ job'[j] = after
               /\ client'[c].pc = "restarting" /\ client'[c].job = j
               /\ client'[c].run = after.runID /\ client'[c].rest = {}
    BY <2>1 DEF Restart, ClientAt, IdleClient, Told
  <2>2. CASE Resume(c, j)
    <3> DEFINE after == [job[j] EXCEPT !.runID = job[j].runID + 1, !.status = "pending"]
    <3>1. Restart(c, j, after) /\ job[j].status = "paused" /\ job[j].runID < MaxRun
      BY <2>2 DEF Resume, Restart
    <3>2. /\ after \in JobFields
          /\ after.status = "pending" /\ after.runID = job[j].runID + 1
          /\ after.completedAt = job[j].completedAt /\ after.resourceID = job[j].resourceID
          /\ after.discarded = job[j].discarded
      <4>1. job[j].runID + 1 \in Runs /\ "pending" \in Statuses
        BY <2>0, <3>1, QueueAssumption DEF Runs, Statuses, Active
      <4>2. QED
        BY ONLY <2>0, <4>1 DEF JobFields
    <3> HIDE DEF after
    <3>3. QED
      BY <2>1, <3>1, <3>2 DEF Restarts
  <2>3. CASE Retry(c, j)
    <3> DEFINE after == [job[j] EXCEPT !.runID = job[j].runID + 1, !.status = "pending",
                            !.cancelRequested = FALSE, !.completedAt = 0, !.resourceID = 0]
    <3>1. /\ Restart(c, j, after) /\ job[j].runID < MaxRun
          /\ job[j].status \in {"failed", "cancelled"}
      BY <2>3 DEF Retry, Restart, canRetryLocked
    <3>2. /\ after \in JobFields
          /\ after.status = "pending" /\ after.runID = job[j].runID + 1
          /\ after.completedAt = 0 /\ after.resourceID = 0
          /\ after.discarded = job[j].discarded
      <4>1. job[j].runID + 1 \in Runs /\ "pending" \in Statuses
        BY <2>0, <3>1, QueueAssumption DEF Runs, Statuses, Active
      <4>2. QED
        BY ONLY <2>0, <4>1 DEF JobFields
    <3> HIDE DEF after
    <3>3. QED
      BY <2>1, <3>1, <3>2 DEF Restarts
  <2>4. QED
    BY <1>3, <2>2, <2>3
<1>4. ASSUME NEW gone \in SUBSET registry, NEW pc \in {"clearing", "discarding"}, RemoveTerminal(c, gone, pc)
      PROVE  /\ client[c].pc = "idle"
             /\ \A d \in Clients \ {c} : client'[d] = client[d]
             /\ Removes(c)
  <2>1. /\ client[c].pc = "idle" /\ UNCHANGED <<job, worker, Told>>
        /\ registry' = registry \ gone
        /\ client' = [client EXCEPT ![c] = [IdleClient EXCEPT !.pc = pc, !.rest = gone]]
    BY <1>4 DEF RemoveTerminal, ClientAt, Told
  <2>2. /\ \A d \in Clients \ {c} : client'[d] = client[d]
        /\ client'[c].pc = pc /\ client'[c].rest = gone
    BY <2>1 DEF IdleClient
  <2>3. gone = registry \ registry' /\ registry' \subseteq registry
    BY <2>1
  <2>4. QED
    BY <2>1, <2>2, <2>3 DEF Removes
<1>5. QED
  BY <1>1, <1>2, <1>3, <1>4 DEF Request, ClearFinished, RemoveFinished

\* What a request that has begun does next.
Spawns(c) ==
  /\ UNCHANGED <<job, registry, Told>>
  /\ Spawning(c)
  /\ <<client[c].job, client[c].run>> \in Workers
  /\ worker'[<<client[c].job, client[c].run>>].pc = "spawned"
  /\ \A w \in Workers \ {<<client[c].job, client[c].run>>} : worker'[w] = worker[w]
  /\ \/ client[c].pc = "submitted" /\ client'[c] = IdleClient
     \/ /\ client[c].pc = "restarting" /\ client'[c].pc = "restarted"
        /\ client'[c].job = client[c].job /\ client'[c].rest = client[c].rest

\* The request is over: it is refused, or the cancel it has accepted is recorded.
Settles(c) ==
  /\ UNCHANGED <<worker, registry, Told>>
  /\ \A k \in Jobs : job'[k].status = job[k].status /\ OnlyStatus(k)
  /\ client[c].pc \in {"cancelling", "pausing"} /\ client'[c] = IdleClient

\* The request goes on about the job it has found.
GoesOn(c, pc) ==
  client'[c].pc = pc /\ client'[c].job = client[c].job /\ client'[c].rest = client[c].rest

CancelStamps(c) ==
  LET j == client[c].job IN
  /\ UNCHANGED <<worker, registry, Told>>
  /\ client[c].pc = "cancelling" /\ GoesOn(c, "stamped")
  /\ j \in Jobs /\ \A k \in Jobs \ {j} : job'[k] = job[k]
  /\ job[j].status = "paused" /\ job'[j].status = "cancelled"
  /\ job'[j].completedAt # 0
  /\ job'[j].runID = job[j].runID
  /\ job'[j].resourceID = job[j].resourceID
  /\ job'[j].discarded = job[j].discarded
  /\ client'[c].snap = snapshotLocked(job'[j])

Pauses(c) ==
  LET j == client[c].job IN
  /\ UNCHANGED <<worker, registry, Told>>
  /\ client[c].pc = "pausing" /\ GoesOn(c, "notifying")
  /\ j \in Jobs /\ \A k \in Jobs \ {j} : job'[k] = job[k]
  /\ canPauseLocked(j) /\ job'[j].status = "paused" /\ OnlyStatus(j)

Corrects(c) ==
  /\ UNCHANGED <<job, worker, registry, history, announced>>
  /\ client[c].job \in Jobs /\ RowShown(client[c].job)
  /\ \/ client[c].pc \in {"notifying", "restarted"} /\ client'[c] = IdleClient
     \/ client[c].pc = "stamped" /\ GoesOn(c, "recording") /\ client'[c].snap = client[c].snap

Checks(c) ==
  /\ UNCHANGED <<job, worker, registry, Told>>
  /\ client[c].pc = "recording" /\ GoesOn(c, NextAfterCheck(client[c].job))
  /\ client'[c].snap = client[c].snap

Writes(c) ==
  /\ UNCHANGED <<job, worker, registry, view, announced>>
  /\ client[c].pc = "writing" /\ GoesOn(c, "emitting") /\ client'[c].snap = client[c].snap
  /\ RecordRow(client[c].job, client[c].snap)

Announces(c) ==
  /\ UNCHANGED <<job, worker, registry, view, history>>
  /\ client[c].pc = "emitting" /\ client'[c] = IdleClient
  /\ emitJobEvent(client[c].job, client[c].snap)

Discards(c) ==
  /\ UNCHANGED <<worker, registry, Told>>
  /\ client[c].pc = "discarding" /\ client'[c].pc = "discarded"
  /\ client'[c].job \in client[c].rest /\ client'[c].rest = client[c].rest
  /\ \A k \in Jobs : /\ job'[k].status = job[k].status
                     /\ job'[k].runID = job[k].runID
                     /\ job'[k].completedAt = job[k].completedAt
                     /\ job'[k].resourceID = job[k].resourceID
                     /\ job[k].discarded => job'[k].discarded

Unlists(c, j) ==
  /\ UNCHANGED <<job, worker, registry, history, announced>>
  /\ \/ client[c].pc = "clearing" /\ j \in client[c].rest
     \/ client[c].pc = "discarded" /\ j = client[c].job
  /\ view'[j] = Unborn /\ \A k \in Jobs \ {j} : view'[k] = view[k]
  /\ client'[c].pc \in {"idle", "clearing", "discarding"}
  /\ client'[c].rest = client[c].rest \ {j}
  /\ client'[c].pc = "idle" => client'[c].rest = {}

LEMMA ServeFacts ==
  ASSUME TypeOK, RequestHolds, NEW c \in Clients, Serve(c)
  PROVE  /\ \A d \in Clients \ {c} : client'[d] = client[d]
         /\ \/ Spawns(c) \/ Settles(c) \/ CancelStamps(c) \/ Pauses(c) \/ Corrects(c)
            \/ Checks(c) \/ Writes(c) \/ Announces(c) \/ Discards(c)
            \/ \E j \in Jobs : Unlists(c, j)
<1> DEFINE j == client[c].job
           Alone == \A d \in Clients \ {c} : client'[d] = client[d]
<1>0. /\ client[c].pc \notin {"idle", "clearing", "discarding"} => j \in Jobs /\ job[j] \in JobFields
      /\ client[c].pc = "cancelling" => client[c].time # 0
      /\ client[c] \in ClientStates /\ client[c].time \in Nat /\ client[c].rest \subseteq Jobs
      /\ client[c].run \in Runs
      /\ client \in [Clients -> ClientStates]
  BY DEF RequestHolds, TypeOK, ClientStates, ClientAt
<1>1. CASE Spawn(c)
  <2> DEFINE s == <<j, client[c].run>>
  <2>1. /\ UNCHANGED <<job, registry, Told>> /\ worker' = [worker EXCEPT ![s].pc = "spawned"]
        /\ Spawning(c)
        /\ client' = [client EXCEPT ![c] = IF client[c].pc = "submitted" THEN IdleClient
                                           ELSE [client[c] EXCEPT !.pc = "restarted"]]
    BY <1>1 DEF Spawn, Spawning, Told, ClientAt
  <2>2. s \in Workers
    BY <1>0, <2>1 DEF Spawning, Workers
  <2>3. worker'[s].pc = "spawned" /\ \A w \in Workers \ {s} : worker'[w] = worker[w]
    <3>1. worker[s] \in WorkerStates
      BY <2>2 DEF TypeOK
    <3>2. QED
      BY <2>1, <2>2, <3>1 DEF TypeOK, WorkerStates
  <2>4. /\ Alone
        /\ \/ client[c].pc = "submitted" /\ client'[c] = IdleClient
           \/ client[c].pc = "restarting" /\ GoesOn(c, "restarted")
    BY <1>0, <2>1 DEF Spawning, GoesOn, ClientStates
  <2>5. QED
    BY <2>1, <2>2, <2>3, <2>4 DEF Spawns, GoesOn
<1>2. CASE CancelActive(c)
  <2>1. /\ client[c].pc = "cancelling" /\ job' = [job EXCEPT ![j].cancelRequested = TRUE]
        /\ UNCHANGED <<worker, registry, Told>>
        /\ client' = [client EXCEPT ![c] = IdleClient]
    BY <1>2 DEF CancelActive, ClientAt, Told
  <2>2. \A k \in Jobs : job'[k].status = job[k].status /\ OnlyStatus(k)
    BY <1>0, <2>1 DEF TypeOK, OnlyStatus, JobFields
  <2>3. Alone /\ client'[c] = IdleClient
    BY <1>0, <2>1
  <2>4. QED
    BY <2>1, <2>2, <2>3 DEF Settles
<1>3. CASE CancelPaused(c)
  <2> DEFINE after == [job[j] EXCEPT !.status = "cancelled", !.cancelRequested = TRUE,
                                     !.completedAt = client[c].time]
  <2>1. /\ client[c].pc = "cancelling" /\ job[j].status = "paused"
        /\ job' = [job EXCEPT ![j] = after]
        /\ UNCHANGED <<worker, registry, Told>>
        /\ client' = [client EXCEPT ![c].pc = "stamped", ![c].snap = snapshotLocked(after)]
    BY <1>3 DEF CancelPaused, ClientAt, Told
  <2>2. /\ after.status = "cancelled" /\ after.completedAt # 0 /\ after.runID = job[j].runID
        /\ after.resourceID = job[j].resourceID /\ after.discarded = job[j].discarded
    BY <1>0, <2>1 DEF JobFields
  <2> HIDE DEF after
  <2>3. j \in Jobs /\ job'[j] = after /\ \A k \in Jobs \ {j} : job'[k] = job[k]
    BY <1>0, <2>1 DEF TypeOK
  <2>4. Alone /\ GoesOn(c, "stamped") /\ client'[c].snap = snapshotLocked(after)
    BY <1>0, <2>1 DEF ClientStates, GoesOn
  <2>5. QED
    BY <2>1, <2>2, <2>3, <2>4 DEF CancelStamps
<1>4. CASE ClaimPause(c)
  <2>1. /\ client[c].pc = "pausing" /\ canPauseLocked(j)
        /\ job' = [job EXCEPT ![j].status = "paused"]
        /\ UNCHANGED <<worker, registry, Told>>
        /\ client' = [client EXCEPT ![c].pc = "notifying"]
    BY <1>4 DEF ClaimPause, ClientAt, Told
  <2>2. /\ j \in Jobs /\ \A k \in Jobs \ {j} : job'[k] = job[k]
        /\ job'[j].status = "paused" /\ OnlyStatus(j)
    BY <1>0, <2>1 DEF TypeOK, OnlyStatus, JobFields
  <2>3. Alone /\ GoesOn(c, "notifying")
    BY <1>0, <2>1 DEF ClientStates, GoesOn
  <2>4. QED
    BY <2>1, <2>2, <2>3 DEF Pauses
<1>5. CASE ClaimRefused(c)
  <2>1. /\ UNCHANGED <<job, worker, registry, Told>>
        /\ client[c].pc \in {"cancelling", "pausing"}
        /\ client' = [client EXCEPT ![c] = IdleClient]
    BY <1>5 DEF ClaimRefused, ClientAt, Told
  <2>2. Alone /\ client'[c] = IdleClient
    BY <1>0, <2>1
  <2>3. QED
    BY <2>1, <2>2 DEF Settles, OnlyStatus
<1>6. CASE NotifyControl(c) \/ NotifyCancelled(c)
  <2>1. /\ UNCHANGED <<job, worker, registry, history, announced>>
        /\ notifyJob("updated", j)
        /\ client[c].pc \in {"notifying", "restarted", "stamped"}
    BY <1>6 DEF NotifyControl, NotifyCancelled, ClientAt
  <2>2. j \in Jobs /\ RowShown(j)
    BY <1>0, <2>1 DEF notifyJob, Shown, RowShown, TypeOK
  <2>3. Alone /\ (\/ client[c].pc \in {"notifying", "restarted"} /\ client'[c] = IdleClient
                  \/ client[c].pc = "stamped" /\ GoesOn(c, "recording") /\ client'[c].snap = client[c].snap)
    BY <1>0, <1>6 DEF NotifyControl, NotifyCancelled, ClientAt, ClientStates, GoesOn
  <2>4. QED
    BY <2>1, <2>2, <2>3 DEF Corrects
<1>7. CASE CheckClient(c)
  BY <1>0, <1>7 DEF CheckClient, Checks, Told, ClientAt, ClientStates, GoesOn
<1>8. CASE RecordClient(c)
  BY <1>0, <1>8 DEF RecordClient, Writes, ClientAt, ClientStates, GoesOn
<1>9. CASE EmitClient(c)
  BY <1>0, <1>9 DEF EmitClient, Announces, ClientAt
<1>10. ASSUME NEW i \in Jobs, MarkDiscarded(c, i) PROVE Alone /\ Discards(c)
  <2>1. /\ client[c].pc = "discarding" /\ i \in client[c].rest
        /\ job' = [job EXCEPT ![i].discarded = TRUE]
        /\ UNCHANGED <<worker, registry, Told>>
        /\ client' = [client EXCEPT ![c].pc = "discarded", ![c].job = i]
    BY <1>10 DEF MarkDiscarded, ClientAt, Told
  <2>2. \A k \in Jobs : /\ job'[k].status = job[k].status
                        /\ job'[k].runID = job[k].runID
                        /\ job'[k].completedAt = job[k].completedAt
                        /\ job'[k].resourceID = job[k].resourceID
                        /\ job[k].discarded => job'[k].discarded
    BY <2>1 DEF TypeOK, JobFields
  <2>3. /\ Alone /\ client'[c].pc = "discarded" /\ client'[c].job = i
        /\ client'[c].rest = client[c].rest
    BY <1>0, <2>1 DEF ClientStates
  <2>4. QED
    BY <2>1, <2>2, <2>3 DEF Discards
<1>11. ASSUME NEW i \in Jobs, NotifyRemoved(c, i) PROVE Alone /\ Unlists(c, i)
  <2>1. /\ UNCHANGED <<job, worker, registry, history, announced>>
        /\ \/ client[c].pc = "clearing" /\ i \in client[c].rest
           \/ client[c].pc = "discarded" /\ i = client[c].job
        /\ notifyJob("removed", i)
    BY <1>11 DEF NotifyRemoved, ClientAt
  <2>2. view'[i] = Unborn /\ \A k \in Jobs \ {i} : view'[k] = view[k]
    BY <2>1 DEF notifyJob, Shown, TypeOK
  <2>3. /\ Alone /\ client'[c].pc \in {"idle", "clearing", "discarding"}
        /\ client'[c].rest = client[c].rest \ {i}
        /\ client'[c].pc = "idle" => client'[c].rest = {}
    BY <1>0, <1>11 DEF NotifyRemoved, IdleClient
  <2>4. QED
    BY <2>1, <2>2, <2>3 DEF Unlists
<1>12. QED
  BY <1>1, <1>2, <1>3, <1>4, <1>5, <1>6, <1>7, <1>8, <1>9, <1>10, <1>11 DEF Serve

\* The retention sweep removes jobs and their rows.
Sweeps ==
  /\ UNCHANGED <<job, worker, client, history, announced>>
  /\ registry' \subseteq registry
  /\ \A k \in Jobs : view'[k] = IF k \in registry /\ k \notin registry' THEN Unborn ELSE view[k]

\* What the types and the first invariants say of the indices of a step.
LEMMA Indices ==
  ASSUME Inductive
  PROVE  /\ \A w \in Workers : /\ w[1] \in Jobs /\ w[2] \in Nat
                               /\ worker[w].run \in Nat /\ worker[w].snap \in Snapshots
         /\ \A j \in Jobs : /\ job[j].runID \in Nat /\ job[j].completedAt \in Nat
                            /\ job[j].status \in Statuses
                            /\ job[j] \in JobFields /\ <<j, job[j].runID>> \in Workers
         /\ \A c \in Clients : /\ client[c].run \in Nat /\ client[c].snap \in Snapshots
                               /\ client[c].rest \subseteq Jobs
         /\ \A c \in Clients : client[c].pc \notin {"idle", "clearing", "discarding"} =>
              client[c].job \in Jobs /\ job[client[c].job].status # Unborn
BY DEF Inductive, Strengthening, RequestHolds, TypeOK, Workers, Runs, WorkerStates, JobFields,
       ClientStates

\* A step is one of the steps above.
LEMMA StepFacts ==
  ASSUME Inductive, [Next]_vars
  PROVE  \/ \E c \in Clients : Request(c) \/ Serve(c)
         \/ \E w \in Workers : Run(w)
         \/ Sweeps
<1>1. CASE CleanupOldJobs
  BY <1>1 DEF CleanupOldJobs, Sweeps, Inductive, TypeOK
<1>2. CASE UNCHANGED vars
  BY <1>2 DEF vars, Sweeps
<1>3. QED
  BY <1>1, <1>2 DEF Next

-----------------------------------------------------------------------------
(* One goroutine per attempt, and one for every live job.                    *)

LEMMA SpawnsOnceFrame ==
  ASSUME Inductive,
         \A w \in Workers : worker'[w].pc = "none" <=> worker[w].pc = "none",
         \A j \in Jobs : job'[j].runID = job[j].runID,
         \A c \in Clients : client'[c] = client[c] \/ ~Spawning(c)'
  PROVE  SpawnsOnce'
<1>1. \A c \in Clients : Spawning(c) =>
        client[c].job \in Jobs /\ <<client[c].job, client[c].run>> \in Workers
  BY DEF Inductive, Strengthening, RequestHolds, TypeOK, Workers, ClientStates, Spawning
<1>2. SpawnsOnce /\ \A w \in Workers : w[1] \in Jobs
  BY Indices DEF Inductive, Telling
<1>3. \A w \in Workers : worker'[w].pc # "none" => w[2] <= job'[w[1]].runID
  BY <1>2 DEF SpawnsOnce
<1>4. \A c \in Clients : Spawning(c)' => Spawning(c) /\ client'[c] = client[c]
  BY DEF Spawning
<1>5. ASSUME NEW c \in Clients, Spawning(c)'
      PROVE  /\ WorkerAt(<<client[c].job, client[c].run>>, "none")'
             /\ client'[c].run <= job'[client'[c].job].runID
             /\ \A d \in Clients \ {c} :
                  Spawning(d)' /\ client'[d].job = client'[c].job => client'[d].run # client'[c].run
  BY <1>1, <1>2, <1>4, <1>5 DEF SpawnsOnce, WorkerAt
<1>6. QED
  BY <1>3, <1>5 DEF SpawnsOnce

\* A request comes to spawn the goroutine of an attempt that no other is for.
LEMMA SpawnerAdded ==
  ASSUME Inductive, NEW c \in Clients, NEW j \in Jobs, NEW r \in Nat,
         UNCHANGED worker,
         worker[<<j, r>>].pc = "none",
         client'[c].job = j, client'[c].run = r, r <= job'[j].runID,
         \A k \in Jobs : job'[k].runID \in Nat /\ job[k].runID <= job'[k].runID,
         \A d \in Clients \ {c} : client'[d] = client[d],
         \A d \in Clients : Spawning(d) /\ client[d].job = j => client[d].run # r
  PROVE  SpawnsOnce'
<1>1. /\ SpawnsOnce
      /\ \A w \in Workers : w[1] \in Jobs /\ w[2] \in Nat
      /\ \A k \in Jobs : job[k].runID \in Nat
      /\ \A d \in Clients : client[d].run \in Nat
      /\ \A d \in Clients : Spawning(d) => client[d].job \in Jobs
  BY Indices DEF Inductive, Telling, Spawning
<1>2. ASSUME NEW w \in Workers, worker'[w].pc # "none" PROVE w[2] <= job'[w[1]].runID
  <2>1. w[2] <= job[w[1]].runID
    BY <1>2 DEF SpawnsOnce, Telling, Inductive
  <2>2. QED
    BY <1>1, <2>1
<1>3. \A d \in Clients \ {c} : Spawning(d)' => Spawning(d) /\ client'[d] = client[d]
  BY DEF Spawning
<1>4. ASSUME NEW d \in Clients \ {c}, Spawning(d)'
      PROVE  /\ worker'[<<client'[d].job, client'[d].run>>].pc = "none"
             /\ client'[d].run <= job'[client'[d].job].runID
             /\ client'[d].job = client'[c].job => client'[d].run # client'[c].run
             /\ \A e \in Clients \ {c, d} :
                  Spawning(e)' /\ client'[e].job = client'[d].job => client'[e].run # client'[d].run
  <2>1. Spawning(d) /\ client'[d] = client[d]
    BY <1>3, <1>4
  <2>2. /\ worker[<<client[d].job, client[d].run>>].pc = "none"
        /\ client[d].run <= job[client[d].job].runID
        /\ \A e \in Clients \ {d} :
             Spawning(e) /\ client[e].job = client[d].job => client[e].run # client[d].run
    BY <1>1, <2>1 DEF SpawnsOnce, WorkerAt
  <2>3. client[d].run <= job'[client[d].job].runID
    BY <1>1, <2>1, <2>2
  <2>4. \A e \in Clients \ {c, d} :
           Spawning(e)' /\ client'[e].job = client'[d].job => client'[e].run # client'[d].run
    BY <1>3, <2>1, <2>2
  <2>5. QED
    BY <2>1, <2>2, <2>3, <2>4
<1>5. QED
  BY <1>2, <1>4 DEF SpawnsOnce, WorkerAt

LEMMA SpawnsOnceNext == Inductive /\ [Next]_vars => SpawnsOnce'
<1> SUFFICES ASSUME Inductive, [Next]_vars PROVE SpawnsOnce'
  OBVIOUS
<1>0. /\ \A w \in Workers : w[1] \in Jobs /\ w[2] \in Nat
      /\ \A j \in Jobs : job[j].runID \in Nat
      /\ \A c \in Clients : client[c].run \in Nat
  BY Indices
<1>1. TypeOK /\ RequestHolds /\ OutcomeDecided /\ SpawnsOnce /\ StartedOnce
  BY DEF Inductive, Strengthening, Telling
<1>2. ASSUME NEW c \in Clients, Request(c) PROVE SpawnsOnce'
  <2>1. \A d \in Clients \ {c} : client'[d] = client[d]
    BY <1>1, <1>2, RequestFacts
  <2>2. ASSUME NEW j \in Jobs, Submits(c, j) PROVE SpawnsOnce'
    <3>1. \A w \in Workers : w[1] = j => worker[w].pc = "none"
      BY <1>1, <2>2 DEF StartedOnce, Submits
    <3>2. \A d \in Clients : Spawning(d) => client[d].job # j
      BY <1>1, <2>2 DEF RequestHolds, Submits, Spawning
    <3>3. \A k \in Jobs : job'[k].runID = job[k].runID
      BY <2>2 DEF Submits, OnlyStatus
    <3>4. /\ UNCHANGED worker /\ client'[c].job = j /\ client'[c].run = 0
          /\ <<j, 0>> \in Workers /\ <<j, 0>>[1] = j
      BY <1>1, <2>2, QueueAssumption DEF Submits, Workers, Runs
    <3>5. worker[<<j, 0>>].pc = "none"
      BY <3>1, <3>4
    <3>6. QED
      BY <1>0, <2>1, <3>2, <3>3, <3>4, <3>5, SpawnerAdded
  <2>3. ASSUME NEW j \in Jobs, Restarts(c, j) PROVE SpawnsOnce'
    <3>1. /\ UNCHANGED worker /\ client'[c].job = j /\ client'[c].run = job[j].runID + 1
          /\ job'[j].runID = job[j].runID + 1
          /\ \A k \in Jobs \ {j} : job'[k].runID = job[k].runID
      BY <2>3 DEF Restarts
    <3>2. <<j, job[j].runID + 1>> \in Workers
      BY <1>1, <2>3, <3>1, TypesNext DEF TypeOK, JobFields, Workers
    <3>3. worker[<<j, job[j].runID + 1>>].pc = "none"
      <4>1. ~(job[j].runID + 1 <= job[j].runID)
        BY <1>0
      <4>2. QED
        BY <1>1, <3>2, <4>1 DEF SpawnsOnce
    <3>4. \A d \in Clients : Spawning(d) /\ client[d].job = j => client[d].run # job[j].runID + 1
      <4>1. \A d \in Clients : Spawning(d) => client[d].run <= job[client[d].job].runID
        BY <1>1 DEF SpawnsOnce
      <4>2. QED
        BY <1>0, <4>1
    <3>5. \A k \in Jobs : job'[k].runID \in Nat /\ job[k].runID <= job'[k].runID
      BY <1>0, <3>1
    <3>6. QED
      BY <1>0, <2>1, <3>1, <3>3, <3>4, <3>5, SpawnerAdded
  <2>4. CASE LooksUp(c) \/ Removes(c)
    BY <2>1, <2>4, SpawnsOnceFrame DEF LooksUp, Removes, Spawning
  <2>5. QED
    BY <1>1, <1>2, <2>2, <2>3, <2>4, RequestFacts
<1>3. ASSUME NEW c \in Clients, Serve(c) PROVE SpawnsOnce'
  <2>1. \A d \in Clients \ {c} : client'[d] = client[d]
    BY <1>1, <1>3, ServeFacts
  <2>2. CASE Spawns(c)
    <3> DEFINE s == <<client[c].job, client[c].run>>
    <3>1. /\ UNCHANGED job /\ Spawning(c) /\ s \in Workers /\ ~Spawning(c)'
          /\ \A w \in Workers \ {s} : worker'[w] = worker[w]
      BY <2>2 DEF Spawns, Spawning, IdleClient
    <3>2. client[c].run <= job[client[c].job].runID
      BY <1>1, <3>1 DEF SpawnsOnce
    <3>3. \A w \in Workers : worker'[w].pc # "none" => w[2] <= job'[w[1]].runID
      BY <1>1, <3>1, <3>2 DEF SpawnsOnce
    <3>4. ASSUME NEW d \in Clients, Spawning(d)'
          PROVE  /\ Spawning(d) /\ client'[d] = client[d] /\ d # c
                 /\ <<client[d].job, client[d].run>> \in Workers \ {s}
      BY <1>1, <2>1, <3>1, <3>4 DEF Spawning, RequestHolds, TypeOK, ClientStates, Workers, SpawnsOnce
    <3>5. ASSUME NEW d \in Clients, Spawning(d)'
          PROVE  /\ WorkerAt(<<client[d].job, client[d].run>>, "none")'
                 /\ client'[d].run <= job'[client'[d].job].runID
                 /\ \A e \in Clients \ {d} :
                      Spawning(e)' /\ client'[e].job = client'[d].job => client'[e].run # client'[d].run
      BY <1>1, <3>1, <3>4, <3>5 DEF SpawnsOnce, WorkerAt
    <3>6. QED
      BY <3>3, <3>5 DEF SpawnsOnce
  <2>3. CASE Settles(c) \/ CancelStamps(c) \/ Pauses(c) \/ Corrects(c) \/ Checks(c) \/ Writes(c)
             \/ Announces(c) \/ Discards(c) \/ \E j \in Jobs : Unlists(c, j)
    <3>1. UNCHANGED worker /\ \A j \in Jobs : job'[j].runID = job[j].runID
      BY <2>3 DEF Settles, CancelStamps, Pauses, Corrects, Checks, Writes, Announces, Discards,
                  Unlists, OnlyStatus
    <3>2. ~Spawning(c)'
      BY <2>3 DEF Settles, CancelStamps, Pauses, Corrects, Checks, Writes, Announces, Discards,
                  Unlists, Spawning, IdleClient, GoesOn, NextAfterCheck
    <3>3. QED
      BY <2>1, <3>1, <3>2, SpawnsOnceFrame
  <2>4. QED
    BY <1>1, <1>3, <2>2, <2>3, ServeFacts
<1>4. ASSUME NEW w \in Workers, Run(w) PROVE SpawnsOnce'
  <2>1. /\ UNCHANGED client
        /\ \A v \in Workers \ {w} : worker'[v] = worker[v]
        /\ \A k \in Jobs \ {w[1]} : job'[k] = job[k]
    BY <1>1, <1>4, RunFacts
  <2>2. /\ job'[w[1]].runID = job[w[1]].runID
        /\ worker[w].pc # "none" /\ worker'[w].pc # "none"
    BY <1>1, <1>4, RunFacts
       DEF Queues, Moves, Starts, Processes, Stamps, Shows, Records, Emits, OnlyStatus, NextAfterCheck
  <2>3. \A c \in Clients : client'[c] = client[c]
    BY <2>1
  <2>4. QED
    BY <2>1, <2>2, <2>3, SpawnsOnceFrame
<1>5. CASE Sweeps
  BY <1>5, SpawnsOnceFrame DEF Sweeps
<1>6. QED
  BY <1>2, <1>3, <1>4, <1>5, StepFacts

\* The witnesses of Manned: w is on its way to start j, or transfers for it.
WaitsFor(w, j) ==
  /\ w[1] = j
  /\ \/ worker[w].pc = "spawned"
     \/ worker[w].run = job[j].runID /\ worker[w].pc \in {"queued", "slot"}

WorksOn(w, j) == w[1] = j /\ worker[w].run = job[j].runID /\ Transferring(w)

MannedJob(j) ==
  /\ job[j].status = "pending" =>
       \/ \E w \in Workers : WaitsFor(w, j)
       \/ \E c \in Clients : Spawning(c) /\ client[c].job = j
  /\ job[j].status \in {"downloading", "processing"} => \E w \in Workers : WorksOn(w, j)

LEMMA MannedJobs == Manned <=> \A j \in Jobs : MannedJob(j)
BY DEF Manned, MannedJob, WaitsFor, WorksOn, WorkerAt

LEMMA MannedFrame ==
  ASSUME NEW j \in Jobs, MannedJob(j),
         job'[j].runID = job[j].runID,
         job'[j].status = job[j].status \/ ~(activeLocked(j)'),
         \A w \in Workers : WaitsFor(w, j) /\ job[j].status = "pending" => WaitsFor(w, j)',
         \A w \in Workers : WorksOn(w, j) /\ activeLocked(j) => WorksOn(w, j)',
         \A c \in Clients : Spawning(c) /\ client[c].job = j =>
           \/ Spawning(c)' /\ client'[c].job = j
           \/ \E w \in Workers : WaitsFor(w, j)'
  PROVE  MannedJob(j)'
BY DEF MannedJob, activeLocked, Active

LEMMA MannedNext == Inductive /\ [Next]_vars => Manned'
<1> SUFFICES ASSUME Inductive, [Next]_vars, NEW j \in Jobs PROVE MannedJob(j)'
  BY DEF Manned, MannedJob, WaitsFor, WorksOn, WorkerAt
<1>0. /\ \A w \in Workers : w[1] \in Jobs
      /\ \A k \in Jobs : job[k].runID \in Nat
  BY Indices
<1>1. TypeOK /\ RequestHolds /\ OutcomeDecided /\ SpawnsOnce /\ MannedJob(j)
  BY MannedJobs DEF Inductive, Strengthening, Telling
<1>2. ASSUME NEW c \in Clients, Request(c) PROVE MannedJob(j)'
  <2>1. client[c].pc = "idle" /\ \A d \in Clients \ {c} : client'[d] = client[d]
    BY <1>1, <1>2, RequestFacts
  <2>2. \A d \in Clients : Spawning(d) => Spawning(d)' /\ client'[d].job = client[d].job
    BY <2>1 DEF Spawning
  <2>3. ASSUME job'[j] = job[j], UNCHANGED worker PROVE MannedJob(j)'
    BY <1>1, <2>2, <2>3, MannedFrame DEF WaitsFor, WorksOn, Transferring
  <2>4. ASSUME NEW k \in Jobs, Submits(c, k) \/ Restarts(c, k) PROVE MannedJob(j)'
    <3>1. CASE j = k
      BY <2>4, <3>1 DEF Submits, Restarts, MannedJob, Spawning
    <3>2. CASE j # k
      BY <2>3, <2>4, <3>2 DEF Submits, Restarts
    <3>3. QED
      BY <3>1, <3>2
  <2>5. CASE LooksUp(c) \/ Removes(c)
    BY <2>3, <2>5 DEF LooksUp, Removes
  <2>6. QED
    BY <1>1, <1>2, <2>4, <2>5, RequestFacts
<1>3. ASSUME NEW c \in Clients, Serve(c) PROVE MannedJob(j)'
  <2>1. \A d \in Clients \ {c} : client'[d] = client[d]
    BY <1>1, <1>3, ServeFacts
  <2>2. CASE Spawns(c)
    <3> DEFINE s == <<client[c].job, client[c].run>>
    <3>1. /\ UNCHANGED job /\ s \in Workers /\ worker'[s].pc = "spawned" /\ s[1] = client[c].job
          /\ \A w \in Workers \ {s} : worker'[w] = worker[w]
          /\ worker[s].pc = "none"
      BY <1>1, <2>2 DEF Spawns, SpawnsOnce, WorkerAt
    <3> HIDE DEF s
    <3>2. \A w \in Workers : WaitsFor(w, j) => WaitsFor(w, j)'
      BY <3>1 DEF WaitsFor
    <3>3. \A w \in Workers : WorksOn(w, j) => WorksOn(w, j)'
      BY <3>1 DEF WorksOn, Transferring
    <3>4. \A d \in Clients : Spawning(d) /\ client[d].job = j =>
            \/ Spawning(d)' /\ client'[d].job = j
            \/ \E w \in Workers : WaitsFor(w, j)'
      BY <2>1, <3>1 DEF Spawning, WaitsFor
    <3>5. QED
      BY <1>1, <3>1, <3>2, <3>3, <3>4, MannedFrame
  <2>3. CASE Settles(c) \/ CancelStamps(c) \/ Pauses(c) \/ Corrects(c) \/ Checks(c) \/ Writes(c)
             \/ Announces(c) \/ Discards(c) \/ \E k \in Jobs : Unlists(c, k)
    <3>1. /\ UNCHANGED worker /\ job'[j].runID = job[j].runID
          /\ job'[j].status = job[j].status \/ job'[j].status \in {"paused", "cancelled"}
      BY <2>3 DEF Settles, CancelStamps, Pauses, Corrects, Checks, Writes, Announces, Discards,
                  Unlists, OnlyStatus
    <3>2. ~Spawning(c)
      BY <2>3 DEF Settles, CancelStamps, Pauses, Corrects, Checks, Writes, Announces, Discards,
                  Unlists, Spawning
    <3>3. \A d \in Clients : Spawning(d) => Spawning(d)' /\ client'[d].job = client[d].job
      BY <2>1, <3>2 DEF Spawning
    <3>4. QED
      BY <1>1, <3>1, <3>3, MannedFrame DEF WaitsFor, WorksOn, Transferring, activeLocked, Active
  <2>4. QED
    BY <1>1, <1>3, <2>2, <2>3, ServeFacts
<1>4. ASSUME NEW w \in Workers, Run(w) PROVE MannedJob(j)'
  <2>1. /\ UNCHANGED client
        /\ \A v \in Workers \ {w} : worker'[v] = worker[v]
        /\ \A k \in Jobs \ {w[1]} : job'[k] = job[k]
        /\ job'[w[1]].runID = job[w[1]].runID
    BY <1>1, <1>4, RunFacts
       DEF Queues, Moves, Starts, Processes, Stamps, Shows, Records, Emits, OnlyStatus
  <2>2. \A c \in Clients : Spawning(c) => Spawning(c)' /\ client'[c].job = client[c].job
    BY <2>1 DEF Spawning
  <2>3. \A v \in Workers \ {w} : /\ WaitsFor(v, j) => WaitsFor(v, j)'
                                 /\ WorksOn(v, j) => WorksOn(v, j)'
    BY <1>0, <2>1 DEF WaitsFor, WorksOn, Transferring
  <2>4. CASE Starts(w) \/ Processes(w) \/ Stamps(w)
    <3>1. CASE w[1] = j
      <4>1. CASE Stamps(w)
        BY <3>1, <4>1 DEF Stamps, MannedJob, Terminal
      <4>2. CASE Starts(w) \/ Processes(w)
        BY <2>1, <3>1, <4>2 DEF Starts, Processes, MannedJob, WorksOn, Transferring, ownedByRunLocked
      <4>3. QED
        BY <2>4, <4>1, <4>2
    <3>2. CASE w[1] # j
      <4>1. ~WaitsFor(w, j) /\ ~WorksOn(w, j) /\ job'[j] = job[j]
        BY <2>1, <3>2 DEF WaitsFor, WorksOn
      <4>2. QED
        BY <1>1, <2>2, <2>3, <4>1, MannedFrame
    <3>3. QED
      BY <3>1, <3>2
  <2>5. CASE Queues(w) \/ Moves(w) \/ Shows(w) \/ Records(w) \/ Emits(w)
    <3>1. UNCHANGED job
      BY <2>5 DEF Queues, Moves, Shows, Records, Emits
    <3>2. WaitsFor(w, j) /\ job[j].status = "pending" => WaitsFor(w, j)'
      BY <2>5, <3>1
         DEF Queues, Moves, Shows, Records, Emits, WaitsFor, ownedByRunLocked, activeLocked, Active
    <3>3. WorksOn(w, j) /\ activeLocked(j) => WorksOn(w, j)'
      BY <2>5, <3>1
         DEF Queues, Moves, Shows, Records, Emits, WorksOn, Transferring, ownedByRunLocked
    <3>4. QED
      BY <1>1, <2>2, <2>3, <3>1, <3>2, <3>3, MannedFrame
  <2>6. QED
    BY <1>1, <1>4, <2>4, <2>5, RunFacts
<1>5. CASE Sweeps
  BY <1>1, <1>5, MannedFrame DEF Sweeps, WaitsFor, WorksOn, Transferring, Spawning
<1>6. QED
  BY <1>2, <1>3, <1>4, <1>5, StepFacts

-----------------------------------------------------------------------------
(* The panel.                                                                *)

\* w, or c, has an event about j still to publish.
WorkerNotes(w, j) ==
  w[1] = j /\ worker[w].pc \in {"started", "progress", "processing", "stamped"}

ClientNotes(c, j) ==
  client[c].job = j /\ client[c].pc \in {"restarting", "restarted", "notifying", "stamped"}

RowKept(j) ==
  /\ j \in registry =>
       /\ view[j] # Unborn
       /\ \/ view[j] = job[j].status
          \/ \E w \in Workers : WorkerNotes(w, j)
          \/ \E c \in Clients : ClientNotes(c, j)
  /\ j \notin registry => view[j] = Unborn \/ \E c \in Clients : j \in client[c].rest

RestKept(c) ==
  /\ client[c].rest \cap registry = {}
  /\ client[c].pc = "discarded" => client[c].job \in client[c].rest
  /\ client[c].pc \notin {"clearing", "discarding", "discarded"} => client[c].rest = {}

LEMMA PanelParts ==
  ASSUME TypeOK
  PROVE  PanelKept <=> (\A j \in Jobs : RowKept(j)) /\ (\A c \in Clients : RestKept(c))
BY DEF TypeOK, PanelKept, RowKept, RestKept, WorkerNotes, ClientNotes, ClientAt

\* The row of j is left alone, and so are those who have something to say of it.
LEMMA RowFrame ==
  ASSUME NEW j \in Jobs, RowKept(j),
         view'[j] = view[j], job'[j].status = job[j].status,
         j \in registry' <=> j \in registry,
         \A w \in Workers : WorkerNotes(w, j) => WorkerNotes(w, j)',
         \A c \in Clients : ClientNotes(c, j) => ClientNotes(c, j)',
         \A c \in Clients : j \in client[c].rest => j \in client'[c].rest
  PROVE  RowKept(j)'
BY DEF RowKept

\* The status of j changes, and somebody has that still to say.
LEMMA RowNoted ==
  ASSUME NEW j \in Jobs, RowKept(j),
         view'[j] = view[j], j \in registry' <=> j \in registry,
         \/ \E w \in Workers : WorkerNotes(w, j)'
         \/ \E c \in Clients : ClientNotes(c, j)',
         \A c \in Clients : j \in client[c].rest => j \in client'[c].rest
  PROVE  RowKept(j)'
BY DEF RowKept

\* The row of j is corrected.
LEMMA RowCorrected ==
  ASSUME Inductive, NEW j \in Jobs, RowKept(j), RowShown(j),
         UNCHANGED <<job, registry>>,
         \A c \in Clients : j \in client[c].rest => j \in client'[c].rest
  PROVE  RowKept(j)'
<1>1. j \in registry => job[j].status # Unborn
  BY DEF Inductive, Strengthening, RequestHolds
<1>2. QED
  BY <1>1 DEF RowKept, RowShown

LEMMA RequestKeepsPanel ==
  ASSUME Inductive, NEW c \in Clients, Request(c)
  PROVE  (\A j \in Jobs : RowKept(j)') /\ (\A d \in Clients : RestKept(d)')
<1>1. /\ TypeOK /\ RequestHolds /\ registry \subseteq Jobs
      /\ \A j \in Jobs : RowKept(j)
      /\ \A d \in Clients : RestKept(d) /\ client[d].rest \subseteq Jobs
  BY PanelParts, Indices DEF Inductive, Strengthening, Telling, TypeOK
<1>2. client[c].pc = "idle" /\ \A d \in Clients \ {c} : client'[d] = client[d]
  BY <1>1, RequestFacts
<1>3. /\ client[c].rest = {}
      /\ \A d \in Clients, j \in Jobs : ClientNotes(d, j) => ClientNotes(d, j)'
      /\ \A d \in Clients, j \in Jobs : j \in client[d].rest => j \in client'[d].rest
  BY <1>1, <1>2 DEF RestKept, ClientNotes
<1>4. ASSUME NEW k \in Jobs, Submits(c, k)
      PROVE  (\A j \in Jobs : RowKept(j)') /\ (\A d \in Clients : RestKept(d)')
  <2>1. RowKept(k)'
    BY <1>4 DEF Submits, RowKept, Unborn
  <2>2. ASSUME NEW j \in Jobs \ {k} PROVE RowKept(j)'
    <3>1. /\ UNCHANGED worker /\ job'[j] = job[j]
          /\ j \in registry' => j \in registry
          /\ view'[j] = IF j \in registry /\ j \notin registry' THEN Unborn ELSE view[j]
      BY <1>4, <2>2 DEF Submits
    <3>2. CASE j \in registry /\ j \notin registry'
      BY <3>1, <3>2 DEF RowKept
    <3>3. CASE j \in registry' <=> j \in registry
      BY <1>1, <1>3, <3>1, <3>3, RowFrame DEF WorkerNotes
    <3>4. QED
      BY <3>1, <3>2, <3>3
  <2>3. ASSUME NEW d \in Clients PROVE RestKept(d)'
    <3>1. k \notin client[d].rest
      BY <1>1, <1>4 DEF Submits, RequestHolds
    <3>2. \A j \in Jobs : j \in registry' => j = k \/ j \in registry
      BY <1>4 DEF Submits
    <3>3. client'[c].rest = {} /\ client'[c].pc = "submitted"
      BY <1>4 DEF Submits
    <3>4. CASE d = c
      BY <3>3, <3>4 DEF RestKept
    <3>5. CASE d # c
      BY <1>1, <1>2, <3>1, <3>2, <3>5 DEF RestKept
    <3>6. QED
      BY <3>4, <3>5
  <2>4. QED
    BY <2>1, <2>2, <2>3
<1>5. ASSUME NEW k \in Jobs, Restarts(c, k)
      PROVE  (\A j \in Jobs : RowKept(j)') /\ (\A d \in Clients : RestKept(d)')
  <2>1. /\ UNCHANGED <<worker, registry, view>>
        /\ \A j \in Jobs \ {k} : job'[j] = job[j]
        /\ ClientNotes(c, k)' /\ client'[c].rest = {} /\ client'[c].pc = "restarting"
    BY <1>5 DEF Restarts, Told, ClientNotes
  <2>2. RowKept(k)'
    BY <1>1, <1>3, <2>1, RowNoted
  <2>3. ASSUME NEW j \in Jobs \ {k} PROVE RowKept(j)'
    BY <1>1, <1>3, <2>1, RowFrame DEF WorkerNotes
  <2>4. \A d \in Clients : RestKept(d)'
    BY <1>1, <1>2, <2>1 DEF RestKept
  <2>5. QED
    BY <2>2, <2>3, <2>4
<1>6. CASE LooksUp(c)
  <2>1. /\ UNCHANGED <<worker, registry, view, job>>
        /\ client'[c].rest = {} /\ client'[c].pc \in {"cancelling", "pausing"}
    BY <1>6 DEF LooksUp, Told
  <2>2. ASSUME NEW j \in Jobs PROVE RowKept(j)'
    BY <1>1, <1>3, <2>1, RowFrame DEF WorkerNotes
  <2>3. \A d \in Clients : RestKept(d)'
    BY <1>1, <1>2, <2>1 DEF RestKept
  <2>4. QED
    BY <2>2, <2>3
<1>7. CASE Removes(c)
  <2>1. /\ UNCHANGED <<worker, view, job>> /\ registry' \subseteq registry
        /\ client'[c].rest = registry \ registry' /\ client'[c].pc \in {"clearing", "discarding"}
    BY <1>7 DEF Removes, Told
  <2>2. ASSUME NEW j \in Jobs PROVE RowKept(j)'
    <3>1. CASE j \in registry \ registry'
      BY <2>1, <3>1 DEF RowKept
    <3>2. CASE j \in registry' <=> j \in registry
      BY <1>1, <1>3, <2>1, <3>2, RowFrame DEF WorkerNotes
    <3>3. QED
      BY <2>1, <3>1, <3>2
  <2>3. \A d \in Clients : RestKept(d)'
    BY <1>1, <1>2, <2>1 DEF RestKept
  <2>4. QED
    BY <2>2, <2>3
<1>8. QED
  BY <1>1, <1>4, <1>5, <1>6, <1>7, RequestFacts

LEMMA ServeKeepsPanel ==
  ASSUME Inductive, NEW c \in Clients, Serve(c)
  PROVE  (\A j \in Jobs : RowKept(j)') /\ (\A d \in Clients : RestKept(d)')
<1>1. /\ TypeOK /\ RequestHolds /\ SpawnsOnce
      /\ \A j \in Jobs : RowKept(j)
      /\ \A d \in Clients : RestKept(d) /\ client[d].rest \subseteq Jobs
  BY PanelParts, Indices DEF Inductive, Strengthening, Telling
<1>2. \A d \in Clients \ {c} : client'[d] = client[d]
  BY <1>1, ServeFacts
<1>3. IdleClient.rest = {} /\ IdleClient.pc = "idle"
  BY DEF IdleClient
<1>4. ASSUME client'[c].rest = client[c].rest,
             \A j \in Jobs : ClientNotes(c, j) => ClientNotes(c, j)'
      PROVE  /\ \A d \in Clients, j \in Jobs : ClientNotes(d, j) => ClientNotes(d, j)'
             /\ \A d \in Clients, j \in Jobs : j \in client[d].rest => j \in client'[d].rest
  BY <1>2, <1>4 DEF ClientNotes
<1>5. ASSUME UNCHANGED registry, client'[c].rest = client[c].rest,
             client'[c].pc = "discarded" => client'[c].job \in client'[c].rest,
             client'[c].pc \notin {"clearing", "discarding", "discarded"} => client'[c].rest = {}
      PROVE  \A d \in Clients : RestKept(d)'
  BY <1>1, <1>2, <1>5 DEF RestKept
<1>6. client[c].pc \notin {"clearing", "discarding", "discarded"} => client[c].rest = {}
  BY <1>1 DEF RestKept
<1>7. CASE Spawns(c)
  <2> DEFINE s == <<client[c].job, client[c].run>>
  <2>1. /\ UNCHANGED <<job, registry, view>>
        /\ worker[s].pc = "none" /\ \A w \in Workers \ {s} : worker'[w] = worker[w]
        /\ client'[c].rest = client[c].rest /\ client'[c].pc \in {"idle", "restarted"}
        /\ client[c].pc \in {"submitted", "restarting"}
        /\ \A j \in Jobs : ClientNotes(c, j) => ClientNotes(c, j)'
    BY <1>1, <1>3, <1>6, <1>7 DEF Spawns, Spawning, SpawnsOnce, WorkerAt, Told, ClientNotes
  <2>2. \A w \in Workers, j \in Jobs : WorkerNotes(w, j) => WorkerNotes(w, j)'
    BY <2>1 DEF WorkerNotes
  <2>3. ASSUME NEW j \in Jobs PROVE RowKept(j)'
    BY <1>1, <1>4, <2>1, <2>2, RowFrame
  <2>4. QED
    BY <1>5, <1>6, <2>1, <2>3
<1>8. CASE CancelStamps(c) \/ Pauses(c)
  <2>0. PICK k : k = client[c].job
    OBVIOUS
  <2>1. /\ UNCHANGED <<worker, registry, view>> /\ k \in Jobs
        /\ \A j \in Jobs \ {k} : job'[j] = job[j]
        /\ client'[c].rest = client[c].rest /\ client'[c].pc \in {"stamped", "notifying"}
        /\ client[c].pc \in {"cancelling", "pausing"} /\ client'[c].job = k
    BY <1>8, <2>0 DEF CancelStamps, Pauses, GoesOn, Told
  <2>2. ClientNotes(c, k)' /\ \A j \in Jobs : ~ClientNotes(c, j)
    BY <2>0, <2>1 DEF ClientNotes
  <2>3. RowKept(k)'
    BY <1>1, <1>4, <2>1, <2>2, RowNoted
  <2>4. ASSUME NEW j \in Jobs \ {k} PROVE RowKept(j)'
    BY <1>1, <1>4, <2>1, <2>2, RowFrame DEF WorkerNotes
  <2>5. QED
    BY <1>5, <1>6, <2>1, <2>3, <2>4
<1>9. CASE Corrects(c)
  <2>0. PICK k : k = client[c].job
    OBVIOUS
  <2>1. /\ UNCHANGED <<job, worker, registry>> /\ k \in Jobs /\ RowShown(k)
        /\ client'[c].rest = client[c].rest /\ client'[c].pc \in {"idle", "recording"}
        /\ client[c].pc \in {"notifying", "restarted", "stamped"}
    BY <1>3, <1>6, <1>9, <2>0 DEF Corrects, GoesOn
  <2>2. \A d \in Clients, j \in Jobs : j \in client[d].rest => j \in client'[d].rest
    BY <1>2, <2>1
  <2>3. \A j \in Jobs \ {k} : ~ClientNotes(c, j)
    BY <2>0 DEF ClientNotes
  <2>4. RowKept(k)'
    BY <1>1, <2>1, <2>2, RowCorrected
  <2>5. ASSUME NEW j \in Jobs \ {k} PROVE RowKept(j)'
    <3>1. view'[j] = view[j]
      BY <2>1 DEF RowShown
    <3>2. \A d \in Clients : ClientNotes(d, j) => ClientNotes(d, j)'
      BY <1>2, <2>3 DEF ClientNotes
    <3>3. QED
      BY <1>1, <2>1, <2>2, <3>1, <3>2, RowFrame DEF WorkerNotes
  <2>6. QED
    BY <1>5, <1>6, <2>1, <2>4, <2>5
<1>10. CASE Settles(c) \/ Checks(c) \/ Writes(c) \/ Announces(c) \/ Discards(c)
  <2>1. /\ UNCHANGED <<worker, registry, view>>
        /\ \A j \in Jobs : job'[j].status = job[j].status
        /\ client'[c].rest = client[c].rest
        /\ client'[c].pc = "discarded" => client'[c].job \in client'[c].rest
        /\ client'[c].pc \notin {"clearing", "discarding", "discarded"} => client'[c].rest = {}
        /\ client[c].pc \in {"cancelling", "pausing", "recording", "writing", "emitting", "discarding"}
    BY <1>3, <1>6, <1>10
       DEF Settles, Checks, Writes, Announces, Discards, GoesOn, NextAfterCheck, Told
  <2>2. \A j \in Jobs : ~ClientNotes(c, j)
    BY <2>1 DEF ClientNotes
  <2>3. ASSUME NEW j \in Jobs PROVE RowKept(j)'
    BY <1>1, <1>4, <2>1, <2>2, RowFrame DEF WorkerNotes
  <2>4. QED
    BY <1>5, <2>1, <2>3
<1>11. ASSUME NEW k \in Jobs, Unlists(c, k)
       PROVE  (\A j \in Jobs : RowKept(j)') /\ (\A d \in Clients : RestKept(d)')
  <2>1. /\ UNCHANGED <<job, worker, registry>>
        /\ view'[k] = Unborn /\ \A j \in Jobs \ {k} : view'[j] = view[j]
        /\ client'[c].pc \in {"idle", "clearing", "discarding"}
        /\ client'[c].rest = client[c].rest \ {k}
        /\ client'[c].pc = "idle" => client'[c].rest = {}
        /\ client[c].pc \in {"clearing", "discarded"}
        /\ k \in client[c].rest
    BY <1>1, <1>11 DEF Unlists, RestKept
  <2>2. RowKept(k)'
    BY <1>1, <2>1 DEF RestKept, RowKept
  <2>3. ASSUME NEW j \in Jobs \ {k} PROVE RowKept(j)'
    <3>1. /\ \A d \in Clients : ClientNotes(d, j) => ClientNotes(d, j)'
          /\ \A d \in Clients : j \in client[d].rest => j \in client'[d].rest
      BY <1>2, <2>1 DEF ClientNotes
    <3>2. QED
      BY <1>1, <2>1, <3>1, RowFrame DEF WorkerNotes
  <2>4. \A d \in Clients : RestKept(d)'
    BY <1>1, <1>2, <2>1 DEF RestKept
  <2>5. QED
    BY <2>2, <2>3, <2>4
<1>12. QED
  BY <1>1, <1>7, <1>8, <1>9, <1>10, <1>11, ServeFacts

LEMMA PanelKeptNext == Inductive /\ [Next]_vars => PanelKept'
<1> SUFFICES ASSUME Inductive, [Next]_vars PROVE PanelKept'
  OBVIOUS
<1>1. /\ TypeOK /\ OutcomeDecided
      /\ \A j \in Jobs : RowKept(j)
      /\ \A d \in Clients : RestKept(d)
      /\ \A w \in Workers : w[1] \in Jobs
  BY PanelParts, Indices DEF Inductive, Strengthening, Telling
<1>2. ASSUME NEW w \in Workers, Run(w)
      PROVE  (\A j \in Jobs : RowKept(j)') /\ (\A d \in Clients : RestKept(d)')
  <2>1. /\ UNCHANGED <<client, registry>>
        /\ \A v \in Workers \ {w} : worker'[v] = worker[v]
        /\ \A k \in Jobs \ {w[1]} : job'[k] = job[k]
    BY <1>1, <1>2, RunFacts
  <2>2. \A d \in Clients : RestKept(d)'
    BY <1>1, <2>1 DEF RestKept
  <2>3. /\ \A d \in Clients, j \in Jobs : ClientNotes(d, j) => ClientNotes(d, j)'
        /\ \A d \in Clients, j \in Jobs : j \in client[d].rest => j \in client'[d].rest
    BY <2>1 DEF ClientNotes
  <2>4. \A k \in Jobs \ {w[1]} : view'[k] = view[k]
    BY <1>1, <1>2, RunFacts
       DEF Queues, Moves, Starts, Processes, Stamps, Shows, Records, Emits, RowShown, Told
  <2>5. ASSUME NEW j \in Jobs \ {w[1]} PROVE RowKept(j)'
    BY <1>1, <2>1, <2>3, <2>4, RowFrame DEF WorkerNotes
  <2>6. CASE Starts(w) \/ Processes(w) \/ Stamps(w)
    <3>1. view'[w[1]] = view[w[1]] /\ WorkerNotes(w, w[1])'
      BY <2>6 DEF Starts, Processes, Stamps, Told, WorkerNotes
    <3>2. RowKept(w[1])'
      BY <1>1, <2>1, <2>3, <3>1, RowNoted
    <3>3. QED
      BY <2>2, <2>5, <3>2
  <2>7. CASE Shows(w)
    <3>1. RowKept(w[1])'
      BY <1>1, <2>1, <2>3, <2>7, RowCorrected DEF Shows
    <3>2. QED
      BY <2>2, <2>5, <3>1
  <2>8. CASE Queues(w) \/ Moves(w) \/ Records(w) \/ Emits(w)
    <3>1. UNCHANGED <<job, view>>
          /\ worker[w].pc \notin {"started", "progress", "processing", "stamped"}
      BY <2>8 DEF Queues, Moves, Records, Emits, Told
    <3>2. RowKept(w[1])'
      BY <1>1, <2>1, <2>3, <3>1, RowFrame DEF WorkerNotes
    <3>3. QED
      BY <2>2, <2>5, <3>2
  <2>9. QED
    BY <1>1, <1>2, <2>6, <2>7, <2>8, RunFacts
<1>3. ASSUME Sweeps PROVE (\A j \in Jobs : RowKept(j)') /\ (\A d \in Clients : RestKept(d)')
  <2>1. /\ UNCHANGED <<job, worker, client>> /\ registry' \subseteq registry
        /\ \A k \in Jobs : view'[k] = IF k \in registry /\ k \notin registry' THEN Unborn ELSE view[k]
    BY <1>3 DEF Sweeps
  <2>2. ASSUME NEW j \in Jobs PROVE RowKept(j)'
    <3>1. CASE j \in registry \ registry'
      BY <2>1, <3>1 DEF RowKept
    <3>2. CASE j \in registry' <=> j \in registry
      BY <1>1, <2>1, <3>2, RowFrame DEF WorkerNotes, ClientNotes
    <3>3. QED
      BY <2>1, <3>1, <3>2
  <2>3. \A d \in Clients : RestKept(d)'
    BY <1>1, <2>1 DEF RestKept
  <2>4. QED
    BY <2>2, <2>3
<1>4. (\A j \in Jobs : RowKept(j)') /\ (\A d \in Clients : RestKept(d)')
  BY <1>2, <1>3, RequestKeepsPanel, ServeKeepsPanel, StepFacts
<1>5. TypeOK'
  BY TypesNext DEF Inductive, Strengthening
<1>6. QED
  BY <1>4, <1>5
     DEF TypeOK, PanelKept, RowKept, RestKept, WorkerNotes, ClientNotes, ClientAt

-----------------------------------------------------------------------------
(* What a job, its recorders and its row say of an attempt.                  *)

\* What ResourceOfAttempt says of one job.
ResourceOf(j) ==
  job[j].resourceID # 0 => job[j].resourceID = job[j].runID + 1 /\ job[j].status \in Terminal

LEMMA ResourceNext == Inductive /\ [Next]_vars => ResourceOfAttempt'
<1> SUFFICES ASSUME Inductive, [Next]_vars, NEW j \in Jobs PROVE ResourceOf(j)'
  BY DEF ResourceOfAttempt, ResourceOf
<1>1. /\ TypeOK /\ RequestHolds /\ OutcomeDecided /\ ResourceOf(j)
      /\ \A k \in Jobs : job[k].resourceID # 0 => job[k].status \in Terminal
  BY DEF Inductive, Strengthening, Telling, ResourceOfAttempt, ResourceOf
<1>2. ASSUME job'[j].resourceID = job[j].resourceID, job'[j].runID = job[j].runID,
             job'[j].status = job[j].status
      PROVE  ResourceOf(j)'
  BY <1>1, <1>2 DEF ResourceOf
<1>3. ASSUME job'[j].resourceID = job[j].resourceID, job[j].status \notin Terminal
      PROVE  ResourceOf(j)'
  BY <1>1, <1>3 DEF ResourceOf
<1>4. ASSUME NEW c \in Clients, Request(c) PROVE ResourceOf(j)'
  <2>1. ASSUME NEW k \in Jobs, Submits(c, k) \/ Restarts(c, k) PROVE ResourceOf(j)'
    <3>1. CASE j # k
      BY <1>2, <2>1, <3>1 DEF Submits, Restarts
    <3>2. CASE j = k
      BY <1>1, <2>1, <3>2 DEF Submits, Restarts, OnlyStatus, ResourceOf, Terminal, Unborn
    <3>3. QED
      BY <3>1, <3>2
  <2>2. CASE LooksUp(c) \/ Removes(c)
    BY <1>2, <2>2 DEF LooksUp, Removes
  <2>3. QED
    BY <1>1, <1>4, <2>1, <2>2, RequestFacts
<1>5. ASSUME NEW c \in Clients, Serve(c) PROVE ResourceOf(j)'
  <2>1. CASE CancelStamps(c) \/ Pauses(c)
    <3>1. CASE j # client[c].job
      BY <1>2, <2>1, <3>1 DEF CancelStamps, Pauses
    <3>2. CASE j = client[c].job
      BY <1>3, <2>1, <3>2 DEF CancelStamps, Pauses, OnlyStatus, canPauseLocked, Terminal
    <3>3. QED
      BY <3>1, <3>2
  <2>2. CASE Spawns(c) \/ Settles(c) \/ Corrects(c) \/ Checks(c) \/ Writes(c)
             \/ Announces(c) \/ Discards(c) \/ \E k \in Jobs : Unlists(c, k)
    BY <1>2, <2>2
       DEF Spawns, Settles, Corrects, Checks, Writes, Announces, Discards, Unlists, OnlyStatus
  <2>3. QED
    BY <1>1, <1>5, <2>1, <2>2, ServeFacts
<1>6. ASSUME NEW w \in Workers, Run(w) PROVE ResourceOf(j)'
  <2>1. CASE j # w[1]
    BY <1>1, <1>2, <1>6, <2>1, RunFacts
  <2>2. CASE j = w[1]
    <3>1. CASE Starts(w) \/ Processes(w)
      BY <1>3, <2>2, <3>1
         DEF Starts, Processes, OnlyStatus, ownedByRunLocked, activeLocked, Active, Terminal
    <3>2. CASE Stamps(w)
      <4>1. job[j].resourceID = 0 /\ job[j].runID = worker[w].run
        BY <1>1, <2>2, <3>2 DEF Stamps, ownedByRunLocked, activeLocked, Active, Terminal
      <4>2. QED
        BY <2>2, <3>2, <4>1 DEF Stamps, ResourceOf
    <3>3. CASE Queues(w) \/ Moves(w) \/ Shows(w) \/ Records(w) \/ Emits(w)
      BY <1>2, <3>3 DEF Queues, Moves, Shows, Records, Emits
    <3>4. QED
      BY <1>1, <1>6, <3>1, <3>2, <3>3, RunFacts
  <2>3. QED
    BY <2>1, <2>2
<1>7. CASE Sweeps
  BY <1>2, <1>7 DEF Sweeps
<1>8. QED
  BY <1>4, <1>5, <1>6, <1>7, StepFacts

\* What RecordersTruthful says of a goroutine and of a request.
WorkerTruthful(w) ==
  /\ worker[w].pc \in Reporting \ {"stamped"} => w[1] \notin Generic
  /\ worker[w].pc \in Reporting => w[1] \in Generic \/ Truthful(worker[w].snap)

ClientTruthful(c) ==
  client[c].pc \in Reporting => client[c].job \notin Generic /\ Truthful(client[c].snap)

LEMMA RecordersNext == Inductive /\ [Next]_vars => RecordersTruthful'
<1> SUFFICES ASSUME Inductive, [Next]_vars
             PROVE  /\ \A j \in Generic : job'[j].status # "paused"
                    /\ \A w \in Workers : WorkerTruthful(w)'
                    /\ \A c \in Clients : ClientTruthful(c)'
  BY DEF RecordersTruthful, WorkerTruthful, ClientTruthful
<1> DEFINE Kept == /\ \A j \in Generic : job'[j].status # "paused"
                   /\ \A w \in Workers : WorkerTruthful(w)'
                   /\ \A c \in Clients : ClientTruthful(c)'
<1>1. /\ TypeOK /\ RequestHolds /\ OutcomeDecided
      /\ \A j \in Generic : job[j].status # "paused"
      /\ \A w \in Workers : WorkerTruthful(w) /\ w[1] \in Jobs
      /\ \A c \in Clients : ClientTruthful(c)
      /\ \A j \in Jobs : job[j].resourceID # 0 => job[j].status \in Terminal
      /\ Generic \subseteq Jobs
  BY Indices, QueueAssumption
     DEF Inductive, Strengthening, Telling, RecordersTruthful, WorkerTruthful, ClientTruthful,
         ResourceOfAttempt
<1>2. ASSUME NEW c \in Clients, Request(c) PROVE Kept
  <2>1. \A d \in Clients \ {c} : client'[d] = client[d]
    BY <1>1, <1>2, RequestFacts
  <2>2. ASSUME NEW j \in Jobs, Submits(c, j) \/ Restarts(c, j) PROVE Kept
    BY <1>1, <2>1, <2>2
       DEF Submits, Restarts, WorkerTruthful, ClientTruthful, Reporting
  <2>3. CASE LooksUp(c) \/ Removes(c)
    BY <1>1, <2>1, <2>3
       DEF LooksUp, Removes, WorkerTruthful, ClientTruthful, Reporting
  <2>4. QED
    BY <1>1, <1>2, <2>2, <2>3, RequestFacts
<1>3. ASSUME NEW c \in Clients, Serve(c) PROVE Kept
  <2>1. \A d \in Clients \ {c} : client'[d] = client[d]
    BY <1>1, <1>3, ServeFacts
  <2>2. \A d \in Clients \ {c} : ClientTruthful(d)'
    BY <1>1, <2>1 DEF ClientTruthful
  <2>3. ASSUME UNCHANGED worker, \A j \in Jobs : job'[j].status = job[j].status,
               \/ client'[c].pc \notin Reporting
               \/ /\ client'[c].job = client[c].job /\ client'[c].snap = client[c].snap
                  /\ client[c].pc \in Reporting
        PROVE  Kept
    BY <1>1, <2>2, <2>3 DEF WorkerTruthful, ClientTruthful
  <2>4. CASE Spawns(c)
    <3>1. /\ \A w \in Workers : worker'[w] = worker[w] \/ worker'[w].pc = "spawned"
          /\ client'[c].pc \in {"idle", "restarted"} /\ UNCHANGED job
      BY <2>4 DEF Spawns, IdleClient
    <3>2. QED
      BY <1>1, <2>2, <3>1 DEF WorkerTruthful, ClientTruthful, Reporting
  <2>5. CASE CancelStamps(c)
    <3>1. PICK k \in Jobs : k = client[c].job
      BY <2>5 DEF CancelStamps
    <3>2. /\ UNCHANGED worker /\ \A j \in Jobs \ {k} : job'[j] = job[j]
          /\ job[k].status = "paused" /\ job'[k].status = "cancelled"
          /\ job'[k].completedAt # 0 /\ job'[k].resourceID = job[k].resourceID
          /\ client'[c].job = k /\ client'[c].snap = snapshotLocked(job'[k])
      BY <2>5, <3>1 DEF CancelStamps, GoesOn
    <3>3. k \notin Generic /\ job'[k].resourceID = 0
      BY <1>1, <3>2 DEF Terminal
    <3>4. ClientTruthful(c)'
      BY <3>2, <3>3 DEF ClientTruthful, Truthful, snapshotLocked, Terminal
    <3>5. QED
      BY <1>1, <2>2, <3>2, <3>4 DEF WorkerTruthful
  <2>6. CASE Pauses(c)
    <3>1. /\ UNCHANGED worker /\ client'[c].pc = "notifying"
          /\ \A j \in Jobs : job'[j].status = job[j].status \/ j \notin Generic
      BY <2>6 DEF Pauses, GoesOn, canPauseLocked
    <3>2. QED
      BY <1>1, <2>2, <3>1 DEF WorkerTruthful, ClientTruthful, Reporting
  <2>7. CASE Corrects(c) \/ Checks(c) \/ Writes(c)
    BY <2>3, <2>7 DEF Corrects, Checks, Writes, GoesOn, IdleClient, Reporting
  <2>8. CASE Settles(c) \/ Announces(c) \/ Discards(c) \/ \E k \in Jobs : Unlists(c, k)
    BY <2>3, <2>8 DEF Settles, Announces, Discards, Unlists, IdleClient, Reporting
  <2>9. QED
    BY <1>1, <1>3, <2>4, <2>5, <2>6, <2>7, <2>8, ServeFacts
<1>4. ASSUME NEW w \in Workers, Run(w) PROVE Kept
  <2>1. /\ UNCHANGED client
        /\ \A v \in Workers \ {w} : worker'[v] = worker[v]
        /\ \A k \in Jobs \ {w[1]} : job'[k] = job[k]
    BY <1>1, <1>4, RunFacts
  <2>2. /\ \A v \in Workers \ {w} : WorkerTruthful(v)'
        /\ \A c \in Clients : ClientTruthful(c)'
    BY <1>1, <2>1 DEF WorkerTruthful, ClientTruthful
  <2>3. job'[w[1]].status = job[w[1]].status \/ job'[w[1]].status # "paused"
    BY <1>1, <1>4, RunFacts
       DEF Queues, Moves, Starts, Processes, Stamps, Shows, Records, Emits, Terminal
  <2>4. \A j \in Generic : job'[j].status # "paused"
    BY <1>1, <2>1, <2>3
  <2>5. CASE Stamps(w)
    <3>1. job[w[1]].resourceID = 0 /\ job'[w[1]].runID = worker[w].run
      BY <1>1, <2>5 DEF Stamps, ownedByRunLocked, activeLocked, Active, Terminal
    <3>2. w[1] \in Generic \/ Truthful(worker'[w].snap)
      <4>1. worker[w].run + 1 # 0
        BY Indices
      <4>2. QED
        BY <2>5, <3>1, <4>1 DEF Stamps, Truthful, snapshotLocked
    <3>3. WorkerTruthful(w)'
      BY <2>5, <3>2 DEF Stamps, WorkerTruthful
    <3>4. QED
      BY <2>2, <2>4, <3>3
  <2>6. CASE Queues(w) \/ Moves(w) \/ Starts(w) \/ Processes(w) \/ Shows(w) \/ Records(w) \/ Emits(w)
    <3>1. WorkerTruthful(w)'
      BY <1>1, <2>6
         DEF Queues, Moves, Starts, Processes, Shows, Records, Emits, WorkerTruthful, Reporting,
             NextAfterCheck
    <3>2. QED
      BY <2>2, <2>4, <3>1
  <2>7. QED
    BY <1>1, <1>4, <2>5, <2>6, RunFacts
<1>5. ASSUME Sweeps PROVE Kept
  BY <1>1, <1>5 DEF Sweeps, WorkerTruthful, ClientTruthful
<1>6. QED
  BY <1>2, <1>3, <1>4, <1>5, StepFacts

\* Only a recorder writes a row, and only that of the job it reports.
LEMMA RowWritten ==
  ASSUME Inductive, [Next]_vars
  PROVE  \/ UNCHANGED history
         \/ \E w \in Workers : /\ worker[w].pc = "writing" /\ worker'[w].pc = "emitting"
                               /\ RecordRow(w[1], worker[w].snap)
         \/ \E c \in Clients : /\ client[c].pc = "writing" /\ client'[c].pc = "emitting"
                               /\ RecordRow(client[c].job, client[c].snap)
<1>1. TypeOK /\ RequestHolds /\ OutcomeDecided
  BY DEF Inductive, Strengthening
<1>2. ASSUME NEW c \in Clients, Request(c) PROVE UNCHANGED history
  BY <1>1, <1>2, RequestFacts DEF Submits, Restarts, LooksUp, Removes, Told
<1>3. ASSUME NEW c \in Clients, Serve(c) PROVE UNCHANGED history \/ Writes(c)
  BY <1>1, <1>3, ServeFacts
     DEF Spawns, Settles, CancelStamps, Pauses, Corrects, Checks, Announces, Discards, Unlists, Told
<1>4. ASSUME NEW w \in Workers, Run(w) PROVE UNCHANGED history \/ Records(w)
  BY <1>1, <1>4, RunFacts DEF Queues, Moves, Starts, Processes, Stamps, Shows, Emits, Told
<1>5. QED
  BY <1>2, <1>3, <1>4, StepFacts DEF Sweeps, Writes, Records, GoesOn

LEMMA HistoryTruthfulNext == Inductive /\ [Next]_vars => HistoryTruthful'
<1> SUFFICES ASSUME Inductive, [Next]_vars, NEW j \in Jobs, history'[j] # NoSnapshot
             PROVE  j \notin Generic /\ Truthful(history'[j])
  BY DEF HistoryTruthful, Truthful
<1>1. /\ history[j] # NoSnapshot => j \notin Generic /\ Truthful(history[j])
      /\ history \in [Jobs -> Snapshots]
  BY DEF Inductive, Telling, TypeOK, HistoryTruthful, Truthful
<1>2. ASSUME NEW k, NEW snap, RecordRow(k, snap), k \notin Generic, Truthful(snap)
      PROVE  j \notin Generic /\ Truthful(history'[j])
  BY <1>1, <1>2 DEF RecordRow, Upsert
<1>3. ASSUME NEW w \in Workers, worker[w].pc = "writing", RecordRow(w[1], worker[w].snap)
      PROVE  j \notin Generic /\ Truthful(history'[j])
  BY <1>2, <1>3 DEF Inductive, Telling, RecordersTruthful, Reporting
<1>4. ASSUME NEW c \in Clients, client[c].pc = "writing", RecordRow(client[c].job, client[c].snap)
      PROVE  j \notin Generic /\ Truthful(history'[j])
  BY <1>2, <1>4 DEF Inductive, Telling, RecordersTruthful, Reporting
<1>5. QED
  BY <1>1, <1>3, <1>4, RowWritten

\* w, or c, still holds an outcome of j no older than the one the queue shows.
WorkerHolds(w, j) ==
  /\ w[1] = j /\ worker[w].pc \in Reporting \ {"emitting"}
  /\ worker[w].snap.completedAt >= job[j].completedAt

ClientHolds(c, j) ==
  /\ client[c].job = j /\ client[c].pc \in Reporting \ {"emitting"}
  /\ client[c].snap.completedAt >= job[j].completedAt

RowCovered(j) ==
  ~job[j].discarded =>
    \/ history[j].completedAt >= job[j].completedAt
    \/ \E w \in Workers : WorkerHolds(w, j)
    \/ \E c \in Clients : ClientHolds(c, j)

\* The outcome of j is not replaced by a newer one, its row never by an older one.
LEMMA CoveredFrame ==
  ASSUME NEW j \in Jobs, RowCovered(j),
         job[j].completedAt \in Nat, history[j].completedAt \in Nat, history'[j].completedAt \in Nat,
         history'[j].completedAt >= history[j].completedAt,
         job'[j].completedAt \in {0, job[j].completedAt},
         job[j].discarded => job'[j].discarded,
         \A w \in Workers : WorkerHolds(w, j) /\ ~job[j].discarded =>
           \/ worker'[w].pc \in Reporting \ {"emitting"} /\ worker'[w].snap = worker[w].snap
           \/ history'[j].completedAt >= worker[w].snap.completedAt,
         \A w \in Workers : worker[w].snap \in Snapshots,
         \A c \in Clients : ClientHolds(c, j) /\ ~job[j].discarded =>
           \/ /\ client'[c].job = j /\ client'[c].pc \in Reporting \ {"emitting"}
              /\ client'[c].snap = client[c].snap
           \/ history'[j].completedAt >= client[c].snap.completedAt,
         \A c \in Clients : client[c].snap \in Snapshots
  PROVE  RowCovered(j)'
<1> SUFFICES ASSUME ~job'[j].discarded PROVE RowCovered(j)'
  BY DEF RowCovered
<1>1. \A w \in Workers : worker[w].snap.completedAt \in Nat
  BY DEF Snapshots
<1>2. \A c \in Clients : client[c].snap.completedAt \in Nat
  BY DEF Snapshots
<1>3. CASE history[j].completedAt >= job[j].completedAt
  BY <1>3 DEF RowCovered
<1>4. ASSUME NEW w \in Workers, WorkerHolds(w, j) PROVE RowCovered(j)'
  <2>1. worker[w].snap.completedAt >= job'[j].completedAt
    BY <1>1, <1>4 DEF WorkerHolds
  <2>2. CASE worker'[w].pc \in Reporting \ {"emitting"} /\ worker'[w].snap = worker[w].snap
    BY <1>4, <2>1, <2>2 DEF WorkerHolds, RowCovered
  <2>3. CASE history'[j].completedAt >= worker[w].snap.completedAt
    <3>1. history'[j].completedAt >= job'[j].completedAt
      BY <1>1, <2>1, <2>3
    <3>2. QED
      BY <3>1 DEF RowCovered
  <2>4. QED
    BY <1>4, <2>2, <2>3
<1>5. ASSUME NEW c \in Clients, ClientHolds(c, j) PROVE RowCovered(j)'
  <2>1. client[c].snap.completedAt >= job'[j].completedAt
    BY <1>2, <1>5 DEF ClientHolds
  <2>2. CASE /\ client'[c].job = j /\ client'[c].pc \in Reporting \ {"emitting"}
             /\ client'[c].snap = client[c].snap
    BY <1>5, <2>1, <2>2 DEF ClientHolds, RowCovered
  <2>3. CASE history'[j].completedAt >= client[c].snap.completedAt
    <3>1. history'[j].completedAt >= job'[j].completedAt
      BY <1>2, <2>1, <2>3
    <3>2. QED
      BY <3>1 DEF RowCovered
  <2>4. QED
    BY <1>5, <2>2, <2>3
<1>6. QED
  BY <1>3, <1>4, <1>5 DEF RowCovered

\* A write that cannot fail leaves a row at least as new as what it wrote.
LEMMA WrittenCovers ==
  ASSUME TypeOK, ~StoreFails, NEW j \in Jobs, NEW snap \in Snapshots, RecordRow(j, snap)
  PROVE  history'[j].completedAt >= snap.completedAt
<1>1. history'[j] = Upsert(history[j], snap)
  BY DEF RecordRow, TypeOK
<1>2. history[j].completedAt \in Nat /\ snap.completedAt \in Nat
  BY DEF TypeOK, Snapshots
<1>3. QED
  BY <1>1, <1>2 DEF Upsert

LEMMA RowsCoverNext == Inductive /\ [Next]_vars => RowsCover'
<1> SUFFICES ASSUME Inductive, [Next]_vars, ~StoreFails, NEW j \in Jobs \ Generic
             PROVE  RowCovered(j)'
  BY DEF RowsCover, RowCovered, WorkerHolds, ClientHolds
<1>1. /\ TypeOK /\ RequestHolds /\ OutcomeDecided /\ SpawnsOnce
      /\ RowCovered(j)
  BY DEF Inductive, Strengthening, Telling, RowsCover, RowCovered, WorkerHolds, ClientHolds
<1>2. /\ job[j].completedAt \in Nat
      /\ \A w \in Workers : w[1] \in Jobs /\ worker[w].snap \in Snapshots
      /\ \A c \in Clients : client[c].snap \in Snapshots
  BY Indices
<1>3. /\ history[j].completedAt \in Nat /\ history'[j].completedAt \in Nat
      /\ history'[j].completedAt >= history[j].completedAt
  <2>1. TypeOK'
    BY <1>1, TypesNext
  <2>2. QED
    BY <1>1, <2>1, HistoryStep DEF TypeOK, Snapshots
<1>4. ASSUME job'[j].completedAt \in {0, job[j].completedAt}, job[j].discarded => job'[j].discarded,
             \A w \in Workers : WorkerHolds(w, j) => worker'[w] = worker[w],
             \A c \in Clients : ClientHolds(c, j) => client'[c] = client[c]
      PROVE  RowCovered(j)'
  BY <1>1, <1>2, <1>3, <1>4, CoveredFrame DEF WorkerHolds, ClientHolds
<1>5. ASSUME NEW c \in Clients, Request(c) PROVE RowCovered(j)'
  <2>1. \A d \in Clients : ClientHolds(d, j) => client'[d] = client[d]
    BY <1>1, <1>5, RequestFacts DEF ClientHolds, Reporting
  <2>2. ASSUME NEW k \in Jobs, Submits(c, k) \/ Restarts(c, k) PROVE RowCovered(j)'
    <3>1. UNCHANGED worker
      BY <2>2 DEF Submits, Restarts
    <3>2. job'[j].completedAt \in {0, job[j].completedAt} /\ job'[j].discarded = job[j].discarded
      BY <2>2 DEF Submits, Restarts, OnlyStatus
    <3>3. QED
      BY <1>4, <2>1, <3>1, <3>2
  <2>3. CASE LooksUp(c) \/ Removes(c)
    BY <1>4, <2>1, <2>3 DEF LooksUp, Removes
  <2>4. QED
    BY <1>1, <1>5, <2>2, <2>3, RequestFacts
<1>6. ASSUME NEW c \in Clients, Serve(c) PROVE RowCovered(j)'
  <2>1. \A d \in Clients \ {c} : client'[d] = client[d]
    BY <1>1, <1>6, ServeFacts
  <2>2. ASSUME ~ClientHolds(c, j) PROVE \A d \in Clients : ClientHolds(d, j) => client'[d] = client[d]
    BY <2>1, <2>2
  <2>3. CASE Spawns(c)
    <3>1. \A w \in Workers : WorkerHolds(w, j) => worker'[w] = worker[w]
      BY <1>1, <2>3 DEF Spawns, SpawnsOnce, WorkerAt, WorkerHolds, Reporting
    <3>2. ~ClientHolds(c, j) /\ UNCHANGED job
      BY <2>3 DEF Spawns, Spawning, ClientHolds, Reporting
    <3>3. QED
      BY <1>4, <2>2, <3>1, <3>2
  <2>4. CASE CancelStamps(c)
    <3>1. PICK k \in Jobs : k = client[c].job
      BY <2>4 DEF CancelStamps
    <3>2. CASE j = k
      <4>1. /\ client'[c].job = j /\ client'[c].pc = "stamped"
            /\ client'[c].snap.completedAt = job'[j].completedAt
        BY <2>4, <3>1, <3>2 DEF CancelStamps, GoesOn, snapshotLocked
      <4>2. job'[j].completedAt \in Nat
        BY <1>1, TypesNext DEF TypeOK, JobFields
      <4>3. ClientHolds(c, j)'
        BY <4>1, <4>2 DEF ClientHolds, Reporting
      <4>4. QED
        BY <4>3 DEF RowCovered
    <3>3. CASE j # k
      <4>1. /\ UNCHANGED worker /\ job'[j] = job[j] /\ ~ClientHolds(c, j)
        BY <2>4, <3>1, <3>3 DEF CancelStamps, ClientHolds
      <4>2. QED
        BY <1>4, <2>2, <4>1
    <3>4. QED
      BY <3>2, <3>3
  <2>5. CASE Corrects(c) \/ Checks(c) \/ Writes(c)
    <3>1. UNCHANGED <<job, worker>>
      BY <2>5 DEF Corrects, Checks, Writes
    <3>2. \A w \in Workers : WorkerHolds(w, j) => worker'[w].pc \in Reporting \ {"emitting"}
      BY <3>1 DEF WorkerHolds
    <3>3. ASSUME ClientHolds(c, j), ~job[j].discarded
          PROVE  \/ /\ client'[c].job = j /\ client'[c].pc \in Reporting \ {"emitting"}
                    /\ client'[c].snap = client[c].snap
                 \/ history'[j].completedAt >= client[c].snap.completedAt
      <4>1. CASE Corrects(c) \/ Checks(c)
        BY <3>3, <4>1 DEF Corrects, Checks, ClientHolds, GoesOn, NextAfterCheck, Reporting
      <4>2. CASE Writes(c)
        BY <1>1, <1>2, <3>3, <4>2, WrittenCovers DEF Writes, ClientHolds
      <4>3. QED
        BY <2>5, <4>1, <4>2
    <3>4. QED
      BY <1>1, <1>2, <1>3, <2>1, <3>1, <3>2, <3>3, CoveredFrame DEF ClientHolds
  <2>6. CASE Settles(c) \/ Pauses(c) \/ Announces(c) \/ Discards(c) \/ \E k \in Jobs : Unlists(c, k)
    <3>1. /\ UNCHANGED worker /\ job'[j].completedAt = job[j].completedAt
          /\ job[j].discarded => job'[j].discarded
      BY <2>6 DEF Settles, Pauses, Announces, Discards, Unlists, OnlyStatus
    <3>2. ~ClientHolds(c, j)
      BY <2>6 DEF Settles, Pauses, Announces, Discards, Unlists, ClientHolds, Reporting
    <3>3. QED
      BY <1>4, <2>2, <3>1, <3>2
  <2>7. QED
    BY <1>1, <1>6, <2>3, <2>4, <2>5, <2>6, ServeFacts
<1>7. ASSUME NEW w \in Workers, Run(w) PROVE RowCovered(j)'
  <2>1. /\ UNCHANGED client
        /\ \A v \in Workers \ {w} : worker'[v] = worker[v]
        /\ \A k \in Jobs \ {w[1]} : job'[k] = job[k]
    BY <1>1, <1>7, RunFacts
  <2>2. CASE w[1] # j
    BY <1>4, <2>1, <2>2 DEF WorkerHolds
  <2>3. CASE w[1] = j
    <3>1. CASE Stamps(w)
      <4>1. /\ worker'[w].pc = "stamped"
            /\ worker'[w].snap.completedAt = job'[j].completedAt
        BY <2>3, <3>1 DEF Stamps, snapshotLocked
      <4>2. job'[j].completedAt \in Nat
        BY <1>1, TypesNext DEF TypeOK, JobFields
      <4>3. WorkerHolds(w, j)'
        BY <2>3, <4>1, <4>2 DEF WorkerHolds, Reporting
      <4>4. QED
        BY <4>3 DEF RowCovered
    <3>2. CASE Starts(w) \/ Processes(w)
      BY <1>4, <2>1, <2>3, <3>2 DEF Starts, Processes, OnlyStatus, WorkerHolds, Reporting
    <3>3. CASE Queues(w) \/ Moves(w) \/ Shows(w) \/ Records(w) \/ Emits(w)
      <4>1. UNCHANGED job
        BY <3>3 DEF Queues, Moves, Shows, Records, Emits
      <4>2. ASSUME WorkerHolds(w, j), ~job[j].discarded
            PROVE  \/ worker'[w].pc \in Reporting \ {"emitting"} /\ worker'[w].snap = worker[w].snap
                   \/ history'[j].completedAt >= worker[w].snap.completedAt
        <5>1. CASE Records(w)
          BY <1>1, <1>2, <2>3, <5>1, WrittenCovers DEF Records
        <5>2. CASE Queues(w) \/ Moves(w) \/ Shows(w) \/ Emits(w)
          BY <2>3, <4>2, <5>2
             DEF Queues, Moves, Shows, Emits, WorkerHolds, NextAfterCheck, Reporting
        <5>3. QED
          BY <3>3, <5>1, <5>2
      <4>3. \A v \in Workers : WorkerHolds(v, j) /\ ~job[j].discarded =>
              \/ worker'[v].pc \in Reporting \ {"emitting"} /\ worker'[v].snap = worker[v].snap
              \/ history'[j].completedAt >= worker[v].snap.completedAt
        BY <2>1, <4>2 DEF WorkerHolds
      <4>4. \A c \in Clients : ClientHolds(c, j) =>
              /\ client'[c].job = j /\ client'[c].pc \in Reporting \ {"emitting"}
              /\ client'[c].snap = client[c].snap
        BY <2>1 DEF ClientHolds
      <4>5. QED
        BY <1>1, <1>2, <1>3, <4>1, <4>3, <4>4, CoveredFrame
    <3>4. QED
      BY <1>1, <1>7, <3>1, <3>2, <3>3, RunFacts
  <2>4. QED
    BY <2>2, <2>3
<1>8. CASE Sweeps
  BY <1>4, <1>8 DEF Sweeps
<1>9. QED
  BY <1>5, <1>6, <1>7, <1>8, StepFacts

-----------------------------------------------------------------------------
(* The events.                                                               *)

\* What EventsOnce says of one attempt.
EventOnce(x) ==
  /\ announced[x] <= 1
  /\ announced[x] # 0 => Over(x)
  /\ \A w \in Workers : WorkerReports(w, x) =>
       /\ announced[x] = 0 /\ Over(x)
       /\ \A v \in Workers \ {w} : ~WorkerReports(v, x)
       /\ \A c \in Clients : ~ClientReports(c, x)
  /\ \A c \in Clients : ClientReports(c, x) =>
       /\ announced[x] = 0 /\ Over(x)
       /\ \A d \in Clients \ {c} : ~ClientReports(d, x)
  /\ x[1] \notin Generic /\ x[2] = job[x[1]].runID /\ job[x[1]].status \in Terminal =>
       \/ announced[x] = 1
       \/ \E w \in Workers : WorkerReports(w, x)
       \/ \E c \in Clients : ClientReports(c, x)

\* Nobody starts to report x, and only the recorder of a generic job stops.
LEMMA EventFrame ==
  ASSUME NEW x \in Workers, EventOnce(x),
         announced'[x] = announced[x],
         Over(x) => Over(x)',
         x[2] = job'[x[1]].runID /\ job'[x[1]].status \in Terminal =>
           x[2] = job[x[1]].runID /\ job[x[1]].status \in Terminal,
         \A w \in Workers : WorkerReports(w, x)' => WorkerReports(w, x),
         \A c \in Clients : ClientReports(c, x)' => ClientReports(c, x),
         x[1] \notin Generic => \A w \in Workers : WorkerReports(w, x) => WorkerReports(w, x)',
         x[1] \notin Generic => \A c \in Clients : ClientReports(c, x) => ClientReports(c, x)'
  PROVE  EventOnce(x)'
<1>1. /\ announced'[x] <= 1
      /\ announced'[x] # 0 => Over(x)'
  BY DEF EventOnce
<1>2. \A w \in Workers : WorkerReports(w, x)' =>
       /\ announced'[x] = 0 /\ Over(x)'
       /\ \A v \in Workers \ {w} : ~WorkerReports(v, x)'
       /\ \A c \in Clients : ~ClientReports(c, x)'
  BY DEF EventOnce
<1>3. \A c \in Clients : ClientReports(c, x)' =>
       /\ announced'[x] = 0 /\ Over(x)'
       /\ \A d \in Clients \ {c} : ~ClientReports(d, x)'
  BY DEF EventOnce
<1>4. x[1] \notin Generic /\ x[2] = job'[x[1]].runID /\ job'[x[1]].status \in Terminal =>
       \/ announced'[x] = 1
       \/ \E w \in Workers : WorkerReports(w, x)'
       \/ \E c \in Clients : ClientReports(c, x)'
  BY DEF EventOnce
<1>5. QED
  BY <1>1, <1>2, <1>3, <1>4 DEF EventOnce

\* The attempt x ends, and one recorder begins to report it.
LEMMA EventBegins ==
  ASSUME NEW x \in Workers, EventOnce(x), ~Over(x), Over(x)',
         announced'[x] = announced[x], announced[x] \in Nat,
         \/ \E w \in Workers :
              /\ WorkerReports(w, x)'
              /\ \A v \in Workers \ {w} : WorkerReports(v, x)' => WorkerReports(v, x)
              /\ \A c \in Clients : ClientReports(c, x)' => ClientReports(c, x)
         \/ \E c \in Clients :
              /\ ClientReports(c, x)'
              /\ \A w \in Workers : WorkerReports(w, x)' => WorkerReports(w, x)
              /\ \A d \in Clients \ {c} : ClientReports(d, x)' => ClientReports(d, x)
  PROVE  EventOnce(x)'
<1>1. /\ announced[x] = 0
      /\ \A w \in Workers : ~WorkerReports(w, x)
      /\ \A c \in Clients : ~ClientReports(c, x)
  BY DEF EventOnce
<1>2. CASE \E w \in Workers :
             /\ WorkerReports(w, x)'
             /\ \A v \in Workers \ {w} : WorkerReports(v, x)' => WorkerReports(v, x)
             /\ \A c \in Clients : ClientReports(c, x)' => ClientReports(c, x)
  BY <1>1, <1>2 DEF EventOnce
<1>3. CASE \E c \in Clients :
             /\ ClientReports(c, x)'
             /\ \A w \in Workers : WorkerReports(w, x)' => WorkerReports(w, x)
             /\ \A d \in Clients \ {c} : ClientReports(d, x)' => ClientReports(d, x)
  BY <1>1, <1>3 DEF EventOnce
<1>4. QED
  BY <1>2, <1>3

\* The event of x is out, and its recorder is through.
LEMMA EventOut ==
  ASSUME NEW x \in Workers, EventOnce(x), Over(x)',
         announced'[x] = 1,
         \A w \in Workers : ~WorkerReports(w, x)',
         \A c \in Clients : ~ClientReports(c, x)'
  PROVE  EventOnce(x)'
BY DEF EventOnce

LEMMA Emitted ==
  ASSUME TypeOK, NEW j, NEW snap, emitJobEvent(j, snap), NEW x \in Workers
  PROVE  announced'[x] = IF x = <<j, snap.run>> THEN announced[x] + 1 ELSE announced[x]
BY DEF emitJobEvent, TypeOK

LEMMA EventsOnceNext == Inductive /\ [Next]_vars => EventsOnce'
<1> SUFFICES ASSUME Inductive, [Next]_vars, NEW x \in Workers PROVE EventOnce(x)'
  BY DEF EventsOnce, EventOnce
<1>1. TypeOK /\ RequestHolds /\ OutcomeDecided /\ SpawnsOnce /\ EventOnce(x)
  BY DEF Inductive, Strengthening, Telling, EventsOnce, EventOnce
<1>2. /\ x[1] \in Jobs /\ x[2] \in Nat /\ announced[x] \in Nat
      /\ \A j \in Jobs : job[j].runID \in Nat
      /\ \A w \in Workers : w[1] \in Jobs
  BY Indices DEF Inductive, TypeOK
<1>p. \A j, r : x = <<j, r>> <=> x[1] = j /\ x[2] = r
  BY DEF Workers
<1>3. ASSUME job'[x[1]].runID = job[x[1]].runID, job'[x[1]].status = job[x[1]].status
      PROVE  /\ Over(x) <=> Over(x)'
             /\ x[2] = job'[x[1]].runID /\ job'[x[1]].status \in Terminal =>
                  x[2] = job[x[1]].runID /\ job[x[1]].status \in Terminal
  BY <1>3 DEF Over
<1>4. ASSUME NEW c \in Clients, Request(c) PROVE EventOnce(x)'
  <2>1. /\ client[c].pc = "idle" /\ \A d \in Clients \ {c} : client'[d] = client[d]
        /\ UNCHANGED worker /\ announced'[x] = announced[x]
        /\ client'[c].pc \notin Reporting
    BY <1>1, <1>4, RequestFacts
       DEF Submits, Restarts, LooksUp, Removes, Told, Reporting
  <2>2. /\ \A w \in Workers : WorkerReports(w, x)' <=> WorkerReports(w, x)
        /\ \A d \in Clients : ClientReports(d, x)' <=> ClientReports(d, x)
    BY <2>1 DEF WorkerReports, ClientReports, Reporting
  <2>3. ASSUME NEW k \in Jobs, Submits(c, k) \/ Restarts(c, k) PROVE EventOnce(x)'
    <3>1. CASE k = x[1]
      <4>1. /\ job'[k].status = "pending"
            /\ \/ job'[k].runID = job[k].runID /\ job[k].status = Unborn
               \/ job'[k].runID = job[k].runID + 1
        BY <2>3 DEF Submits, Restarts, OnlyStatus
      <4>2. Over(x) => Over(x)'
        BY <1>2, <3>1, <4>1 DEF Over, Unborn, Terminal
      <4>3. QED
        BY <1>1, <2>1, <2>2, <3>1, <4>1, <4>2, EventFrame DEF Terminal
    <3>2. CASE k # x[1]
      <4>1. job'[x[1]] = job[x[1]]
        BY <1>2, <2>3, <3>2 DEF Submits, Restarts
      <4>2. QED
        BY <1>1, <1>3, <2>1, <2>2, <4>1, EventFrame
    <3>3. QED
      BY <3>1, <3>2
  <2>4. CASE LooksUp(c) \/ Removes(c)
    BY <1>1, <1>3, <2>1, <2>2, <2>4, EventFrame DEF LooksUp, Removes
  <2>5. QED
    BY <1>1, <1>4, <2>3, <2>4, RequestFacts
<1>5. ASSUME NEW c \in Clients, Serve(c) PROVE EventOnce(x)'
  <2>1. \A d \in Clients \ {c} : client'[d] = client[d]
    BY <1>1, <1>5, ServeFacts
  <2>2. \A d \in Clients \ {c} : ClientReports(d, x)' <=> ClientReports(d, x)
    BY <2>1 DEF ClientReports
  <2>3. CASE Spawns(c)
    <3>1. /\ UNCHANGED <<job, announced>>
          /\ client'[c].pc \notin Reporting /\ client[c].pc \notin Reporting
      BY <2>3 DEF Spawns, Spawning, IdleClient, Told, Reporting
    <3>2. \A w \in Workers : WorkerReports(w, x)' <=> WorkerReports(w, x)
      BY <1>1, <2>3 DEF Spawns, SpawnsOnce, WorkerAt, WorkerReports, Reporting
    <3>3. \A d \in Clients : ClientReports(d, x)' <=> ClientReports(d, x)
      BY <2>2, <3>1 DEF ClientReports
    <3>4. QED
      BY <1>1, <1>3, <3>1, <3>2, <3>3, EventFrame
  <2>4. CASE CancelStamps(c)
    <3>1. PICK k \in Jobs : k = client[c].job
      BY <2>4 DEF CancelStamps
    <3>2. /\ UNCHANGED <<worker, announced>> /\ \A j \in Jobs \ {k} : job'[j] = job[j]
          /\ job[k].status = "paused" /\ job'[k].status = "cancelled"
          /\ job'[k].runID = job[k].runID
          /\ client[c].pc = "cancelling" /\ client'[c].pc = "stamped" /\ client'[c].job = k
          /\ client'[c].snap.run = job[k].runID
      BY <2>4, <3>1 DEF CancelStamps, GoesOn, snapshotLocked, Told
    <3>3. \A w \in Workers : WorkerReports(w, x)' <=> WorkerReports(w, x)
      BY <3>2 DEF WorkerReports
    <3>4. CASE x[1] = k /\ x[2] = job[k].runID
      <4>1. ~Over(x) /\ Over(x)' /\ ClientReports(c, x)'
        BY <1>2, <3>2, <3>4 DEF Over, Terminal, ClientReports, Reporting
      <4>2. QED
        BY <1>1, <1>2, <2>2, <3>2, <3>3, <4>1, EventBegins
    <3>5. CASE ~(x[1] = k /\ x[2] = job[k].runID)
      <4>1. \A d \in Clients : ClientReports(d, x)' <=> ClientReports(d, x)
        BY <2>2, <3>2, <3>5 DEF ClientReports, Reporting
      <4>2. /\ Over(x) => Over(x)'
            /\ x[2] = job'[x[1]].runID /\ job'[x[1]].status \in Terminal =>
                 x[2] = job[x[1]].runID /\ job[x[1]].status \in Terminal
        BY <1>2, <3>2, <3>5 DEF Over
      <4>3. QED
        BY <1>1, <3>2, <3>3, <4>1, <4>2, EventFrame
    <3>6. QED
      BY <3>4, <3>5
  <2>5. CASE Pauses(c)
    <3>1. /\ UNCHANGED <<worker, announced>>
          /\ client'[c].pc \notin Reporting /\ client[c].pc \notin Reporting
      BY <2>5 DEF Pauses, GoesOn, Told, Reporting
    <3>2. /\ \A w \in Workers : WorkerReports(w, x)' <=> WorkerReports(w, x)
          /\ \A d \in Clients : ClientReports(d, x)' <=> ClientReports(d, x)
      BY <2>2, <3>1 DEF WorkerReports, ClientReports
    <3>3. /\ Over(x) => Over(x)'
          /\ x[2] = job'[x[1]].runID /\ job'[x[1]].status \in Terminal =>
               x[2] = job[x[1]].runID /\ job[x[1]].status \in Terminal
      BY <1>2, <2>5 DEF Pauses, OnlyStatus, canPauseLocked, Over, Terminal
    <3>4. QED
      BY <1>1, <3>1, <3>2, <3>3, EventFrame
  <2>6. CASE Corrects(c) \/ Checks(c) \/ Writes(c)
    <3>1. UNCHANGED <<job, worker, announced>>
      BY <2>6 DEF Corrects, Checks, Writes, Told
    <3>2. \A w \in Workers : WorkerReports(w, x)' <=> WorkerReports(w, x)
      BY <3>1 DEF WorkerReports
    <3>3. ClientReports(c, x)' <=> ClientReports(c, x)
      BY <2>6 DEF Corrects, Checks, Writes, GoesOn, NextAfterCheck, IdleClient, ClientReports, Reporting
    <3>4. QED
      BY <1>1, <1>3, <2>2, <3>1, <3>2, <3>3, EventFrame
  <2>7. CASE Announces(c)
    <3>1. /\ UNCHANGED <<job, worker>> /\ client[c].pc = "emitting"
          /\ client'[c].pc \notin Reporting
          /\ announced'[x] = IF x = <<client[c].job, client[c].snap.run>>
                             THEN announced[x] + 1 ELSE announced[x]
      BY <1>1, <2>7, Emitted DEF Announces, IdleClient, Reporting
    <3>2. \A w \in Workers : WorkerReports(w, x)' <=> WorkerReports(w, x)
      BY <3>1 DEF WorkerReports
    <3>3. ~ClientReports(c, x)'
      BY <3>1 DEF ClientReports
    <3>4. CASE x = <<client[c].job, client[c].snap.run>>
      <4>1. ClientReports(c, x)
        BY <1>p, <3>1, <3>4 DEF ClientReports, Reporting
      <4>2. /\ announced[x] = 0 /\ Over(x)
            /\ \A d \in Clients \ {c} : ~ClientReports(d, x)
            /\ \A w \in Workers : ~WorkerReports(w, x)
        BY <1>1, <4>1 DEF EventOnce
      <4>3. Over(x)'
        BY <3>1, <4>2 DEF Over
      <4>4. QED
        BY <1>1, <2>2, <3>1, <3>2, <3>3, <3>4, <4>2, <4>3, EventOut
    <3>5. CASE x # <<client[c].job, client[c].snap.run>>
      <4>1. ~ClientReports(c, x)
        BY <1>p, <3>5 DEF ClientReports
      <4>2. QED
        BY <1>1, <1>3, <2>2, <3>1, <3>2, <3>3, <3>5, <4>1, EventFrame
    <3>6. QED
      BY <3>4, <3>5
  <2>8. CASE Settles(c) \/ Discards(c) \/ \E k \in Jobs : Unlists(c, k)
    <3>1. /\ UNCHANGED <<worker, announced>>
          /\ client'[c].pc \notin Reporting /\ client[c].pc \notin Reporting
      BY <2>8 DEF Settles, Discards, Unlists, IdleClient, Told, Reporting
    <3>2. /\ \A w \in Workers : WorkerReports(w, x)' <=> WorkerReports(w, x)
          /\ \A d \in Clients : ClientReports(d, x)' <=> ClientReports(d, x)
      BY <2>2, <3>1 DEF WorkerReports, ClientReports
    <3>3. job'[x[1]].runID = job[x[1]].runID /\ job'[x[1]].status = job[x[1]].status
      BY <1>2, <2>8 DEF Settles, Discards, Unlists, OnlyStatus
    <3>4. QED
      BY <1>1, <1>3, <3>1, <3>2, <3>3, EventFrame
  <2>9. QED
    BY <1>1, <1>5, <2>3, <2>4, <2>5, <2>6, <2>7, <2>8, ServeFacts
<1>6. ASSUME NEW w \in Workers, Run(w) PROVE EventOnce(x)'
  <2>1. /\ UNCHANGED client
        /\ \A v \in Workers \ {w} : worker'[v] = worker[v]
        /\ \A k \in Jobs \ {w[1]} : job'[k] = job[k]
    BY <1>1, <1>6, RunFacts
  <2>2. /\ \A d \in Clients : ClientReports(d, x)' <=> ClientReports(d, x)
        /\ \A v \in Workers \ {w} : WorkerReports(v, x)' <=> WorkerReports(v, x)
    BY <2>1 DEF ClientReports, WorkerReports
  <2>3. CASE Stamps(w)
    <3>1. /\ announced'[x] = announced[x] /\ job'[w[1]].runID = job[w[1]].runID
          /\ job[w[1]].status \notin Terminal /\ job'[w[1]].status \in Terminal
          /\ worker[w].pc \notin Reporting /\ worker'[w].pc \in Reporting
          /\ worker'[w].snap.run = job[w[1]].runID
      BY <2>3 DEF Stamps, Told, ownedByRunLocked, activeLocked, Active, Terminal, Reporting, snapshotLocked
    <3>2. CASE x[1] = w[1] /\ x[2] = job[w[1]].runID
      <4>1. ~Over(x) /\ Over(x)' /\ WorkerReports(w, x)'
        BY <1>2, <3>1, <3>2 DEF Over, WorkerReports
      <4>2. QED
        BY <1>1, <1>2, <2>2, <3>1, <4>1, EventBegins
    <3>3. CASE ~(x[1] = w[1] /\ x[2] = job[w[1]].runID)
      <4>1. ~WorkerReports(w, x)' /\ ~WorkerReports(w, x)
        BY <3>1, <3>3 DEF WorkerReports
      <4>2. /\ Over(x) => Over(x)'
            /\ x[2] = job'[x[1]].runID /\ job'[x[1]].status \in Terminal =>
                 x[2] = job[x[1]].runID /\ job[x[1]].status \in Terminal
        BY <1>2, <2>1, <3>1, <3>3 DEF Over
      <4>3. QED
        BY <1>1, <2>2, <3>1, <4>1, <4>2, EventFrame
    <3>4. QED
      BY <3>2, <3>3
  <2>4. CASE Starts(w) \/ Processes(w)
    <3>1. /\ announced'[x] = announced[x] /\ job'[w[1]].runID = job[w[1]].runID
          /\ job[w[1]].status \notin Terminal /\ job'[w[1]].status \notin Terminal
          /\ worker[w].pc \notin Reporting /\ worker'[w].pc \notin Reporting
      BY <2>4 DEF Starts, Processes, OnlyStatus, Told, ownedByRunLocked, activeLocked, Active, Terminal,
                  Reporting
    <3>2. ~WorkerReports(w, x)' /\ ~WorkerReports(w, x)
      BY <3>1 DEF WorkerReports
    <3>3. /\ Over(x) => Over(x)'
          /\ x[2] = job'[x[1]].runID /\ job'[x[1]].status \in Terminal =>
               x[2] = job[x[1]].runID /\ job[x[1]].status \in Terminal
      BY <1>2, <2>1, <3>1 DEF Over
    <3>4. QED
      BY <1>1, <2>2, <3>1, <3>2, <3>3, EventFrame
  <2>5. CASE Emits(w)
    <3>1. /\ UNCHANGED job /\ worker[w].pc = "emitting" /\ worker'[w].pc \notin Reporting
          /\ announced'[x] = IF x = <<w[1], worker[w].snap.run>>
                             THEN announced[x] + 1 ELSE announced[x]
      BY <1>1, <2>5, Emitted DEF Emits, Reporting
    <3>2. ~WorkerReports(w, x)'
      BY <3>1 DEF WorkerReports
    <3>3. CASE x = <<w[1], worker[w].snap.run>>
      <4>1. WorkerReports(w, x)
        BY <1>p, <3>1, <3>3 DEF WorkerReports, Reporting
      <4>2. /\ announced[x] = 0 /\ Over(x)
            /\ \A v \in Workers \ {w} : ~WorkerReports(v, x)
            /\ \A c \in Clients : ~ClientReports(c, x)
        BY <1>1, <4>1 DEF EventOnce
      <4>3. Over(x)'
        BY <3>1, <4>2 DEF Over
      <4>4. QED
        BY <1>1, <2>2, <3>1, <3>2, <3>3, <4>2, <4>3, EventOut
    <3>4. CASE x # <<w[1], worker[w].snap.run>>
      <4>1. ~WorkerReports(w, x)
        BY <1>p, <3>4 DEF WorkerReports
      <4>2. QED
        BY <1>1, <1>3, <2>2, <3>1, <3>2, <3>4, <4>1, EventFrame
    <3>5. QED
      BY <3>3, <3>4
  <2>6. CASE Queues(w) \/ Moves(w) \/ Shows(w) \/ Records(w)
    <3>1. UNCHANGED <<job, announced>>
      BY <2>6 DEF Queues, Moves, Shows, Records, Told
    <3>2. WorkerReports(w, x)' => WorkerReports(w, x)
      BY <2>6 DEF Queues, Moves, Shows, Records, WorkerReports, Reporting, NextAfterCheck
    <3>3. x[1] \notin Generic /\ WorkerReports(w, x) => WorkerReports(w, x)'
      BY <2>6 DEF Queues, Moves, Shows, Records, WorkerReports, Reporting, NextAfterCheck
    <3>4. QED
      BY <1>1, <1>3, <2>2, <3>1, <3>2, <3>3, EventFrame
  <2>7. QED
    BY <1>1, <1>6, <2>3, <2>4, <2>5, <2>6, RunFacts
<1>7. CASE Sweeps
  BY <1>1, <1>3, <1>7, EventFrame DEF Sweeps, WorkerReports, ClientReports
<1>8. QED
  BY <1>4, <1>5, <1>6, <1>7, StepFacts

-----------------------------------------------------------------------------
(* The inductive invariant and what follows from it.                         *)

\* Nothing has been told and nobody is about to.
LEMMA TellingInit == Init => Telling
<1> SUFFICES ASSUME Init PROVE Telling
  OBVIOUS
<1>1. /\ registry = {} /\ \A w \in Workers : announced[w] = 0
      /\ \A w \in Workers : worker[w].pc = "none"
      /\ \A c \in Clients : client[c].pc = "idle" /\ client[c].rest = {}
      /\ \A j \in Jobs : /\ view[j] = Unborn /\ history[j] = NoSnapshot
                         /\ job[j].status = Unborn /\ job[j].resourceID = 0
                         /\ job[j].completedAt = 0
      /\ Generic \subseteq Jobs /\ \A w \in Workers : w[1] \in Jobs
  BY QueueAssumption DEF Init, NewJob, IdleClient, NoWorker, Workers
<1>2. SpawnsOnce /\ Manned /\ PanelKept
  BY <1>1 DEF SpawnsOnce, Spawning, Manned, PanelKept, ClientAt, Unborn
<1>3. ResourceOfAttempt /\ RecordersTruthful /\ HistoryTruthful
  BY <1>1 DEF ResourceOfAttempt, RecordersTruthful, HistoryTruthful, Reporting, Unborn
<1>4. RowsCover
  BY <1>1 DEF RowsCover, NoSnapshot
<1>5. EventsOnce
  BY <1>1 DEF EventsOnce, WorkerReports, ClientReports, Reporting, Unborn, Terminal
<1>6. QED
  BY <1>2, <1>3, <1>4, <1>5 DEF Telling

LEMMA InductiveInit == Init => Inductive
<1> SUFFICES ASSUME Init PROVE Inductive
  OBVIOUS
<1>1. RequestHolds /\ OutcomeDecided
  BY DEF Init, IdleClient, NoWorker, RequestHolds, OutcomeDecided, ClientAt, WorkerAt
<1>2. StartedOnce
  <2>1. \A w \in Workers : w[1] \in Jobs /\ worker[w].pc = "none" /\ worker[w].run = 0
    BY DEF Init, NoWorker, Workers
  <2>2. \A j \in Jobs : job[j].runID = 0
    BY DEF Init, NewJob
  <2>3. QED
    BY <2>1, <2>2 DEF StartedOnce, Transferring
<1>3. ContextsEnd
  BY DEF Init, NewJob, NoWorker, Unborn, Active, activeLocked, Transferring, ContextsEnd
<1>4. QED
  BY <1>1, <1>2, <1>3, TypesInit, JobsSafeInit, TellingInit DEF Inductive, Strengthening

LEMMA InductiveNext == Inductive /\ [Next]_vars => Inductive'
<1> SUFFICES ASSUME Inductive, [Next]_vars PROVE Inductive'
  OBVIOUS
<1>1. TypeOK' /\ JobsSafe' /\ Strengthening'
  BY TypesNext, JobsSafeNext, RequestHoldsNext, OutcomeDecidedNext, AttemptsNext
     DEF Inductive, Strengthening, Attempts
<1>2. Telling'
  BY SpawnsOnceNext, MannedNext, PanelKeptNext, ResourceNext, RecordersNext, HistoryTruthfulNext,
     RowsCoverNext, EventsOnceNext
     DEF Telling
<1>3. QED
  BY <1>1, <1>2 DEF Inductive

\* The inductive invariant holds in every state: the queue's types, its registry,
\* its stamps and contexts, for all jobs, requests and attempts.
THEOREM InductiveAlways == Spec => []Inductive
BY InductiveInit, InductiveNext, PTL DEF Spec

\* Every variable keeps its type: in particular a job never runs more attempts
\* than were asked for, and a request only ever holds a job of the queue.
THEOREM Types == Spec => []TypeOK
<1>1. Inductive => TypeOK
  BY DEF Inductive
<1>2. QED
  BY <1>1, InductiveAlways, PTL

\* No eviction, clear or retention sweep drops a job that is pending or running.
THEOREM LiveJobsStayRegistered == Spec => []ActiveRegistered
<1>1. Inductive => ActiveRegistered
  BY DEF Inductive, JobsSafe
<1>2. QED
  BY <1>1, InductiveAlways, PTL

\* A completion time is set exactly while the job is over.
THEOREM StampsAreTerminal == Spec => []StampedIffOver
<1>1. Inductive => StampedIffOver
  BY DEF Inductive, JobsSafe
<1>2. QED
  BY <1>1, InductiveAlways, PTL

\* A job whose Cancel was answered is never paused again, nor reported completed.
THEOREM CancelsAreHonoured == Spec => []CancelHonoured
<1>1. Inductive => CancelHonoured
  BY DEF Inductive, JobsSafe
<1>2. QED
  BY <1>1, InductiveAlways, PTL

\* At most one goroutine transfers for a job under a live context, whatever the
\* number of goroutines its pauses, resumes and retries have left behind.
LEMMA AttemptsAlone == Inductive => OneLiveTransfer
<1> SUFFICES ASSUME Inductive, NEW w \in Workers, Transferring(w), ~Cancelled(w[1], worker[w].run)
             PROVE  /\ worker[w].run = job[w[1]].runID
                    /\ job[w[1]].status \in {"downloading", "processing"}
                    /\ \A v \in Workers \ {w} :
                         v[1] = w[1] /\ Transferring(v) => Cancelled(v[1], worker[v].run)
  BY DEF OneLiveTransfer
<1> USE DEF Inductive, Strengthening
<1>1. w[1] \in Jobs /\ job[w[1]].status \in Statuses
  BY DEF Workers, TypeOK, JobFields
<1>2. worker[w].run = job[w[1]].runID /\ job[w[1]].status \notin Terminal
  BY DEF ContextsEnd
<1>3. job[w[1]].status \notin {"paused", "pending", Unborn}
  BY <1>1, <1>2 DEF ContextsEnd, StartedOnce, Transferring
<1>4. ASSUME NEW v \in Workers \ {w}, v[1] = w[1], Transferring(v)
      PROVE  Cancelled(v[1], worker[v].run)
  <2>1. worker[v].run # worker[w].run
    BY <1>4 DEF StartedOnce
  <2>2. QED
    BY <1>2, <1>4, <2>1 DEF ContextsEnd
<1>5. QED
  BY <1>1, <1>2, <1>3, <1>4 DEF Statuses, Active

THEOREM OneTransferPerJob == Spec => []OneLiveTransfer
BY AttemptsAlone, InductiveAlways, PTL

-----------------------------------------------------------------------------
(* Live jobs, and what is told of those that are over.                       *)

\* However many recorders of a job's attempts race, a row of the history is
\* never replaced by an older outcome.
THEOREM HistoryIsMonotone == Spec => HistoryNeverRegresses
<1>1. Inductive /\ [Next]_vars =>
        [\A j \in Jobs : history'[j].completedAt >= history[j].completedAt]_vars
  BY HistoryStep
<1>2. QED
  BY <1>1, InductiveAlways, PTL DEF Spec, HistoryNeverRegresses

\* A job that is pending or running is listed, and a goroutine or a request is
\* left to end it: no interleaving of the controls and of the goroutines of its
\* attempts leaves a job that nobody will ever finish.
THEOREM LiveJobsAlwaysKept == Spec => []LiveJobsKept
<1>1. ASSUME Inductive PROVE LiveJobsKept
  <2>1. ActiveRegistered /\ Manned
    BY <1>1 DEF Inductive, JobsSafe, Telling
  <2>2. ASSUME NEW j \in Jobs, activeLocked(j)
        PROVE  \/ \E w \in Workers :
                    /\ w[1] = j
                    /\ \/ worker[w].pc = "spawned"
                       \/ /\ worker[w].run = job[j].runID
                          /\ worker[w].pc \in {"queued", "slot"} \/ Transferring(w)
               \/ \E c \in Clients : client[c].pc \in {"submitted", "restarting"} /\ client[c].job = j
    <3>1. CASE job[j].status = "pending"
      BY <2>1, <3>1 DEF Manned, WorkerAt, Spawning
    <3>2. CASE job[j].status \in {"downloading", "processing"}
      BY <2>1, <3>2 DEF Manned
    <3>3. QED
      BY <2>2, <3>1, <3>2 DEF activeLocked, Active
  <2>3. QED
    BY <2>1, <2>2 DEF LiveJobsKept, ActiveHasWorker
<1>2. QED
  BY <1>1, InductiveAlways, PTL

\* What the job, the panel, the history row and the event say of an attempt is
\* true of it, nothing is said twice and nothing is left out, in whatever order
\* the recorders of several attempts and the requests write.
THEOREM OutcomesAlwaysTold == Spec => []OutcomesTold
<1>1. ASSUME Inductive PROVE OutcomesTold
  <2>1. /\ TypeOK /\ PanelKept /\ ResourceOfAttempt /\ HistoryTruthful /\ RowsCover /\ EventsOnce
        /\ \A j \in Jobs : job[j].runID \in Nat /\ <<j, job[j].runID>> \in Workers
    BY <1>1, Indices DEF Inductive, Telling
  <2>2. ViewConverges
    BY <2>1 DEF PanelKept, ViewConverges, NotifiedAbout
  <2>3. HistoryKeepsNewest
    BY <2>1 DEF RowsCover, HistoryKeepsNewest, ReportedAbout, Reporting
  <2>4. AnnouncedOnce
    <3>1. ASSUME NEW j \in Jobs \ Generic, ReportedAbout(j), job[j].status \in Terminal
          PROVE  announced[<<j, job[j].runID>>] = 1
      <4>1. PICK x \in Workers : x = <<j, job[j].runID>>
        BY <2>1
      <4>2. x[1] = j /\ x[2] = job[j].runID
        BY <4>1
      <4>3. /\ \A w \in Workers : ~WorkerReports(w, x)
            /\ \A c \in Clients : ~ClientReports(c, x)
        BY <3>1, <4>2 DEF ReportedAbout, WorkerReports, ClientReports, Reporting
      <4>4. announced[x] = 1
        BY <2>1, <3>1, <4>2, <4>3 DEF EventsOnce
      <4>5. QED
        BY <4>1, <4>4
    <3>2. QED
      BY <2>1, <3>1 DEF EventsOnce, AnnouncedOnce
  <2>5. QED
    BY <2>1, <2>2, <2>3, <2>4 DEF OutcomesTold
<1>2. QED
  BY <1>1, InductiveAlways, PTL

-----------------------------------------------------------------------------
(* DownloadQueue implements JobControl: every step of the queue is, seen     *)
(* through Phase, one of the abstract job's transitions or a stutter. First  *)
(* the transitions of one job, in the queue's own terms.                     *)

JobKeeps(j) == job'[j].runID = job[j].runID /\ job'[j].cancelRequested = job[j].cancelRequested

JobSubmits(j) == job[j].status = Unborn /\ job'[j].status = "pending" /\ JobKeeps(j)

JobResumes(j) ==
  /\ job[j].status = "paused" /\ job'[j].status = "pending"
  /\ job'[j].runID = job[j].runID + 1
  /\ job'[j].cancelRequested = job[j].cancelRequested

JobRetries(j) ==
  /\ job[j].status \in {"failed", "cancelled"} /\ job'[j].status = "pending"
  /\ job'[j].runID = job[j].runID + 1
  /\ job'[j].cancelRequested = FALSE

JobPauses(j) ==
  /\ j \notin Generic /\ job[j].status \in {"pending", "downloading"}
  /\ job[j].cancelRequested = FALSE
  /\ job'[j].status = "paused" /\ JobKeeps(j)

JobCancels(j) ==
  /\ \/ activeLocked(j) /\ job'[j].status = job[j].status
     \/ job[j].status = "paused" /\ job'[j].status = "cancelled"
  /\ job'[j].runID = job[j].runID
  /\ job'[j].cancelRequested = TRUE

JobStarts(j) == activeLocked(j) /\ job'[j].status \in {"downloading", "processing"} /\ JobKeeps(j)

JobEnds(j) ==
  /\ activeLocked(j) /\ job'[j].status \in Terminal /\ JobKeeps(j)
  /\ job'[j].status = "cancelled" => job[j].cancelRequested = TRUE
  /\ job'[j].status = "completed" => job[j].cancelRequested = FALSE
  /\ job[j].status = "pending" => job'[j].status = "cancelled"

JobMoves(j) ==
  \/ Untouched(j) \/ JobSubmits(j) \/ JobResumes(j) \/ JobRetries(j) \/ JobPauses(j) \/ JobCancels(j)
  \/ JobStarts(j) \/ JobEnds(j)

\* A step moves at most one job.
OneMoves == \E j \in Jobs : JobMoves(j) /\ \A k \in Jobs \ {j} : Untouched(k)

AllUntouched == \A j \in Jobs : Untouched(j)

-----------------------------------------------------------------------------
(* Every step is a transition of one job.                                    *)

LEMMA RequestMoves ==
  ASSUME TypeOK, NEW c \in Clients, Request(c)
  PROVE  OneMoves \/ AllUntouched
<1> USE DEF OneMoves, AllUntouched, JobMoves, Untouched, TypeOK, JobFields
<1>1. ASSUME NEW j \in Jobs, Submit(c, j) PROVE OneMoves
  <2>1. JobSubmits(j) /\ \A k \in Jobs \ {j} : Untouched(k)
    BY <1>1 DEF Submit, JobSubmits, JobKeeps
  <2>2. QED
    BY <2>1
<1>2. ASSUME NEW j \in Jobs, Resume(c, j) PROVE OneMoves
  <2>1. JobResumes(j) /\ \A k \in Jobs \ {j} : Untouched(k)
    BY <1>2 DEF Resume, Restart, JobResumes, Runs
  <2>2. QED
    BY <2>1
<1>3. ASSUME NEW j \in Jobs, Retry(c, j) PROVE OneMoves
  <2>1. JobRetries(j) /\ \A k \in Jobs \ {j} : Untouched(k)
    BY <1>3 DEF Retry, Restart, canRetryLocked, JobRetries, Runs
  <2>2. QED
    BY <2>1
<1>4. CASE UNCHANGED job
  BY <1>4
<1>5. QED
  BY <1>1, <1>2, <1>3, <1>4 DEF Request, Lookup, ClearFinished, RemoveFinished, RemoveTerminal

LEMMA ServeMoves ==
  ASSUME TypeOK, RequestHolds, NEW c \in Clients, Serve(c)
  PROVE  OneMoves \/ AllUntouched
<1> USE DEF OneMoves, AllUntouched, JobMoves, Untouched, TypeOK, JobFields
<1> DEFINE j == client[c].job
<1>1. CASE CancelActive(c)
  <2>1. j \in Jobs /\ activeLocked(j) /\ job' = [job EXCEPT ![j].cancelRequested = TRUE]
    BY <1>1 DEF CancelActive, RequestHolds, ClientAt
  <2>2. JobCancels(j) /\ \A k \in Jobs \ {j} : Untouched(k)
    BY <2>1 DEF JobCancels
  <2>3. QED
    BY <2>1, <2>2
<1>2. CASE CancelPaused(c)
  <2>1. j \in Jobs /\ job[j].status = "paused"
    BY <1>2 DEF CancelPaused, RequestHolds, ClientAt
  <2>2. JobCancels(j) /\ \A k \in Jobs \ {j} : Untouched(k)
    BY <1>2, <2>1 DEF CancelPaused, JobCancels
  <2>3. QED
    BY <2>1, <2>2
<1>3. CASE ClaimPause(c)
  <2>1. j \in Jobs /\ job' = [job EXCEPT ![j].status = "paused"]
    BY <1>3 DEF ClaimPause, RequestHolds, ClientAt
  <2>2. JobPauses(j) /\ \A k \in Jobs \ {j} : Untouched(k)
    BY <1>3, <2>1 DEF ClaimPause, canPauseLocked, JobPauses, JobKeeps
  <2>3. QED
    BY <2>1, <2>2
<1>4. ASSUME NEW i \in Jobs, MarkDiscarded(c, i) PROVE AllUntouched
  BY <1>4 DEF MarkDiscarded
<1>5. CASE UNCHANGED job
  BY <1>5
<1>6. QED
  BY <1>1, <1>2, <1>3, <1>4, <1>5
     DEF Serve, Spawn, ClaimRefused, NotifyControl, NotifyCancelled, CheckClient, RecordClient,
         EmitClient, NotifyRemoved

\* The stamp of a goroutine that owns the job: a cancellation was asked for, a
\* success was not cancelled, and a job that never ran can only be cancelled.
LEMMA FinishEnds ==
  ASSUME TypeOK, StartedOnce, ContextsEnd, NEW w \in Workers,
         NEW status \in Terminal, NEW resourceID, finishSnapshot(w, status, resourceID),
         status = "cancelled" => Cancelled(w[1], worker[w].run),
         Transferring(w) \/ status = "cancelled"
  PROVE  OneMoves \/ AllUntouched
<1> DEFINE j == w[1]
<1>1. j \in Jobs /\ job[j] \in JobFields
  BY DEF Workers, TypeOK
<1>2. CASE ownedByRunLocked(j, worker[w].run)
  <2> DEFINE after ==
        [job[j] EXCEPT
           !.status = IF status = "completed" /\ job[j].cancelRequested
                      THEN "cancelled" ELSE status,
           !.completedAt = clock[j] + 2,
           !.resourceID = IF resourceID # 0 THEN resourceID ELSE job[j].resourceID]
  <2>1. job' = [job EXCEPT ![j] = after]
    BY <1>2 DEF finishSnapshot
  <2>2. job'[j] = after /\ \A k \in Jobs \ {j} : Untouched(k)
    BY <1>1, <2>1 DEF TypeOK, Untouched
  <2>3. /\ after.runID = job[j].runID /\ after.cancelRequested = job[j].cancelRequested
        /\ after.status = IF status = "completed" /\ job[j].cancelRequested
                          THEN "cancelled" ELSE status
    BY <1>1 DEF JobFields
  <2>4. status = "cancelled" => job[j].cancelRequested
    BY <1>1, <1>2 DEF ownedByRunLocked, ContextsEnd
  <2>5. job[j].status = "pending" => status = "cancelled"
    BY <1>2 DEF ownedByRunLocked, StartedOnce
  <2>6. job[j].cancelRequested \in BOOLEAN
    BY <1>1 DEF JobFields
  <2>7. JobEnds(j)
    BY <1>2, <2>2, <2>3, <2>4, <2>5, <2>6 DEF JobEnds, JobKeeps, ownedByRunLocked, Terminal
  <2>8. QED
    BY <1>1, <2>2, <2>7 DEF OneMoves, JobMoves
<1>3. CASE ~ownedByRunLocked(j, worker[w].run)
  BY <1>3 DEF finishSnapshot, AllUntouched, Untouched
<1>4. QED
  BY <1>2, <1>3

LEMMA RunMoves ==
  ASSUME Inductive, NEW w \in Workers, Run(w)
  PROVE  OneMoves \/ AllUntouched
<1> USE DEF Inductive, Strengthening
<1>1. w[1] \in Jobs /\ job[w[1]] \in JobFields
  BY DEF Workers, TypeOK
<1>2. CASE GiveUpQueued(w)
  BY <1>2, FinishEnds DEF GiveUpQueued, Terminal
<1>3. CASE Finish(w)
  BY <1>3, FinishEnds DEF Finish, OutcomeDecided, WorkerAt, Transferring
<1>4. CASE UNCHANGED job
  BY <1>4 DEF AllUntouched, Untouched
<1>5. ASSUME activeLocked(w[1]), NEW status \in {"downloading", "processing"},
             job' = [job EXCEPT ![w[1]].status = status]
      PROVE  OneMoves
  <2>1. JobStarts(w[1]) /\ \A k \in Jobs \ {w[1]} : Untouched(k)
    BY <1>1, <1>5 DEF JobStarts, JobKeeps, Untouched, TypeOK, JobFields
  <2>2. QED
    BY <1>1, <2>1 DEF OneMoves, JobMoves
<1>6. CASE ClaimStart(w)
  BY <1>4, <1>5, <1>6 DEF ClaimStart, activeLocked, Active
<1>7. CASE SetProcessing(w)
  BY <1>4, <1>5, <1>7 DEF SetProcessing, ownedByRunLocked
<1>8. QED
  BY <1>2, <1>3, <1>4, <1>6, <1>7
     DEF Run, Attempt, AcquireSlot, Progress, EndTransfer, ReachEOF, TransferFails, SaveResource,
         RunFnReturns, NotifyWorker, CheckWorker, RecordWorker, EmitWorker

-----------------------------------------------------------------------------
(* The transitions, seen through Phase.                                      *)

PhaseOf    == [j \in Jobs |-> Phase(job[j].status)]
AttemptOf  == [j \in Jobs |-> job[j].runID]
AcceptedOf == [j \in Jobs |-> job[j].cancelRequested]

LEMMA OneMaps ==
  ASSUME NEW j \in Jobs, \A k \in Jobs \ {j} : Untouched(k)
  PROVE  /\ PhaseOf' = [PhaseOf EXCEPT ![j] = Phase(job'[j].status)]
         /\ AttemptOf' = [AttemptOf EXCEPT ![j] = job'[j].runID]
         /\ AcceptedOf' = [AcceptedOf EXCEPT ![j] = job'[j].cancelRequested]
BY DEF PhaseOf, AttemptOf, AcceptedOf, Untouched

LEMMA MovesMap ==
  ASSUME TypeOK, NEW j \in Jobs, JobMoves(j), \A k \in Jobs \ {j} : Untouched(k)
  PROVE  Control!Next \/ UNCHANGED Control!vars
<1>1. /\ PhaseOf' = [PhaseOf EXCEPT ![j] = Phase(job'[j].status)]
      /\ AttemptOf' = [AttemptOf EXCEPT ![j] = job'[j].runID]
      /\ AcceptedOf' = [AcceptedOf EXCEPT ![j] = job'[j].cancelRequested]
  BY OneMaps
<1>2. /\ PhaseOf[j] = Phase(job[j].status) /\ AttemptOf[j] = job[j].runID
      /\ AcceptedOf[j] = job[j].cancelRequested
  BY DEF PhaseOf, AttemptOf, AcceptedOf
<1> USE DEF PhaseOf, AttemptOf, AcceptedOf
\* A component of the abstract state that keeps its value at j does not change.
<1>3. /\ Phase(job'[j].status) = Phase(job[j].status) => UNCHANGED PhaseOf
      /\ job'[j].runID = job[j].runID => UNCHANGED AttemptOf
      /\ job'[j].cancelRequested = job[j].cancelRequested => UNCHANGED AcceptedOf
  BY <1>1
<1>4. CASE Untouched(j)
  BY <1>3, <1>4 DEF Untouched, Control!vars
<1>5. CASE JobSubmits(j)
  <2>1. Control!Submit(j)
    BY <1>1, <1>2, <1>3, <1>5 DEF JobSubmits, JobKeeps, Control!Submit, Control!Move, Phase, Unborn
  <2>2. QED
    BY <2>1 DEF Control!Next
<1>6. CASE JobResumes(j)
  <2>1. Control!Resume(j)
    BY <1>1, <1>2, <1>3, <1>6 DEF JobResumes, Control!Resume, Control!Move, Phase
  <2>2. QED
    BY <2>1 DEF Control!Next
<1>7. CASE JobRetries(j)
  <2>1. Control!Retry(j)
    BY <1>1, <1>2, <1>7 DEF JobRetries, Control!Retry, Control!Move, Phase
  <2>2. QED
    BY <2>1 DEF Control!Next
<1>8. CASE JobPauses(j)
  <2>1. Control!Pause(j)
    BY <1>1, <1>2, <1>3, <1>8 DEF JobPauses, JobKeeps, Control!Pause, Control!Move, Phase
  <2>2. QED
    BY <2>1 DEF Control!Next
<1>9. CASE JobCancels(j)
  <2>1. Control!AcceptCancel(j)
    BY <1>1, <1>2, <1>3, <1>9
       DEF JobCancels, Control!AcceptCancel, Control!Move, Phase, activeLocked, Active
  <2>2. QED
    BY <2>1 DEF Control!Next
<1>10. CASE JobStarts(j)
  <2>1. CASE job[j].status = "pending"
    <3>1. Control!Start(j)
      BY <1>1, <1>2, <1>3, <1>10, <2>1 DEF JobStarts, JobKeeps, Control!Start, Control!Move, Phase
    <3>2. QED
      BY <3>1 DEF Control!Next
  <2>2. CASE job[j].status # "pending"
    BY <1>3, <1>10, <2>2 DEF JobStarts, JobKeeps, Control!vars, Phase, activeLocked, Active
  <2>3. QED
    BY <2>1, <2>2
<1>11. CASE JobEnds(j)
  <2>1. Control!End(j, job'[j].status)
    BY <1>1, <1>2, <1>3, <1>11
       DEF JobEnds, JobKeeps, Control!End, Control!Move, Phase, activeLocked, Active, Terminal
  <2>2. job'[j].status \in Control!Outcomes
    BY <1>11 DEF JobEnds, Terminal, Control!Outcomes
  <2>3. QED
    BY <2>1, <2>2 DEF Control!Next
<1>12. QED
  BY <1>4, <1>5, <1>6, <1>7, <1>8, <1>9, <1>10, <1>11 DEF JobMoves

LEMMA StepMaps == Inductive /\ [Next]_vars => [Control!Next]_(Control!vars)
<1> SUFFICES ASSUME Inductive, [Next]_vars PROVE Control!Next \/ UNCHANGED Control!vars
  OBVIOUS
<1>1. ASSUME AllUntouched PROVE UNCHANGED Control!vars
  BY <1>1 DEF AllUntouched, Untouched, Control!vars
<1>2. ASSUME OneMoves PROVE Control!Next \/ UNCHANGED Control!vars
  BY <1>2, MovesMap DEF OneMoves, Inductive
<1>3. ASSUME NEW c \in Clients, Request(c) \/ Serve(c) PROVE OneMoves \/ AllUntouched
  BY <1>3, RequestMoves, ServeMoves DEF Inductive, Strengthening
<1>4. ASSUME NEW w \in Workers, Run(w) PROVE OneMoves \/ AllUntouched
  BY <1>4, RunMoves
<1>5. CASE CleanupOldJobs \/ UNCHANGED vars
  BY <1>1, <1>5 DEF CleanupOldJobs, vars, AllUntouched, Untouched
<1>6. QED
  BY <1>1, <1>2, <1>3, <1>4, <1>5 DEF Next

LEMMA InitMaps == Init => Control!Init
BY DEF Init, NewJob, Unborn, Phase, Control!Init

\* The queue implements JobControl: whatever requests and goroutines interleave,
\* a job moves only as the abstract job does.  So nothing leaves "completed", a
\* cancel is reported only after one was accepted, and no accepted cancel is
\* followed by a pause or a success of the same attempt.
THEOREM QueueImplementsControl == Spec => ImplementsJobControl
BY InductiveAlways, InitMaps, StepMaps, PTL DEF Spec, ImplementsJobControl, Control!Spec
=============================================================================
