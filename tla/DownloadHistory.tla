-------------------------- MODULE DownloadHistory --------------------------
(* The rows that outlive the download queue, and the requests of /v1/downloads *)
(* that act on a row and on the queue in several statements: retry and delete. *)
(* The queue is what these requests see of it: JobControl's phases, with       *)
(* "live" for every phase that is not over, the registry, and the recorders    *)
(* that write a row after an attempt has ended.  All downloads are of one URL. *)
EXTENDS Naturals, FiniteSets

CONSTANTS
  Jobs,         \* job ids; a row is named by the job it records
  Failed,       \* the jobs that have failed, and have their row, at the start
  Calls,        \* requests, each made once; a call is its own claim token
  TTL,          \* downloadRetryClaimTTL
  FailedAge,    \* DownloadFailedRetention
  DoneAge,      \* DownloadHistoryRetention
  StoreFails,   \* whether MarkDownloadHistoryRetried may fail
  MaxTime,      \* bound on the clock
  MaxWrites,    \* bound on the outcomes that are not yet in the store
  MaxRetries,   \* bound on the attempts that are started again in place
  MaxCrashes    \* bound on the restarts of the process

ASSUME HistoryAssumption ==
  /\ Failed \subseteq Jobs
  /\ TTL \in Nat \ {0} /\ FailedAge \in Nat /\ DoneAge \in Nat
  /\ StoreFails \in BOOLEAN
  /\ MaxTime \in Nat \ {0} /\ MaxWrites \in Nat /\ MaxRetries \in Nat /\ MaxCrashes \in Nat

None == "none"

ASSUME NamesAssumption == None \notin Jobs \cup Calls /\ Jobs \cap Calls = {}

VARIABLES
  clock,      \* time.Now
  queue,      \* [Jobs -> the job as the handlers see it]
  recorders,  \* outcomes on their way to the store
  rows,       \* [Jobs -> the download_history_entries row of the job]
  calls,      \* [Calls -> a request of /v1/downloads]
  sweeper,    \* SweepDownloadHistory of one window: its time and selected ids
  retries,    \* attempts started again so far
  crashes,    \* restarts so far
  overwritten \* ids of rows whose live claim a later mark has replaced

vars == <<clock, queue, recorders, rows, calls, sweeper, retries, crashes,
          overwritten>>

Outcomes == {"completed", "failed"}    \* failed stands for cancelled as well

Unborn == [phase |-> "unborn", listed |-> FALSE, discarded |-> FALSE,
           retried |-> FALSE]

FailedJob == [phase |-> "failed", listed |-> TRUE, discarded |-> FALSE,
              retried |-> FALSE]

\* markedAt is last_retry_at, with 0 for NULL: the clock starts at 1.
NoRow == [exists |-> FALSE, id |-> 0, status |-> "failed", at |-> 0,
          marker |-> None, markedAt |-> 0]

FailedRow == [NoRow EXCEPT !.exists = TRUE, !.id = 1, !.at = 1]

\* What a request keeps of the row it has loaded; a retried row was failed.
CopyOf(row) == [id |-> row.id, marker |-> row.marker, markedAt |-> row.markedAt]

Unmade == [pc |-> "unmade", job |-> None, copy |-> CopyOf(NoRow), started |-> None, at |-> 0,
           late |-> FALSE]

NoSweep == [on |-> FALSE, now |-> 0, status |-> "failed", ids |-> {}]

Init ==
  /\ clock = 1
  /\ queue = [j \in Jobs |-> IF j \in Failed THEN FailedJob ELSE Unborn]
  /\ recorders = {}
  /\ rows = [j \in Jobs |-> IF j \in Failed THEN FailedRow ELSE NoRow]
  /\ calls = [c \in Calls |-> Unmade]
  /\ sweeper = NoSweep
  /\ retries = 0
  /\ crashes = 0
  /\ overwritten = {}

-----------------------------------------------------------------------------
(* The queue, its recorders and the clock.                                   *)

At(c, pc) == calls[c].pc = pc

Goto(c, pc) == calls' = [calls EXCEPT ![c].pc = pc]

\* A request that is answered, or cut short ("abandoned").
Ended(c, pc) == [Unmade EXCEPT !.pc = pc, !.late = calls[c].late]

End(c, pc) == calls' = [calls EXCEPT ![c] = Ended(c, pc)]

Listed(j, phases) == queue[j].listed /\ queue[j].phase \in phases

\* The job a Submit creates; `retried` says that a history row started the attempt.
NewJob(retried) == [phase |-> "live", listed |-> TRUE, discarded |-> FALSE,
                    retried |-> retried]

\* DownloadManager.Retry
Restart(j, retried) ==
  /\ retries < MaxRetries
  /\ retries' = retries + 1
  /\ queue' = [queue EXCEPT ![j].phase = "live", ![j].retried = retried]

\* A request that holds a claim at the end of its age has overrun it.
Window == {"submit", "release", "mark"}

Pass ==
  /\ clock < MaxTime
  /\ clock' = clock + 1
  /\ calls' = [c \in Calls |->
       [calls[c] EXCEPT !.late = @ \/ /\ calls[c].pc \in Window \cup {"claim"}
                                      /\ clock + 1 >= calls[c].at + TTL]]
  /\ UNCHANGED <<queue, recorders, rows, sweeper, crashes, retries, overwritten>>

\* A download the user submits.
SubmitNew(j) ==
  /\ queue[j].phase = "unborn"
  /\ queue' = [queue EXCEPT ![j] = NewJob(FALSE)]
  /\ UNCHANGED <<clock, recorders, rows, calls, sweeper, crashes, retries, overwritten>>

\* Retry of the jobs panel.
RetryInPanel(j) ==
  /\ Listed(j, {"failed"})
  /\ Restart(j, FALSE)
  /\ UNCHANGED <<clock, recorders, rows, calls, sweeper, crashes, overwritten>>

\* Mutant of Finish: the snapshot is taken before the stamp.
FinishUnstamped(j, outcome) ==
  /\ queue[j].phase = "live"
  /\ Cardinality(recorders) < MaxWrites
  /\ queue' = [queue EXCEPT ![j].phase = outcome, ![j].retried = FALSE]
  /\ recorders' = recorders \cup {[job |-> j, status |-> outcome, at |-> 0, writing |-> FALSE]}
  /\ UNCHANGED <<clock, rows, calls, sweeper, crashes, retries, overwritten>>

\* The terminal stamp, with the snapshot its recorder will write.
Finish(j, outcome) ==
  /\ queue[j].phase = "live"
  /\ Cardinality(recorders) < MaxWrites
  /\ queue' = [queue EXCEPT ![j].phase = outcome, ![j].retried = FALSE]
  /\ recorders' = recorders \cup
       {[job |-> j, status |-> outcome, at |-> clock, writing |-> FALSE]}
  /\ UNCHANGED <<clock, rows, calls, sweeper, crashes, retries, overwritten>>

\* Eviction, ClearFinished and the retention of the registry.
Evict(j) ==
  /\ Listed(j, Outcomes)
  /\ queue' = [queue EXCEPT ![j].listed = FALSE]
  /\ UNCHANGED <<clock, recorders, rows, calls, sweeper, crashes, retries, overwritten>>

\* The upsert of RecordTerminalDownload: an older outcome is dropped, and the
\* retry columns are left as they are.
Upsert(row, r) ==
  IF ~row.exists
  THEN [NoRow EXCEPT !.exists = TRUE, !.id = row.id + 1, !.status = r.status, !.at = r.at]
  ELSE IF r.at >= row.at THEN [row EXCEPT !.status = r.status, !.at = r.at] ELSE row

\* recordTerminal looks at the discarded flag once, before it writes.
recordTerminal(r) ==
  /\ ~r.writing
  /\ recorders' = (recorders \ {r}) \cup
       (IF queue[r.job].discarded THEN {} ELSE {[r EXCEPT !.writing = TRUE]})
  /\ UNCHANGED <<clock, queue, rows, calls, sweeper, crashes, retries, overwritten>>

RecordTerminalDownload(r) ==
  /\ r.writing
  /\ recorders' = recorders \ {r}
  /\ rows' = [rows EXCEPT ![r.job] = Upsert(@, r)]
  /\ UNCHANGED <<clock, queue, calls, sweeper, crashes, retries, overwritten>>

\* The process ends and starts again: the queue, its recorders and the requests
\* are gone, the rows are as they were.
Crash ==
  /\ crashes < MaxCrashes
  /\ crashes' = crashes + 1
  /\ queue' = [j \in Jobs |->
       IF queue[j].phase = "unborn" THEN Unborn ELSE [Unborn EXCEPT !.phase = "lost"]]
  /\ recorders' = {}
  /\ calls' = [c \in Calls |->
       IF calls[c].pc \in {"unmade", "over"} THEN calls[c] ELSE Ended(c, "abandoned")]
  /\ sweeper' = NoSweep
  /\ UNCHANGED <<clock, rows, retries, overwritten>>

-----------------------------------------------------------------------------
(* What a request reads of the attempt that a row names.                     *)

\* linkedRetry, from the copy of the row the request has loaded.
linkedRetry(copy, j) ==
  LET m == copy.marker IN
  IF m = None \/ m = j THEN "none"
  ELSE IF m \in Calls
       THEN IF clock < copy.markedAt + TTL THEN "claiming" ELSE "none"
  ELSE IF queue[m].listed
       THEN CASE queue[m].phase = "live" -> "running"
              [] queue[m].phase = "completed" -> "succeeded"
              [] OTHER -> "none"
  ELSE IF rows[m].exists /\ rows[m].status = "completed" THEN "succeeded" ELSE "none"

\* The row a loaded copy is of is still there: statements go by its id.
SameRow(c) == LET j == calls[c].job IN rows[j].exists /\ rows[j].id = calls[c].copy.id

-----------------------------------------------------------------------------
(* POST /v1/downloads/retry, of one row.                                     *)

\* loadRequestedEntries, and the refusal of a row that cannot be retried.
LoadRetry(c, j) ==
  /\ At(c, "unmade")
  /\ rows[j].exists /\ rows[j].status = "failed"
  /\ calls' = [calls EXCEPT ![c] = [@ EXCEPT !.pc = "link", !.job = j, !.copy = CopyOf(rows[j])]]
  /\ UNCHANGED <<clock, queue, recorders, rows, sweeper, crashes, retries, overwritten>>

Link(c) ==
  /\ At(c, "link")
  /\ IF linkedRetry(calls[c].copy, calls[c].job) = "none" THEN Goto(c, "url") ELSE End(c, "over")
  /\ UNCHANGED <<clock, queue, recorders, rows, sweeper, crashes, retries, overwritten>>

activeDownloadForURL == \E j \in Jobs : Listed(j, {"live"})

CheckURL(c) ==
  /\ At(c, "url")
  /\ IF activeDownloadForURL THEN End(c, "over") ELSE Goto(c, "find")
  /\ UNCHANGED <<clock, queue, recorders, rows, sweeper, crashes, retries, overwritten>>

\* GetJob, CanRetry; the time of the claim is read before its statement runs.
FindJob(c) ==
  /\ At(c, "find")
  /\ LET j == calls[c].job IN
     \/ Listed(j, {"failed"}) /\ Goto(c, "inplace")
     \/ Listed(j, {"live", "completed"}) /\ End(c, "over")
     \/ ~queue[j].listed /\ calls' = [calls EXCEPT ![c].pc = "claim", ![c].at = clock]
  /\ UNCHANGED <<clock, queue, recorders, rows, sweeper, crashes, retries, overwritten>>

\* dm.Retry, which refuses a job that is no longer listed or no longer over.
RetryInPlace(c) ==
  LET j == calls[c].job IN
  /\ At(c, "inplace")
  /\ \/ /\ Listed(j, {"failed"})
        /\ Restart(j, TRUE)
        /\ Goto(c, "markinplace")
     \/ /\ ~Listed(j, {"failed"})
        /\ End(c, "over")
        /\ UNCHANGED <<queue, retries>>
  /\ UNCHANGED <<clock, recorders, rows, sweeper, crashes, overwritten>>

\* Mutant of Unclaimed: what the request read is not compared.
UnclaimedUnread(c) == SameRow(c)

\* The compare half of ClaimDownloadHistoryRetry.
Unclaimed(c) ==
  LET row == rows[calls[c].job] IN
  SameRow(c) /\ row.marker = calls[c].copy.marker /\ row.status = "failed"

ClaimDownloadHistoryRetry(c) ==
  /\ At(c, "claim")
  /\ \/ /\ Unclaimed(c)
        /\ rows' = [rows EXCEPT ![calls[c].job].marker = c,
                                ![calls[c].job].markedAt = calls[c].at]
        /\ Goto(c, "submit")
     \/ /\ ~Unclaimed(c)
        /\ End(c, "over")
        /\ UNCHANGED rows
  /\ UNCHANGED <<clock, queue, recorders, sweeper, crashes, retries, overwritten>>

\* dm.Submit; it fails when the queue is full of live jobs.
SubmitAgain(c) ==
  /\ At(c, "submit")
  /\ \/ \E n \in Jobs :
          /\ queue[n].phase = "unborn"
          /\ queue' = [queue EXCEPT ![n] = NewJob(TRUE)]
          /\ calls' = [calls EXCEPT ![c].pc = "mark", ![c].started = n]
     \/ /\ Goto(c, "release")
        /\ UNCHANGED queue
  /\ UNCHANGED <<clock, recorders, rows, sweeper, crashes, retries, overwritten>>

\* Mutant of ReleaseSlot: a failed submit leaves the slot claimed.
ReleaseNothing(c) ==
  /\ At(c, "release")
  /\ End(c, "over")
  /\ UNCHANGED <<clock, queue, recorders, rows, sweeper, crashes, retries, overwritten>>

\* The slot is handed back if it still has this claim.
ReleaseSlot(c) ==
  LET j == calls[c].job IN
  /\ At(c, "release")
  /\ rows' = IF SameRow(c) /\ rows[j].marker = c
             THEN [rows EXCEPT ![j].marker = calls[c].copy.marker, ![j].markedAt = clock]
             ELSE rows
  /\ End(c, "over")
  /\ UNCHANGED <<clock, queue, recorders, sweeper, crashes, retries, overwritten>>

\* MarkDownloadHistoryRetried compares nothing: `marked` is the job now running.
Mark(c, marked) ==
  LET j == calls[c].job IN
  /\ \/ /\ rows' = IF SameRow(c)
                   THEN [rows EXCEPT ![j].marker = marked, ![j].markedAt = clock]
                   ELSE rows
        /\ overwritten' = IF SameRow(c) /\ rows[j].marker \in Calls \ {c}
                          THEN overwritten \cup {<<j, rows[j].id>>} ELSE overwritten
        /\ End(c, "over")
     \/ /\ StoreFails
        /\ End(c, "abandoned")
        /\ UNCHANGED <<rows, overwritten>>
  /\ UNCHANGED <<clock, queue, recorders, sweeper, crashes, retries>>

MarkDownloadHistoryRetried(c) ==
  \/ At(c, "mark") /\ Mark(c, calls[c].started)
  \/ At(c, "markinplace") /\ Mark(c, calls[c].job)

-----------------------------------------------------------------------------
(* POST /v1/downloads/delete, of one row.                                    *)

\* loadedAt is read before the rows.
StartDelete(c, j) ==
  /\ At(c, "unmade")
  /\ calls' = [calls EXCEPT ![c] = [@ EXCEPT !.pc = "load", !.job = j, !.at = clock]]
  /\ UNCHANGED <<clock, queue, recorders, rows, sweeper, crashes, retries, overwritten>>

LoadDelete(c) ==
  LET j == calls[c].job IN
  /\ At(c, "load")
  /\ \/ rows[j].exists /\ calls' = [calls EXCEPT ![c].pc = "linked", ![c].copy = CopyOf(rows[j])]
     \/ ~rows[j].exists /\ End(c, "over")
  /\ UNCHANGED <<clock, queue, recorders, rows, sweeper, crashes, retries, overwritten>>

LinkDelete(c) ==
  /\ At(c, "linked")
  /\ IF linkedRetry(calls[c].copy, calls[c].job) \in {"claiming", "running"}
     THEN End(c, "over") ELSE Goto(c, "remove")
  /\ UNCHANGED <<clock, queue, recorders, rows, sweeper, crashes, retries, overwritten>>

\* Mutant of RemoveFinished: what is not over leaves the registry as well.
RemoveListed(c) ==
  LET j == calls[c].job IN
  /\ At(c, "remove")
  /\ queue' = [queue EXCEPT ![j].listed = FALSE]
  /\ Goto(c, "drop")
  /\ UNCHANGED <<clock, recorders, rows, sweeper, crashes, retries, overwritten>>

\* RemoveFinished releases and discards a job that is over; a job that it does
\* not release and that is still queued keeps its row.
RemoveFinished(c) ==
  LET j == calls[c].job IN
  /\ At(c, "remove")
  /\ \/ /\ Listed(j, Outcomes)
        /\ queue' = [queue EXCEPT ![j].listed = FALSE, ![j].discarded = TRUE]
        /\ Goto(c, "drop")
     \/ /\ ~Listed(j, Outcomes)
        /\ Goto(c, "stillqueued")
        /\ UNCHANGED queue
  /\ UNCHANGED <<clock, recorders, rows, sweeper, crashes, retries, overwritten>>

CheckQueued(c) ==
  /\ At(c, "stillqueued")
  /\ IF queue[calls[c].job].listed THEN End(c, "over") ELSE Goto(c, "drop")
  /\ UNCHANGED <<clock, queue, recorders, rows, sweeper, crashes, retries, overwritten>>

\* Mutant of DeleteRow: the rows go by their ids alone.
DeleteRowAsLoaded(c) ==
  LET j == calls[c].job IN
  /\ At(c, "drop")
  /\ rows' = IF SameRow(c) THEN [rows EXCEPT ![j] = [NoRow EXCEPT !.id = rows[j].id]] ELSE rows
  /\ End(c, "over")
  /\ UNCHANGED <<clock, queue, recorders, sweeper, crashes, retries, overwritten>>

\* DeleteDownloadHistoryEntries keeps a row marked at loadedAt or later.
DeleteRow(c) ==
  LET j == calls[c].job IN
  /\ At(c, "drop")
  /\ rows' = IF SameRow(c) /\ rows[j].markedAt < calls[c].at
             THEN [rows EXCEPT ![j] = [NoRow EXCEPT !.id = rows[j].id]]
             ELSE rows
  /\ End(c, "over")
  /\ UNCHANGED <<clock, queue, recorders, sweeper, crashes, retries, overwritten>>

-----------------------------------------------------------------------------
(* SweepDownloadHistory: select the ids, then delete what still matches.     *)

Age(status) == IF status = "failed" THEN FailedAge ELSE DoneAge

\* Mutant of Expired: that a row was retried lately does not keep it.
ExpiredOutcome(row, status, now) ==
  row.exists /\ row.status = status /\ row.at + Age(status) < now

Expired(row, status, now) ==
  /\ row.exists /\ row.status = status
  /\ row.at + Age(status) < now
  /\ row.markedAt = 0 \/ row.markedAt + Age(status) < now

SweepSelects(status) ==
  /\ ~sweeper.on
  /\ LET ids == {<<j, rows[j].id>> : j \in {i \in Jobs : Expired(rows[i], status, clock)}} IN
     /\ ids # {}
     /\ sweeper' = [on |-> TRUE, now |-> clock, status |-> status, ids |-> ids]
  /\ UNCHANGED <<clock, queue, recorders, rows, calls, crashes, retries, overwritten>>

Selected(j) == <<j, rows[j].id>> \in sweeper.ids

\* Mutant of SweepDeletes: the second statement goes by the ids alone.
SweepDeletesSelected ==
  /\ sweeper.on
  /\ rows' = [j \in Jobs |-> IF Selected(j) /\ rows[j].exists
                             THEN [NoRow EXCEPT !.id = rows[j].id] ELSE rows[j]]
  /\ sweeper' = NoSweep
  /\ UNCHANGED <<clock, queue, recorders, calls, crashes, retries, overwritten>>

SweepDeletes ==
  /\ sweeper.on
  /\ rows' = [j \in Jobs |->
       IF Selected(j) /\ Expired(rows[j], sweeper.status, sweeper.now)
       THEN [NoRow EXCEPT !.id = rows[j].id] ELSE rows[j]]
  /\ sweeper' = NoSweep
  /\ UNCHANGED <<clock, queue, recorders, calls, crashes, retries, overwritten>>

-----------------------------------------------------------------------------
Retry(c) ==
  \/ \E j \in Jobs : LoadRetry(c, j)
  \/ Link(c) \/ CheckURL(c) \/ FindJob(c) \/ RetryInPlace(c)
  \/ ClaimDownloadHistoryRetry(c) \/ SubmitAgain(c) \/ ReleaseSlot(c)
  \/ MarkDownloadHistoryRetried(c)

Delete(c) ==
  \/ \E j \in Jobs : StartDelete(c, j)
  \/ LoadDelete(c) \/ LinkDelete(c) \/ RemoveFinished(c) \/ CheckQueued(c) \/ DeleteRow(c)

QueueStep ==
  \/ \E j \in Jobs : SubmitNew(j) \/ RetryInPanel(j) \/ Evict(j)
  \/ \E j \in Jobs, outcome \in Outcomes : Finish(j, outcome)
  \/ \E r \in recorders : recordTerminal(r) \/ RecordTerminalDownload(r)

Next ==
  \/ Pass \/ Crash \/ QueueStep
  \/ \E c \in Calls : Retry(c) \/ Delete(c)
  \/ \E status \in Outcomes : SweepSelects(status)
  \/ SweepDeletes

Spec == Init /\ [][Next]_vars

-----------------------------------------------------------------------------
(* Properties.                                                               *)

TypeOK ==
  /\ clock \in 1..MaxTime
  /\ queue \in [Jobs -> [phase : {"unborn", "live", "lost"} \cup Outcomes,
                         listed : BOOLEAN, discarded : BOOLEAN, retried : BOOLEAN]]
  /\ recorders \subseteq [job : Jobs, status : Outcomes, at : 1..MaxTime, writing : BOOLEAN]
  /\ LET Markers == Jobs \cup Calls \cup {None} IN
     /\ rows \in [Jobs -> [exists : BOOLEAN, id : Nat, status : Outcomes, at : 0..MaxTime,
                           marker : Markers, markedAt : 0..MaxTime]]
     /\ calls \in [Calls ->
          [pc : {"unmade", "link", "url", "find", "inplace", "claim", "submit", "release",
                 "mark", "markinplace", "load", "linked", "remove", "stillqueued", "drop",
                 "over", "abandoned"},
           job : Jobs \cup {None}, started : Jobs \cup {None},
           copy : [id : Nat, marker : Markers, markedAt : 0..MaxTime],
           at : 0..MaxTime, late : BOOLEAN]]
  /\ sweeper \in [on : BOOLEAN, now : 0..MaxTime, status : Outcomes,
                  ids : SUBSET (Jobs \X Nat)]
  /\ retries \in 0..MaxRetries /\ crashes \in 0..MaxCrashes
  /\ overwritten \subseteq Jobs \X Nat

\* A job that runs can be found: what an unlisted job leaves behind is over or lost.
LiveIsListed == \A j \in Jobs : queue[j].phase = "live" => queue[j].listed

RowOf(c) == <<calls[c].job, calls[c].copy.id>>

\* Of the requests that retry one row, at most one is between its claim of the
\* row's slot and its mark (the compare-and-set of ClaimDownloadHistoryRetry),
\* unless one has outlived the age of its claim, or the mark of a retry in place,
\* which compares nothing, has landed on a claim.
SlotHeldAlone ==
  \A c, d \in Calls :
    /\ calls[c].pc \in Window /\ calls[d].pc \in Window
    /\ c # d /\ RowOf(c) = RowOf(d)
    => calls[c].late \/ calls[d].late \/ RowOf(c) \in overwritten

\* A claim in a row is that of a request that is still at work, or of one that a
\* crash or a failed write cut short, or that outlived its claim (a request that
\* takes over such a claim and cannot submit puts it back): no other path leaves
\* one behind.
ClaimHasOwner ==
  \A j \in Jobs : rows[j].exists /\ rows[j].marker \in Calls
    => calls[rows[j].marker].late \/ calls[rows[j].marker].pc \in Window \cup {"abandoned"}

\* The request deletes the row in this step.
Deletes(c) ==
  LET j == calls[c].job IN
  At(c, "drop") /\ calls'[c].pc # "drop" /\ rows[j].exists /\ ~rows'[j].exists

\* A row is never deleted while its own download runs, whatever retries it between
\* the loading of the row and its deletion (RemoveFinished decides, not a status
\* read before).
DeleteSparesLive ==
  [][\A c \in Calls : Deletes(c) => queue[calls[c].job].phase # "live"]_vars

\* Nor while a request that read its clock after the rows were loaded is about to
\* run it again from its payload.
DeleteSparesClaimed ==
  [][\A c, d \in Calls :
       Deletes(c) /\ calls[d].pc \in Window /\ RowOf(d) = <<calls[c].job, rows[calls[c].job].id>>
       /\ RowOf(d) \notin overwritten
       => calls[d].at < calls[c].at \/ calls[d].late]_vars

\* The sweep never takes a row whose outcome or retry is younger than its window,
\* though it selects in one statement and deletes in another.
SweepSparesFresh ==
  [][\A j \in Jobs :
       sweeper.on /\ ~sweeper'.on /\ rows[j].exists /\ ~rows'[j].exists
       => /\ rows[j].at + Age(rows[j].status) < clock
          /\ rows[j].markedAt = 0 \/ rows[j].markedAt + Age(rows[j].status) < clock]_vars

-----------------------------------------------------------------------------
(* What the proofs of BackgroundProofs strengthen these with.                *)

Settled == {"unmade", "over", "abandoned"}

\* A request at work names a row that it, or a later one of its job, still has; one
\* that is not at work has no copy; a deletion is of a job that was submitted, and the
\* row it is about to drop is of one that left the registry for good; a claim as old
\* as its age has been noticed.
Named(k) ==
  /\ k.pc \notin Settled => k.job \in Jobs /\ k.copy.id <= rows[k.job].id
  /\ k.pc \in Settled => k.copy = CopyOf(NoRow)
  /\ k.pc = "mark" => k.started \in Jobs
  /\ k.pc \in {"linked", "remove", "stillqueued", "drop"} => queue[k.job].phase # "unborn"
  /\ k.pc = "drop" => ~queue[k.job].listed
  /\ k.at <= clock
  /\ k.pc \in Window \cup {"claim"} /\ k.at + TTL <= clock => k.late

\* A claim x that was put into a row, the time beside it: x is on that row, and made
\* it no later than that, as long as it is at work.
Claimed(x, time, row) ==
  x \in Calls =>
    /\ calls[x].pc \in Window \cup {"over", "abandoned"}
    /\ calls[x].at <= time
    /\ calls[x].pc \in Window => RowOf(x) = row

\* A request that has looked at the claim it found goes on only past a stale one, and
\* takes over only from a request that is late or was cut short.
PassesStale(k) ==
  k.copy.marker \in Calls =>
    LET owner == calls[k.copy.marker] IN
    /\ k.pc \in {"url", "find", "inplace", "claim"} => owner.late \/ owner.pc \notin Window
    /\ k.pc \in Window => owner.late \/ owner.pc = "abandoned"

CallFits(k) ==
  /\ Named(k) /\ PassesStale(k)
  /\ Claimed(k.copy.marker, k.copy.markedAt, <<k.job, k.copy.id>>)

CallsFit == \A c \in Calls : CallFits(calls[c])

\* What rows and recorders are of was submitted, and a claim in a row is of the row.
RowsFit ==
  /\ \A j \in Jobs :
       /\ rows[j].exists => queue[j].phase # "unborn"
       /\ Claimed(rows[j].marker, rows[j].markedAt, <<j, rows[j].id>>)
  /\ \A r \in recorders : queue[r.job].phase # "unborn"

\* A request between claim and mark has its claim in the row, unless it was late or
\* a mark in place has replaced it.
SlotsHeld ==
  \A c \in Calls : calls[c].pc \in Window /\ SameRow(c) =>
    rows[calls[c].job].marker = c \/ calls[c].late \/ RowOf(c) \in overwritten

\* A request loads its copy before it claims, so that the claim in it is another's.
ClaimsRead == \A c \in Calls : calls[c].copy.marker # c

RetriesStrengthening ==
  CallsFit /\ RowsFit /\ SlotsHeld /\ ClaimsRead /\ sweeper.now <= clock

\* What the statements of a retry leave behind: a claim has one owner, a row one
\* retry at a time, and a job that runs can be found; and what makes that inductive.
RetriesSound ==
  TypeOK /\ LiveIsListed /\ SlotHeldAlone /\ ClaimHasOwner /\ RetriesStrengthening

\* A row is deleted, by a request or by the sweep, only when nothing runs or is about
\* to run from it and its window has passed.
DeletionsSpare == DeleteSparesLive /\ DeleteSparesClaimed /\ SweepSparesFresh
=============================================================================
