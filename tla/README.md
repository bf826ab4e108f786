# mahresources: models, checks and proofs

mahresources is a personal information manager in Go: a web server over a relational
database and a file store, with downloads and other long work in the background, plugins
written in Lua, schedules, and a share server. Most of its handlers are one database
transaction each. What is hard to get right is the work that outlives a request, and this
directory specifies that work in TLA+, checks the specifications with TLC on small
instances and proves their main invariants with TLAPS for every instance.

Run, in this directory:

    tlc -workers 2 -config QueueControls.cfg MCDownloadQueue
    tlapm DownloadQueueProofs.tla

`PROJECT.json` holds the same facts for tools: components, runs, mutants, findings,
hazards, theorems, and for each definition the lines of the code it stands for.

## 1. The system

### Parts that run beside requests

| part | state | operations | talks to |
|---|---|---|---|
| Download queue (`download_queue/`) | the registry of jobs and its order; per job a status, a run number, a cancel intent, a context, a completion time, the resource it created; a semaphore; the subscribers | submit, cancel, pause, resume, retry, clear, remove finished, retention sweep, shutdown; one goroutine per attempt | HTTP handlers call it; it calls the resource store, the history recorder and the job event hook, and publishes to subscribers |
| Download history (`application_context/download_history_context.go`, `server/api_handlers/download_history_handlers.go`) | one row per job, with the last retry and its claim | upsert of an outcome, delete, claim/record/release of the retry slot, sweep | written by the queue's recorder; a retry from the history submits to the queue |
| Readers of a transfer (`download_queue/progress.go`) | an in-flight read, an idle timer, a byte budget | read, abandon | inside one attempt |
| Job event dispatcher (`application_context/job_event_dispatcher.go`) | a buffer of 256, a worker, a drain deadline | record, stop | fed by the queue, calls plugin hooks |
| Jobs panel (`src/components/downloadCockpit.js`) and event stream | a row per job | init, added, updated, removed | a subscriber of the queue |
| Per-id lock (`idlock/`) | a map from ids to reference-counted channels, and a channel of global tokens | acquire in four ways, release, run a function under the lock with timeouts | uploads, thumbnails, hashes |
| Plugin scheduler (`application_context/plugin_scheduler.go`, `plugin_schedule_context.go`) | a row per schedule: next run, claim and its age, last outcome | sync, due, claim, advance, complete, release, record, tick, run now | the database, of which several processes may share one; action jobs |
| Plugin manager, VM locks, action jobs (`plugin_system/`) | loaded plugins, a VM lock each, jobs and their budget | enable, disable, run an action, a hook, an HTTP callback | everything a plugin may call |
| Hash worker (`hash_worker/`) | a row of hashes per image, the pairs of similar images, a queue, a cache of hashes | hash a new image, backfill old hashes, match, retry failures, recompute all pairs | the rows and files of resources |
| Thumbnail worker | a queue and a backfill cursor | make previews | resources, idlock |

### Parts that live within a request

Resources, groups, notes, tags, series and relations (`application_context/`); users,
sessions and authorisation; search with its cache; the MRQL query language; import and
export; shortcodes and mentions; the ordering strings of `ordering/`; settings; the login
limiter. Most are one transaction, or a pure function. Four are not, and are modelled:

- **Resources** keep a file per content, shared by all resources and versions with its
  hash. An upload, a new version, a restore, a rotation, a crop, a deletion, a merge and a
  thumbnail are each several statements and file operations, and the locks by hash and by
  resource order only some of them.
- **The import of a group** (`groupio/`, `import_api_handlers.go`) consumes a plan, writes
  the blobs of an archive to the store of files and its rows in one commit after another,
  and hands the plan back for a retry when it fails.
- **Accounts** (`application_context/user_*.go`, `session_context.go`, `root_admin*.go`) are
  changed in transactions that take one lock first, but a password is compared, a row read to
  know which group to lock, and the root administrator cached, outside of it; several
  processes may start on one database.
- **The login limiter** (`server/login_rate_limit.go`) reserves room for an attempt before
  its password is compared, and resolves the reservation after it.

### What makes them hard

- A control (Cancel, Pause, Resume, Retry) arrives at any point of an attempt, and the
  attempt that was left behind unwinds after its successor has begun.
- A terminal write is followed by four effects outside the lock: a notification, the check
  of a discarded flag, a database write, an event. Each may be overtaken.
- Claims in the database have an age, and the process that holds one can die, or be slow.
- Channels are bounded: a slow subscriber loses events, a full dispatcher drops them.
- Files and rows are not in one transaction: a failure or a crash falls between them.
- A plugin's VM is one Lua state that hooks, jobs, its own loading, a disable and the
  shutdown all want, and a revoked VM may still be running.
- A transaction acts on what was read before it, and the cached administrator is read after it.
- Giving up on a lock has to undo what was taken at whichever of five points it happens.

### What makes them correct

- Queue: a live job is always in the registry and somebody is left to end it; an accepted
  cancel is honoured; one live transfer per job; what the panel, the history row and the
  event say agrees with what the queue did; every job settles.
- History: a row is deleted, retried and swept only when its download is over; one retry
  per claim; no row names a job that does not exist.
- Lock: exclusion per id, the global limit, nothing leaks, every call ends.
- Scheduler: no two runs work under a claim of one schedule at once, in whatever process; a
  run works on the occurrence it was claimed for; a run that lost its claim undoes nothing;
  a crash delays a schedule by at most the claim's age.
- Reader: the body is handed over in order, once, and nothing of it after the attempt was
  given up; a Read ends even if the remote never answers.
- Shutdown: every download that was registered is recorded, and announced once.
- Resources: every row has its file; no content is added twice; version numbers are unique;
  the current version, the served fields and the previews agree; nothing shown is lost by a
  change.
- Import: one attempt at a time; a retry creates nothing twice and completes what an earlier
  attempt left open; what was created is listed; a file that was whole stays whole.
- Plugins: Lua runs only in the VM that is published, never in a closed one; each VM is
  closed once and none is left open; a revoked VM registers nothing.
- Hashes: a saved hash is that of the file; two alike images are a pair, and no others.
- Accounts: a session is of an enabled account and its present password; an administrator
  remains, and two starts make one; a confined account's group exists; the cached
  administrator is the oldest.
- Login limiter: an attempt counts while it is judged and if it was rejected, and no other
  does; never more than the limit count at once.

## 2. The modules

| module | what it is |
|---|---|
| `JobControl` | abstract: the phases of one job, and what moves it between them |
| `DownloadQueue` | the queue with its goroutines, requests, recorder, job events and a subscriber |
| `MCDownloadQueue` | its instances for TLC |
| `DownloadQueueProofs` | its inductive invariant, its safety theorems, the proof that it implements `JobControl` |
| `IdLock`, `MCIdLock`, `IdLockProofs` | the per-id lock in the same three parts |
| `PluginSchedule`, `MCPluginSchedule`, `PluginScheduleProofs` | the plugin scheduler: processes, claims in the database, runs |
| `DownloadHistory` | the rows of the history: retry, deletion and sweep, with the queue as they see it |
| `HashWorker` | hashes and pairs of images |
| `BackgroundProofs` | the invariants and theorems of the two above |
| `MCBackground` | the instances of `DownloadHistory` and `HashWorker` |
| `TimeoutReader` | the reader of a transfer |
| `QueueShutdown` | the stop of the process: main, Shutdown, workers, the job event dispatcher |
| `TransferEdgesProofs` | the invariants and theorems of the two above |
| `MCTransferEdges` | the instances of the two |
| `ResourceStore`, `MCResourceStore` | resources, versions, previews and the files they share |
| `GroupImport`, `MCGroupImport` | applying an import |
| `StorageProofs` | the invariants and theorems of the two above |
| `MCStorage` | the instances of the two, the writers of stored files |
| `PluginVM`, `MCPluginVM`, `PluginVMProofs` | the VMs of one plugin, who runs in them, and its jobs |
| `Accounts` | accounts, sessions, tokens, confinement, the root administrator |
| `LoginLimiter` | the reservations of logins |
| `AccountsProofs` | the invariants and theorems of the two above |
| `MCAccounts` | the instances of the two |

`MCBackground`, `MCTransferEdges`, `MCStorage` and `MCAccounts` each check two modules in one
run. The two share no state: a constant variable (`table`, `part`, `writer`) chooses at the
start which of them an instance runs, and the other stays in one initial state. In
`MCPluginSchedule`, `MCBackground` and `MCAccounts` it also chooses between two instances of
one module.

### DownloadQueue

One step is one critical section of a lock, one channel operation, or one database
statement; a goroutine can be descheduled between any two. A worker is named by its job and
by the run that *spawned* it; the run it *works for* is read by `attempt()` when it is first
scheduled (`Attempt`), which may be a later one.

- `Submit` is Submit and SubmitJobWithOptions (and one element of SubmitMultiple): room is
  made by evicting the oldest completed, else the oldest failed or cancelled job, and the
  job is registered and announced in one critical section. `Spawn` is the `go` statement
  after it.
- `Lookup` and then `CancelActive`, `CancelPaused`, `ClaimPause` or `ClaimRefused` are
  Cancel and Pause: the registry lock is dropped between finding the job and claiming it.
  `Cancel` evaluates its `time.Now()` before it gets the job's lock; `Lookup` takes it.
- `Resume`, `Retry` claim under the registry's read lock, and hold it (`Reading`) until
  their worker is spawned and the change notified, so that no removal comes between.
- `ClearFinished`, `RemoveFinished`, `CleanupOldJobs` delete under the write lock. The first
  two announce the removals after it, one by one, and RemoveFinished marks each job
  discarded before; the third announces them within it.
- A worker runs `Attempt`, `AcquireSlot` or `GiveUpQueued`, `ClaimStart`, the transfer
  (`Progress`, `ReachEOF`, `TransferFails`, `SetProcessing`, `SaveResource`, or `RunFnReturns`
  for a generic job), `Finish`, and then `NotifyWorker`, `CheckWorker`, `RecordWorker`,
  `EmitWorker`. `finishSnapshot` is the one terminal write, guarded by the run.
- `view` is the row of a subscriber that keeps up, with the rules of the panel: `updated`
  about a job it does not show is dropped.

Abstractions, by name:

- A completion time is a counter per job: a worker's stamp is two above the last, the time a
  Cancel has taken at its lookup is one above the last *at the lookup*, so an attempt that
  ends in between is newer. Only the order of the stamps of one job matters.
- The ages of the retention sweep are left out: any job with a completion time, and any
  paused job, may be past its window at any moment.
- A resource is named by the run that saved it (run + 1, and 0 for none).
- Progress counters are left out; the notifications they cause are kept (`Progress`).
- The two passes of an eviction are one step: both are in one critical section.
- A refused Submit (queue full of live jobs) changes nothing and is a stuttering step.
- Snapshots carry what the recorder reads. URLs, names, messages and owners are left out;
  which jobs a caller may see is a choice of any subset in ClearFinished and RemoveFinished.
- Shutdown is in `QueueShutdown`. Slow subscribers and the settings providers are not
  modelled.

### JobControl

Phases `unborn`, `waiting`, `running`, `paused` and three outcomes. A pause cannot take back
an accepted cancel; an outcome is left only by Retry, and never from a success; an attempt is
cancelled only if a cancel was accepted, and never succeeds after one; a job that never ran
can end only in a cancellation. `DownloadQueue` implements it with
`phase <- Phase(job.status)`, `attempt <- job.runID`, `accepted <- job.cancelRequested`.

### IdLock

`locks`, `refs`, `full` (whether a state's channel of capacity one holds its element) and
`tokens` are the lock; `proc` is where each goroutine is in its call, `fn` the goroutine
RunWithLockTimeout spawned. `Call` starts an acquisition of one of three kinds: `block`
(Acquire), `context` (AcquireContext, which is also AcquireWithTimeout with a positive
timeout) and `try` (a zero timeout). A call with `runs` is RunWithLockTimeout. `Expire` ends
its context wherever it is. `Check`, `TakeToken`, `GiveUpToken`, `Recheck`, `TakeRef`,
`Enter`, `GiveUpEnter`, `Confirm`, `Undo`, `DropRef`, `DropToken` are the statements of the
acquisition in their order, with the five places at which it can give up. `Release` finds
the state *by id*, as the code does.

Abstractions: a free state stands for a fresh allocation; a negative timeout returns before
it changes anything; a second Release of one Acquire, which the package documents as a
no-op when it finds no state but cannot detect otherwise, is not made.

### PluginSchedule

`Hosts` are processes that share the database. `row` is the table of schedules, of one
plugin; `plugin` is the plugin as each process has loaded it, `gen` naming the VM; `ticker`
is the list a Tick is working through; an attempt is one goroutine of `dispatch` or
`dispatchManual`, and its name is its claim token. A step is one statement of the database,
one reading of the clock or one critical section of the plugin manager.

- `Enable` is SetPluginEnabled, or the start of the process when nobody is acting; `Sync`
  is one schedule of SyncPluginSchedules after it, and `SyncFails` an error that ends it.
- `List`, `Skip`, `Claim` are Tick: the query, a row nothing answers to, and the conditional
  update with the time *of the tick*. `Ask`, `ClaimNow` are RunNow.
- `Dispatch`, `Advance` (only under allow), `Start`, `GiveUp`, `Enter` or `VMGone`, `Return`
  and `Complete` are a ticked run, with `Record` for `Complete` under allow. A manual run
  has no `Advance` and ends with `Record`, then `Release`.
- `Exit` is a crash, or the end of a process whose drain has run out: what it had claimed
  stays claimed. `DeleteUser` takes a row's owner away.
- `Pass` is time. An attempt has a limit: `Lag` from the clock it read to the start of its
  wait, `Wait` for the job slot and the VM, `RunMax` for the handler, `Lag` again for the
  last write, so that the margin of two minutes is twice `Lag`. Without `MayStall` time waits
  for who is at the limit. With it an attempt that overruns is `late` from then on.

Abstractions, by name:

- The interval is a constant, and the read and the conditional update of Complete and
  Advance are one step: the row is never deleted, and both have the token in their Where.
- The check of the registration is a step with the claim that follows it: a Disable between
  the two is one after the claim, which `Dispatch` looks for.
- A process does one sync at a time. The read and the write of one row in it are one step;
  of two processes that create a row at once the second fails, which is `SyncFails`.
- The job budget and the other users of a VM are left out; that they keep a run from
  starting within its wait is `GiveUp`, which may happen at any time of the wait.
- An outcome is named by the number of its run and by whether that run kept its claim and
  was in time; status, text and last_run_at are left out. So is whose identity a run has.
- The clocks of the processes agree. A tick takes all due rows.

### DownloadHistory

The rows of the history and the requests that act on a row *and* on the queue. Of the queue
it keeps what these requests see: JobControl's phases with `live` for all that are not over,
the registry, and the recorders still on their way.

- `LoadRetry`, `Link`, `CheckURL`, `FindJob`, `RetryInPlace`, `ClaimDownloadHistoryRetry`,
  `SubmitAgain`, `ReleaseSlot`, `MarkDownloadHistoryRetried` are retryOrResubmit in its order,
  with `linkedRetry` as an operator; `StartDelete`, `LoadDelete`, `LinkDelete`,
  `RemoveFinished`, `CheckQueued`, `DeleteRow` are the delete handler.
- `recordTerminal` reads the discarded flag, `RecordTerminalDownload` is the upsert after it.
- `SweepSelects` and `SweepDeletes` are the two statements of one window of the sweep.
- `SubmitNew`, `RetryInPanel`, `Finish`, `Evict`, `Pass`, `Crash` are what happens meanwhile.

Abstractions: all downloads are of one URL; `failed` stands for cancelled too; identities,
messages and the list endpoints are left out. A deletion that was linked follows the link
once.

### HashWorker

A picture stands for a file, its hashes and its chunks; `Alike` are the pairs within the
stored distance, `Near` those that share a chunk (the prefilter may tell too many apart from
none, never too few). `Flat` pictures have no variance and match nothing.

- `Upload`, `ChangeFile` and `OnResourceFileChanged`, `DeleteImage` are the requests.
- `TakeQueued`, `TakeBatch` take an image in hand (queue, batch, backfill of old hashes),
  `SaveHash` writes its row, `MatchCache` or `MatchRows` finds pairs, `SavePairs` stores them.
- `RetryFailedHashes`, `Recompute` are the administrator's jobs; `HashRestart` the process.

`lost` and `whole` are not the code's. They remember whether an insert has been refused, or a
match cut short, since the last recompute that read every row and had no insert refused
meanwhile, its own or a goroutine's; only such a recompute makes good what was lost.

Abstractions: the two matchers use one relation; the migration of string hashes, the drain
of Stop, the arithmetic of hashes, chunks and distances are left out.

### TimeoutReader

A byte is its number in the body, so that the landing pad and what the caller gets can be
compared with it. `StartRead`, `StartGoroutine`, `CheckAbandoned`, `Select`, `Deliver` are
Read; `ReadBody`, `Stamp`, `SendResult` its goroutine; `Tick`, `WatchTimeout` the watcher;
`CancelTransfer`, `Close` the attempt. Left out: reads of no bytes, errors of the body other
than its end (they travel the same way).

### QueueShutdown

`Signal`, `StopDispatcher`, `LockRegistry`, `Look`, `CancelContext`, `UnlockRegistry`,
`Abandon`, `Abandoned`, `Exit` are main's deferred stops and Shutdown; `ClaimStart`,
`finishSnapshot`, `recordTerminal`, `CheckDone`, `HandOver` the workers they meet;
`TakeEvent`, `Dispatch`, `SeeDone` the dispatcher with its drain; `Submit`, `Resume`,
`LookupPause`, `ClaimPause` the requests that a stop of the server may have left running.
Both bounds of the stop (the server's and the drain's) may be overrun: `overrun`,
`undrained`. The semaphore and the controls that DownloadQueue models are left out; so is a
retry in the stop.

### ResourceStore

A content is its hash and its path. A transaction is one step, a file operation another
(`StatFile`, `CreateFile`, `WriteFile` or `WriteFails`, `RemoveFile`).

- `AddLocks`, `AddChecks`, `AddCommits`, `AddRefused` are an upload under its hash's lock;
- `LockVersion`, then `UploadReads`, `RestoreReads`, `TransformReads` or `CropReads` and
  `CropProbes`, then `VersionCommits` or `TransformCommits` are the five changes, under the
  resource's lock; `Original` is the version 1 that a resource without versions gets first;
- `DeleteVersion…`, `Delete…`, `BulkDeleteCommits`, `MergeCommits` take rows away and then
  the files nobody refers to; `ThumbnailReads`, `ThumbnailSaves` make a preview;
- `Migrate…`, `SyncLists`, `SyncCommits` are the migration of versions at the start.

`KeptApart` is the assumption of the run, stated by `MayStart`: deletions, merges and
thumbnails do not overlap stores, the migration has ended, and the winner of a merge has a
current version. Nothing in the code ensures any of these; section 6 says what happens
without them.

Abstractions: one path per hash; groups, tags, series and hooks of a resource are left out;
CleanupVersions is a series of DeleteVersion; the backup of a file before its removal and
AddLocalResource are not modelled.

### GroupImport

An archive has items with or without a GUID, some of which are in the database already.
`ApplyLoads`, `Consume`, `Submit` or `SubmitRefused` are the apply handler, `DeleteImport`
the delete handler. A job goes through `LoadImportPlan`, the blobs (`OnBlob`, `WriteBlob` or
`BlobFails`), the definitions, groups, resources (with `copyBlob` or `CopyFails` after the
commit of a replaced one), notes and links; `StatementFails`, `Cancel` and `ImportCrash` end
it anywhere, and `shouldRestorePlan` decides whether the plan is handed back (`GiveBack`).
`RetrySafe` is the code's question whether a replay of the decisions is harmless.

Assumptions of the run, each a constant: `SameDecisions` (a retry is made with the decisions
of the attempt it repeats), `WholeWrites` (a blob is written whole; the finding of section 6
is what happens otherwise) and `FilesUnshared` (of resources that are there already, at most
one is of the archive; its file belongs to no other row, and no other resource of the archive
has the bytes it had). Nothing in the code ensures the third: a replaced resource is copied
over at the path its row has (`apply_import.go:1190`), whoever else has that path.

Abstractions: a batch is one entry; a lookup of a GUID and the create after it are one step,
since its index is unique; series and definitions are one kind of named item; shell groups,
renamed GUIDs, versions and previews of a resource, unions of tags and checks of scope are
left out; so are parsing and exporting.

### PluginVM

One plugin name, and the VMs loaded under it one after another. `Claim`, `Refuse`,
`SeeAbsent`, `BeginLoad`, `Publish`, `LoadFails`, `Abandon`, `OpenToOthers`, `EndLoad` are
EnablePlugin; `Disable`, `AwaitVisible`, `Look`, `WaitForLoad`, `Return` are DisablePlugin;
`TakeGroup`, `Drain`, `CloseVM`, `Sweep` finishTeardown; `Close` the shutdown.
`FindRegistration`, `Enter`, `Leave` are a hook, a page or a synchronous action; `StartJob`,
`JoinGroup`, `TakeSlot`, `EnterJob`, `Report`, `HandlerEnds`, `Settle`, `ClearJob` a job.
`Register` is any registration by Lua that runs. `manager.locks` is who may close a VM:
`Revoke` takes the entry, and with it the right.

Abstractions: the read of vmLocks is one step with the wait that follows it; a job that has
ended is not followed; handlers report only about their own job; dependencies between
plugins, consent, mah.http callbacks, TryLockVMWithin and calls from one VM into another are
left out.

### Accounts

`users` are the rows, in the order of their ids; `procs` is where each goroutine is: `Clients`
serve requests of this process, `Main` starts it, and `OtherMain` starts another one on the
same database. Every transaction that changes accounts begins with
lockUserManagementMutation, so it is one step; what is read before it, and the refresh of the
cache after it, are steps of their own.

- `Start`, `LookupAdmin`, `CreateAdmin`, `PromoteAdmin` are EnsureAdminUser; `Count`,
  `LookupRoot`, `MakeRoot`, `ReuseRoot` (with `Winner`, another process having been faster)
  are EnsureRootAdmin.
- `ResolveRoot`, `StoreRoot` are refreshRootAdmin under `mu`, after each commit of this
  process (`CommitAnd`).
- `Authenticate` has compared a password outside the lock, `MintSession` is the transaction
  of AuthenticateAndCreateSession. `ValidateSession` gives a request its account, with which
  it goes on to `CreateApiToken`, `RevokeApiToken` or `ChangeOwnPassword`. `RevokeSession` is
  a logout, or the removal of what has expired.
- `CreateUser`, `DeleteUser`, and `Observe` with `UpdateUser`: the row read without the lock,
  and the transaction, which either commits, fails, or sees that the observation is stale and
  holds a new one. `MayUpdate` are its checks, `Dangerous` checkDangerousAdminUpdate.
- `DeleteGroup`, `MergeGroups` are what they do to the groups accounts are confined to.

Abstractions, by name:

- A hash is a number, new each time (bcrypt salts). Who knows a password is left open: any
  login may be of any enabled account, which is more than can happen.
- The new observation is one step with the transaction that found the old one stale, and
  there is no limit of five to these attempts; giving up changes nothing.
- The oldest administrator is the one of the smallest id. Editors, who are confined as
  administrators are but do not count as such, are left out.
- Errors and lock timeouts of the database, the expiry of sessions and tokens, a read of the
  cache before it is warm, requests that come with a token, settings and renames are left
  out. Of the other process only the start is modelled.

### LoginLimiter

`fails` is the map of records by key, `logins` where each login is, with the keys it counts
under; `reserve` is Throttle (a key is at its limit) or Admit (with the capacity sweep and
the cap on keys), and `Reject`, `Succeed`, `abandon` resolve it. `LoginTime` is the clock. A
key prunes its own expired records when it is looked at. What counts is stated by what became
of the logins (`Counted`), not by the records. A limit of 0, which turns the limiter off, is
left out.

## 3. What is checked

| run | instance | shows |
|---|---|---|
| QueueControls | 1 download, 2 requests at a time, 2 slots, runs 0 and 1; 411,180 states | every safety property, HistoryNeverRegresses, and the refinement |
| QueueContention | 1 download, 1 generic job, 1 slot, registry of 1, history writes may fail; 34,207 states | eviction and both kinds of worker: LiveJobsKept, and that every job settles (ActiveSettles) |
| QueueProgress | 1 download, 1 request at a time, 1 slot, runs 0 and 1; 28,148 states | an accepted cancel takes effect (CancelTakesEffect) |
| LockSafety | 4 goroutines, 1 id, 2 states, 3 tokens; 233,125 states | exclusion, one state per id, no leak, no deadlock |
| LockProgress | 2 goroutines, 2 ids, 1 token; 6,969 states | the limit, every call ends, no deadlock |
| Schedules | 1 schedule, 2 attempts, time to 3, a run of 1 and no wait or lag, writes may fail; 2 processes under the policy skip with every goroutine in time, or 1 under both policies that stalls; 1.5 million states | a claim excludes other runs, is of a due occurrence, and orders the outcomes; crashes and takeovers; the inductive invariant, which says how long who is in time keeps its claim; DueNeverRegresses |
| Background | history: 2 jobs, 2 requests, or 1 and the sweep, a restart; hashes: 2 images, a change, and 2 goroutines, or 1 at a time and a restart or a cancel; 1.1 million states | a row is deleted only when nothing runs from it, one retry per claim; the pairs of images are exact |
| TransferEdges | a body of 3 bytes in reads of 1 or 2; a stop with 2 downloads, 2 attempts each and room for one event; 977,000 states | the body in order and nothing late; every download recorded and announced once |
| Storage | 3 requests of 2 clients, 2 contents, 3 resources, a fault; 2 attempts to apply a plan of 7 items, an error; 602,000 states | rows, versions, files and previews agree; a replayed import is neither double nor incomplete |
| PluginLives | 2 VMs of one name, 2 administrators, 2 callers or a job; 657,000 states | who may run, register and close |
| Accounts | 3 accounts, 2 groups, 2 clients, and 2 starts with one client at a time, or 1 process; 3 logins, a limit of 2, 3 keys; 513,000 states | credentials, confinements, administrators and the cached one under every change; what counts against a login |
| ImportBlobs | the import of Storage with a blob that may be cut short | the finding of section 6 |

Safety properties of the queue:

- `CancelHonoured` once Cancel has answered, never paused and never completed.
- `OneLiveTransfer` at most one goroutine per job transfers under a live context.
- `LiveJobsKept` a pending or running job can be listed and cancelled (`ActiveRegistered`),
  and somebody is left to end it (`ActiveHasWorker`).
- `OutcomesTold` the resource a job names is the one its current attempt saved
  (`ResourceOfAttempt`), its history row tells of one attempt that ended (`HistoryTruthful`)
  and of the newest (`HistoryKeepsNewest`), plugins get one event per ended attempt
  (`AnnouncedOnce`), and when the last event is out the panel shows the job as it is
  (`ViewConverges`).
- `HistoryNeverRegresses` no write replaces a row by an older outcome.
- `Inductive` the invariant the proofs rest on. It contains the types, `ActiveRegistered`,
  `CancelHonoured`, `OneLiveTransfer`, and `StampedIffOver`: a job has a completion time
  exactly while it is over (the sweep decides by the time alone).

Of the lock: `MutualExclusion`, `GlobalLimit`; `RunsUnderLock`, a function never runs
without the lock; and `Inductive`, with `OneStatePerId` (whoever uses an id does so on the
state the map has for it) and `TokensBalance` (the tokens out are those somebody will
return). Of the scheduler, besides its `Inductive`:

- `HeldAlone` two goroutines never both work under a claim of one schedule, unless one of
  them has overrun the bounds the claim's age is the sum of.
- `HeldOccurrence` a ticked run that holds its claim has it in the row still, and of a row
  that was due when it was claimed.
- `DueNeverRegresses` no write makes a schedule due earlier than its row already says.
- `HeldOutcomesInOrder` of the runs that keep their claim, an older one never overwrites the
  outcome of a newer one.

Of the rows of the history:

- `RetriesSound` of the requests that retry a row one is between claim and mark
  (`SlotHeldAlone`); a claim in a row belongs to a request that is still at work or was cut
  short (`ClaimHasOwner`); a job that runs is listed (`LiveIsListed`).
- `DeletionsSpare` no row goes while its download runs (`DeleteSparesLive`), while a request
  is about to run it again (`DeleteSparesClaimed`) or within its window
  (`SweepSparesFresh`).

Of the hashes: `PairsExact` a saved hash is that of the file unless that changed under the
goroutine (`HashesCurrent`); two alike images are a pair once nobody is matching
(`PairsComplete`), and no others (`PairsTrue`). Its last conjunct, `PairsStrengthening`, is
what makes it inductive.

Of a transfer and of the stop: `BodyHandedOver` the bytes arrive in order and once, one
goroutine reading; `LateBytesDropped` none of those that came after the attempt was given
up; `ReadReturns` every Read ends; `StopLosesNothing` plugins hear the events in order, and
all that were handed over before the stop, and each download has one outcome, none missing
at the exit.

Of stored files:

- `FilesKept` the file of a row is not removed, nor truncated unless a write failed.
- `NothingDoubled` no content is added twice, no number given twice; and what that and the two
  others here rest on (`ReadsHold`): what a request or the migration has read, or decided in its
  transaction, still holds when it acts on it: the number of the next version, that nobody has
  added the content, that a version is not current, that nobody refers to a file, what a preview
  was made of.
- `ShownAgrees` current version, served fields and previews are one thing.
- `HistoryKept` what a resource showed before a change stays among its versions.
- `AppliesAlone` one attempt on a plan runs at a time.
- `ImportExact` no item is created twice over all attempts, and the lists for cleaning up
  are exact; after an attempt that completes, owners, relations and bytes are in place, those
  an earlier attempt left open included. Its parts `RecordsFit` and `FilesFit` are what these
  rest on, in every state between: what an attempt has mapped names rows, what it has still to
  do is undone, and a row that lacks its bytes is awaited by an attempt that will write them.

Of plugins: `VMsSound` one goroutine in a VM, none in a closed one, each closed once and
none left open, a revoked VM has no registration, and a disable that answers "not enabled"
is right; `JobsSettle` jobs are drained before their VM closes and end as what
their handler said; `PublishedServes` only the published VM is entered, and a teardown takes
its own registrations only.

Of accounts and logins:

- `CredentialsSound` a session is of an enabled account and of the password it has now,
  whatever was reset, disabled or deleted while a login compared the old one; nobody deleted
  has a token.
- `AdminsSound` once a process is up there is an enabled administrator (`AdminRemains`), and
  of those made at a start there is one (`OneRootMade`).
- `ScopesHold` the group of a confined account exists, however groups are deleted and merged
  between an update's observation and its commit.
- `RootCached` when no refresh is outstanding, the cached administrator is the oldest.
- `AttemptsCounted` never more than the limit count against a key (`LimitHeld`), nothing is
  left of a login that was never judged or is forgotten (`NothingLeft`), and the map keeps
  its cap (`MapBounded`).

A property that names several is their conjunction: each part is a definition with its own
comment, and each part has a mutant of its own that breaks it.

**Why the bounds are enough.** Jobs meet only in the semaphore, the registry and eviction;
everything else is per job, so one job with two requests and two attempts has all the
interleavings of two controls with a stale and a live attempt, and QueueContention has the
meetings. Concurrency 2 in QueueControls lets both goroutines of a job run at once; 1 in the
others makes them wait for each other. A third attempt adds a second stale goroutine, which
meets the live one as the first does; the theorems of section 4 have no such bound. MaxRun
bounds Resumes and Retries together. In LockSafety three goroutines share a state of the id
while a fourth waits for a token, and two allocations let a new state be made while an old
pointer could still be held. In Schedules a claim's age is one unit and the clock
reaches three, so a claim can be made, expire and be taken over, and the next one end in
time; two attempts are the one that had the claim and the one that takes it over, in one
process or two. Deadlock is checked for the lock; in the queue a job is
submitted once, and the schedules run out of time, so that both may legally come to rest.

In Background two rows let a retry find its own and another download of the URL, and a clock
of two with a claim age of one lets a claim expire once; a third request would meet the
others in pairs. Two images are a pair, and two goroutines can hash both sides at once; a
restart or a cancel needs one of them at work to cut it short. In TransferEdges three bytes
in a pad of two make a read that leaves bytes behind, one that is full and one that ends; a
buffer of one event is full as soon as two downloads end. In Storage two contents and three
resources let a file be shared, lose one row and keep the other; a request that meets two
others does so through files and rows both have left. The plan has one item of each kind, a
chain of two groups and a second resource of the same hash, so that every phase has
something that depends on the phase before it. In PluginLives the second VM is what the
first must not be confused with; with a job, two administrators act or the manager closes,
not both (`MCPluginVM`), and callers and jobs are not in one instance. In Accounts each race
is of a read and one transaction in between, which two clients or a client and a start have;
the third id is the account that a start or a client creates. Two clients of one process act
on the two old accounts, with one new password and at most two sessions; with two starts one
client at a time is at work, and no sessions are kept (`MCAccounts`). Three logins are one
more than the limit, and two names and two addresses one more key than the map has room for.
These bounds are in the cfg files and the MC modules.

**Fairness.** Weak fairness of every goroutine and of a request that has begun: Go schedules
what can run. Nothing obliges a request to be made. Strong fairness of `AcquireSlot`,
`TakeToken` and `Enter`: blocked senders of a Go channel are served in order. Strong
fairness of `EndTransfer`: the HTTP client has an overall timeout, which progress does not
extend; a runFn is assumed to return, since the code puts no bound on one. In the lock, that
a holder releases and a function returns is assumed of the callers.

In the reader: weak fairness of `ReadStep` (the goroutine that reads is scheduled), of
`WatchTimeout` (the watcher has a ticker) and of `Tick` (time passes). Nothing is assumed of
the remote.

Each property has a mutant, an operator beside the definition it replaces, marked as such:
with it in place the property fails. They record what each property protects.

## 4. What is proved

For all Jobs, Generic, Clients, Concurrency, MaxQueueSize, MaxRun and StoreFails that
satisfy `QueueAssumption`:

- `InductiveAlways` (Inductive), `Types`, `LiveJobsStayRegistered` (ActiveRegistered), `StampsAreTerminal`
  (StampedIffOver), `CancelsAreHonoured` (CancelHonoured), `OneTransferPerJob`
  (OneLiveTransfer), `LiveJobsAlwaysKept` (LiveJobsKept), `OutcomesAlwaysTold` (OutcomesTold),
  `HistoryIsMonotone` (HistoryNeverRegresses) in `DownloadQueueProofs`;
- `QueueImplementsControl` (ImplementsJobControl), in the same module.

The state properties are not inductive. `Strengthening` adds `RequestHolds` (what
a request past its lookup holds was submitted), `OutcomeDecided` (a worker about to finish
has decided, and on a cancellation only under an ended context), `StartedOnce` (a run is
started by one goroutine, and is not pending afterwards) and `ContextsEnd` (the context of a
paused or left attempt has ended; that of a live one ends only with an accepted cancel).
The last is the heart: it is why a worker that sees its context ended and still owns the run
may stamp a cancellation, and why only one transfer is live. Each action has a lemma, with a
step per conjunct it can disturb.

`Telling` is what the outside is told. `SpawnsOnce` names the request that has still to start
a goroutine, so that `Manned` can say who will end a live job: a worker that is on its way or
transfers for the current run, or such a request. `PanelKept` says who has still to correct a
row of the panel that is not right; when the events are out nobody has, and it is right.
`RecordersTruthful` is what a recorder holds, `RowsCover` who still carries the newest outcome
to the history, and `EventsOnce` that an attempt has one recorder, from its end until its event
is out, and afterwards none. The last needs that each end of an attempt, whether by its worker
or by a Cancel, is of the run it names.

For all Procs (finite), Ids, States, Kinds and MaxParallel that satisfy `LockAssumption` and
`NoneAssumption`: `AlwaysInductive`, `Types`, `HoldersExclude`, `StatesStayUnique`, `FunctionsRunUnderLock`,
`TokensReturn` and `LimitHolds` in `IdLockProofs`. The inductive invariant counts: `refs` of
a state is the number of goroutines that point at it (`RefsCounted`), so the one that deletes
the map's entry is the last; each pointer is the map's (`Pointers`); each element in a
channel has one owner (`Channels`). Exclusion follows from the last two.

For all Hosts, Schedules, Operators, Attempts, Policies, times and bounds that satisfy
`ScheduleAssumption` and `NobodyAssumption`, stalls and failed writes included:
`ScheduleInductive`, `ScheduleTypes`, `ScheduleHeldAlone`, `ScheduleHeldOccurrence`, `ScheduleDueNeverRegresses`
and `ScheduleHeldOutcomesInOrder` in `PluginScheduleProofs`. Exclusion is an argument about
time, and `ClaimsLast` is its invariant: an attempt in time has its token in the row, and the
end of its phase is at most the sum of the bounds so far (`Budget`) after the claim. A claim
is taken over only when it is older than `TTL`, the sum of all of them, so never from an
attempt in time. `DueWhenClaimed` and `OutcomesPast` carry the other three. The proof divides
the invariant by attempt (`Local`): a step keeps its own attempt's part, and `Spares` every
other's, which is shown once for each kind of write to a row.

`Inductive` of the three modules is one of the properties of their runs, so that no proof
starts from an invariant TLC has not seen; what strengthens the properties of the modules
below is a part of the property it serves.

For all archives, decisions, Handlers and Attempts, with every failure, cancel and crash of
the module: `ImportsApplyAlone` (AppliesAlone) in `StorageProofs`. Its invariant
`OneApply` says who has the plan: nobody while it is ready, otherwise one handler that has
consumed it or one attempt that runs, never both. Each step of an attempt is shown to be
`Worked` (no other attempt changes, and the plan becomes ready only as this one ends), and
that is enough.

Under `SameDecisions`, `WholeWrites` and `FilesUnshared`, hypotheses of the theorem:
`ImportsAreExact` (ImportExact), in the same module. Its invariant is `OneApply`, the fields of
the records (`Formed`), RecordsFit, FilesFit and the properties themselves. Three arguments
carry it.
*Records* (`RecordsNext`). Only the last job submitted runs, and all jobs have the decisions
of the first (`Decided`), so whether a replay is harmless has one answer for the plan
(`RetrySafe`). If it is not, rows that an attempt created mean that no attempt follows it
(`CreatedOnce`). If it is, a retry finds each of them: that is `Absent`, an item that no
lookup finds has no row, by which nothing is created twice. A row that is found is listed as skipped only if the
attempt did not create it (`SkipsNoneOfItsOwn`); the lists a clean-up goes by then stay exact
(`TakesOnlyOwn`).
*Phases* (`PhaseFits`). What is left in a phase is unmapped, and below owners that are
mapped; links are either done or still to do. When a phase ends, the next one finds this of
its own work (`NextPhaseFits`), and when the last one ends the graph is complete.
*Files* (`FilesNext`). From the end of the blobs on, each carried blob is on disk, since a
file that was there has the bytes of its name (`ThereIsWhole`; this is where `WholeWrites` and
`FilesUnshared` are needed). A row whose file has not its bytes is one from before whose hash
a replace has written; the copy follows the commit, and may fail. Such a row is `Unwritten`:
the attempt at work, or the next one, still comes to its resource, because that is owned by
a group the walk comes to (`Walked`, least fixed point; `ReachedIsWalked`, `WalkIsDone`), and
its decision is the same. So when an attempt completes none is left.

For all Contents, Resources, Legacy, Clients and bounds that satisfy `StoreAssumption`, with
failed writes and crashes, and under `KeptApart`: `FilesAreKept` (FilesKept), `NothingIsDoubled`
(NothingDoubled, ReadsHold with it), `ShownAlwaysAgrees` (ShownAgrees) and the action
property `HistoryIsKept` (HistoryKept) in `StorageProofs`. `KeptApart` is a hypothesis of each of
them and not an assumption of the module: its three clauses are what section 6 shows to be
needed. The invariant is ReadsHold with the tables (`Tables`). Each property is about rows, and
no row is written from what the same step has read alone: `Fits` therefore says of each request
what it carries from one step to the next, and the proof is about who can spoil it. `Numbered`
is below its number because the version lock is held (`RequestsApart`); `Unmatched` holds because
two adds of one content are not past the check together, and because a change makes its
resource one that no longer shows its first content (`First`); a hash in `removes` stays
unreferenced because no store runs beside it, and because what deletions and merges write
refers to nothing that was not referred to (`DestroyStep`). A resource with no current version
has at most the version 1 of what it shows (`TablesFit`), which is what the migration finds,
and why its second pass finds nothing to repair (`NothingOutOfSync`). Each kind of write to the
tables is shown once (`TablesAdd`, `TablesFirst`, `TablesVersion`, `TablesLess`, `TablesMerge`,
`TablesAdopt`); `TablesMerge` numbers the loser's versions by their rank, which has no ties
(`Ranked`).

For all accounts, names, groups, clients, updates and databases that satisfy
`AccountsAssumption`, with both starts: `CredentialsAlwaysSound` (CredentialsSound),
`ScopesAlwaysHold` (ScopesHold), `AdminAlwaysRemains` (AdminRemains), `AdminsAlwaysSound`
(AdminsSound), `StartsAlwaysSound` (the invariant of the next paragraph) and
`RootAlwaysCached` (RootCached) in `AccountsProofs`. The invariant `Sound` adds what a goroutine holds between its read and its
transaction (`RequestsHold`: only its kind, since every transaction looks again) and
`SettledHaveAdmin`: a start that is on its way to `up` has found or made an administrator.
The writes to the rows are shown once (`RowWritten`, `Inserted`, `Reclaimed`,
`NewCredentials`, `RowsStayKeeps`), and each action is one of them with a move of its
goroutine (`Moves`).

That two starts make one root, and that the cache ends with the oldest administrator, need
more. `RootMadeRemains` is why the count made before the lock may be stale: while an account
made at a start is there, some administrator is, whatever was deleted or demoted, so the
second start finds one. `MutexHeld` and `CacheFollows` are the refresh: only the holder of
`resolveMu` stores, and when nobody has still to read, what the holder has read, or the cache
if there is none, is the oldest administrator *now*: each commit that could change it leaves
its own refresh outstanding.

For all keys, attempts, limits and windows that satisfy `LimiterAssumption`:
`AttemptsAlwaysCounted` (AttemptsCounted), in the same module. `RecordsHold` ties each record
to the login it is of, in both directions; the bounds are then about the cardinality of a
set of records, all of different logins.

For all VMs, Admins, Callers, Jobs and budgets that satisfy `PluginAssumption`:
`VMsAlwaysSound` (VMsSound), `JobsAlwaysSettle` (JobsSettle) and the action property
`PublishedAlwaysServes` (PublishedServes) in `PluginVMProofs`. `LoadsAlone` is that one claim
of the name is out at a time, and that nothing is published under it; `HoldersKnown` that who
thinks it has a VM's mutex is the one the mutex knows; `OneTeardown` that a VM is in `locks`,
from its load on, until one teardown has taken it, which is the only one to close it;
`DisablesSeeAll` what a disable has seen of the VMs it found, at each of its two looks. For
the jobs, `GroupsNamed` and `GroupsTaken` say which WaitGroup a job inside a revoked VM
counts on: not the manager's, and not one its own teardown still waits for.

For every body, sizes of reads and timeouts that satisfy `ReaderAssumption`:
`BodyAlwaysHandedOver` (BodyHandedOver) and the action property `LateBytesAlwaysDropped`
(LateBytesDropped) in `TransferEdgesProofs`. `BytesOwned` is the argument: a byte off the wire
is with exactly one of the reading goroutine, the channel, what is ready, and the caller, and
lies where that owner will look for it (`Landed`); a byte is lost only by a reader that has
been given up, which is for good. `CallsInOrder` is what each place of a Read may find.

For all downloads and sizes of the event channel that satisfy `ShutdownAssumption` and
`NoDownloadAssumption`: `StopsAlwaysLoseNothing` (StopLosesNothing), in the same module.
`ReportersSettle` is why each download ends once: who reports an outcome brought the job to
it, and finds it so until the event is handed over. `DownloadsManned` and `PausedFound` are
why none is missing at the exit: a live job has a worker, an ended one is recorded or with
who records it, and a paused one, which has nobody, is found by Shutdown, since no request is
left to pause another. `DispatcherInStep` orders what is heard.

For all Jobs, Calls, ages of claims and rows, and bounds that satisfy `HistoryAssumption` and
`NamesAssumption`, with crashes and failed marks: `RetriesAlwaysSound` (RetriesSound) and the
action properties of `DeletionsAlwaysSpare` (DeletionsSpare) in `BackgroundProofs`. Three facts
carry the claim of a row. `Claimed`: a claim found in a row or in a loaded copy was made no
later than the time stored beside it, and is of that row. `PassesStale`: a request goes past
a claim it found only once the age of that claim has run out, so its owner is late or gone
(`Named` says that a claim as old as its age has been noticed by its owner). `SlotsHeld`: who
is between claim and mark has its claim in the row, unless it is late or a mark in place,
which compares nothing, has replaced it. Two owners of one row would both have their claim in
it. A deletion spares what `SlotsHeld` and `Claimed` say it must, since its statement compares
the time of the mark with its own; it spares what runs because a job about to lose its row
has left the registry, for good. Most steps claim nothing (`GoesOn`) and are shown together
to keep all of this; those of a claim's owner are in `OwnerKeeps`.

For all Images, Pictures, Hashers and bounds, every relation `Alike` whose pairs share a chunk
(`HashAssumption`, `ImageNamesAssumption`), with crashes, cancelled recomputes and refused
inserts: `PairsAlwaysExact` (PairsExact), in the same module. That two alike images are a pair
once nobody is matching says nothing of the steps before, so `PairsPromised` says of every
state how a pair that is missing will come to be (`Covered`): a goroutine has saved the hash
of one image and has yet to look for the other, or has found it and has yet to insert
(`Promised`); a recompute has begun, has the row still to match, or has found it; or it is
excused. `SaveHashKeeps` is the step that matters: the later of two goroutines makes the pair
owed, and is itself the promise; `CandidatesFind` is why the look at the table keeps it. An
excuse lasts until a recompute that began after it ends whole (`Excused`). `RowsRead` and
`HasherFits` carry the other half: whatever a row, the cache or a goroutine holds of an image
was once its file, and still is if it never changed, so that what is found alike is alike.

**Only model-checked:** all liveness (temporal reasoning with fairness and ENABLED is outside
what the prover does). Every invariant and every action property of the passing runs is stated
by a theorem, or is a conjunct of one that is.

## 5. Not modelled, and the plan

What would come next, in this order:

1. `PluginSchedule` further: the identity of a run (a listed row's owner may have been
   deleted since), progress after a crash, and an abstract claim that it implements.
2. `SearchCache`: a result computed before a write and stored after its invalidation.
3. `Positions`: strings between two strings, over bounded inputs.
4. Export, and parsing an archive into a plan, as sequences of records.

Hazards seen and not covered by a property: a subscriber whose channel is full loses events,
a final one included (`download_queue/manager.go:921`); a search result is stored after the
invalidation that should have caught it (`search/search.go:198`); position strings run out of
room between two neighbours (`ordering/position.go:65`); two rows of one URL retried at once
transfer it twice.

Left out for good: the query language, shortcodes, mentions, full-text parsing, archives as
files, templates, the command-line client and the frontend outside the jobs panel (text and
rendering without shared state); models and storage adapters; authorisation (decided within
one request); groups, notes, relations, tags and series (one transaction each).
`PROJECT.json` says so part by part.

The modules stand for a part of the implementation that is small by its lines: most of them
are handlers of one transaction, translators of text, schema and routing, in which no two
steps can be put in another order.

## 6. Findings

**ImportBlobs.** `groupio/apply_import.go:271-286` takes a blob whose file is on disk for the
whole blob, and creates the file under its final name before it copies into it. A copy that
fails, or a process that dies in it, leaves a truncated file, and the retry of the plan,
which `import_api_handlers.go:365-366` calls "safe to replay", completes over it: resources
whose bytes are not those of their hash. The comment at `apply_import.go:176-177` says such a
failure is "clean".

What else the models showed, without a run that expects it:

*Download queue.* A cancel accepted after a transfer failed and before its terminal write
ends as `failed`, though `job.go:265-267` calls it guaranteed; `CancelHonoured` and
`CancelTakesEffect` say what does hold. `processGenericJob` emits no job event, though
`job_events.go:38-42` says every kind does. A goroutine first scheduled after a Pause and a
Resume reads the *new* run, and then two goroutines own it: on a Cancel the queued one can
record "Cancelled before starting" about a job that is downloading. One URL can be
transferred by two rows that are retried at once (`download_history_handlers.go:207-211`);
handlers that overrun the server's stop can leave a download unrecorded.

*Readers.* The watcher can set its message when no Read waits, so that the next one fails
for a silence nobody was kept waiting by (`progress.go:138-146`).

*Lock.* The global token is taken before the wait for an id, so waiters of a busy id use up
the limit that `idlock/README.md` describes as one on holders.

*Scheduler.* A ticked run under `allow` writes its outcome under a manual run's claim, though
`plugin_scheduler.go:335-336` says nothing else can; `HeldOutcomesInOrder` says what holds.

*Resources.* Without `KeptApart`: a deletion can remove the file an overlapping upload has
just found there; a thumbnail made of the old content is stored after a change cleared the
previews; a merge renumbers versions without the version's lock; the migration of versions
can meet an upload; a merge into a resource that never had a version loses its own content.
A partial file of a failed write is adopted by the next upload of the content
(`resource_upload_context.go:885-888`).

*Import.* RetrySafe judges the policy of the attempt that failed, and the panel's retry of
the job passes it by. A replaced resource gets its new bytes at the path of its old hash, for
every other row of that path as well. Dangling references are restored for skipped groups
too; ids of replaced rows are listed with the created ones.

*Plugins.* `LockVMWithContext` says a disable removes the entry while holding the VM's mutex;
`revokeLocked` removes it under the manager's. A teardown can take the next load's
WaitGroup, which it then waits for in place of its own (`manager.go:2113-2116`).

*Hashes.* A goroutine that has read the old file can save its hash after the clean-up of a
change. A batch insert that is refused, or a recompute that is cancelled, loses its pairs
until the next whole recompute. A change of a file leaves the pairs found with the old one.
