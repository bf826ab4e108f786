------------------------------ MODULE PluginVM ------------------------------
(* The life of one plugin name in src/plugin_system: the Lua VMs that are    *)
(* loaded under it one after another, who may run Lua in them, and the       *)
(* asynchronous jobs that outlive the request that started them.  One step   *)
(* is one critical section of pm.mu, of actionJobsMu, of a job or of the     *)
(* enabling map, or the acquisition of a VM's lock.                          *)
EXTENDS Naturals, FiniteSets

CONSTANTS
  VMs,       \* the Lua states, each loaded by one enable
  Admins,    \* goroutines that enable and disable the plugin
  Callers,   \* goroutines with a synchronous call: a hook, a page, an action
  Jobs,      \* asynchronous jobs
  Budget,    \* maxConcurrentActions
  NoVM,      \* no VM
  Nobody     \* no goroutine

ASSUME PluginAssumption ==
  /\ NoVM \notin VMs
  /\ Nobody \notin Admins \cup Callers \cup Jobs /\ "closer" \notin Admins
  /\ Admins \cap Callers = {} /\ Admins \cap Jobs = {} /\ Callers \cap Jobs = {}
  /\ Budget \in Nat \ {0}

VARIABLES
  manager,    \* the PluginManager's fields for this name
  lua,        \* [VMs -> [holder: of its lock, closes: calls of Close]]
  admin,      \* [Admins -> an EnablePlugin or a DisablePlugin]
  call,       \* [Callers -> a synchronous call]
  work,       \* [Jobs -> a job and its goroutine]
  teardowns,  \* the finishTeardown and closeState calls that have not ended
  closer      \* what Close is at

pluginVars == <<manager, lua, admin, call, work, teardowns, closer>>

Finished == {"completed", "failed"}

Idle == [at |-> "idle", vm |-> NoVM, waited |-> FALSE, before |-> {}]
NoCall == [at |-> "idle", vm |-> NoVM]
NoJob == [at |-> "none", vm |-> NoVM, by |-> Nobody, group |-> Nobody, status |-> "pending",
          listed |-> FALSE, said |-> "nothing", result |-> "none"]

PluginInit ==
  /\ manager = [closed |-> FALSE, enabling |-> NoVM, loading |-> NoVM, published |-> NoVM,
                fresh |-> VMs, locks |-> {}, actions |-> {}, group |-> Nobody]
  /\ lua = [v \in VMs |-> [holder |-> Nobody, closes |-> 0]]
  /\ admin = [a \in Admins |-> Idle]
  /\ call = [c \in Callers |-> NoCall]
  /\ work = [j \in Jobs |-> NoJob]
  /\ teardowns = {}
  /\ closer = "running"

\* The goroutines that are executing Lua in v, whatever they came for.
Inside(v) ==
  {a \in Admins : admin[a].at = "init" /\ admin[a].vm = v}
    \cup {c \in Callers : call[c].at = "lua" /\ call[c].vm = v}
    \cup {j \in Jobs : work[j].at = "lua" /\ work[j].vm = v}

Take(v, g) == lua[v].holder = Nobody /\ lua' = [lua EXCEPT ![v].holder = g]
Free(v) == lua' = [lua EXCEPT ![v].holder = Nobody]

\* Mutants, not the code: a VM registers whenever it runs, and what is filed under the
\* name is removed.
MayRegisterAnyway(v) == TRUE
UnregisterByName(v, m) == [m EXCEPT !.actions = {}]

\* stateIsLive, stillRegistered
Live(v) == v \in manager.locks

\* stateMayRegisterLocked
MayRegister(v) == Live(v) /\ ~manager.closed

\* revokeLocked: the entry is the right to close the VM
Revoke(v, m) == [m EXCEPT !.locks = @ \ {v}]

\* unregisterPluginLocked matches the VM, never the name alone
Unregister(v, m) == [m EXCEPT !.actions = @ \ {v}]

\* The teardown that follows a revocation: none, when the entry was gone already.
Teardown(v, by, at) ==
  IF Live(v) THEN {[vm |-> v, by |-> by, at |-> at, group |-> Nobody]} ELSE {}

-----------------------------------------------------------------------------
(* EnablePlugin and loadPlugin                                               *)

Claim(a) ==
  /\ admin[a].at = "idle" /\ ~manager.closed /\ manager.enabling = NoVM
  /\ \E v \in manager.fresh :
       /\ manager' = [manager EXCEPT !.enabling = v, !.fresh = @ \ {v}]
       /\ admin' = [admin EXCEPT ![a] = [Idle EXCEPT !.at = "claimed", !.vm = v]]
  /\ UNCHANGED <<lua, call, work, teardowns, closer>>

\* Enabled already, a dependency that is missing, or a header that does not fit.
Refuse(a) ==
  /\ admin[a].at = "claimed"
  /\ manager' = [manager EXCEPT !.enabling = NoVM]
  /\ admin' = [admin EXCEPT ![a] = Idle]
  /\ UNCHANGED <<lua, call, work, teardowns, closer>>

SeeAbsent(a) ==
  /\ admin[a].at = "claimed" /\ manager.published = NoVM
  /\ admin' = [admin EXCEPT ![a].at = "absent"]
  /\ UNCHANGED <<manager, lua, call, work, teardowns, closer>>

\* The entry of vmLocks appears under pm.mu; nobody else knows the VM's lock yet.
BeginLoad(a) ==
  LET v == admin[a].vm IN
  /\ admin[a].at = "absent"
  /\ \/ /\ manager.closed
        /\ admin' = [admin EXCEPT ![a].at = "unclaim"]
        /\ UNCHANGED <<manager, lua>>
     \/ /\ ~manager.closed
        /\ manager' = [manager EXCEPT !.locks = @ \cup {v}, !.loading = v]
        /\ lua' = [lua EXCEPT ![v].holder = a]
        /\ admin' = [admin EXCEPT ![a].at = "init"]
  /\ UNCHANGED <<call, work, teardowns, closer>>

\* Mutant of Publish, not the code: the manager may have closed meanwhile.
PublishAnyway(a) ==
  /\ admin[a].at = "init"
  /\ manager' = [manager EXCEPT !.published = admin[a].vm]
  /\ admin' = [admin EXCEPT ![a].at = "published"]
  /\ UNCHANGED <<lua, call, work, teardowns, closer>>

Publish(a) ==
  /\ admin[a].at = "init"
  /\ IF manager.closed
       THEN admin' = [admin EXCEPT ![a].at = "abandon"] /\ UNCHANGED manager
       ELSE /\ manager' = [manager EXCEPT !.published = admin[a].vm]
            /\ admin' = [admin EXCEPT ![a].at = "published"]
  /\ UNCHANGED <<lua, call, work, teardowns, closer>>

\* The file, the consent or init() fails.
LoadFails(a) ==
  /\ admin[a].at = "init"
  /\ admin' = [admin EXCEPT ![a].at = "abandon"]
  /\ UNCHANGED <<manager, lua, call, work, teardowns, closer>>

\* abandon revokes and unregisters while it holds the VM's lock, and then releases it.
Abandon(a) ==
  LET v == admin[a].vm IN
  \/ /\ admin[a].at = "abandon"
     /\ manager' = Unregister(v, Revoke(v, manager))
     /\ teardowns' = teardowns \cup Teardown(v, a, "held")
     /\ admin' = [admin EXCEPT ![a].at = "abandoned"]
     /\ UNCHANGED <<lua, call, work, closer>>
  \/ /\ admin[a].at = "abandoned"
     /\ Free(v)
     /\ teardowns' = {IF t.by = a THEN [t EXCEPT !.at = "group"] ELSE t : t \in teardowns}
     /\ admin' = [admin EXCEPT ![a].at = "ending"]
     /\ UNCHANGED <<manager, call, work, closer>>

\* Published: whoever queued behind the lock may now run.
OpenToOthers(a) ==
  /\ admin[a].at = "published"
  /\ Free(admin[a].vm)
  /\ admin' = [admin EXCEPT ![a].at = "ending"]
  /\ UNCHANGED <<manager, call, work, teardowns, closer>>

\* The deferred end of loadPlugin, and then that of EnablePlugin.
EndLoad(a) ==
  \/ /\ admin[a].at = "ending"
     /\ ~\E t \in teardowns : t.by = a
     /\ manager' = [manager EXCEPT !.loading = NoVM]
     /\ admin' = [admin EXCEPT ![a].at = "unclaim"]
     /\ UNCHANGED <<lua, call, work, teardowns, closer>>
  \/ /\ admin[a].at = "unclaim"
     /\ manager' = [manager EXCEPT !.enabling = NoVM]
     /\ admin' = [admin EXCEPT ![a] = Idle]
     /\ UNCHANGED <<lua, call, work, teardowns, closer>>

-----------------------------------------------------------------------------
(* DisablePlugin                                                             *)

\* "before" is what was claimed or published when the call began.
Disable(a) ==
  /\ admin[a].at = "idle"
  /\ admin' = [admin EXCEPT ![a] = [Idle EXCEPT !.at = "await",
                 !.before = {manager.enabling, manager.published} \ {NoVM}]]
  /\ UNCHANGED <<manager, lua, call, work, teardowns, closer>>

\* awaitEnableVisible: a poll of the enabling map, one of pm.loading, and a deadline.
AwaitVisible(a) ==
  /\ \/ admin[a].at = "await" /\ manager.enabling = NoVM
        /\ admin' = [admin EXCEPT ![a].at = "look"]
     \/ admin[a].at = "await" /\ manager.enabling # NoVM
        /\ admin' = [admin EXCEPT ![a].at = "await2"]
     \/ admin[a].at = "await2"
        /\ \/ manager.loading # NoVM /\ admin' = [admin EXCEPT ![a].at = "look"]
           \/ manager.loading = NoVM /\ admin' = [admin EXCEPT ![a].at = "await"]
           \/ manager.loading = NoVM /\ admin' = [admin EXCEPT ![a] = Idle]
  /\ UNCHANGED <<manager, lua, call, work, teardowns, closer>>

\* Mutant of Look, not the code: a load in flight reads as not enabled.
LookOnce(a) ==
  /\ admin[a].at = "look"
  /\ IF manager.published = NoVM \/ manager.closed
       THEN /\ admin' = [admin EXCEPT ![a] = IF manager.closed THEN Idle ELSE [@ EXCEPT !.at = "answered"]]
            /\ UNCHANGED <<manager, teardowns>>
       ELSE LET v == manager.published IN
            /\ manager' = [Unregister(v, Revoke(v, manager)) EXCEPT !.published = NoVM]
            /\ teardowns' = teardowns \cup Teardown(v, a, "group")
            /\ admin' = [admin EXCEPT ![a].at = "teardown"]
  /\ UNCHANGED <<lua, call, work, closer>>

\* Mutant of Look, not the code: the VM is looked up in one section and revoked in another.
LookThenRevoke(a) ==
  \/ /\ admin[a].at = "look" /\ ~manager.closed /\ manager.published # NoVM
     /\ admin' = [admin EXCEPT ![a].at = "revoke", ![a].vm = manager.published]
     /\ UNCHANGED <<manager, lua, call, work, teardowns, closer>>
  \/ /\ admin[a].at = "revoke"
     /\ manager' = [Unregister(admin[a].vm, Revoke(admin[a].vm, manager)) EXCEPT !.published = NoVM]
     /\ teardowns' = teardowns \cup {[vm |-> admin[a].vm, by |-> a, at |-> "group", group |-> Nobody]}
     /\ admin' = [admin EXCEPT ![a].at = "teardown"]
     /\ UNCHANGED <<lua, call, work, closer>>

\* disablePlugin revokes in the section that unregisters; a load in flight is waited for once.
Look(a) ==
  /\ admin[a].at = "look"
  /\ \/ /\ manager.closed
        /\ admin' = [admin EXCEPT ![a] = Idle]
        /\ UNCHANGED <<manager, teardowns>>
     \/ /\ ~manager.closed /\ manager.published = NoVM
        /\ admin' = [admin EXCEPT
             ![a].at = IF manager.loading # NoVM /\ ~admin[a].waited THEN "wait" ELSE "answered",
             ![a].vm = manager.loading]
        /\ UNCHANGED <<manager, teardowns>>
     \/ /\ ~manager.closed /\ manager.published # NoVM
        /\ LET v == manager.published IN
           /\ manager' = [Unregister(v, Revoke(v, manager)) EXCEPT !.published = NoVM]
           /\ teardowns' = teardowns \cup Teardown(v, a, "group")
        /\ admin' = [admin EXCEPT ![a].at = "teardown"]
  /\ UNCHANGED <<lua, call, work, closer>>

\* The load ended, or retireDrainTimeout did.
WaitForLoad(a) ==
  /\ admin[a].at = "wait"
  /\ \/ /\ manager.loading # admin[a].vm
        /\ admin' = [admin EXCEPT ![a].at = "look", ![a].waited = TRUE]
     \/ /\ manager.loading = admin[a].vm
        /\ admin' = [admin EXCEPT ![a] = Idle]
  /\ UNCHANGED <<manager, lua, call, work, teardowns, closer>>

\* The call returns, having disabled the plugin or found nothing to disable.
Return(a) ==
  /\ \/ /\ admin[a].at = "teardown" /\ ~\E t \in teardowns : t.by = a
        /\ admin' = [admin EXCEPT ![a].at = "answered"]
     \/ /\ admin[a].at = "answered"
        /\ admin' = [admin EXCEPT ![a] = Idle]
  /\ UNCHANGED <<manager, lua, call, work, teardowns, closer>>

-----------------------------------------------------------------------------
(* finishTeardown, closeState and Close                                      *)

\* The jobs that a WaitGroup still counts.
Counted(g) == {j \in Jobs : g # Nobody /\ work[j].group = g}

Step(t, u) == teardowns' = (teardowns \ {t}) \cup {u}

\* The WaitGroup in use under the name is taken away, whosever jobs it counts.
TakeGroup(t) ==
  /\ t.at = "group"
  /\ Step(t, [t EXCEPT !.at = "drain", !.group = manager.group])
  /\ manager' = [manager EXCEPT !.group = Nobody]
  /\ UNCHANGED <<lua, admin, call, work, closer>>

\* Mutant of Drain, not the code: running jobs are not waited for.
DrainNothing(t) ==
  /\ t.at = "drain"
  /\ Step(t, [t EXCEPT !.at = "close"])
  /\ UNCHANGED <<manager, lua, admin, call, work, closer>>

\* Past retireDrainTimeout a goroutine of its own goes on waiting.
Drain(t) ==
  /\ t.at = "drain"
  /\ \/ Counted(t.group) = {} /\ Step(t, [t EXCEPT !.at = "close"])
     \/ Counted(t.group) # {} /\ t.by # Nobody /\ Step(t, [t EXCEPT !.by = Nobody])
  /\ UNCHANGED <<manager, lua, admin, call, work, closer>>

\* Mutant of CloseVM, not the code: whoever is inside is not waited for.
CloseVMUnlocked(t) ==
  /\ t.at = "close"
  /\ lua' = [lua EXCEPT ![t.vm].closes = @ + 1]
  /\ Step(t, [t EXCEPT !.at = "sweep"])
  /\ UNCHANGED <<manager, admin, call, work, closer>>

\* closeUnderLock
CloseVM(t) ==
  /\ t.at = "close" /\ lua[t.vm].holder = Nobody
  /\ lua' = [lua EXCEPT ![t.vm].closes = @ + 1]
  /\ Step(t, [t EXCEPT !.at = "sweep"])
  /\ UNCHANGED <<manager, admin, call, work, closer>>

Sweep(t) ==
  /\ t.at = "sweep"
  /\ manager' = Unregister(t.vm, manager)
  /\ teardowns' = teardowns \ {t}
  /\ UNCHANGED <<lua, admin, call, work, closer>>

\* After "closed" is set nothing is published or disabled: what the snapshot holds is what
\* is published.  closeState revokes and closes; the maps are emptied at the end.
Close ==
  \/ /\ closer = "running"
     /\ manager' = [manager EXCEPT !.closed = TRUE]
     /\ closer' = "loads"
     /\ UNCHANGED <<lua, admin, call, work, teardowns>>
  \/ /\ closer = "loads"    \* the loads ended, or retireDrainTimeout did
     /\ closer' = IF manager.published = NoVM THEN "clear" ELSE "revoke"
     /\ UNCHANGED <<manager, lua, admin, call, work, teardowns>>
  \/ /\ closer = "revoke"
     /\ manager' = Revoke(manager.published, manager)
     /\ teardowns' = teardowns \cup Teardown(manager.published, "closer", "close")
     /\ closer' = "closing"
     /\ UNCHANGED <<lua, admin, call, work>>
  \/ /\ closer = "closing" /\ ~\E t \in teardowns : t.by = "closer"
     /\ closer' = "clear"
     /\ UNCHANGED <<manager, lua, admin, call, work, teardowns>>
  \/ /\ closer = "clear"
     /\ manager' = [manager EXCEPT !.published = NoVM, !.actions = {}]
     /\ closer' = "closed"
     /\ UNCHANGED <<lua, admin, call, work, teardowns>>

-----------------------------------------------------------------------------
(* LockVM, and what a plugin does while it runs                              *)

\* A hook, a page or an action is found in the registrations.
FindRegistration(c) ==
  /\ call[c].at = "idle" /\ ~manager.closed
  /\ \E v \in manager.actions : call' = [call EXCEPT ![c] = [at |-> "queued", vm |-> v]]
  /\ UNCHANGED <<manager, lua, admin, work, teardowns, closer>>

\* Mutant of the check behind the lock, not the code.
StillRegisteredUnasked(v) == TRUE

\* The check LockVM repeats once it holds the lock.
StillRegistered(v) == Live(v)

\* LockVMWithContext: the map, the lock, and the map again; the request may end first.
Enter(c) ==
  LET v == call[c].vm IN
  /\ \/ /\ call[c].at = "queued"
        /\ \/ Take(v, c) /\ call' = [call EXCEPT ![c].at = "locked"]
           \/ /\ ~Live(v) \/ lua[v].holder # Nobody
              /\ call' = [call EXCEPT ![c] = NoCall] /\ UNCHANGED lua
     \/ /\ call[c].at = "locked"
        /\ IF StillRegistered(v)
             THEN call' = [call EXCEPT ![c].at = "lua"] /\ UNCHANGED lua
             ELSE call' = [call EXCEPT ![c] = NoCall] /\ Free(v)
  /\ UNCHANGED <<manager, admin, work, teardowns, closer>>

\* The call ends, no start_job of it being half done.
Leave(c) ==
  /\ call[c].at = "lua" /\ ~\E j \in Jobs : work[j].at = "accepted" /\ work[j].by = c
  /\ Free(call[c].vm)
  /\ call' = [call EXCEPT ![c] = NoCall]
  /\ UNCHANGED <<manager, admin, work, teardowns, closer>>

Register(v) ==
  /\ Inside(v) # {} /\ MayRegister(v)
  /\ manager' = [manager EXCEPT !.actions = @ \cup {v}]
  /\ UNCHANGED <<lua, admin, call, work, teardowns, closer>>

-----------------------------------------------------------------------------
(* Asynchronous jobs                                                         *)

\* FindAction of a request, and the check of start_job by whoever runs Lua.
StartJob(j) ==
  /\ work[j].at = "none" /\ ~manager.closed
  /\ \/ \E v \in manager.actions :
          work' = [work EXCEPT ![j] = [NoJob EXCEPT !.at = "accepted", !.vm = v]]
     \/ \E v \in VMs : \E g \in Inside(v) :
          Live(v) /\ work' = [work EXCEPT ![j] = [NoJob EXCEPT !.at = "accepted", !.vm = v, !.by = g]]
  /\ UNCHANGED <<manager, lua, admin, call, teardowns, closer>>

\* The job is listed, and counted by the WaitGroup of the name; the first job makes it.
JoinGroup(j) ==
  /\ work[j].at = "accepted"
  /\ manager' = [manager EXCEPT !.group = IF @ = Nobody THEN j ELSE @]
  /\ work' = [work EXCEPT ![j].at = "waiting", ![j].listed = TRUE, ![j].group = manager'.group]
  /\ UNCHANGED <<lua, admin, call, teardowns, closer>>

Slots == {j \in Jobs : work[j].at \notin {"none", "accepted", "waiting", "gone"}}

\* acquireJobSlot, and the status after it
TakeSlot(j) ==
  /\ work[j].at = "waiting" /\ Cardinality(Slots) < Budget
  /\ work' = [work EXCEPT ![j].at = "running", ![j].status = "running"]
  /\ UNCHANGED <<manager, lua, admin, call, teardowns, closer>>

\* Mutant of Gone, not the code: no error is recorded.
GoneUntold(w) == [w EXCEPT !.at = "returned", !.vm = NoVM, !.result = "gone"]

Gone(w) == [w EXCEPT !.at = "returned", !.vm = NoVM, !.result = "error"]

\* LockVM of the job's goroutine; a plugin that is gone is an error of the job.
EnterJob(j) ==
  LET v == work[j].vm IN
  /\ \/ /\ work[j].at = "running"
        /\ \/ Take(v, j) /\ work' = [work EXCEPT ![j].at = "locked"]
           \/ ~Live(v) /\ work' = [work EXCEPT ![j] = Gone(@)] /\ UNCHANGED lua
     \/ /\ work[j].at = "locked"
        /\ IF StillRegistered(v)
             THEN work' = [work EXCEPT ![j].at = "lua"] /\ UNCHANGED lua
             ELSE work' = [work EXCEPT ![j] = Gone(@)] /\ Free(v)
  /\ UNCHANGED <<manager, admin, call, teardowns, closer>>

\* job_complete and job_fail by the job's own handler; a job that is not listed is unknown.
Report(j) ==
  /\ work[j].at = "lua" /\ work[j].listed
  /\ \E s \in Finished : work' = [work EXCEPT ![j].status = s, ![j].said = s]
  /\ UNCHANGED <<manager, lua, admin, call, teardowns, closer>>

\* The handler returns nothing or a table, or raises an error; start_job takes no table.
HandlerEnds(j) ==
  /\ work[j].at = "lua" /\ ~\E k \in Jobs : work[k].at = "accepted" /\ work[k].by = j
  /\ Free(work[j].vm)
  /\ \E r \in {"none", "error"} \cup (IF work[j].by = Nobody THEN {"table"} ELSE {}) :
       work' = [work EXCEPT ![j].at = "returned", ![j].vm = NoVM, ![j].result = r]
  /\ UNCHANGED <<manager, admin, call, teardowns, closer>>

\* Mutants of the two questions below, not the code.
DecidedNever(w) == FALSE

\* runAsyncActionGoroutine: the handler failed the job before it returned a table.
Decided(w) == w.status = "failed"

\* alreadyDone of executeAsyncJobWithin
AlreadyDone(w) == w.status \in Finished

\* The status is settled in up to three sections of the job's lock: that of the table, the
\* question whether the job is done already, and the answer's own.
Settle(j) ==
  LET w == work[j] IN
  /\ \/ /\ w.at = "returned" /\ w.result = "table"
        /\ work' = [work EXCEPT ![j].result = "none",
                      ![j].status = IF Decided(w) THEN @ ELSE "completed"]
     \/ /\ w.at = "returned" /\ w.result # "table"
        /\ work' = [work EXCEPT ![j].at = IF AlreadyDone(w) THEN "ended" ELSE "settling"]
     \/ /\ w.at = "settling"
        /\ work' = [work EXCEPT ![j].at = "ended",
                      ![j].status = IF w.result = "error" THEN "failed" ELSE "completed"]
     \/ /\ w.at = "ended"    \* the slot is free and the WaitGroup done; what is listed is not followed
        /\ work' = [work EXCEPT ![j] = [NoJob EXCEPT !.at = "gone"]]
  /\ UNCHANGED <<manager, lua, admin, call, teardowns, closer>>

\* ClearFinishedActionJobs and cleanupOldActionJobs, of one job
ClearJob(j) ==
  /\ work[j].listed /\ work[j].status \in Finished
  /\ work' = [work EXCEPT ![j].listed = FALSE]
  /\ UNCHANGED <<manager, lua, admin, call, teardowns, closer>>

-----------------------------------------------------------------------------
Loading(a) ==
  \/ Claim(a) \/ Refuse(a) \/ SeeAbsent(a) \/ BeginLoad(a) \/ Publish(a) \/ LoadFails(a)
  \/ Abandon(a) \/ OpenToOthers(a) \/ EndLoad(a)

Disabling(a) == Disable(a) \/ AwaitVisible(a) \/ Look(a) \/ WaitForLoad(a) \/ Return(a)

Tearing == \E t \in teardowns : TakeGroup(t) \/ Drain(t) \/ CloseVM(t) \/ Sweep(t)

Calling(c) == FindRegistration(c) \/ Enter(c) \/ Leave(c)

Working(j) == TakeSlot(j) \/ EnterJob(j) \/ HandlerEnds(j) \/ Settle(j)

PluginNext ==
  \/ \E a \in Admins : Loading(a) \/ Disabling(a)
  \/ Tearing \/ Close
  \/ \E c \in Callers : Calling(c)
  \/ \E v \in VMs : Register(v)
  \/ \E j \in Jobs : StartJob(j) \/ JoinGroup(j) \/ Working(j) \/ Report(j) \/ ClearJob(j)

PluginSpec == PluginInit /\ [][PluginNext]_pluginVars

-----------------------------------------------------------------------------
Goroutines == Admins \cup Callers \cup Jobs \cup {Nobody}

ManagerType ==
  [closed: BOOLEAN, enabling: VMs \cup {NoVM}, loading: VMs \cup {NoVM},
   published: VMs \cup {NoVM}, fresh: SUBSET VMs, locks: SUBSET VMs,
   actions: SUBSET VMs, group: Jobs \cup {Nobody}]

AdminAts ==
  {"idle", "claimed", "absent", "init", "published", "abandon", "abandoned", "ending", "unclaim",
   "await", "await2", "look", "wait", "teardown", "answered"}
AdminType == [at: AdminAts, vm: VMs \cup {NoVM}, waited: BOOLEAN, before: SUBSET VMs]

CallType == [at: {"idle", "queued", "locked", "lua"}, vm: VMs \cup {NoVM}]

JobAts ==
  {"none", "accepted", "waiting", "running", "locked", "lua", "returned", "settling", "ended", "gone"}
JobType ==
  [at: JobAts, vm: VMs \cup {NoVM}, by: Goroutines, group: Jobs \cup {Nobody},
   status: {"pending", "running"} \cup Finished, listed: BOOLEAN,
   said: {"nothing"} \cup Finished, result: {"none", "table", "error"}]

TeardownType ==
  [vm: VMs, by: Admins \cup {Nobody, "closer"}, at: {"held", "group", "drain", "close", "sweep"},
   group: Jobs \cup {Nobody}]

(* Type invariant: what the fields of the manager and of its goroutines hold. *)
PluginTypeOK ==
  /\ manager \in ManagerType
  /\ lua \in [VMs -> [holder: Goroutines, closes: Nat]]
  /\ admin \in [Admins -> AdminType]
  /\ call \in [Callers -> CallType]
  /\ work \in [Jobs -> JobType]
  /\ teardowns \subseteq TeardownType
  /\ closer \in {"running", "loads", "revoke", "closing", "clear", "closed"}

(* Nobody executes Lua in a VM that was closed, and no two goroutines execute in one at  *)
(* once: a load, a hook and a job may all have the VM in hand when it is revoked.        *)
NeverInClosedVM ==
  \A v \in VMs : Cardinality(Inside(v)) <= 1 /\ (lua[v].closes > 0 => Inside(v) = {})

(* A VM is closed once, whichever of a disable, a failed load and the shutdown meet.     *)
ClosedOnce == \A v \in VMs : lua[v].closes <= 1

(* After the shutdown, once what it found running has ended, every VM that was loaded is *)
(* closed: a load that straddles it is not published behind its back.                    *)
NothingLeftOpen ==
  (closer = "closed" /\ teardowns = {} /\ \A a \in Admins : admin[a].at = "idle")
    => manager.locks = {}

(* What is registered belongs to a VM that is not revoked, until the shutdown empties    *)
(* the maps: what a revoked plugin still runs registers nothing.                         *)
RegistrationsLive == manager.closed \/ manager.actions \subseteq manager.locks

(* A disable that answers has put an end to whatever was claimed or published when it    *)
(* was called: "not enabled" is never said of a plugin about to come up.                 *)
DisabledIsOff ==
  \A a \in Admins : admin[a].at = "answered" => admin[a].before \cap manager.locks = {}

(* When a teardown goes on to wait for the VM's lock, without a bound, no job is inside  *)
(* but one whose WaitGroup the teardown of another VM of the name took away.             *)
JobsDrained ==
  \A t \in teardowns : t.at = "close" /\ t.by # "closer" =>
    \A j \in Jobs \cap Inside(t.vm) : work[j].group # t.group /\ work[j].group # manager.group

(* What the handler last said of its job is what the job ends as, whatever the handler   *)
(* returns after it and whether or not the job is still listed.                          *)
ReportStands ==
  \A j \in Jobs : work[j].at = "ended" =>
    work[j].status \in Finished /\ work[j].said \in {"nothing", work[j].status}

(* A call or a job enters the VM that is published, and no other: not one whose load     *)
(* failed or has not ended, and not one that was disabled while it waited.               *)
OnlyPublishedRuns ==
  [][\A v \in VMs : \A g \in (Inside(v))' \ Inside(v) :
       g \in Callers \cup Jobs => manager.published = v]_pluginVars

(* A registration goes only with its own VM, or at the shutdown: the teardown of one     *)
(* load leaves what the next one registered.                                             *)
RegistrationsOutlast ==
  [][\A v \in manager.actions \ manager'.actions :
       v \notin manager'.locks \/ manager.closed]_pluginVars

-----------------------------------------------------------------------------
(* What the proofs of PluginVMProofs strengthen these with.                               *)

Enabling == {"claimed", "absent", "init", "published", "abandon", "abandoned", "ending", "unclaim"}

(* The load of a VM has not begun: nothing but its claim knows of it.                     *)
Unbegun(v) ==
  v \in manager.fresh \/ \E a \in Admins : admin[a].at \in {"claimed", "absent"} /\ admin[a].vm = v

(* One goroutine enables at a time, and while it loads nothing is published.              *)
LoadsAlone ==
  /\ \A a, b \in Admins : admin[a].at \in Enabling /\ admin[b].at \in Enabling => a = b
  /\ \A a \in Admins : admin[a].at \in Enabling =>
       /\ admin[a].vm \in VMs \ manager.fresh /\ manager.enabling = admin[a].vm
       /\ manager.loading = IF admin[a].at \in {"claimed", "absent", "unclaim"} THEN NoVM
                            ELSE admin[a].vm
       /\ admin[a].at \in {"absent", "init", "abandon"} => manager.published = NoVM
  /\ manager.loading # NoVM => manager.enabling = manager.loading
  /\ {manager.enabling, manager.published} \cap manager.fresh = {}

(* Whoever has a VM's lock is the one the lock knows.                                     *)
Holding(v) ==
  {a \in Admins : admin[a].at \in {"init", "published", "abandon", "abandoned"} /\ admin[a].vm = v}
    \cup {c \in Callers : call[c].at \in {"locked", "lua"} /\ call[c].vm = v}
    \cup {j \in Jobs : work[j].at \in {"locked", "lua"} /\ work[j].vm = v}

HoldersKnown == \A v \in VMs : \A g \in Holding(v) : lua[v].holder = g

(* A VM has a lock from its load to its one teardown, which closes it once.               *)
OneTeardown ==
  /\ \A v \in VMs : Unbegun(v) =>
       v \notin manager.locks \cup manager.actions \cup {manager.published} /\ lua[v].closes = 0
  /\ \A v \in manager.locks :
       /\ lua[v].closes = 0
       /\ manager.published = v \/ \E a \in Admins : admin[a].at \in {"init", "abandon"} /\ admin[a].vm = v
  /\ \A t \in teardowns :
       /\ t.vm \notin manager.locks /\ ~Unbegun(t.vm)
       /\ lua[t.vm].closes = IF t.at = "sweep" THEN 1 ELSE 0
       /\ \A u \in teardowns : u.vm = t.vm => u = t

(* A call or a job has in hand a VM whose load has begun.                                 *)
BegunInHand ==
  /\ \A c \in Callers : call[c].at # "idle" => call[c].vm \in VMs /\ ~Unbegun(call[c].vm)
  /\ \A j \in Jobs : work[j].at \in {"accepted", "waiting", "running", "locked", "lua"} =>
       work[j].vm \in VMs /\ ~Unbegun(work[j].vm)

(* A goroutine waits for the teardown it began, and begins none before.                   *)
OwnTeardowns ==
  \A t \in teardowns : t.by \in Admins =>
    /\ admin[t.by].at \in {"abandoned", "ending", "teardown"}
    /\ admin[t.by].at = "abandoned" => t.at = "held"

(* What a disable found claimed has begun to load when it looks, and is no longer loading  *)
(* when it looks again, so that what it then revokes or does not find is the last of it.  *)
DisablesSeeAll ==
  \A a \in Admins :
    /\ admin[a].before \cap manager.fresh = {}
    /\ admin[a].at \in {"await", "await2"} => ~admin[a].waited
    /\ admin[a].at \in {"look", "wait", "teardown", "answered"} => \A v \in admin[a].before : ~Unbegun(v)
    /\ admin[a].at = "look" /\ admin[a].waited => manager.loading \notin admin[a].before
    /\ admin[a].at = "wait" => manager.loading \notin admin[a].before \ {admin[a].vm}
    /\ admin[a].at \in {"teardown", "answered"} => admin[a].before \cap manager.locks = {}

(* The shutdown closes what was published.                                                *)
CloserSees ==
  /\ closer # "running" => manager.closed
  /\ closer \in {"closing", "clear"} => manager.published \notin manager.locks
  /\ closer = "closed" => manager.published = NoVM

(* A WaitGroup is named for the job that made it, and a job counts on one before it runs. *)
GroupsNamed ==
  /\ \A g \in Jobs :
       (manager.group = g \/ (\E j \in Jobs : work[j].group = g) \/ (\E t \in teardowns : t.group = g))
         => work[g].at \notin {"none", "accepted"}
  /\ \A j \in Jobs : work[j].at \in {"waiting", "running", "locked", "lua"} => work[j].group \in Jobs

(* What a job of a revoked VM counts on was taken away with it, and then waited for.      *)
GroupsTaken ==
  \A t \in teardowns : t.at = "drain" \/ (t.at = "close" /\ t.by # "closer") =>
    \A j \in Jobs \cap Inside(t.vm) :
      work[j].group # manager.group /\ (t.at = "close" => work[j].group # t.group)

(* What was said of a job is its status from then on.                                     *)
SaidOfJobs ==
  \A j \in Jobs :
    /\ work[j].said \in {"nothing", work[j].status}
    /\ work[j].said # "nothing" => work[j].at \in {"lua", "returned", "ended"}
    /\ work[j].at = "ended" => work[j].status \in Finished

PluginStrengthening ==
  /\ LoadsAlone /\ HoldersKnown /\ OneTeardown /\ BegunInHand /\ OwnTeardowns
  /\ DisablesSeeAll /\ CloserSees

(* The life of a VM: one goroutine in it at a time, closed once, after it, and always;    *)
(* once revoked it has no registration, and a disable that answers leaves none to come.  *)
VMsSound ==
  /\ PluginTypeOK /\ NeverInClosedVM /\ ClosedOnce /\ NothingLeftOpen
  /\ RegistrationsLive /\ DisabledIsOff /\ PluginStrengthening

(* Jobs end before their VM closes, and as what their handler said.                      *)
JobsSettle ==
  JobsDrained /\ ReportStands /\ GroupsNamed /\ GroupsTaken /\ SaidOfJobs

(* Only the published VM is entered, and only a VM's own end takes its registrations.    *)
PublishedServes == OnlyPublishedRuns /\ RegistrationsOutlast
=============================================================================
