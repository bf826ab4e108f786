--------------------------- MODULE PluginSchedule ---------------------------
(* The plugin scheduler of src/application_context: processes that share a   *)
(* database, each with a ticker and with requests to run a schedule now, and *)
(* the rows whose claims decide who runs what.  One step is one statement of *)
(* the database, one reading of the clock or one critical section of the     *)
(* plugin manager.  The schedules are those of one plugin.                   *)
EXTENDS Naturals, FiniteSets

CONSTANTS
  Hosts,        \* the processes
  Schedules,    \* the ids the plugin declares
  Operators,    \* the users who may enable the plugin
  Attempts,     \* goroutines of dispatch, each with its claim token
  Policies,     \* the overlap policies the plugin file may declare
  Every,        \* EverySeconds
  Wait,         \* ScheduleDispatchWait
  RunMax,       \* MaxAsyncJobDuration
  Lag,          \* half of the margin: clock to wait, and handler to last write
  MayStall,     \* whether a goroutine may take longer than the three above
  StoreFails,   \* whether a write may fail (the error is logged)
  MaxTime,      \* bound on the clock
  MaxGen,       \* bound on how often a process enables the plugin
  MaxRuns       \* bound on the runs of a schedule

ASSUME ScheduleAssumption ==
  /\ Policies \subseteq {"skip", "allow"}
  /\ Every \in Nat \ {0}
  /\ Wait \in Nat /\ RunMax \in Nat /\ Lag \in Nat
  /\ MayStall \in BOOLEAN /\ StoreFails \in BOOLEAN
  /\ MaxTime \in Nat /\ MaxGen \in Nat /\ MaxRuns \in Nat

Nobody == "nobody"

ASSUME NobodyAssumption ==
  Nobody \notin Operators /\ Nobody \notin Attempts /\ Nobody \notin Schedules

\* Mutant of TTL, not the code: the run's own duration is left out.
TTLWithoutRun == Wait + 2 * Lag

\* ScheduleClaimTTL
TTL == Wait + RunMax + 2 * Lag

VARIABLES
  clock,     \* the time all processes read
  row,       \* [Schedules -> the plugin_schedules row]
  plugin,    \* [Hosts -> the plugin as the process has loaded it]
  ticker,    \* [Hosts -> what Tick is at]
  attempt,   \* [Attempts -> a claimed run, from claim to release]
  runs       \* [Schedules -> Nat], runs begun so far

vars == <<clock, row, plugin, ticker, attempt, runs>>

NoOutcome == [run |-> 0, held |-> FALSE]

NoRow == [exists |-> FALSE, owner |-> Nobody, overlap |-> "skip", nextDue |-> 0,
          token |-> Nobody, claimedAt |-> 0, outcome |-> NoOutcome]

Unloaded == [on |-> FALSE, gen |-> 0, overlap |-> "skip", owner |-> Nobody, at |-> 0,
             rest |-> {}]

IdleTicker == [now |-> 0, rest |-> {}, allow |-> {}]

Idle == [pc |-> "idle", host |-> Nobody, schedule |-> Nobody, manual |-> FALSE,
         overlap |-> "skip", gen |-> 0, run |-> 0, at |-> 0, limit |-> 0, late |-> FALSE]

Init ==
  /\ clock = 0
  /\ row = [s \in Schedules |-> NoRow]
  /\ plugin = [h \in Hosts |-> Unloaded]
  /\ ticker = [h \in Hosts |-> IdleTicker]
  /\ attempt = [a \in Attempts |-> Idle]
  /\ runs = [s \in Schedules |-> 0]

-----------------------------------------------------------------------------
At(a, pc) == attempt[a].pc = pc

\* The attempt goes on, within its present limit.
Goto(a, pc) == attempt' = [attempt EXCEPT ![a].pc = pc, ![a].at = 0]

Done(a) == attempt' = [attempt EXCEPT ![a] = Idle]

\* newScheduleClaimToken: a free attempt stands for a fresh token.
Fresh(a) == At(a, "idle") /\ \A s \in Schedules : row[s].token # a

\* A ticked run under allow lets go of its claim when it is dispatched; every
\* other run keeps it until it is over (holdClaim of RunSchedule).
Keeps(a) == attempt[a].manual \/ attempt[a].overlap = "skip"

\* Mutant of Unheld: a claim is honoured for a moment less.
UnheldAtTTL(r, now) == r.token = Nobody \/ r.claimedAt + TTL <= now

\* The predicates of claimPluginSchedule, now being the caller's time.
Unheld(r, now) == r.token = Nobody \/ r.claimedAt + TTL < now

\* Mutant of Claimable: that a listed row is due is not checked again.
ClaimableAsListed(r, now, requireDue) ==
  r.exists /\ r.owner # Nobody /\ Unheld(r, now)

Claimable(r, now, requireDue) ==
  /\ r.exists
  /\ requireDue => r.nextDue <= now
  /\ r.owner # Nobody
  /\ Unheld(r, now)

\* Mutant of IfHeld: the row is written whoever has claimed it since.
WhoeverHolds(a, written) ==
  \/ row' = [row EXCEPT ![attempt[a].schedule] = written]
  \/ StoreFails /\ UNCHANGED row

\* Writes to the row that the claim's holder makes: they match nothing, and so
\* change nothing, when the row has another token.
IfHeld(a, written) ==
  LET s == attempt[a].schedule IN
  \/ row' = [row EXCEPT ![s] = IF row[s].token = a THEN written ELSE row[s]]
  \/ StoreFails /\ UNCHANGED row

Unclaimed(r) == [r EXCEPT !.token = Nobody, !.claimedAt = 0]

Outcome(a) == [run |-> attempt[a].run, held |-> Keeps(a) /\ ~attempt[a].late]

-----------------------------------------------------------------------------
(* The plugin in a process, and its owner.                                   *)

\* The plugin is enabled: at boot by nobody, or by an operator.  Its schedules
\* are registered when this returns, and its rows are still to be synced.
Enable(h, owner, overlap) ==
  /\ ~plugin[h].on
  /\ plugin[h].rest = {}
  /\ plugin[h].gen < MaxGen
  /\ plugin' = [plugin EXCEPT ![h] = [on |-> TRUE, gen |-> plugin[h].gen + 1,
                                      overlap |-> overlap, owner |-> owner, at |-> clock,
                                      rest |-> Schedules]]
  /\ UNCHANGED <<clock, row, ticker, attempt, runs>>

\* A sync with these schedules left to do.
Synced(p, rest) ==
  IF rest = {} THEN [Unloaded EXCEPT !.on = p.on, !.gen = p.gen] ELSE [p EXCEPT !.rest = rest]

\* Mutant of Sync: the row is written as declared, its claim included.
SyncAll(h, s) ==
  LET p == plugin[h] IN
  /\ s \in p.rest
  /\ plugin' = [plugin EXCEPT ![h] = Synced(p, p.rest \ {s})]
  /\ row' = [row EXCEPT ![s] = [NoRow EXCEPT
                !.exists = TRUE, !.overlap = p.overlap, !.nextDue = p.at + Every,
                !.owner = IF p.owner = Nobody THEN row[s].owner ELSE p.owner]]
  /\ UNCHANGED <<clock, ticker, attempt, runs>>

\* One row of SyncPluginSchedules: created, or overwritten but for its claim, its
\* due time and, when nobody is acting, its owner.
Sync(h, s) ==
  LET p == plugin[h] IN
  /\ s \in p.rest
  /\ plugin' = [plugin EXCEPT ![h] = Synced(p, p.rest \ {s})]
  /\ row' = [row EXCEPT ![s] =
       IF row[s].exists
       THEN [row[s] EXCEPT !.overlap = p.overlap,
                           !.owner = IF p.owner = Nobody THEN row[s].owner ELSE p.owner]
       ELSE [NoRow EXCEPT !.exists = TRUE, !.owner = p.owner, !.overlap = p.overlap,
                          !.nextDue = p.at + Every]]
  /\ UNCHANGED <<clock, ticker, attempt, runs>>

\* A database error, such as that another process has just created the row, ends
\* the sync; the plugin stays enabled.
SyncFails(h) ==
  /\ plugin[h].rest # {}
  /\ plugin' = [plugin EXCEPT ![h] = Synced(plugin[h], {})]
  /\ UNCHANGED <<clock, row, ticker, attempt, runs>>

\* The plugin is disabled: its schedules are unregistered and its VM revoked.
Disable(h) ==
  /\ plugin[h].on
  /\ plugin' = [plugin EXCEPT ![h].on = FALSE]
  /\ UNCHANGED <<clock, row, ticker, attempt, runs>>

\* The process ends, by a crash or by an exit that does not wait any longer.
Exit(h) ==
  /\ plugin' = [plugin EXCEPT ![h] = [Unloaded EXCEPT !.gen = plugin[h].gen]]
  /\ ticker' = [ticker EXCEPT ![h] = IdleTicker]
  /\ attempt' = [a \in Attempts |-> IF attempt[a].host = h THEN Idle ELSE attempt[a]]
  /\ UNCHANGED <<clock, row, runs>>

\* DeleteUser: nullCreatorReferences.
DeleteUser(u) ==
  /\ \E s \in Schedules : row[s].owner = u
  /\ row' = [s \in Schedules |->
               IF row[s].owner = u THEN [row[s] EXCEPT !.owner = Nobody] ELSE row[s]]
  /\ UNCHANGED <<clock, plugin, ticker, attempt, runs>>

-----------------------------------------------------------------------------
(* Claiming: Tick and RunNow.                                                *)

\* Tick reads the clock and lists the due rows, whose policies it keeps.
List(h) ==
  LET due == {s \in Schedules : Claimable(row[s], clock, TRUE)} IN
  /\ ticker[h].rest = {}
  /\ due # {}
  /\ ticker' = [ticker EXCEPT ![h] =
       [IdleTicker EXCEPT !.now = clock, !.rest = due,
                          !.allow = {s \in due : row[s].overlap = "allow"}]]
  /\ UNCHANGED <<clock, row, plugin, attempt, runs>>

\* The rest of a list, without the row just dealt with.
Rest(t, s) == IF t.rest = {s} THEN IdleTicker ELSE [t EXCEPT !.rest = t.rest \ {s}]

\* A listed row that nothing registered answers to is left alone.
Skip(h, s) ==
  /\ s \in ticker[h].rest
  /\ ~plugin[h].on
  /\ ticker' = [ticker EXCEPT ![h] = Rest(ticker[h], s)]
  /\ UNCHANGED <<clock, row, plugin, attempt, runs>>

Take(a, h, s, now, manual, overlap, late) ==
  /\ row' = [row EXCEPT ![s].token = a, ![s].claimedAt = now]
  /\ attempt' = [attempt EXCEPT ![a] =
       [Idle EXCEPT !.pc = "claimed", !.host = h, !.schedule = s, !.manual = manual,
                    !.overlap = overlap, !.limit = now + Lag, !.late = late]]

\* ClaimPluginSchedule with the time of the tick, and the goroutine of dispatch.
\* A Disable between the look at the registration and the claim is one after it.
Claim(h, s, a) ==
  LET t == ticker[h] IN
  /\ s \in t.rest
  /\ plugin[h].on
  /\ Fresh(a)
  /\ ticker' = [ticker EXCEPT ![h] = Rest(t, s)]
  /\ IF Claimable(row[s], t.now, TRUE)
     THEN Take(a, h, s, t.now, FALSE, IF s \in t.allow THEN "allow" ELSE "skip",
               clock > t.now + Lag)
     ELSE UNCHANGED <<row, attempt>>
  /\ UNCHANGED <<clock, plugin, runs>>

\* RunNow, up to its reading of the clock: the row has an owner and a handler.
Ask(a, h, s) ==
  /\ plugin[h].on
  /\ Fresh(a)
  /\ row[s].exists /\ row[s].owner # Nobody
  /\ attempt' = [attempt EXCEPT ![a] =
       [Idle EXCEPT !.pc = "asked", !.host = h, !.schedule = s, !.manual = TRUE,
                    !.at = clock, !.limit = clock + Lag]]
  /\ UNCHANGED <<clock, row, plugin, ticker, runs>>

\* ClaimPluginScheduleNow
ClaimNow(a) ==
  LET x == attempt[a] IN
  /\ At(a, "asked")
  /\ IF Claimable(row[x.schedule], x.at, FALSE)
     THEN Take(a, x.host, x.schedule, x.at, TRUE, "skip", x.late)
     ELSE Done(a) /\ UNCHANGED row
  /\ UNCHANGED <<clock, plugin, ticker, runs>>

-----------------------------------------------------------------------------
(* dispatch, dispatchManual and RunSchedule.                                 *)

\* A claim that is still held is handed back; there is nothing else to do.
GivenBack(a) ==
  IF Keeps(a) THEN attempt' = [attempt EXCEPT ![a].pc = "releasing",
                                               ![a].limit = clock + Lag]
  ELSE Done(a)

\* The registration is looked up; a ticked run under allow reads the clock.
Dispatch(a) ==
  /\ At(a, "claimed")
  /\ IF ~plugin[attempt[a].host].on THEN Goto(a, "releasing")
     ELSE IF Keeps(a) THEN Goto(a, "starting")
     ELSE attempt' = [attempt EXCEPT ![a].pc = "advancing", ![a].at = clock]
  /\ UNCHANGED <<clock, row, plugin, ticker, runs>>

\* AdvancePluginScheduleAtDispatch
Advance(a) ==
  /\ At(a, "advancing")
  /\ IfHeld(a, [Unclaimed(row[attempt[a].schedule]) EXCEPT !.nextDue = attempt[a].at + Every])
  /\ Goto(a, "starting")
  /\ UNCHANGED <<clock, plugin, ticker, runs>>

\* RunSchedule looks the registration up again and starts its wait.
Start(a) ==
  /\ At(a, "starting")
  /\ IF plugin[attempt[a].host].on
     THEN attempt' = [attempt EXCEPT ![a].pc = "waiting",
                        ![a].limit = IF Keeps(a) THEN clock + Wait ELSE 0,
                        ![a].gen = plugin[attempt[a].host].gen]
     ELSE GivenBack(a)
  /\ UNCHANGED <<clock, row, plugin, ticker, runs>>

\* No job slot, or under a claim no VM, within the wait: ran is false.
GiveUp(a) ==
  /\ At(a, "waiting")
  /\ GivenBack(a)
  /\ UNCHANGED <<clock, row, plugin, ticker, runs>>

\* The VM that was looked up is still the plugin's.
Alive(a) ==
  LET p == plugin[attempt[a].host] IN p.on /\ p.gen = attempt[a].gen

VMFree(a) ==
  \A b \in Attempts : At(b, "running") =>
    attempt[b].host # attempt[a].host \/ attempt[b].gen # attempt[a].gen

Begin(a, pc, at, limit) ==
  LET s == attempt[a].schedule IN
  /\ runs[s] < MaxRuns
  /\ runs' = [runs EXCEPT ![s] = runs[s] + 1]
  /\ attempt' = [attempt EXCEPT ![a].pc = pc, ![a].at = at, ![a].limit = limit,
                                ![a].run = runs[s] + 1]

\* The VM lock is taken and the handler called.
Enter(a) ==
  /\ At(a, "waiting")
  /\ Alive(a)
  /\ VMFree(a)
  /\ Begin(a, "running", 0, clock + RunMax)
  /\ UNCHANGED <<clock, row, plugin, ticker>>

\* The plugin is gone: an outcome of its own, and the job is taken to have run.
VMGone(a) ==
  /\ At(a, "waiting")
  /\ ~Alive(a)
  /\ Begin(a, "recording", clock, clock + Lag)
  /\ UNCHANGED <<clock, row, plugin, ticker>>

\* Mutant of Return: nothing is left to do after the handler.
ReturnOnly(a) ==
  /\ At(a, "running")
  /\ Goto(a, "returned")
  /\ UNCHANGED <<clock, row, plugin, ticker, runs>>

\* The handler returns, fails or times out.
Return(a) ==
  /\ At(a, "running")
  /\ attempt' = [attempt EXCEPT ![a].pc = "recording", ![a].at = clock,
                                ![a].limit = clock + Lag]
  /\ UNCHANGED <<clock, row, plugin, ticker, runs>>

\* CompletePluginScheduleRun: outcome, next due time and release in one write.
Complete(a) ==
  LET r == row[attempt[a].schedule] IN
  /\ At(a, "recording")
  /\ ~attempt[a].manual /\ Keeps(a)
  /\ IfHeld(a, [Unclaimed(r) EXCEPT !.nextDue = attempt[a].at + Every, !.outcome = Outcome(a)])
  /\ Done(a)
  /\ UNCHANGED <<clock, plugin, ticker, runs>>

\* RecordPluginScheduleOutcome: no claim is looked at.  A manual run has yet to
\* release its own.
Record(a) ==
  /\ At(a, "recording")
  /\ attempt[a].manual \/ ~Keeps(a)
  /\ \/ row' = [row EXCEPT ![attempt[a].schedule].outcome = Outcome(a)]
     \/ StoreFails /\ UNCHANGED row
  /\ IF attempt[a].manual THEN Goto(a, "releasing") ELSE Done(a)
  /\ UNCHANGED <<clock, plugin, ticker, runs>>

\* ReleasePluginScheduleClaim
Release(a) ==
  /\ At(a, "releasing")
  /\ IfHeld(a, Unclaimed(row[attempt[a].schedule]))
  /\ Done(a)
  /\ UNCHANGED <<clock, plugin, ticker, runs>>

-----------------------------------------------------------------------------
(* Time.                                                                     *)

\* An attempt is within the time its phase may take.  A run that has let its
\* claim go may wait for the VM as long as it takes.
InTime(a) ==
  At(a, "idle") \/ (At(a, "waiting") /\ ~Keeps(a)) \/ clock < attempt[a].limit

TickerInTime(h) == ticker[h].rest # {} => clock < ticker[h].now + Lag

\* An attempt that has not got on in time is late from then on.
Pass ==
  /\ clock < MaxTime
  /\ ~MayStall => (\A a \in Attempts : InTime(a)) /\ (\A h \in Hosts : TickerInTime(h))
  /\ clock' = clock + 1
  /\ attempt' = [a \in Attempts |->
                   IF InTime(a) THEN attempt[a] ELSE [attempt[a] EXCEPT !.late = TRUE]]
  /\ UNCHANGED <<row, plugin, ticker, runs>>

-----------------------------------------------------------------------------
Process(h) ==
  \/ \E u \in Operators \cup {Nobody}, overlap \in Policies : Enable(h, u, overlap)
  \/ \E s \in Schedules : Sync(h, s) \/ Skip(h, s)
  \/ SyncFails(h) \/ Disable(h) \/ Exit(h) \/ List(h)
  \/ \E a \in Attempts, s \in Schedules : Claim(h, s, a) \/ Ask(a, h, s)

Run(a) ==
  \/ ClaimNow(a) \/ Dispatch(a) \/ Advance(a) \/ Start(a) \/ GiveUp(a) \/ Enter(a)
  \/ VMGone(a) \/ Return(a) \/ Complete(a) \/ Record(a) \/ Release(a)

Next ==
  \/ Pass
  \/ \E h \in Hosts : Process(h)
  \/ \E a \in Attempts : Run(a)
  \/ \E u \in Operators : DeleteUser(u)

Spec == Init /\ [][Next]_vars

-----------------------------------------------------------------------------
(* Invariants.                                                               *)

Policy == {"skip", "allow"}

Outcomes == [run : Nat, held : BOOLEAN]

Rows == [exists : BOOLEAN, owner : Operators \cup {Nobody}, overlap : Policy, nextDue : Nat,
         token : Attempts \cup {Nobody}, claimedAt : Nat, outcome : Outcomes]

Plugins == [on : BOOLEAN, gen : Nat, overlap : Policy, owner : Operators \cup {Nobody},
            at : Nat, rest : SUBSET Schedules]

Tickers == [now : Nat, rest : SUBSET Schedules, allow : SUBSET Schedules]

Pcs == {"idle", "asked", "claimed", "advancing", "starting", "waiting", "running",
        "recording", "releasing"}

AttemptStates ==
  [pc : Pcs, host : Hosts \cup {Nobody}, schedule : Schedules \cup {Nobody},
   manual : BOOLEAN, overlap : Policy, gen : Nat, run : Nat, at : Nat, limit : Nat,
   late : BOOLEAN]

TypeOK ==
  /\ clock \in Nat
  /\ row \in [Schedules -> Rows]
  /\ plugin \in [Hosts -> Plugins]
  /\ ticker \in [Hosts -> Tickers]
  /\ attempt \in [Attempts -> AttemptStates]
  /\ runs \in [Schedules -> Nat]

\* The attempt believes that it has the claim.
Holds(a) ==
  \/ attempt[a].pc \in {"claimed", "advancing", "releasing"}
  \/ attempt[a].pc \in {"starting", "waiting", "running", "recording"} /\ Keeps(a)

\* Two goroutines, of one process or of two, never both work under a claim of one
\* schedule, unless one of them has overrun every bound the claim's age is made of.
HeldAlone ==
  \A a, b \in Attempts :
    /\ Holds(a) /\ ~attempt[a].late
    /\ Holds(b) /\ ~attempt[b].late
    /\ attempt[a].schedule = attempt[b].schedule
    => a = b

\* A ticked run that holds its claim works on the occurrence it was claimed for:
\* no other run has completed that one or moved the row on meanwhile.
HeldOccurrence ==
  \A a \in Attempts : LET r == row[attempt[a].schedule] IN
    Holds(a) /\ ~attempt[a].manual /\ ~attempt[a].late =>
      r.token = a /\ r.nextDue <= r.claimedAt

-----------------------------------------------------------------------------
(* What the proofs of PluginScheduleProofs strengthen the invariants with.   *)

\* A row that does not exist has no claim.
RowsBegin == \A s \in Schedules : ~row[s].exists => row[s] = NoRow

\* A token is in the row of the schedule its attempt runs, and nowhere before the
\* attempt has claimed; a list and a request were made in the past; only a run that
\* is about to let its claim go is advancing the row.
TokensMatch ==
  /\ \A a \in Attempts : ~At(a, "idle") =>
       attempt[a].schedule \in Schedules /\ row[attempt[a].schedule].exists
  /\ \A a \in Attempts : At(a, "advancing") => ~Keeps(a)
  /\ \A a \in Attempts, s \in Schedules :
       row[s].token = a => ~At(a, "asked") /\ (At(a, "idle") \/ attempt[a].schedule = s)
  /\ \A h \in Hosts : ticker[h].now <= clock
  /\ \A a \in Attempts : At(a, "asked") =>
       /\ attempt[a].manual
       /\ attempt[a].at <= clock
       /\ attempt[a].limit = attempt[a].at + Lag
       /\ ~attempt[a].late => clock <= attempt[a].limit

\* How long after its claim an attempt may be in its phase.
Budget(a) ==
  CASE attempt[a].pc \in {"claimed", "advancing", "starting"} -> Lag
    [] At(a, "waiting") -> Lag + Wait
    [] At(a, "running") -> Lag + Wait + RunMax
    [] OTHER -> TTL

\* An attempt that believes it has the claim, and is in time, does have it, and
\* its phase ends before the claim has been honoured for long enough.
ClaimsLast ==
  \A a \in Attempts : Holds(a) /\ ~attempt[a].late =>
    LET r == row[attempt[a].schedule] IN
    /\ r.token = a
    /\ clock <= attempt[a].limit
    /\ attempt[a].limit <= r.claimedAt + Budget(a)

\* A ticked run that has the claim has it of a row that was due by then, and
\* advances the row from a later time.
DueWhenClaimed ==
  \A a \in Attempts : LET r == row[attempt[a].schedule] IN
    /\ ~At(a, "idle") /\ ~attempt[a].manual /\ r.token = a
    => /\ r.nextDue <= r.claimedAt
       /\ r.claimedAt <= clock
       /\ attempt[a].pc \in {"advancing", "recording"} => r.claimedAt <= attempt[a].at

\* The outcome of a run that kept its claim is not newer than one that has it now.
OutcomesPast ==
  /\ \A s \in Schedules : row[s].outcome.run <= runs[s]
  /\ \A a \in Attempts : ~At(a, "idle") => attempt[a].run <= runs[attempt[a].schedule]
  /\ \A a \in Attempts : LET o == row[attempt[a].schedule].outcome IN
       /\ attempt[a].pc \in {"running", "recording"} /\ Keeps(a) /\ ~attempt[a].late /\ o.held
       => o.run <= attempt[a].run

Strengthening == RowsBegin /\ TokensMatch /\ ClaimsLast /\ DueWhenClaimed /\ OutcomesPast

\* The inductive invariant, which also holds of runs that stall and writes that fail.
Inductive == TypeOK /\ Strengthening

-----------------------------------------------------------------------------
(* Action properties.                                                        *)

\* The next due time never goes back, however late a write is: a run whose claim
\* was taken over cannot make an occurrence due that a later run has completed.
DueNeverRegresses ==
  [][\A s \in Schedules : row'[s].nextDue >= row[s].nextDue]_vars

\* Of the runs that keep their claim, an older one never overwrites the outcome
\* of a newer one.
HeldOutcomesInOrder ==
  [][\A s \in Schedules :
       row'[s].outcome.held /\ row[s].outcome.held =>
         row'[s].outcome.run >= row[s].outcome.run]_vars
=============================================================================
