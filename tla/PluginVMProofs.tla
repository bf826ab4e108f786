--------------------------- MODULE PluginVMProofs ---------------------------
(* That the life of a plugin's VMs is sound, for any VMs, administrators, calls *)
(* and jobs: one goroutine in a VM at a time, closed once and after the last of *)
(* them, no registration of a revoked one, and an answered disable is final.    *)
EXTENDS PluginVM, TLAPS, FiniteSetTheorems

\* Nobody is inside a VM that was closed.
ClosedEmpty == \A v \in VMs : lua[v].closes > 0 => Inside(v) = {}

PluginSound ==
  PluginTypeOK /\ PluginStrengthening /\ RegistrationsLive /\ ClosedOnce /\ ClosedEmpty

LuaType == [VMs -> [holder : Goroutines, closes : Nat]]

-----------------------------------------------------------------------------
(* The moves of a goroutine and what they leave.                             *)

OthersStay(a) == \A b \in Admins \ {a} : admin'[b] = admin[b]

\* a goes on to another place of what it does.
LEMMA AdminGoes ==
  ASSUME admin \in [Admins -> AdminType], NEW a \in Admins, NEW at \in AdminAts,
         admin' = [admin EXCEPT ![a].at = at]
  PROVE  /\ admin' \in [Admins -> AdminType] /\ OthersStay(a)
         /\ admin'[a].at = at /\ admin'[a].vm = admin[a].vm
         /\ admin'[a].waited = admin[a].waited /\ admin'[a].before = admin[a].before
BY DEF AdminType, OthersStay

\* a's new record, of its type.
LEMMA AdminWritten ==
  ASSUME admin \in [Admins -> AdminType], NEW a \in Admins, NEW r \in AdminType,
         admin' = [admin EXCEPT ![a] = r]
  PROVE  admin' \in [Admins -> AdminType] /\ OthersStay(a) /\ admin'[a] = r
BY DEF OthersStay

LEMMA AdminRests ==
  ASSUME admin \in [Admins -> AdminType], NEW a \in Admins,
         admin' = [admin EXCEPT ![a] = Idle]
  PROVE  /\ admin' \in [Admins -> AdminType] /\ OthersStay(a)
         /\ admin'[a].at = "idle" /\ admin'[a].vm = NoVM
         /\ admin'[a].waited = FALSE /\ admin'[a].before = {}
BY DEF AdminType, AdminAts, OthersStay, Idle

CallStays(c) == \A d \in Callers \ {c} : call'[d] = call[d]

LEMMA CallGoes ==
  ASSUME call \in [Callers -> CallType], NEW c \in Callers, NEW at \in {"idle", "queued", "locked", "lua"},
         call' = [call EXCEPT ![c].at = at]
  PROVE  /\ call' \in [Callers -> CallType] /\ CallStays(c)
         /\ call'[c].at = at /\ call'[c].vm = call[c].vm
BY DEF CallType, CallStays

LEMMA CallRests ==
  ASSUME call \in [Callers -> CallType], NEW c \in Callers, call' = [call EXCEPT ![c] = NoCall]
  PROVE  call' \in [Callers -> CallType] /\ CallStays(c) /\ call'[c].at = "idle"
BY DEF CallType, CallStays, NoCall

ClosesStay == \A v \in VMs : lua'[v].closes = lua[v].closes
HoldersStay(v) == \A w \in VMs \ {v} : lua'[w].holder = lua[w].holder

LEMMA LockTaken ==
  ASSUME lua \in LuaType, NEW v \in VMs, NEW g \in Goroutines,
         lua' = [lua EXCEPT ![v].holder = g]
  PROVE  lua' \in LuaType /\ lua'[v].holder = g /\ ClosesStay /\ HoldersStay(v)
BY DEF LuaType, ClosesStay, HoldersStay

-----------------------------------------------------------------------------
(* The guests: calls, jobs and what runs in a VM registers.  They leave what *)
(* the administrators, the teardowns and the shutdown know.                  *)

\* Nothing of the manager but the registrations and the WaitGroup changes.
ManagerStays ==
  /\ manager' \in ManagerType
  /\ manager'.closed = manager.closed /\ manager'.enabling = manager.enabling
  /\ manager'.loading = manager.loading /\ manager'.published = manager.published
  /\ manager'.fresh = manager.fresh /\ manager'.locks = manager.locks
  /\ manager'.actions \subseteq manager.actions \cup manager.locks

GuestMoves ==
  /\ UNCHANGED <<admin, teardowns, closer>> /\ ManagerStays /\ ClosesStay
  /\ lua' \in LuaType /\ call' \in [Callers -> CallType] /\ work' \in [Jobs -> JobType]

LEMMA GuestUnbegun ==
  ASSUME GuestMoves
  PROVE  \A v \in VMs : Unbegun(v)' <=> Unbegun(v)
BY DEF GuestMoves, ManagerStays, Unbegun

LEMMA GuestLeaves ==
  ASSUME PluginSound, GuestMoves, HoldersKnown', BegunInHand',
         \A v \in VMs : lua[v].closes > 0 => Inside(v)' \subseteq Inside(v)
  PROVE  PluginSound'
<1>1. PluginTypeOK'
  BY DEF PluginSound, PluginTypeOK, GuestMoves, ManagerStays, LuaType
<1>2. LoadsAlone'
  <2>1. LoadsAlone
    BY DEF PluginSound, PluginStrengthening
  <2>. QED  BY <2>1 DEF LoadsAlone, GuestMoves, ManagerStays
<1>3. OneTeardown'
  <2>1. OneTeardown /\ PluginTypeOK
    BY DEF PluginSound, PluginStrengthening
  <2>2. \A t \in teardowns : t.vm \in VMs
    BY <2>1 DEF PluginTypeOK, TeardownType
  <2>3. manager.locks \subseteq VMs
    BY <2>1 DEF PluginTypeOK, ManagerType
  <2>4. \A v \in VMs : Unbegun(v)' <=> Unbegun(v)
    BY GuestUnbegun
  <2>. QED  BY <2>1, <2>2, <2>3, <2>4 DEF OneTeardown, GuestMoves, ManagerStays, ClosesStay
<1>4. OwnTeardowns'
  BY DEF PluginSound, PluginStrengthening, OwnTeardowns, GuestMoves
<1>5. DisablesSeeAll'
  <2>1. DisablesSeeAll /\ PluginTypeOK
    BY DEF PluginSound, PluginStrengthening
  <2>2. \A a \in Admins : admin[a].before \subseteq VMs
    BY <2>1 DEF PluginTypeOK, AdminType
  <2>. QED  BY <2>1, <2>2, GuestUnbegun DEF DisablesSeeAll, GuestMoves, ManagerStays
<1>6. CloserSees'
  BY DEF PluginSound, PluginStrengthening, CloserSees, GuestMoves, ManagerStays
<1>7. RegistrationsLive'
  BY DEF PluginSound, RegistrationsLive, GuestMoves, ManagerStays
<1>8. ClosedOnce'
  BY DEF PluginSound, ClosedOnce, GuestMoves, ClosesStay
<1>9. ClosedEmpty'
  BY DEF PluginSound, ClosedEmpty, GuestMoves, ClosesStay
<1>. QED
  BY <1>1, <1>2, <1>3, <1>4, <1>5, <1>6, <1>7, <1>8, <1>9 DEF PluginSound, PluginStrengthening

\* What the guests' lemmas take from the invariant.
LEMMA SoundParts ==
  ASSUME PluginSound
  PROVE  /\ manager \in ManagerType /\ lua \in LuaType /\ admin \in [Admins -> AdminType]
         /\ call \in [Callers -> CallType] /\ work \in [Jobs -> JobType]
         /\ teardowns \subseteq TeardownType
         /\ LoadsAlone /\ HoldersKnown /\ OneTeardown /\ BegunInHand /\ OwnTeardowns
         /\ DisablesSeeAll /\ CloserSees /\ RegistrationsLive /\ ClosedOnce /\ ClosedEmpty
BY DEF PluginSound, PluginTypeOK, PluginStrengthening, LuaType

\* A VM that is live or registered has been loaded and not closed.
LEMMA KnownBegun ==
  ASSUME PluginSound, NEW v \in VMs
  PROVE  /\ v \in manager.locks => lua[v].closes = 0 /\ ~Unbegun(v)
         /\ v \in manager.actions => ~Unbegun(v)
         /\ v = manager.published => ~Unbegun(v)
BY SoundParts DEF OneTeardown

LEMMA FoundSound ==
  ASSUME PluginAssumption, PluginSound, NEW c \in Callers, FindRegistration(c)
  PROVE  PluginSound'
<1>1. PICK v \in manager.actions : call' = [call EXCEPT ![c] = [at |-> "queued", vm |-> v]]
  BY DEF FindRegistration
<1>2. v \in VMs /\ ~Unbegun(v)
  BY <1>1, SoundParts, KnownBegun DEF ManagerType
<1>3. call' \in [Callers -> CallType] /\ CallStays(c) /\ call'[c].at = "queued" /\ call'[c].vm = v
  BY <1>1, <1>2, SoundParts DEF CallType, CallStays
<1>4. UNCHANGED <<manager, lua, admin, work, teardowns, closer>>
  BY DEF FindRegistration
<1>5. GuestMoves
  BY <1>3, <1>4, SoundParts DEF GuestMoves, ManagerStays, ClosesStay
<1>6. BegunInHand'
  BY <1>2, <1>3, <1>4, <1>5, SoundParts, GuestUnbegun DEF BegunInHand, CallStays, CallType, JobType
<1>7. HoldersKnown'
  BY <1>3, <1>4, SoundParts DEF HoldersKnown, Holding, CallStays
<1>8. \A w \in VMs : Inside(w)' \subseteq Inside(w)
  BY <1>3, <1>4 DEF Inside, CallStays
<1>. QED
  BY <1>5, <1>6, <1>7, <1>8, GuestLeaves

\* Who takes a free lock is the only one that has it.
LEMMA HolderComes ==
  ASSUME PluginAssumption, HoldersKnown, NEW v \in VMs, NEW g,
         lua[v].holder = Nobody, lua'[v].holder = g, HoldersStay(v),
         \A w \in VMs : Holding(w)' \subseteq Holding(w) \cup (IF w = v THEN {g} ELSE {})
  PROVE  HoldersKnown'
<1>1. \A w \in VMs : Nobody \notin Holding(w)
  BY DEF Holding, PluginAssumption
<1>2. Holding(v) = {}
  BY <1>1 DEF HoldersKnown
<1>. QED
  BY <1>2 DEF HoldersKnown, HoldersStay

\* Who releases a lock was the only one that had it.
LEMMA HolderLeaves ==
  ASSUME HoldersKnown, NEW v \in VMs, NEW g \in Holding(v), HoldersStay(v),
         \A w \in VMs : Holding(w)' \subseteq Holding(w) \ {g}
  PROVE  HoldersKnown'
<1>1. Holding(v) \subseteq {g}
  BY DEF HoldersKnown
<1>. QED
  BY <1>1 DEF HoldersKnown, HoldersStay

LEMMA HoldersSame ==
  ASSUME HoldersKnown, \A v \in VMs : lua'[v].holder = lua[v].holder,
         \A w \in VMs : Holding(w)' \subseteq Holding(w)
  PROVE  HoldersKnown'
BY DEF HoldersKnown

LEMMA EnterSound ==
  ASSUME PluginAssumption, PluginSound, NEW c \in Callers, Enter(c)
  PROVE  PluginSound'
<1>. DEFINE v == call[c].vm
<1>1. /\ call[c].at \in {"queued", "locked"}
      /\ UNCHANGED <<manager, admin, work, teardowns, closer>>
  BY DEF Enter
<1>2. v \in VMs /\ ~Unbegun(v)
  BY <1>1, SoundParts DEF BegunInHand
<1>3. /\ c \in Goroutines /\ Nobody \in Goroutines /\ c \notin Jobs /\ c \notin Admins
  BY DEF Goroutines, PluginAssumption
<1>a. ASSUME GuestMoves, CallStays(c), HoldersKnown',
             call'[c].at = "idle" \/ call'[c].vm = v,
             call'[c].at = "lua" => Live(v)
      PROVE  PluginSound'
  <2>1. BegunInHand'
    BY <1>a, <1>1, <1>2, SoundParts, GuestUnbegun DEF BegunInHand, CallStays
  <2>2. \A w \in VMs : lua[w].closes > 0 => Inside(w)' \subseteq Inside(w)
    <3>1. lua[v].closes > 0 => call'[c].at # "lua"
      BY <1>a, <1>2, KnownBegun DEF Live
    <3>. QED  BY <3>1, <1>a, <1>1 DEF Inside, CallStays
  <2>. QED  BY <1>a, <2>1, <2>2, GuestLeaves
<1>4. CASE call[c].at = "queued" /\ Take(v, c) /\ call' = [call EXCEPT ![c].at = "locked"]
  <2>1. call' \in [Callers -> CallType] /\ CallStays(c) /\ call'[c].at = "locked" /\ call'[c].vm = v
    BY <1>4, SoundParts, CallGoes
  <2>2. lua[v].holder = Nobody /\ lua' \in LuaType /\ lua'[v].holder = c /\ ClosesStay /\ HoldersStay(v)
    BY <1>4, <1>2, <1>3, SoundParts, LockTaken DEF Take
  <2>3. GuestMoves
    BY <1>1, <2>1, <2>2, SoundParts DEF GuestMoves, ManagerStays
  <2>4. \A w \in VMs : Holding(w)' \subseteq Holding(w) \cup (IF w = v THEN {c} ELSE {})
    BY <1>1, <2>1 DEF Holding, CallStays
  <2>5. HoldersKnown'
    BY <1>2, <2>2, <2>4, SoundParts, HolderComes
  <2>. QED  BY <1>a, <2>1, <2>3, <2>5
<1>5. CASE call' = [call EXCEPT ![c] = NoCall] /\ UNCHANGED lua
  <2>1. call' \in [Callers -> CallType] /\ CallStays(c) /\ call'[c].at = "idle"
    BY <1>5, SoundParts, CallRests
  <2>2. GuestMoves
    BY <1>1, <1>5, <2>1, SoundParts DEF GuestMoves, ManagerStays, ClosesStay
  <2>3. HoldersKnown'
    <3>1. \A w \in VMs : Holding(w)' \subseteq Holding(w)
      BY <1>1, <2>1 DEF Holding, CallStays
    <3>. QED  BY <1>5, <3>1, SoundParts, HoldersSame
  <2>. QED  BY <1>a, <2>1, <2>2, <2>3
<1>6. CASE call[c].at = "locked" /\ Live(v) /\ call' = [call EXCEPT ![c].at = "lua"] /\ UNCHANGED lua
  <2>1. call' \in [Callers -> CallType] /\ CallStays(c) /\ call'[c].at = "lua" /\ call'[c].vm = v
    BY <1>6, SoundParts, CallGoes
  <2>2. GuestMoves
    BY <1>1, <1>6, <2>1, SoundParts DEF GuestMoves, ManagerStays, ClosesStay
  <2>3. HoldersKnown'
    <3>1. \A w \in VMs : Holding(w)' \subseteq Holding(w)
      BY <1>1, <1>6, <2>1 DEF Holding, CallStays
    <3>. QED  BY <1>6, <3>1, SoundParts, HoldersSame
  <2>. QED  BY <1>a, <1>6, <2>1, <2>2, <2>3
<1>7. CASE call[c].at = "locked" /\ call' = [call EXCEPT ![c] = NoCall] /\ Free(v)
  <2>1. call' \in [Callers -> CallType] /\ CallStays(c) /\ call'[c].at = "idle"
    BY <1>7, SoundParts, CallRests
  <2>2. lua' \in LuaType /\ ClosesStay /\ HoldersStay(v)
    BY <1>7, <1>2, <1>3, SoundParts, LockTaken DEF Free
  <2>3. GuestMoves
    BY <1>1, <2>1, <2>2, SoundParts DEF GuestMoves, ManagerStays
  <2>4. c \in Holding(v) /\ \A w \in VMs : Holding(w)' \subseteq Holding(w) \ {c}
    BY <1>1, <1>3, <1>7, <2>1 DEF Holding, CallStays
  <2>5. HoldersKnown'
    BY <1>2, <2>2, <2>4, SoundParts, HolderLeaves
  <2>. QED  BY <1>a, <2>1, <2>3, <2>5
<1>. QED
  BY <1>4, <1>5, <1>6, <1>7 DEF Enter, StillRegistered

LEMMA LeaveSound ==
  ASSUME PluginAssumption, PluginSound, NEW c \in Callers, Leave(c)
  PROVE  PluginSound'
<1>. DEFINE v == call[c].vm
<1>1. /\ call[c].at = "lua" /\ UNCHANGED <<manager, admin, work, teardowns, closer>>
      /\ Free(v) /\ call' = [call EXCEPT ![c] = NoCall]
  BY DEF Leave
<1>2. v \in VMs /\ c \notin Jobs /\ c \notin Admins /\ Nobody \in Goroutines
  BY <1>1, SoundParts DEF BegunInHand, PluginAssumption, Goroutines
<1>3. call' \in [Callers -> CallType] /\ CallStays(c) /\ call'[c].at = "idle"
  BY <1>1, SoundParts, CallRests
<1>4. lua' \in LuaType /\ ClosesStay /\ HoldersStay(v)
  BY <1>1, <1>2, SoundParts, LockTaken DEF Free
<1>5. GuestMoves
  BY <1>1, <1>3, <1>4, SoundParts DEF GuestMoves, ManagerStays
<1>6. BegunInHand'
  BY <1>1, <1>3, <1>5, SoundParts, GuestUnbegun DEF BegunInHand, CallStays
<1>7. c \in Holding(v) /\ \A w \in VMs : Holding(w)' \subseteq Holding(w) \ {c}
  BY <1>1, <1>2, <1>3 DEF Holding, CallStays
<1>8. HoldersKnown'
  BY <1>2, <1>4, <1>7, SoundParts, HolderLeaves
<1>9. \A w \in VMs : Inside(w)' \subseteq Inside(w)
  BY <1>1, <1>3 DEF Inside, CallStays
<1>. QED
  BY <1>5, <1>6, <1>8, <1>9, GuestLeaves

LEMMA RegisterSound ==
  ASSUME PluginAssumption, PluginSound, NEW v \in VMs, Register(v)
  PROVE  PluginSound'
<1>1. /\ v \in manager.locks /\ manager' = [manager EXCEPT !.actions = @ \cup {v}]
      /\ UNCHANGED <<lua, admin, call, work, teardowns, closer>>
  BY DEF Register, MayRegister, Live
<1>2. ManagerStays
  BY <1>1, SoundParts DEF ManagerType, ManagerStays
<1>3. GuestMoves
  BY <1>1, <1>2, SoundParts DEF GuestMoves, ClosesStay
<1>4. BegunInHand'
  BY <1>1, <1>3, SoundParts, GuestUnbegun DEF BegunInHand
<1>5. HoldersKnown' /\ \A w \in VMs : Inside(w)' \subseteq Inside(w)
  BY <1>1, SoundParts DEF HoldersKnown, Holding, Inside
<1>. QED
  BY <1>3, <1>4, <1>5, GuestLeaves

-----------------------------------------------------------------------------
(* The jobs                                                                  *)

JobStays(j) == \A k \in Jobs \ {j} : work'[k] = work[k]

\* Where a job's goroutine has its VM in hand.
InHand == {"accepted", "waiting", "running", "locked", "lua"}

\* Only j's record changes, and not into a VM that is not live.
JobMoves(j) ==
  /\ UNCHANGED <<admin, call, teardowns, closer>> /\ ManagerStays /\ ClosesStay
  /\ lua' \in LuaType /\ work' \in [Jobs -> JobType] /\ JobStays(j)
  /\ work'[j].at \in InHand => work'[j].vm \in VMs /\ ~Unbegun(work'[j].vm)
  /\ work'[j].at = "lua" => \/ Live(work'[j].vm)
                            \/ work[j].at = "lua" /\ work[j].vm = work'[j].vm

LEMMA JobLeaves ==
  ASSUME PluginSound, NEW j \in Jobs, JobMoves(j), HoldersKnown'
  PROVE  PluginSound'
<1>1. GuestMoves
  BY SoundParts DEF JobMoves, GuestMoves
<1>2. BegunInHand'
  <2>1. \A k \in Jobs : work'[k].at \in InHand => work'[k].vm \in VMs /\ ~Unbegun(work'[k].vm)
    BY SoundParts DEF JobMoves, JobStays, BegunInHand, InHand
  <2>. QED  BY <2>1, <1>1, SoundParts, GuestUnbegun DEF BegunInHand, InHand, JobMoves
<1>3. \A w \in VMs : lua[w].closes > 0 => Inside(w)' \subseteq Inside(w)
  <2>1. \A w \in VMs : lua[w].closes > 0 => ~Live(w)
    BY KnownBegun DEF Live
  <2>. QED  BY <2>1 DEF JobMoves, JobStays, Inside
<1>. QED
  BY <1>1, <1>2, <1>3, GuestLeaves

\* A job that does not touch a lock: it is not between taking one and releasing it, or stays so.
LEMMA JobRuns ==
  ASSUME PluginSound, NEW j \in Jobs, JobMoves(j), UNCHANGED lua,
         work'[j].at \in {"locked", "lua"} =>
           work[j].at \in {"locked", "lua"} /\ work[j].vm = work'[j].vm
  PROVE  PluginSound'
<1>1. \A w \in VMs : Holding(w)' \subseteq Holding(w)
  BY DEF Holding, JobMoves, JobStays
<1>. QED
  BY <1>1, SoundParts, HoldersSame, JobLeaves

LEMMA JobReleases ==
  ASSUME PluginAssumption, PluginSound, NEW j \in Jobs, JobMoves(j), Free(work[j].vm),
         work[j].at \in {"locked", "lua"}, work'[j].at \notin {"locked", "lua"}
  PROVE  PluginSound'
<1>1. work[j].vm \in VMs /\ j \notin Admins /\ j \notin Callers /\ Nobody \in Goroutines
  BY SoundParts DEF BegunInHand, PluginAssumption, Goroutines
<1>2. HoldersStay(work[j].vm)
  BY <1>1, SoundParts, LockTaken DEF Free
<1>3. j \in Holding(work[j].vm) /\ \A w \in VMs : Holding(w)' \subseteq Holding(w) \ {j}
  BY <1>1 DEF Holding, JobMoves, JobStays
<1>. QED
  BY <1>1, <1>2, <1>3, SoundParts, HolderLeaves, JobLeaves

JobTyped == work \in [Jobs -> JobType]

LEMMA SoundJobs == ASSUME PluginSound PROVE JobTyped
BY SoundParts DEF JobTyped

\* The job's new record, of its type.
LEMMA JobWritten ==
  ASSUME JobTyped, NEW j \in Jobs, NEW r \in JobType, work' = [work EXCEPT ![j] = r]
  PROVE  work' \in [Jobs -> JobType] /\ JobStays(j) /\ work'[j] = r
BY DEF JobTyped, JobStays

LEMMA JobGoes ==
  ASSUME JobTyped, NEW j \in Jobs, NEW at \in JobAts, work' = [work EXCEPT ![j].at = at]
  PROVE  /\ work' \in [Jobs -> JobType] /\ JobStays(j)
         /\ work'[j].at = at /\ work'[j].vm = work[j].vm
<1>1. work[j] \in JobType
  BY DEF JobTyped
<1>2. [work[j] EXCEPT !.at = at] \in JobType
  BY <1>1 DEF JobType
<1>3. work' = [work EXCEPT ![j] = [work[j] EXCEPT !.at = at]]
  OBVIOUS
<1>4. [work[j] EXCEPT !.at = at].at = at /\ [work[j] EXCEPT !.at = at].vm = work[j].vm
  BY <1>1 DEF JobType
<1>. QED
  BY <1>2, <1>3, <1>4, JobWritten

LEMMA JobIsGone ==
  ASSUME JobTyped, NEW j \in Jobs, work' = [work EXCEPT ![j] = Gone(@)]
  PROVE  work' \in [Jobs -> JobType] /\ JobStays(j) /\ work'[j].at = "returned"
<1>1. work[j] \in JobType
  BY DEF JobTyped
<1>2. Gone(work[j]) \in JobType /\ Gone(work[j]).at = "returned"
  BY <1>1 DEF Gone, JobType, JobAts
<1>. QED
  BY <1>2, JobWritten

\* What is the same in every step of a job.
LEMMA JobFrame ==
  ASSUME PluginSound, UNCHANGED manager
  PROVE  ManagerStays
BY SoundParts DEF ManagerStays

LEMMA StartJobSound ==
  ASSUME PluginAssumption, PluginSound, NEW j \in Jobs, StartJob(j)
  PROVE  PluginSound'
<1>1. UNCHANGED <<manager, lua, admin, call, teardowns, closer>>
  BY DEF StartJob
<1>2. PICK v \in VMs, r \in JobType :
        work' = [work EXCEPT ![j] = r] /\ r.at = "accepted" /\ r.vm = v /\ ~Unbegun(v)
  <2>1. \A v \in VMs, g \in Goroutines :
          LET r == [NoJob EXCEPT !.at = "accepted", !.vm = v, !.by = g] IN
          r \in JobType /\ r.at = "accepted" /\ r.vm = v
    BY DEF NoJob, JobType, JobAts
  <2>2. \A v \in VMs :
          LET r == [NoJob EXCEPT !.at = "accepted", !.vm = v] IN
          r \in JobType /\ r.at = "accepted" /\ r.vm = v
    BY DEF NoJob, JobType, JobAts, Goroutines
  <2>3. CASE \E v \in manager.actions :
               work' = [work EXCEPT ![j] = [NoJob EXCEPT !.at = "accepted", !.vm = v]]
    <3>1. \A v \in manager.actions : v \in VMs /\ ~Unbegun(v)
      BY SoundParts, KnownBegun DEF ManagerType
    <3>. QED  BY <2>2, <2>3, <3>1
  <2>4. CASE \E v \in VMs : \E g \in Inside(v) :
               Live(v) /\ work' = [work EXCEPT ![j] =
                           [NoJob EXCEPT !.at = "accepted", !.vm = v, !.by = g]]
    <3>1. \A v \in VMs : Inside(v) \subseteq Goroutines
      BY DEF Inside, Goroutines
    <3>2. \A v \in VMs : Live(v) => ~Unbegun(v)
      BY KnownBegun DEF Live
    <3>. QED  BY <2>1, <2>4, <3>1, <3>2
  <2>. QED  BY <2>3, <2>4 DEF StartJob
<1>3. /\ work' \in [Jobs -> JobType] /\ JobStays(j)
      /\ work'[j].at = "accepted" /\ work'[j].vm = v
  BY <1>2, SoundJobs, JobWritten
<1>4. JobMoves(j)
  BY <1>1, <1>2, <1>3, SoundParts, JobFrame DEF JobMoves, ClosesStay
<1>. QED
  BY <1>1, <1>3, <1>4, JobRuns

LEMMA JoinGroupSound ==
  ASSUME PluginAssumption, PluginSound, NEW j \in Jobs, JoinGroup(j)
  PROVE  PluginSound'
<1>1. /\ work[j].at = "accepted" /\ UNCHANGED <<lua, admin, call, teardowns, closer>>
      /\ manager' = [manager EXCEPT !.group = IF @ = Nobody THEN j ELSE @]
  BY DEF JoinGroup
<1>a. work' = [work EXCEPT ![j].at = "waiting", ![j].listed = TRUE, ![j].group = manager'.group]
  BY DEF JoinGroup
<1>2. ManagerStays /\ manager'.group \in Jobs \cup {Nobody}
  BY <1>1, SoundParts DEF ManagerType, ManagerStays
<1>3. /\ work' \in [Jobs -> JobType] /\ JobStays(j)
      /\ work'[j].at = "waiting" /\ work'[j].vm = work[j].vm
  <2>. DEFINE r == [work[j] EXCEPT !.at = "waiting", !.listed = TRUE, !.group = manager'.group]
  <2>1. work[j] \in JobType
    BY SoundJobs DEF JobTyped
  <2>2. r \in JobType /\ r.at = "waiting" /\ r.vm = work[j].vm
    BY <1>2, <2>1 DEF JobType, JobAts
  <2>3. work' = [work EXCEPT ![j] = r]
    BY <1>a
  <2>. HIDE DEF r
  <2>. QED  BY <2>2, <2>3, SoundJobs, JobWritten
<1>4. JobMoves(j)
  BY <1>1, <1>2, <1>3, SoundParts DEF JobMoves, ClosesStay, BegunInHand
<1>. QED
  BY <1>1, <1>3, <1>4, JobRuns

LEMMA TakeSlotSound ==
  ASSUME PluginAssumption, PluginSound, NEW j \in Jobs, TakeSlot(j)
  PROVE  PluginSound'
<1>1. /\ work[j].at = "waiting" /\ UNCHANGED <<manager, lua, admin, call, teardowns, closer>>
      /\ work' = [work EXCEPT ![j].at = "running", ![j].status = "running"]
  BY DEF TakeSlot
<1>2. /\ work' \in [Jobs -> JobType] /\ JobStays(j)
      /\ work'[j].at = "running" /\ work'[j].vm = work[j].vm
  <2>. DEFINE r == [work[j] EXCEPT !.at = "running", !.status = "running"]
  <2>1. work[j] \in JobType
    BY SoundJobs DEF JobTyped
  <2>2. r \in JobType /\ r.at = "running" /\ r.vm = work[j].vm
    BY <2>1 DEF JobType, JobAts
  <2>3. work' = [work EXCEPT ![j] = r]
    BY <1>1, SoundJobs DEF JobTyped
  <2>. HIDE DEF r
  <2>. QED  BY <2>2, <2>3, SoundJobs, JobWritten
<1>3. JobMoves(j)
  BY <1>1, <1>2, SoundParts, JobFrame DEF JobMoves, ClosesStay, BegunInHand
<1>. QED
  BY <1>1, <1>2, <1>3, JobRuns

LEMMA EnterJobSound ==
  ASSUME PluginAssumption, PluginSound, NEW j \in Jobs, EnterJob(j)
  PROVE  PluginSound'
<1>. DEFINE v == work[j].vm
<1>1. /\ work[j].at \in {"running", "locked"} /\ UNCHANGED <<manager, admin, call, teardowns, closer>>
  BY DEF EnterJob
<1>2. v \in VMs /\ ~Unbegun(v) /\ ManagerStays
  BY <1>1, SoundParts, JobFrame DEF BegunInHand
<1>3. /\ j \in Goroutines /\ Nobody \in Goroutines /\ j \notin Admins /\ j \notin Callers
  BY DEF Goroutines, PluginAssumption
<1>4. CASE work[j].at = "running" /\ Take(v, j) /\ work' = [work EXCEPT ![j].at = "locked"]
  <2>1. work' \in [Jobs -> JobType] /\ JobStays(j) /\ work'[j].at = "locked" /\ work'[j].vm = v
    <3>1. work' = [work EXCEPT ![j].at = "locked"]
      BY <1>4
    <3>. QED  BY <3>1, SoundJobs, JobGoes DEF JobAts
  <2>2. lua[v].holder = Nobody /\ lua' \in LuaType /\ lua'[v].holder = j /\ ClosesStay /\ HoldersStay(v)
    <3>1. Take(v, j)
      BY <1>4
    <3>. QED  BY <3>1, <1>2, <1>3, SoundParts, LockTaken DEF Take
  <2>3. JobMoves(j)
    BY <1>1, <1>2, <2>1, <2>2 DEF JobMoves
  <2>4. \A w \in VMs : Holding(w)' \subseteq Holding(w) \cup (IF w = v THEN {j} ELSE {})
    BY <1>1, <2>1 DEF Holding, JobStays
  <2>. QED  BY <1>2, <2>2, <2>3, <2>4, SoundParts, HolderComes, JobLeaves
<1>5. CASE work[j].at = "running" /\ work' = [work EXCEPT ![j] = Gone(@)] /\ UNCHANGED lua
  <2>1. work' \in [Jobs -> JobType] /\ JobStays(j) /\ work'[j].at = "returned"
    BY <1>5, SoundJobs, JobIsGone
  <2>2. JobMoves(j)
    BY <1>1, <1>2, <1>5, <2>1, SoundParts DEF JobMoves, ClosesStay, InHand
  <2>. QED  BY <1>5, <2>1, <2>2, JobRuns
<1>6. CASE work[j].at = "locked" /\ Live(v) /\ work' = [work EXCEPT ![j].at = "lua"] /\ UNCHANGED lua
  <2>1. work' \in [Jobs -> JobType] /\ JobStays(j) /\ work'[j].at = "lua" /\ work'[j].vm = v
    BY <1>6, SoundJobs, JobGoes DEF JobAts
  <2>2. JobMoves(j)
    BY <1>1, <1>2, <1>6, <2>1, SoundParts DEF JobMoves, ClosesStay, InHand
  <2>. QED  BY <1>6, <2>1, <2>2, JobRuns
<1>7. CASE work[j].at = "locked" /\ work' = [work EXCEPT ![j] = Gone(@)] /\ Free(v)
  <2>1. work' \in [Jobs -> JobType] /\ JobStays(j) /\ work'[j].at = "returned"
    BY <1>7, SoundJobs, JobIsGone
  <2>2. lua' \in LuaType /\ ClosesStay
    BY <1>7, <1>2, <1>3, SoundParts, LockTaken DEF Free
  <2>3. JobMoves(j)
    BY <1>1, <1>2, <2>1, <2>2 DEF JobMoves, InHand
  <2>. QED  BY <1>7, <2>1, <2>3, JobReleases
<1>. QED
  BY <1>4, <1>5, <1>6, <1>7 DEF EnterJob, StillRegistered

LEMMA HandlerEndsSound ==
  ASSUME PluginAssumption, PluginSound, NEW j \in Jobs, HandlerEnds(j)
  PROVE  PluginSound'
<1>1. work[j].at = "lua" /\ Free(work[j].vm) /\ UNCHANGED <<manager, admin, call, teardowns, closer>>
  BY DEF HandlerEnds
<1>2. PICK r \in {"none", "table", "error"} :
        work' = [work EXCEPT ![j].at = "returned", ![j].vm = NoVM, ![j].result = r]
  BY DEF HandlerEnds
<1>3. work' \in [Jobs -> JobType] /\ JobStays(j) /\ work'[j].at = "returned"
  <2>. DEFINE w == [work[j] EXCEPT !.at = "returned", !.vm = NoVM, !.result = r]
  <2>1. work[j] \in JobType
    BY SoundJobs DEF JobTyped
  <2>2. w \in JobType /\ w.at = "returned"
    BY <2>1 DEF JobType, JobAts
  <2>3. work' = [work EXCEPT ![j] = w]
    BY <1>2, SoundJobs DEF JobTyped
  <2>. HIDE DEF w
  <2>. QED  BY <2>2, <2>3, SoundJobs, JobWritten
<1>4. work[j].vm \in VMs /\ Nobody \in Goroutines
  BY <1>1, SoundParts DEF BegunInHand, Goroutines
<1>5. lua' \in LuaType /\ ClosesStay
  BY <1>1, <1>4, SoundParts, LockTaken DEF Free
<1>6. JobMoves(j)
  BY <1>1, <1>3, <1>5, JobFrame DEF JobMoves, InHand
<1>. QED
  BY <1>1, <1>3, <1>6, JobReleases

\* Report, ClearJob and Settle write the job's record alone.
LEMMA RecordSound ==
  ASSUME PluginSound, NEW j \in Jobs, Report(j) \/ ClearJob(j) \/ Settle(j)
  PROVE  PluginSound'
<1>1. UNCHANGED <<manager, lua, admin, call, teardowns, closer>>
  BY DEF Report, ClearJob, Settle
<1>2. /\ work' \in [Jobs -> JobType] /\ JobStays(j)
      /\ \/ work'[j].at = work[j].at /\ work'[j].vm = work[j].vm
         \/ work'[j].at \notin InHand
  <2>1. CASE Report(j)
    BY <2>1, SoundJobs DEF JobTyped, Report, Finished, JobType, JobStays
  <2>2. CASE ClearJob(j)
    BY <2>2, SoundJobs DEF JobTyped, ClearJob, JobType, JobStays
  <2>3. CASE Settle(j)
    <3>1. PICK r : work' = [work EXCEPT ![j] = r] /\ r \in JobType /\ r.at \notin InHand
      <4>1. work[j] \in JobType
        BY SoundJobs DEF JobTyped
      <4>2. [NoJob EXCEPT !.at = "gone"] \in JobType /\ [NoJob EXCEPT !.at = "gone"].at \notin InHand
        BY DEF NoJob, JobType, JobAts, Goroutines, InHand
      <4>3. CASE work[j].at = "returned" /\ work' = [work EXCEPT ![j].result = "none",
                      ![j].status = IF Decided(work[j]) THEN @ ELSE "completed"]
        <5>. DEFINE r == [work[j] EXCEPT !.result = "none",
                      !.status = IF Decided(work[j]) THEN @ ELSE "completed"]
        <5>1. r \in JobType /\ r.at = "returned"
          BY <4>1, <4>3 DEF JobType, Finished
        <5>2. work' = [work EXCEPT ![j] = r]
          BY <4>3
        <5>. QED  BY <5>1, <5>2 DEF InHand
      <4>4. CASE work' = [work EXCEPT ![j].at = IF AlreadyDone(work[j]) THEN "ended" ELSE "settling"]
        <5>. DEFINE r == [work[j] EXCEPT !.at = IF AlreadyDone(work[j]) THEN "ended" ELSE "settling"]
        <5>1. r \in JobType /\ r.at \in {"ended", "settling"}
          BY <4>1 DEF JobType, JobAts
        <5>2. work' = [work EXCEPT ![j] = r]
          BY <4>4
        <5>. QED  BY <5>1, <5>2 DEF InHand
      <4>5. CASE work' = [work EXCEPT ![j].at = "ended",
                      ![j].status = IF work[j].result = "error" THEN "failed" ELSE "completed"]
        <5>. DEFINE r == [work[j] EXCEPT !.at = "ended",
                      !.status = IF work[j].result = "error" THEN "failed" ELSE "completed"]
        <5>1. r \in JobType /\ r.at = "ended"
          BY <4>1 DEF JobType, JobAts, Finished
        <5>2. work' = [work EXCEPT ![j] = r]
          BY <4>5
        <5>. QED  BY <5>1, <5>2 DEF InHand
      <4>6. CASE work' = [work EXCEPT ![j] = [NoJob EXCEPT !.at = "gone"]]
        BY <4>2, <4>6
      <4>. QED
        BY <2>3, <4>3, <4>4, <4>5, <4>6 DEF Settle
    <3>. QED  BY <3>1, SoundJobs, JobWritten
  <2>. QED  BY <2>1, <2>2, <2>3
<1>3. JobMoves(j)
  BY <1>1, <1>2, SoundParts, JobFrame DEF JobMoves, ClosesStay, BegunInHand, InHand
<1>. QED
  BY <1>1, <1>2, <1>3, JobRuns DEF InHand

-----------------------------------------------------------------------------
(* The administrators                                                        *)

\* Where an administrator has its VM's lock.
HoldsAt == {"init", "published", "abandon", "abandoned"}

UnbegunShrinks == \A v \in VMs : Unbegun(v)' => Unbegun(v)

\* A step of a that touches no lock, no entry of vmLocks and no teardown.
QuietMoves(a) ==
  /\ UNCHANGED <<lua, call, work, teardowns, closer>>
  /\ admin' \in [Admins -> AdminType] /\ OthersStay(a)
  /\ manager' \in ManagerType
  /\ manager'.closed = manager.closed /\ manager'.locks = manager.locks
  /\ manager'.actions = manager.actions
  /\ admin'[a].at \in HoldsAt => admin[a].at \in HoldsAt /\ admin'[a].vm = admin[a].vm
  /\ admin'[a].at = "init" => admin[a].at = "init"

LEMMA BegunStays ==
  ASSUME BegunInHand, UnbegunShrinks, UNCHANGED <<call, work>>
  PROVE  BegunInHand'
BY DEF BegunInHand, UnbegunShrinks

LEMMA QuietLeaves ==
  ASSUME PluginSound, NEW a \in Admins, QuietMoves(a), UnbegunShrinks,
         LoadsAlone', OneTeardown', OwnTeardowns', DisablesSeeAll', CloserSees'
  PROVE  PluginSound'
<1>1. PluginTypeOK'
  BY DEF PluginSound, PluginTypeOK, QuietMoves
<1>2. HoldersKnown'
  <2>1. \A w \in VMs : Holding(w)' \subseteq Holding(w)
    BY DEF Holding, QuietMoves, OthersStay, HoldsAt
  <2>. QED  BY <2>1, SoundParts, HoldersSame DEF QuietMoves
<1>3. BegunInHand'
  BY SoundParts, BegunStays DEF QuietMoves
<1>4. RegistrationsLive' /\ ClosedOnce'
  BY SoundParts DEF RegistrationsLive, ClosedOnce, QuietMoves
<1>5. ClosedEmpty'
  <2>1. \A w \in VMs : Inside(w)' \subseteq Inside(w)
    BY DEF Inside, QuietMoves, OthersStay, HoldsAt
  <2>. QED  BY <2>1, SoundParts DEF ClosedEmpty, QuietMoves
<1>. QED
  BY <1>1, <1>2, <1>3, <1>4, <1>5 DEF PluginSound, PluginStrengthening

\* Every VM that is live stays published, or in the hands of its load.
LEMMA QuietTeardowns ==
  ASSUME PluginSound, NEW a \in Admins, QuietMoves(a), UnbegunShrinks,
         manager'.published = manager.published,
         admin[a].at \in {"init", "abandon"} =>
           admin'[a].at \in {"init", "abandon"} /\ admin'[a].vm = admin[a].vm
  PROVE  OneTeardown'
<1>1. OneTeardown /\ manager.locks \subseteq VMs /\ \A t \in teardowns : t.vm \in VMs
  BY SoundParts DEF ManagerType, TeardownType
<1>. QED
  BY <1>1 DEF OneTeardown, QuietMoves, UnbegunShrinks, OthersStay

LEMMA QuietOwn ==
  ASSUME PluginSound, NEW a \in Admins, QuietMoves(a), \A t \in teardowns : t.by # a
  PROVE  OwnTeardowns'
BY SoundParts DEF OwnTeardowns, QuietMoves, OthersStay

\* Only who is where its teardown is known waits for one.
LEMMA NoneBefore ==
  ASSUME PluginSound, NEW a \in Admins, admin[a].at \notin {"abandoned", "ending", "teardown"}
  PROVE  \A t \in teardowns : t.by # a
BY SoundParts DEF OwnTeardowns

LEMMA QuietCloser ==
  ASSUME PluginSound, NEW a \in Admins, QuietMoves(a), manager'.published = manager.published
  PROVE  CloserSees'
BY SoundParts DEF CloserSees, QuietMoves

Disables == {"await", "await2", "look", "wait", "teardown", "answered"}

\* A step of a load, as those who disable see it.
LEMMA LoadSeen ==
  ASSUME PluginSound, NEW a \in Admins, OthersStay(a), UnbegunShrinks,
         admin' \in [Admins -> AdminType],
         admin'[a].at \notin Disables, admin'[a].before \in {{}, admin[a].before},
         manager'.fresh \subseteq manager.fresh, manager'.locks \subseteq manager.locks,
         manager'.loading \in {NoVM, manager.loading}, PluginAssumption
  PROVE  DisablesSeeAll'
<1>1. \A b \in Admins : admin[b].before \subseteq VMs /\ NoVM \notin admin[b].before
  BY SoundParts DEF AdminType, PluginAssumption
<1>2. DisablesSeeAll
  BY SoundParts
<1>3. ASSUME NEW b \in Admins \ {a}
      PROVE  /\ admin[b].before \cap manager'.fresh = {}
             /\ admin[b].at \in {"await", "await2"} => ~admin[b].waited
             /\ admin[b].at \in {"look", "wait", "teardown", "answered"} => \A v \in admin[b].before : ~Unbegun(v)'
             /\ admin[b].at = "look" /\ admin[b].waited => manager'.loading \notin admin[b].before
             /\ admin[b].at = "wait" => manager'.loading \notin admin[b].before \ {admin[b].vm}
             /\ admin[b].at \in {"teardown", "answered"} => admin[b].before \cap manager'.locks = {}
  BY <1>1, <1>2 DEF DisablesSeeAll, UnbegunShrinks
<1>4. admin'[a].before \cap manager'.fresh = {}
  BY <1>2 DEF DisablesSeeAll
<1>. QED
  BY <1>3, <1>4 DEF DisablesSeeAll, OthersStay, Disables

\* The administrator that enables is the only one, and its VM is a VM.
LEMMA EnablerAlone ==
  ASSUME PluginAssumption, PluginSound, NEW a \in Admins, admin[a].at \in Enabling
  PROVE  /\ admin[a].vm \in VMs /\ admin[a].vm \notin manager.fresh /\ admin[a].vm # NoVM
         /\ manager.enabling = admin[a].vm
         /\ \A b \in Admins \ {a} : admin[b].at \notin Enabling
         /\ manager.loading = IF admin[a].at \in {"claimed", "absent", "unclaim"} THEN NoVM
                              ELSE admin[a].vm
         /\ admin[a].at \in {"absent", "init", "abandon"} => manager.published = NoVM
BY SoundParts DEF LoadsAlone, PluginAssumption

\* A step of the load that keeps the claim and what is loading and published.
LEMMA LoadGoesOn ==
  ASSUME PluginAssumption, PluginSound, NEW a \in Admins, NEW at \in Enabling,
         admin[a].at \in Enabling, admin' = [admin EXCEPT ![a].at = at],
         UNCHANGED <<manager, lua, call, work, teardowns, closer>>,
         admin[a].at \in {"claimed", "absent", "unclaim"} <=> at \in {"claimed", "absent", "unclaim"},
         at \in {"absent", "init", "abandon"} => manager.published = NoVM,
         at \in {"claimed", "absent"} => admin[a].at \in {"claimed", "absent"},
         at \in HoldsAt => admin[a].at \in HoldsAt,
         at = "init" => admin[a].at = "init",
         admin[a].at \in {"init", "abandon"} <=> at \in {"init", "abandon"},
         admin[a].at \notin {"abandoned", "ending"}
  PROVE  PluginSound'
<1>1. /\ admin' \in [Admins -> AdminType] /\ OthersStay(a)
      /\ admin'[a].at = at /\ admin'[a].vm = admin[a].vm
      /\ admin'[a].waited = admin[a].waited /\ admin'[a].before = admin[a].before
  BY SoundParts, AdminGoes DEF Enabling, AdminAts
<1>2. QuietMoves(a)
  BY <1>1, SoundParts DEF QuietMoves
<1>3. UnbegunShrinks
  BY <1>1 DEF UnbegunShrinks, Unbegun, OthersStay
<1>4. LoadsAlone'
  BY <1>1, SoundParts DEF LoadsAlone, OthersStay
<1>5. OneTeardown' /\ CloserSees'
  BY <1>1, <1>2, <1>3, QuietTeardowns, QuietCloser
<1>6. OwnTeardowns'
  BY <1>2, NoneBefore, QuietOwn DEF Enabling
<1>7. DisablesSeeAll'
  BY <1>1, <1>3, LoadSeen DEF Enabling, Disables
<1>. QED
  BY <1>2, <1>3, <1>4, <1>5, <1>6, <1>7, QuietLeaves

LEMMA ClaimSound ==
  ASSUME PluginAssumption, PluginSound, NEW a \in Admins, Claim(a)
  PROVE  PluginSound'
<1>1. PICK v \in manager.fresh :
        /\ manager' = [manager EXCEPT !.enabling = v, !.fresh = @ \ {v}]
        /\ admin' = [admin EXCEPT ![a] = [Idle EXCEPT !.at = "claimed", !.vm = v]]
  BY DEF Claim
<1>2. /\ admin[a].at = "idle" /\ ~manager.closed /\ manager.enabling = NoVM
      /\ UNCHANGED <<lua, call, work, teardowns, closer>>
  BY DEF Claim
<1>3. /\ v \in VMs /\ v # NoVM /\ manager' \in ManagerType
      /\ manager'.enabling = v /\ manager'.fresh = manager.fresh \ {v}
      /\ manager'.closed = manager.closed /\ manager'.loading = manager.loading
      /\ manager'.published = manager.published /\ manager'.locks = manager.locks
      /\ manager'.actions = manager.actions
  BY <1>1, SoundParts DEF ManagerType, PluginAssumption
<1>4. /\ admin' \in [Admins -> AdminType] /\ OthersStay(a)
      /\ admin'[a].at = "claimed" /\ admin'[a].vm = v /\ admin'[a].before = {}
  BY <1>1, <1>3, SoundParts DEF AdminType, AdminAts, OthersStay, Idle
<1>5. QuietMoves(a)
  BY <1>2, <1>3, <1>4 DEF QuietMoves, HoldsAt
<1>6. UnbegunShrinks
  BY <1>1, <1>3, <1>4 DEF UnbegunShrinks, Unbegun, OthersStay
<1>7. \A b \in Admins : admin[b].at \notin Enabling
  BY <1>2, EnablerAlone
<1>8. LoadsAlone'
  BY <1>1, <1>2, <1>3, <1>4, <1>7, SoundParts DEF LoadsAlone, OthersStay, Enabling
<1>9. OneTeardown' /\ CloserSees' /\ OwnTeardowns'
  BY <1>2, <1>3, <1>4, <1>5, <1>6, QuietTeardowns, QuietCloser, QuietOwn, NoneBefore
<1>10. DisablesSeeAll'
  BY <1>3, <1>4, <1>6, LoadSeen DEF Disables
<1>. QED
  BY <1>5, <1>6, <1>8, <1>9, <1>10, QuietLeaves

\* The claim ends, with the load's end or without a load.
LEMMA UnclaimSound ==
  ASSUME PluginAssumption, PluginSound, NEW a \in Admins,
         admin[a].at \in {"claimed", "unclaim"},
         manager' = [manager EXCEPT !.enabling = NoVM], admin' = [admin EXCEPT ![a] = Idle],
         UNCHANGED <<lua, call, work, teardowns, closer>>
  PROVE  PluginSound'
<1>1. /\ manager' \in ManagerType
      /\ manager'.enabling = NoVM /\ manager'.fresh = manager.fresh
      /\ manager'.closed = manager.closed /\ manager'.loading = manager.loading
      /\ manager'.published = manager.published /\ manager'.locks = manager.locks
      /\ manager'.actions = manager.actions
  BY SoundParts DEF ManagerType
<1>2. /\ admin' \in [Admins -> AdminType] /\ OthersStay(a)
      /\ admin'[a].at = "idle" /\ admin'[a].before = {}
  BY SoundParts, AdminRests
<1>3. QuietMoves(a)
  BY <1>1, <1>2 DEF QuietMoves, HoldsAt
<1>4. UnbegunShrinks
  BY <1>1, <1>2 DEF UnbegunShrinks, Unbegun, OthersStay
<1>5. manager.loading = NoVM /\ \A b \in Admins \ {a} : admin[b].at \notin Enabling
  BY EnablerAlone DEF Enabling
<1>6. LoadsAlone'
  BY <1>1, <1>2, <1>5, SoundParts DEF LoadsAlone, OthersStay, Enabling, ManagerType, PluginAssumption
<1>7. OneTeardown' /\ CloserSees' /\ OwnTeardowns'
  BY <1>1, <1>2, <1>3, <1>4, QuietTeardowns, QuietCloser, QuietOwn, NoneBefore
<1>8. DisablesSeeAll'
  BY <1>1, <1>2, <1>4, LoadSeen DEF Disables
<1>. QED
  BY <1>3, <1>4, <1>6, <1>7, <1>8, QuietLeaves

\* A VM whose load has not begun is in nobody's hand.
LEMMA UnbegunFree ==
  ASSUME PluginAssumption, PluginSound, NEW a \in Admins, admin[a].at = "absent"
  PROVE  Holding(admin[a].vm) = {}
<1>. DEFINE v == admin[a].vm
<1>1. v \in VMs /\ \A b \in Admins \ {a} : admin[b].at \notin Enabling
  BY EnablerAlone DEF Enabling
<1>2. Unbegun(v)
  BY DEF Unbegun
<1>3. \A b \in Admins : ~(admin[b].at \in HoldsAt /\ admin[b].vm = v)
  BY <1>1 DEF Enabling, HoldsAt
<1>4. \A c \in Callers : ~(call[c].at \in {"locked", "lua"} /\ call[c].vm = v)
  BY <1>2, SoundParts DEF BegunInHand
<1>5. \A j \in Jobs : ~(work[j].at \in {"locked", "lua"} /\ work[j].vm = v)
  BY <1>2, SoundParts DEF BegunInHand
<1>. QED
  BY <1>3, <1>4, <1>5 DEF Holding, HoldsAt

LEMMA LoadBeginsSound ==
  ASSUME PluginAssumption, PluginSound, NEW a \in Admins,
         admin[a].at = "absent", ~manager.closed,
         manager' = [manager EXCEPT !.locks = @ \cup {admin[a].vm}, !.loading = admin[a].vm],
         lua' = [lua EXCEPT ![admin[a].vm].holder = a],
         admin' = [admin EXCEPT ![a].at = "init"],
         UNCHANGED <<call, work, teardowns, closer>>
  PROVE  PluginSound'
<1>. DEFINE v == admin[a].vm
<1>1. /\ v \in VMs /\ v # NoVM /\ v \notin manager.fresh /\ manager.enabling = v /\ manager.published = NoVM
      /\ \A b \in Admins \ {a} : admin[b].at \notin Enabling
  BY EnablerAlone DEF Enabling
<1>2. Unbegun(v) /\ lua[v].closes = 0 /\ v \notin manager.locks \cup manager.actions
  BY <1>1, SoundParts DEF Unbegun, OneTeardown
<1>3. /\ manager' \in ManagerType
      /\ manager'.enabling = manager.enabling /\ manager'.fresh = manager.fresh
      /\ manager'.closed = manager.closed /\ manager'.loading = v
      /\ manager'.published = manager.published /\ manager'.locks = manager.locks \cup {v}
      /\ manager'.actions = manager.actions
  BY <1>1, SoundParts DEF ManagerType
<1>4. /\ admin' \in [Admins -> AdminType] /\ OthersStay(a)
      /\ admin'[a].at = "init" /\ admin'[a].vm = v
      /\ admin'[a].waited = admin[a].waited /\ admin'[a].before = admin[a].before
  BY SoundParts, AdminGoes DEF AdminAts
<1>5. lua' \in LuaType /\ lua'[v].holder = a /\ ClosesStay /\ HoldersStay(v)
  BY <1>1, SoundParts, LockTaken DEF Goroutines
<1>6. UnbegunShrinks /\ ~Unbegun(v)'
  BY <1>1, <1>3, <1>4 DEF UnbegunShrinks, Unbegun, OthersStay, Enabling
<1>7. PluginTypeOK'
  BY <1>3, <1>4, <1>5 DEF PluginSound, PluginTypeOK, LuaType
<1>8. LoadsAlone'
  BY <1>1, <1>3, <1>4, SoundParts DEF LoadsAlone, OthersStay, Enabling
<1>9. HoldersKnown'
  <2>1. Holding(v) = {}
    BY UnbegunFree
  <2>2. \A w \in VMs : Holding(w)' \subseteq Holding(w) \cup (IF w = v THEN {a} ELSE {})
    BY <1>4 DEF Holding, OthersStay
  <2>. QED  BY <1>5, <2>1, <2>2, SoundParts DEF HoldersKnown, HoldersStay
<1>10. OneTeardown'
  <2>1. OneTeardown /\ manager.locks \subseteq VMs /\ \A t \in teardowns : t.vm \in VMs
    BY SoundParts DEF ManagerType, TeardownType
  <2>2. \A w \in VMs : Unbegun(w)' =>
          /\ w \notin manager'.locks \cup manager'.actions \cup {manager'.published}
          /\ lua'[w].closes = 0
    BY <1>1, <1>3, <1>5, <1>6, <2>1 DEF OneTeardown, UnbegunShrinks, ClosesStay
  <2>3. \A w \in manager'.locks :
          /\ lua'[w].closes = 0
          /\ \/ manager'.published = w
             \/ \E b \in Admins : admin'[b].at \in {"init", "abandon"} /\ admin'[b].vm = w
    BY <1>1, <1>2, <1>3, <1>4, <1>5, <2>1 DEF OneTeardown, OthersStay, ClosesStay
  <2>4. \A t \in teardowns : t.vm # v
    BY <1>2, <2>1 DEF OneTeardown
  <2>. QED  BY <1>3, <1>5, <1>6, <2>1, <2>2, <2>3, <2>4 DEF OneTeardown, UnbegunShrinks, ClosesStay
<1>11. BegunInHand'
  BY <1>6, SoundParts, BegunStays
<1>12. OwnTeardowns'
  BY <1>4, NoneBefore, SoundParts DEF OwnTeardowns, OthersStay
<1>13. DisablesSeeAll'
  <2>1. \A b \in Admins :
          admin[b].at \in {"look", "wait", "teardown", "answered"} => v \notin admin[b].before
    BY <1>1, <1>2, SoundParts DEF DisablesSeeAll
  <2>2. \A b \in Admins : admin[b].before \subseteq VMs
    BY SoundParts DEF AdminType
  <2>. QED  BY <2>1, <2>2, <1>3, <1>4, <1>6, SoundParts DEF DisablesSeeAll, OthersStay, UnbegunShrinks
<1>14. CloserSees' /\ RegistrationsLive' /\ ClosedOnce'
  BY <1>1, <1>3, <1>5, SoundParts DEF CloserSees, RegistrationsLive, ClosedOnce, ClosesStay
<1>15. ClosedEmpty'
  <2>1. \A w \in VMs \ {v} : Inside(w)' \subseteq Inside(w)
    BY <1>4 DEF Inside, OthersStay
  <2>. QED  BY <1>2, <1>5, <2>1, SoundParts DEF ClosedEmpty, ClosesStay
<1>. QED
  BY <1>7, <1>8, <1>9, <1>10, <1>11, <1>12, <1>13, <1>14, <1>15 DEF PluginSound, PluginStrengthening

LEMMA PublishedSound ==
  ASSUME PluginAssumption, PluginSound, NEW a \in Admins,
         admin[a].at = "init", ~manager.closed,
         manager' = [manager EXCEPT !.published = admin[a].vm],
         admin' = [admin EXCEPT ![a].at = "published"],
         UNCHANGED <<lua, call, work, teardowns, closer>>
  PROVE  PluginSound'
<1>. DEFINE v == admin[a].vm
<1>1. /\ v \in VMs /\ v # NoVM /\ v \notin manager.fresh /\ manager.enabling = v
      /\ manager.published = NoVM /\ manager.loading = v
      /\ \A b \in Admins \ {a} : admin[b].at \notin Enabling
  BY EnablerAlone DEF Enabling
<1>2. /\ manager' \in ManagerType
      /\ manager'.enabling = manager.enabling /\ manager'.fresh = manager.fresh
      /\ manager'.closed = manager.closed /\ manager'.loading = manager.loading
      /\ manager'.published = v /\ manager'.locks = manager.locks
      /\ manager'.actions = manager.actions
  BY <1>1, SoundParts DEF ManagerType
<1>3. /\ admin' \in [Admins -> AdminType] /\ OthersStay(a)
      /\ admin'[a].at = "published" /\ admin'[a].vm = v
      /\ admin'[a].waited = admin[a].waited /\ admin'[a].before = admin[a].before
  BY SoundParts, AdminGoes DEF AdminAts
<1>4. QuietMoves(a)
  BY <1>2, <1>3 DEF QuietMoves, HoldsAt
<1>5. UnbegunShrinks /\ ~Unbegun(v)
  BY <1>1, <1>2, <1>3 DEF UnbegunShrinks, Unbegun, OthersStay, Enabling
<1>6. LoadsAlone'
  BY <1>1, <1>2, <1>3, SoundParts DEF LoadsAlone, OthersStay, Enabling
<1>7. OneTeardown'
  <2>1. OneTeardown /\ manager.locks \subseteq VMs /\ \A t \in teardowns : t.vm \in VMs
    BY SoundParts DEF ManagerType, TeardownType
  <2>2. \A w \in manager.locks : w = v
    BY <1>1, <2>1, SoundParts DEF OneTeardown, Enabling, PluginAssumption
  <2>. QED  BY <1>2, <1>5, <2>1, <2>2 DEF OneTeardown, UnbegunShrinks
<1>8. OwnTeardowns'
  BY <1>4, NoneBefore, QuietOwn
<1>9. DisablesSeeAll'
  BY <1>2, <1>3, <1>5, LoadSeen DEF Disables
<1>10. CloserSees'
  BY <1>2, SoundParts DEF CloserSees
<1>. QED
  BY <1>4, <1>5, <1>6, <1>7, <1>8, <1>9, <1>10, QuietLeaves

LEMMA LoadEndsSound ==
  ASSUME PluginAssumption, PluginSound, NEW a \in Admins,
         admin[a].at = "ending", \A t \in teardowns : t.by # a,
         manager' = [manager EXCEPT !.loading = NoVM],
         admin' = [admin EXCEPT ![a].at = "unclaim"],
         UNCHANGED <<lua, call, work, teardowns, closer>>
  PROVE  PluginSound'
<1>1. \A b \in Admins \ {a} : admin[b].at \notin Enabling
  BY EnablerAlone DEF Enabling
<1>2. /\ manager' \in ManagerType
      /\ manager'.enabling = manager.enabling /\ manager'.fresh = manager.fresh
      /\ manager'.closed = manager.closed /\ manager'.loading = NoVM
      /\ manager'.published = manager.published /\ manager'.locks = manager.locks
      /\ manager'.actions = manager.actions
  BY SoundParts DEF ManagerType
<1>3. /\ admin' \in [Admins -> AdminType] /\ OthersStay(a)
      /\ admin'[a].at = "unclaim" /\ admin'[a].vm = admin[a].vm
      /\ admin'[a].waited = admin[a].waited /\ admin'[a].before = admin[a].before
  BY SoundParts, AdminGoes DEF AdminAts
<1>4. QuietMoves(a)
  BY <1>2, <1>3 DEF QuietMoves, HoldsAt
<1>5. UnbegunShrinks
  BY <1>2, <1>3 DEF UnbegunShrinks, Unbegun, OthersStay
<1>6. LoadsAlone'
  BY <1>1, <1>2, <1>3, SoundParts DEF LoadsAlone, OthersStay, Enabling
<1>7. OneTeardown' /\ CloserSees' /\ OwnTeardowns'
  BY <1>2, <1>4, <1>5, QuietTeardowns, QuietCloser, QuietOwn
<1>8. DisablesSeeAll'
  BY <1>2, <1>3, <1>5, LoadSeen DEF Disables
<1>. QED
  BY <1>4, <1>5, <1>6, <1>7, <1>8, QuietLeaves

\* The lock of a VM is released by the administrator that loaded it.
LEMMA LoaderReleases ==
  ASSUME PluginAssumption, PluginSound, NEW a \in Admins,
         admin[a].at \in {"published", "abandoned"}, Free(admin[a].vm),
         admin' = [admin EXCEPT ![a].at = "ending"]
  PROVE  /\ lua' \in LuaType /\ ClosesStay
         /\ admin' \in [Admins -> AdminType] /\ OthersStay(a)
         /\ admin'[a].at = "ending" /\ admin'[a].vm = admin[a].vm
         /\ admin'[a].waited = admin[a].waited /\ admin'[a].before = admin[a].before
         /\ UNCHANGED <<call, work>> => HoldersKnown' /\ \A w \in VMs : Inside(w)' \subseteq Inside(w)
<1>. DEFINE v == admin[a].vm
<1>1. v \in VMs /\ Nobody \in Goroutines /\ a \notin Callers /\ a \notin Jobs
  BY EnablerAlone DEF Enabling, Goroutines, PluginAssumption
<1>2. lua' \in LuaType /\ ClosesStay /\ HoldersStay(v)
  BY <1>1, SoundParts, LockTaken DEF Free
<1>3. /\ admin' \in [Admins -> AdminType] /\ OthersStay(a)
      /\ admin'[a].at = "ending" /\ admin'[a].vm = admin[a].vm
      /\ admin'[a].waited = admin[a].waited /\ admin'[a].before = admin[a].before
  BY SoundParts, AdminGoes DEF AdminAts
<1>4. ASSUME UNCHANGED <<call, work>>
      PROVE  HoldersKnown' /\ \A w \in VMs : Inside(w)' \subseteq Inside(w)
  <2>1. a \in Holding(v) /\ \A w \in VMs : Holding(w)' \subseteq Holding(w) \ {a}
    BY <1>1, <1>3, <1>4 DEF Holding, OthersStay
  <2>2. \A w \in VMs : Inside(w)' \subseteq Inside(w)
    BY <1>3, <1>4 DEF Inside, OthersStay
  <2>. QED  BY <1>1, <1>2, <2>1, <2>2, SoundParts, HolderLeaves
<1>. QED
  BY <1>2, <1>3, <1>4

LEMMA OpenedSound ==
  ASSUME PluginAssumption, PluginSound, NEW a \in Admins, OpenToOthers(a)
  PROVE  PluginSound'
<1>1. /\ admin[a].at = "published" /\ Free(admin[a].vm)
      /\ admin' = [admin EXCEPT ![a].at = "ending"]
      /\ UNCHANGED <<manager, call, work, teardowns, closer>>
  BY DEF OpenToOthers
<1>2. /\ lua' \in LuaType /\ ClosesStay
      /\ admin' \in [Admins -> AdminType] /\ OthersStay(a)
      /\ admin'[a].at = "ending" /\ admin'[a].vm = admin[a].vm
      /\ admin'[a].waited = admin[a].waited /\ admin'[a].before = admin[a].before
      /\ HoldersKnown' /\ \A w \in VMs : Inside(w)' \subseteq Inside(w)
  BY <1>1, LoaderReleases
<1>3. UnbegunShrinks
  BY <1>1, <1>2 DEF UnbegunShrinks, Unbegun, OthersStay
<1>4. PluginTypeOK'
  BY <1>1, <1>2 DEF PluginSound, PluginTypeOK, LuaType
<1>5. LoadsAlone'
  BY <1>1, <1>2, SoundParts DEF LoadsAlone, OthersStay, Enabling
<1>6. OneTeardown'
  <2>1. OneTeardown /\ manager.locks \subseteq VMs /\ \A t \in teardowns : t.vm \in VMs
    BY SoundParts DEF ManagerType, TeardownType
  <2>. QED  BY <1>1, <1>2, <1>3, <2>1 DEF OneTeardown, UnbegunShrinks, OthersStay, ClosesStay
<1>7. BegunInHand'
  BY <1>1, <1>3, SoundParts, BegunStays
<1>8. OwnTeardowns'
  BY <1>1, <1>2, SoundParts DEF OwnTeardowns, OthersStay
<1>9. DisablesSeeAll'
  BY <1>1, <1>2, <1>3, LoadSeen DEF Disables
<1>10. CloserSees' /\ RegistrationsLive' /\ ClosedOnce' /\ ClosedEmpty'
  BY <1>1, <1>2, SoundParts DEF CloserSees, RegistrationsLive, ClosedOnce, ClosedEmpty, ClosesStay
<1>. QED
  BY <1>2, <1>4, <1>5, <1>6, <1>7, <1>8, <1>9, <1>10 DEF PluginSound, PluginStrengthening

LEMMA AbandonedSound ==
  ASSUME PluginAssumption, PluginSound, NEW a \in Admins,
         admin[a].at = "abandoned", Free(admin[a].vm),
         admin' = [admin EXCEPT ![a].at = "ending"],
         teardowns' = {IF t.by = a THEN [t EXCEPT !.at = "group"] ELSE t : t \in teardowns},
         UNCHANGED <<manager, call, work, closer>>
  PROVE  PluginSound'
<1>2. /\ lua' \in LuaType /\ ClosesStay
      /\ admin' \in [Admins -> AdminType] /\ OthersStay(a)
      /\ admin'[a].at = "ending" /\ admin'[a].vm = admin[a].vm
      /\ admin'[a].waited = admin[a].waited /\ admin'[a].before = admin[a].before
      /\ HoldersKnown' /\ \A w \in VMs : Inside(w)' \subseteq Inside(w)
  BY LoaderReleases
<1>3. UnbegunShrinks
  BY <1>2 DEF UnbegunShrinks, Unbegun, OthersStay
<1>4. \A u \in teardowns' : u \in TeardownType /\ \E t \in teardowns :
        u.vm = t.vm /\ u.by = t.by /\ (u = t \/ (t.by = a /\ u = [t EXCEPT !.at = "group"] /\ u.at = "group"))
  <2>1. \A t \in TeardownType :
          LET u == [t EXCEPT !.at = "group"] IN
          u \in TeardownType /\ u.vm = t.vm /\ u.by = t.by /\ u.at = "group"
    BY DEF TeardownType
  <2>2. teardowns \subseteq TeardownType
    BY SoundParts
  <2>3. ASSUME NEW u \in teardowns'
        PROVE  u \in TeardownType /\ \E t \in teardowns : /\ u.vm = t.vm /\ u.by = t.by
                 /\ (u = t \/ (t.by = a /\ u = [t EXCEPT !.at = "group"] /\ u.at = "group"))
    <3>1. PICK t \in teardowns : u = IF t.by = a THEN [t EXCEPT !.at = "group"] ELSE t
      OBVIOUS
    <3>2. CASE t.by = a
      <4>. DEFINE r == [t EXCEPT !.at = "group"]
      <4>1. r \in TeardownType /\ r.vm = t.vm /\ r.by = t.by /\ r.at = "group"
        BY <2>1, <2>2
      <4>2. u = r
        BY <3>1, <3>2
      <4>. QED  BY <3>2, <4>1, <4>2
    <3>3. CASE t.by # a
      BY <2>2, <3>1, <3>3
    <3>. QED  BY <3>2, <3>3
  <2>. QED  BY <2>3
<1>5. PluginTypeOK'
  <2>1. teardowns' \subseteq TeardownType
    BY <1>4
  <2>. QED  BY <1>2, <2>1 DEF PluginSound, PluginTypeOK, LuaType
<1>6. LoadsAlone'
  BY <1>2, SoundParts DEF LoadsAlone, OthersStay, Enabling
<1>7. OneTeardown'
  <2>1. OneTeardown /\ manager.locks \subseteq VMs /\ \A t \in teardowns : t.vm \in VMs
    BY SoundParts DEF ManagerType, TeardownType
  <2>2. \A w \in VMs : Unbegun(w)' =>
          /\ w \notin manager'.locks \cup manager'.actions \cup {manager'.published}
          /\ lua'[w].closes = 0
    BY <1>2, <1>3, <2>1 DEF OneTeardown, UnbegunShrinks, ClosesStay
  <2>3. \A w \in manager'.locks :
          /\ lua'[w].closes = 0
          /\ \/ manager'.published = w
             \/ \E b \in Admins : admin'[b].at \in {"init", "abandon"} /\ admin'[b].vm = w
    BY <1>2, <2>1 DEF OneTeardown, OthersStay, ClosesStay
  <2>4. \A t \in teardowns : t.by = a => t.at = "held"
    BY SoundParts DEF OwnTeardowns
  <2>5. \A u \in teardowns' :
          /\ u.vm \notin manager'.locks /\ ~Unbegun(u.vm)'
          /\ lua'[u.vm].closes = IF u.at = "sweep" THEN 1 ELSE 0
    BY <1>2, <1>3, <1>4, <2>1, <2>4 DEF OneTeardown, UnbegunShrinks, ClosesStay
  <2>6. \A t, u \in teardowns' : u.vm = t.vm => u = t
    BY <1>4, <2>1, <2>4 DEF OneTeardown
  <2>. QED  BY <2>2, <2>3, <2>5, <2>6 DEF OneTeardown
<1>8. BegunInHand'
  BY <1>3, SoundParts, BegunStays
<1>9. OwnTeardowns'
  BY <1>2, <1>4, SoundParts DEF OwnTeardowns, OthersStay
<1>10. DisablesSeeAll'
  BY <1>2, <1>3, LoadSeen DEF Disables
<1>11. CloserSees' /\ RegistrationsLive' /\ ClosedOnce' /\ ClosedEmpty'
  BY <1>2, SoundParts DEF CloserSees, RegistrationsLive, ClosedOnce, ClosedEmpty, ClosesStay
<1>. QED
  BY <1>2, <1>5, <1>6, <1>7, <1>8, <1>9, <1>10, <1>11 DEF PluginSound, PluginStrengthening

\* What is left when v's entry and its registrations are gone: a teardown of v, if it was live.
LEMMA RevokedParts ==
  ASSUME PluginAssumption, PluginSound, NEW v \in VMs \cup {NoVM},
         NEW by \in Admins \cup {Nobody, "closer"}, NEW at \in {"held", "group", "close"},
         teardowns' = teardowns \cup Teardown(v, by, at),
         UNCHANGED <<lua, call, work>>, UnbegunShrinks,
         manager'.locks = manager.locks \ {v}, manager'.actions \subseteq manager.actions,
         manager'.published \in {NoVM, manager.published},
         \A w \in manager'.locks : manager'.published = w \/
           \E b \in Admins : admin'[b].at \in {"init", "abandon"} /\ admin'[b].vm = w
  PROVE  /\ teardowns' \subseteq TeardownType
         /\ \A t \in teardowns' : t \in teardowns \/ (t.by = by /\ t.at = at)
         /\ OneTeardown' /\ BegunInHand' /\ ClosedOnce'
<1>1. OneTeardown /\ manager.locks \subseteq VMs /\ teardowns \subseteq TeardownType
      /\ \A t \in teardowns : t.vm \in VMs
  BY SoundParts DEF ManagerType, TeardownType
<1>2. \A t \in Teardown(v, by, at) :
        t \in TeardownType /\ t.vm = v /\ t.by = by /\ t.at = at /\ v \in manager.locks
  BY <1>1 DEF Teardown, TeardownType, Live
<1>3. \A t, u \in Teardown(v, by, at) : t = u
  BY DEF Teardown
<1>4. \A w \in VMs : Unbegun(w)' =>
        /\ w \notin manager'.locks \cup manager'.actions \cup {manager'.published}
        /\ lua'[w].closes = 0
  BY <1>1 DEF OneTeardown, UnbegunShrinks, PluginAssumption
<1>5. \A w \in manager'.locks : lua'[w].closes = 0
  BY <1>1 DEF OneTeardown
<1>6. \A t \in teardowns' :
        /\ t.vm \notin manager'.locks /\ ~Unbegun(t.vm)'
        /\ lua'[t.vm].closes = IF t.at = "sweep" THEN 1 ELSE 0
  <2>1. ~Unbegun(v) \/ v \notin manager.locks
    BY <1>1, KnownBegun
  <2>. QED  BY <1>1, <1>2, <2>1 DEF OneTeardown, UnbegunShrinks
<1>7. \A t, u \in teardowns' : u.vm = t.vm => u = t
  BY <1>1, <1>2, <1>3 DEF OneTeardown
<1>8. BegunInHand' /\ ClosedOnce'
  BY SoundParts, BegunStays DEF ClosedOnce
<1>9. OneTeardown'
  BY <1>4, <1>5, <1>6, <1>7 DEF OneTeardown
<1>10. \A t \in teardowns' : t \in TeardownType /\ (t \in teardowns \/ (t.by = by /\ t.at = at))
  BY <1>1, <1>2
<1>. QED
  BY <1>8, <1>9, <1>10

LEMMA AbandonSound ==
  ASSUME PluginAssumption, PluginSound, NEW a \in Admins,
         admin[a].at = "abandon",
         manager' = Unregister(admin[a].vm, Revoke(admin[a].vm, manager)),
         teardowns' = teardowns \cup Teardown(admin[a].vm, a, "held"),
         admin' = [admin EXCEPT ![a].at = "abandoned"],
         UNCHANGED <<lua, call, work, closer>>
  PROVE  PluginSound'
<1>. DEFINE v == admin[a].vm
<1>1. v \in VMs /\ manager.published = NoVM /\ \A b \in Admins \ {a} : admin[b].at \notin Enabling
  BY EnablerAlone DEF Enabling
<1>2. /\ manager' \in ManagerType
      /\ manager'.enabling = manager.enabling /\ manager'.fresh = manager.fresh
      /\ manager'.closed = manager.closed /\ manager'.loading = manager.loading
      /\ manager'.published = manager.published /\ manager'.locks = manager.locks \ {v}
      /\ manager'.actions = manager.actions \ {v}
  BY SoundParts DEF ManagerType, Unregister, Revoke
<1>3. /\ admin' \in [Admins -> AdminType] /\ OthersStay(a)
      /\ admin'[a].at = "abandoned" /\ admin'[a].vm = v
      /\ admin'[a].waited = admin[a].waited /\ admin'[a].before = admin[a].before
  BY SoundParts, AdminGoes DEF AdminAts
<1>4. UnbegunShrinks
  BY <1>2, <1>3 DEF UnbegunShrinks, Unbegun, OthersStay
<1>5. manager'.locks = {}
  BY <1>1, <1>2, SoundParts DEF OneTeardown, Enabling, ManagerType, PluginAssumption
<1>6. /\ teardowns' \subseteq TeardownType
      /\ \A t \in teardowns' : t \in teardowns \/ (t.by = a /\ t.at = "held")
      /\ OneTeardown' /\ BegunInHand' /\ ClosedOnce'
  BY <1>1, <1>2, <1>4, <1>5, RevokedParts
<1>7. PluginTypeOK'
  BY <1>2, <1>3, <1>6 DEF PluginSound, PluginTypeOK
<1>8. LoadsAlone'
  BY <1>1, <1>2, <1>3, SoundParts DEF LoadsAlone, OthersStay, Enabling
<1>9. HoldersKnown' /\ ClosedEmpty'
  <2>1. \A w \in VMs : Holding(w)' \subseteq Holding(w) /\ Inside(w)' \subseteq Inside(w)
    BY <1>3 DEF Holding, Inside, OthersStay
  <2>. QED  BY <2>1, SoundParts, HoldersSame DEF ClosedEmpty
<1>10. OwnTeardowns'
  <2>1. \A t \in teardowns : t.by # a
    BY NoneBefore
  <2>. QED  BY <1>3, <1>6, <2>1, SoundParts DEF OwnTeardowns, OthersStay
<1>11. DisablesSeeAll'
  BY <1>2, <1>3, <1>4, LoadSeen DEF Disables
<1>12. CloserSees' /\ RegistrationsLive'
  BY <1>2, SoundParts DEF CloserSees, RegistrationsLive
<1>. QED
  BY <1>6, <1>7, <1>8, <1>9, <1>10, <1>11, <1>12 DEF PluginSound, PluginStrengthening

\* Every step of an EnablePlugin.
LEMMA LoadingSound ==
  ASSUME PluginAssumption, PluginSound, NEW a \in Admins, Loading(a)
  PROVE  PluginSound'
<1>1. CASE Claim(a)
  BY <1>1, ClaimSound
<1>2. CASE Refuse(a)
  BY <1>2, UnclaimSound DEF Refuse
<1>3. CASE SeeAbsent(a)
  <2>1. admin[a].at = "claimed" /\ manager.published = NoVM
        /\ admin' = [admin EXCEPT ![a].at = "absent"]
        /\ UNCHANGED <<manager, lua, call, work, teardowns, closer>>
    BY <1>3 DEF SeeAbsent
  <2>. QED  BY <2>1, LoadGoesOn DEF Enabling, HoldsAt
<1>4. CASE BeginLoad(a)
  <2>1. admin[a].at = "absent" /\ UNCHANGED <<call, work, teardowns, closer>>
    BY <1>4 DEF BeginLoad
  <2>2. CASE admin' = [admin EXCEPT ![a].at = "unclaim"] /\ UNCHANGED <<manager, lua>>
    BY <2>1, <2>2, LoadGoesOn DEF Enabling, HoldsAt
  <2>3. CASE /\ ~manager.closed
             /\ manager' = [manager EXCEPT !.locks = @ \cup {admin[a].vm}, !.loading = admin[a].vm]
             /\ lua' = [lua EXCEPT ![admin[a].vm].holder = a]
             /\ admin' = [admin EXCEPT ![a].at = "init"]
    BY <2>1, <2>3, LoadBeginsSound
  <2>. QED  BY <1>4, <2>2, <2>3 DEF BeginLoad
<1>5. CASE Publish(a)
  <2>1. admin[a].at = "init" /\ UNCHANGED <<lua, call, work, teardowns, closer>>
    BY <1>5 DEF Publish
  <2>2. CASE manager.closed
    <3>1. admin' = [admin EXCEPT ![a].at = "abandon"] /\ UNCHANGED manager
      BY <1>5, <2>2 DEF Publish
    <3>2. manager.published = NoVM
      BY <2>1, EnablerAlone DEF Enabling
    <3>. QED  BY <2>1, <3>1, <3>2, LoadGoesOn DEF Enabling, HoldsAt
  <2>3. CASE ~manager.closed
    BY <1>5, <2>1, <2>3, PublishedSound DEF Publish
  <2>. QED  BY <2>2, <2>3
<1>6. CASE LoadFails(a)
  <2>1. admin[a].at = "init" /\ admin' = [admin EXCEPT ![a].at = "abandon"]
        /\ UNCHANGED <<manager, lua, call, work, teardowns, closer>>
    BY <1>6 DEF LoadFails
  <2>2. manager.published = NoVM
    BY <2>1, EnablerAlone DEF Enabling
  <2>. QED  BY <2>1, <2>2, LoadGoesOn DEF Enabling, HoldsAt
<1>7. CASE Abandon(a)
  BY <1>7, AbandonSound, AbandonedSound DEF Abandon
<1>8. CASE OpenToOthers(a)
  BY <1>8, OpenedSound
<1>9. CASE EndLoad(a)
  BY <1>9, LoadEndsSound, UnclaimSound DEF EndLoad
<1>. QED
  BY <1>1, <1>2, <1>3, <1>4, <1>5, <1>6, <1>7, <1>8, <1>9 DEF Loading

-----------------------------------------------------------------------------
(* DisablePlugin                                                             *)

\* What DisablesSeeAll says of one administrator.
SeesAll(a) ==
  /\ admin[a].before \cap manager.fresh = {}
  /\ admin[a].at \in {"await", "await2"} => ~admin[a].waited
  /\ admin[a].at \in {"look", "wait", "teardown", "answered"} => \A v \in admin[a].before : ~Unbegun(v)
  /\ admin[a].at = "look" /\ admin[a].waited => manager.loading \notin admin[a].before
  /\ admin[a].at = "wait" => manager.loading \notin admin[a].before \ {admin[a].vm}
  /\ admin[a].at \in {"teardown", "answered"} => admin[a].before \cap manager.locks = {}

LEMMA AllSee == DisablesSeeAll <=> \A a \in Admins : SeesAll(a)
BY DEF DisablesSeeAll, SeesAll

\* A step of a disable that only reads the manager.
LEMMA DisableReads ==
  ASSUME PluginAssumption, PluginSound, NEW a \in Admins,
         UNCHANGED <<manager, lua, call, work, teardowns, closer>>,
         admin' \in [Admins -> AdminType], OthersStay(a),
         admin[a].at \notin Enabling, admin'[a].at \notin Enabling,
         \A t \in teardowns : t.by # a,
         (\A v \in VMs : Unbegun(v)' => Unbegun(v)) => SeesAll(a)'
  PROVE  PluginSound'
<1>1. QuietMoves(a)
  BY SoundParts DEF QuietMoves, Enabling, HoldsAt
<1>2. UnbegunShrinks
  BY DEF UnbegunShrinks, Unbegun, OthersStay, Enabling
<1>3. LoadsAlone'
  BY SoundParts DEF LoadsAlone, OthersStay
<1>4. OneTeardown' /\ CloserSees' /\ OwnTeardowns'
  BY <1>1, <1>2, QuietTeardowns, QuietCloser, QuietOwn DEF Enabling
<1>5. DisablesSeeAll'
  <2>1. SeesAll(a)'
    BY <1>2 DEF UnbegunShrinks
  <2>2. \A b \in Admins : admin[b].before \subseteq VMs
    BY SoundParts DEF AdminType
  <2>3. ASSUME NEW b \in Admins \ {a} PROVE SeesAll(b)'
    <3>1. SeesAll(b) /\ admin'[b] = admin[b]
      BY SoundParts, AllSee DEF OthersStay
    <3>. QED  BY <1>2, <2>2, <3>1 DEF SeesAll, UnbegunShrinks
  <2>. QED  BY <2>1, <2>3 DEF DisablesSeeAll, SeesAll
<1>. QED
  BY <1>1, <1>2, <1>3, <1>4, <1>5, QuietLeaves

LEMMA DisableSound ==
  ASSUME PluginAssumption, PluginSound, NEW a \in Admins, Disable(a)
  PROVE  PluginSound'
<1>1. /\ admin[a].at = "idle" /\ UNCHANGED <<manager, lua, call, work, teardowns, closer>>
      /\ admin' = [admin EXCEPT ![a] = [Idle EXCEPT !.at = "await",
                 !.before = {manager.enabling, manager.published} \ {NoVM}]]
  BY DEF Disable
<1>2. {manager.enabling, manager.published} \ {NoVM} \subseteq VMs
  BY SoundParts DEF ManagerType
<1>3. /\ admin' \in [Admins -> AdminType] /\ OthersStay(a)
      /\ admin'[a].at = "await" /\ ~admin'[a].waited
      /\ admin'[a].before = {manager.enabling, manager.published} \ {NoVM}
  BY <1>1, <1>2, SoundParts DEF AdminType, AdminAts, OthersStay, Idle
<1>4. SeesAll(a)'
  BY <1>1, <1>3, SoundParts DEF SeesAll, LoadsAlone
<1>. QED
  BY <1>1, <1>3, <1>4, NoneBefore, DisableReads DEF Enabling

\* The call returns.
LEMMA DisableRests ==
  ASSUME PluginAssumption, PluginSound, NEW a \in Admins,
         admin[a].at \notin Enabling, \A t \in teardowns : t.by # a,
         admin' = [admin EXCEPT ![a] = Idle],
         UNCHANGED <<manager, lua, call, work, teardowns, closer>>
  PROVE  PluginSound'
<1>1. /\ admin' \in [Admins -> AdminType] /\ OthersStay(a)
      /\ admin'[a].at = "idle" /\ admin'[a].before = {}
  BY SoundParts, AdminRests
<1>2. SeesAll(a)'
  BY <1>1 DEF SeesAll
<1>. QED
  BY <1>1, <1>2, DisableReads DEF Enabling

\* No VM is loading, or claimed, but the one the manager says.
LEMMA LoadKnown ==
  ASSUME PluginAssumption, PluginSound
  PROVE  /\ manager.enabling = NoVM => \A a \in Admins : admin[a].at \notin Enabling
         /\ manager.enabling = NoVM => manager.loading = NoVM
         /\ manager.loading # NoVM => \A a \in Admins : admin[a].at \notin {"claimed", "absent"}
         /\ \A v \in manager.locks : manager.published = v \/ manager.loading = v
         /\ manager.published # NoVM => manager.locks \subseteq {manager.published}
<1>1. /\ manager.enabling = NoVM => \A a \in Admins : admin[a].at \notin Enabling
      /\ manager.loading # NoVM => \A a \in Admins : admin[a].at \notin {"claimed", "absent"}
  BY EnablerAlone DEF Enabling
<1>2. manager.enabling = NoVM => manager.loading = NoVM
  BY SoundParts DEF LoadsAlone
<1>3. ASSUME NEW v \in manager.locks, manager.published # v
      PROVE  manager.loading = v /\ manager.published = NoVM
  <2>1. PICK a \in Admins : admin[a].at \in {"init", "abandon"} /\ admin[a].vm = v
    BY <1>3, SoundParts DEF OneTeardown
  <2>. QED  BY <2>1, EnablerAlone DEF Enabling
<1>. QED
  BY <1>1, <1>2, <1>3

LEMMA AwaitSound ==
  ASSUME PluginAssumption, PluginSound, NEW a \in Admins, AwaitVisible(a)
  PROVE  PluginSound'
<1>1. /\ admin[a].at \in {"await", "await2"} /\ UNCHANGED <<manager, lua, call, work, teardowns, closer>>
  BY DEF AwaitVisible
<1>2. /\ ~admin[a].waited /\ admin[a].before \cap manager.fresh = {} /\ admin[a].before \subseteq VMs
      /\ \A t \in teardowns : t.by # a
  BY <1>1, SoundParts, NoneBefore DEF DisablesSeeAll, AdminType
<1>3. ASSUME NEW at \in {"await", "await2", "look"}, admin' = [admin EXCEPT ![a].at = at],
             at = "look" => \A b \in Admins : admin[b].at \notin {"claimed", "absent"}
      PROVE  PluginSound'
  <2>1. /\ admin' \in [Admins -> AdminType] /\ OthersStay(a)
        /\ admin'[a].at = at /\ ~admin'[a].waited /\ admin'[a].before = admin[a].before
    BY <1>2, <1>3, SoundParts, AdminGoes DEF AdminAts
  <2>2. ASSUME \A v \in VMs : Unbegun(v)' => Unbegun(v) PROVE SeesAll(a)'
    <3>1. at = "look" => \A v \in admin[a].before : ~Unbegun(v)
      BY <1>2, <1>3 DEF Unbegun
    <3>. QED  BY <1>1, <1>2, <2>1, <2>2, <3>1 DEF SeesAll
  <2>. QED  BY <1>1, <1>2, <2>1, <2>2, DisableReads DEF Enabling
<1>4. CASE admin' = [admin EXCEPT ![a] = Idle]
  BY <1>1, <1>2, <1>4, DisableRests DEF Enabling
<1>5. manager.enabling = NoVM \/ manager.loading # NoVM =>
        \A b \in Admins : admin[b].at \notin {"claimed", "absent"}
  BY LoadKnown DEF Enabling
<1>. QED
  BY <1>3, <1>4, <1>5 DEF AwaitVisible

LEMMA WaitSound ==
  ASSUME PluginAssumption, PluginSound, NEW a \in Admins, WaitForLoad(a)
  PROVE  PluginSound'
<1>1. /\ admin[a].at = "wait" /\ UNCHANGED <<manager, lua, call, work, teardowns, closer>>
      /\ \A t \in teardowns : t.by # a
  BY NoneBefore DEF WaitForLoad
<1>2. CASE /\ manager.loading # admin[a].vm
           /\ admin' = [admin EXCEPT ![a].at = "look", ![a].waited = TRUE]
  <2>1. /\ admin' \in [Admins -> AdminType] /\ OthersStay(a)
        /\ admin'[a].at = "look" /\ admin'[a].before = admin[a].before
    <3>. DEFINE r == [admin[a] EXCEPT !.at = "look", !.waited = TRUE]
    <3>1. admin \in [Admins -> AdminType] /\ admin[a] \in AdminType
      BY SoundParts
    <3>2. r \in AdminType /\ r.at = "look" /\ r.before = admin[a].before
      BY <3>1 DEF AdminType, AdminAts
    <3>3. admin' = [admin EXCEPT ![a] = r]
      BY <1>2, <3>1
    <3>. HIDE DEF r
    <3>. QED  BY <3>1, <3>2, <3>3, AdminWritten
  <2>2. SeesAll(a) /\ admin[a].before \subseteq VMs
    BY SoundParts, AllSee DEF AdminType
  <2>3. ASSUME \A v \in VMs : Unbegun(v)' => Unbegun(v) PROVE SeesAll(a)'
    BY <1>1, <1>2, <2>1, <2>2, <2>3 DEF SeesAll
  <2>. QED  BY <1>1, <2>1, <2>3, DisableReads DEF Enabling
<1>3. CASE admin' = [admin EXCEPT ![a] = Idle]
  BY <1>1, <1>3, DisableRests DEF Enabling
<1>. QED
  BY <1>2, <1>3 DEF WaitForLoad

LEMMA ReturnSound ==
  ASSUME PluginAssumption, PluginSound, NEW a \in Admins, Return(a)
  PROVE  PluginSound'
<1>1. /\ admin[a].at \in {"teardown", "answered"} /\ UNCHANGED <<manager, lua, call, work, teardowns, closer>>
      /\ \A t \in teardowns : t.by # a
  BY NoneBefore DEF Return
<1>2. CASE admin[a].at = "teardown" /\ admin' = [admin EXCEPT ![a].at = "answered"]
  <2>1. /\ admin' \in [Admins -> AdminType] /\ OthersStay(a)
        /\ admin'[a].at = "answered" /\ admin'[a].before = admin[a].before
    BY <1>2, SoundParts, AdminGoes DEF AdminAts
  <2>2. SeesAll(a) /\ admin[a].before \subseteq VMs
    BY SoundParts, AllSee DEF AdminType
  <2>3. ASSUME \A v \in VMs : Unbegun(v)' => Unbegun(v) PROVE SeesAll(a)'
    BY <1>1, <1>2, <2>1, <2>2, <2>3 DEF SeesAll
  <2>. QED  BY <1>1, <2>1, <2>3, DisableReads DEF Enabling
<1>3. CASE admin' = [admin EXCEPT ![a] = Idle]
  BY <1>1, <1>3, DisableRests DEF Enabling
<1>. QED
  BY <1>2, <1>3 DEF Return

LEMMA LookSound ==
  ASSUME PluginAssumption, PluginSound, NEW a \in Admins, Look(a)
  PROVE  PluginSound'
<1>1. /\ admin[a].at = "look" /\ UNCHANGED <<lua, call, work, closer>>
      /\ \A t \in teardowns : t.by # a
  BY NoneBefore DEF Look
<1>2. SeesAll(a) /\ admin[a].before \subseteq VMs /\ NoVM \notin admin[a].before
  BY SoundParts, AllSee DEF AdminType, PluginAssumption
<1>3. CASE admin' = [admin EXCEPT ![a] = Idle] /\ UNCHANGED <<manager, teardowns>>
  BY <1>1, <1>3, DisableRests DEF Enabling
<1>4. CASE /\ ~manager.closed /\ manager.published = NoVM /\ UNCHANGED <<manager, teardowns>>
           /\ admin' = [admin EXCEPT
             ![a].at = IF manager.loading # NoVM /\ ~admin[a].waited THEN "wait" ELSE "answered",
             ![a].vm = manager.loading]
  <2>. DEFINE at == IF manager.loading # NoVM /\ ~admin[a].waited THEN "wait" ELSE "answered"
              r == [admin[a] EXCEPT !.at = at, !.vm = manager.loading]
  <2>1. /\ admin' \in [Admins -> AdminType] /\ OthersStay(a)
        /\ admin'[a].at = at /\ admin'[a].vm = manager.loading
        /\ admin'[a].before = admin[a].before
    <3>1. admin \in [Admins -> AdminType] /\ admin[a] \in AdminType /\ manager.loading \in VMs \cup {NoVM}
      BY SoundParts DEF ManagerType
    <3>2. r \in AdminType /\ r.at = at /\ r.before = admin[a].before /\ r.vm = manager.loading
      BY <3>1 DEF AdminType, AdminAts
    <3>3. admin' = [admin EXCEPT ![a] = r]
      BY <1>4, <3>1
    <3>. HIDE DEF r
    <3>. QED  BY <3>1, <3>2, <3>3, AdminWritten
  <2>2. at = "answered" => admin[a].before \cap manager.locks = {}
    <3>1. \A v \in manager.locks : v = manager.loading /\ v # NoVM
      BY <1>4, SoundParts, LoadKnown DEF ManagerType, PluginAssumption
    <3>. QED  BY <1>1, <1>2, <3>1 DEF SeesAll
  <2>3. ASSUME \A v \in VMs : Unbegun(v)' => Unbegun(v) PROVE SeesAll(a)'
    BY <1>1, <1>2, <1>4, <2>1, <2>2, <2>3 DEF SeesAll
  <2>. QED  BY <1>1, <1>4, <2>1, <2>3, DisableReads DEF Enabling
<1>5. CASE /\ ~manager.closed /\ manager.published # NoVM
           /\ manager' = [Unregister(manager.published, Revoke(manager.published, manager))
                            EXCEPT !.published = NoVM]
           /\ teardowns' = teardowns \cup Teardown(manager.published, a, "group")
           /\ admin' = [admin EXCEPT ![a].at = "teardown"]
  <2>. DEFINE v == manager.published
  <2>1. /\ manager' \in ManagerType
        /\ manager'.enabling = manager.enabling /\ manager'.fresh = manager.fresh
        /\ manager'.closed = manager.closed /\ manager'.loading = manager.loading
        /\ manager'.published = NoVM /\ manager'.locks = manager.locks \ {v}
        /\ manager'.actions = manager.actions \ {v}
    BY <1>5, SoundParts DEF ManagerType, Unregister, Revoke
  <2>2. /\ admin' \in [Admins -> AdminType] /\ OthersStay(a)
        /\ admin'[a].at = "teardown" /\ admin'[a].vm = admin[a].vm
        /\ admin'[a].waited = admin[a].waited /\ admin'[a].before = admin[a].before
    BY <1>5, SoundParts, AdminGoes DEF AdminAts
  <2>3. UnbegunShrinks
    BY <2>1, <2>2 DEF UnbegunShrinks, Unbegun, OthersStay
  <2>4. v \in VMs /\ manager'.locks = {}
    BY <1>5, <2>1, SoundParts, LoadKnown DEF ManagerType
  <2>5. /\ teardowns' \subseteq TeardownType
        /\ \A t \in teardowns' : t \in teardowns \/ (t.by = a /\ t.at = "group")
        /\ OneTeardown' /\ BegunInHand' /\ ClosedOnce'
    BY <1>1, <1>5, <2>1, <2>3, <2>4, RevokedParts
  <2>6. PluginTypeOK'
    BY <1>1, <2>1, <2>2, <2>5 DEF PluginSound, PluginTypeOK
  <2>7. LoadsAlone'
    BY <1>1, <2>1, <2>2, SoundParts DEF LoadsAlone, OthersStay, Enabling, ManagerType, PluginAssumption
  <2>8. HoldersKnown' /\ ClosedEmpty'
    <3>1. \A w \in VMs : Holding(w)' \subseteq Holding(w) /\ Inside(w)' \subseteq Inside(w)
      BY <1>1, <2>2 DEF Holding, Inside, OthersStay
    <3>. QED  BY <1>1, <3>1, SoundParts, HoldersSame DEF ClosedEmpty
  <2>9. OwnTeardowns'
    BY <1>1, <2>2, <2>5, SoundParts DEF OwnTeardowns, OthersStay
  <2>10. DisablesSeeAll'
    <3>1. \A b \in Admins : admin[b].before \subseteq VMs
      BY SoundParts DEF AdminType
    <3>2. ASSUME NEW b \in Admins PROVE SeesAll(b)'
      <4>1. SeesAll(b)
        BY SoundParts, AllSee
      <4>2. CASE b = a
        BY <1>1, <1>2, <2>1, <2>2, <2>3, <2>4, <4>2 DEF SeesAll, UnbegunShrinks
      <4>3. CASE b # a
        BY <2>1, <2>2, <2>3, <2>4, <3>1, <4>1, <4>3 DEF SeesAll, UnbegunShrinks, OthersStay
      <4>. QED  BY <4>2, <4>3
    <3>. QED  BY <3>2 DEF DisablesSeeAll, SeesAll
  <2>11. CloserSees' /\ RegistrationsLive'
    BY <1>1, <1>5, <2>1, <2>4, SoundParts DEF CloserSees, RegistrationsLive
  <2>. QED
    BY <2>5, <2>6, <2>7, <2>8, <2>9, <2>10, <2>11 DEF PluginSound, PluginStrengthening
<1>. QED
  BY <1>3, <1>4, <1>5 DEF Look

\* Every step of a DisablePlugin.
LEMMA DisablingSound ==
  ASSUME PluginAssumption, PluginSound, NEW a \in Admins, Disabling(a)
  PROVE  PluginSound'
BY DisableSound, AwaitSound, LookSound, WaitSound, ReturnSound DEF Disabling

-----------------------------------------------------------------------------
(* The teardowns                                                             *)

\* A step of a teardown past the revocation: the entry of its VM is gone.
TeardownMoves(t, u) ==
  /\ t \in teardowns /\ t.at # "held" /\ u \in TeardownType
  /\ u.vm = t.vm /\ u.by \in {t.by, Nobody}
  /\ teardowns' = (teardowns \ {t}) \cup {u}
  /\ UNCHANGED <<admin, call, work, closer>>
  /\ ManagerStays /\ manager'.actions \subseteq manager.actions

LEMMA TeardownLeaves ==
  ASSUME PluginAssumption, PluginSound, NEW t, NEW u, TeardownMoves(t, u), lua' \in LuaType,
         \A v \in VMs : lua'[v].holder = lua[v].holder,
         \A v \in VMs \ {t.vm} : lua'[v].closes = lua[v].closes,
         lua'[t.vm].closes = IF u.at = "sweep" THEN 1 ELSE 0,
         lua'[t.vm].closes > 0 => Inside(t.vm) = {}
  PROVE  PluginSound'
<1>1. /\ t \in teardowns /\ t.vm \in VMs /\ teardowns \subseteq TeardownType
      /\ \A x \in teardowns : x.vm \in VMs
  BY SoundParts DEF TeardownMoves, TeardownType
<1>2. UnbegunShrinks
  BY DEF UnbegunShrinks, Unbegun, TeardownMoves, ManagerStays
<1>3. PluginTypeOK'
  BY <1>1 DEF PluginSound, PluginTypeOK, TeardownMoves, ManagerStays, LuaType
<1>4. LoadsAlone'
  BY SoundParts DEF LoadsAlone, TeardownMoves, ManagerStays
<1>5. HoldersKnown'
  <2>1. \A w \in VMs : Holding(w)' \subseteq Holding(w)
    BY DEF Holding, TeardownMoves
  <2>. QED  BY <2>1, SoundParts, HoldersSame
<1>6. OneTeardown'
  <2>1. OneTeardown /\ manager.locks \subseteq VMs
    BY SoundParts DEF ManagerType
  <2>2. \A x \in teardowns : x # t => x.vm # t.vm
    BY <1>1, <2>1 DEF OneTeardown
  <2>3. ~Unbegun(t.vm) /\ t.vm \notin manager.locks
    BY <1>1, <2>1 DEF OneTeardown
  <2>4. \A w \in VMs : Unbegun(w)' =>
          /\ w \notin manager'.locks \cup manager'.actions \cup {manager'.published}
          /\ lua'[w].closes = 0
    BY <1>2, <2>1, <2>3 DEF OneTeardown, UnbegunShrinks, TeardownMoves, ManagerStays
  <2>5. \A w \in manager'.locks :
          /\ lua'[w].closes = 0
          /\ \/ manager'.published = w
             \/ \E b \in Admins : admin'[b].at \in {"init", "abandon"} /\ admin'[b].vm = w
    BY <2>1, <2>3 DEF OneTeardown, TeardownMoves, ManagerStays
  <2>6. \A x \in teardowns' :
          /\ x.vm \notin manager'.locks /\ ~Unbegun(x.vm)'
          /\ lua'[x.vm].closes = IF x.at = "sweep" THEN 1 ELSE 0
    BY <1>1, <1>2, <2>1, <2>2, <2>3 DEF OneTeardown, UnbegunShrinks, TeardownMoves, ManagerStays
  <2>7. \A x, y \in teardowns' : y.vm = x.vm => y = x
    BY <2>1, <2>2 DEF OneTeardown, TeardownMoves
  <2>. QED  BY <2>4, <2>5, <2>6, <2>7 DEF OneTeardown
<1>7. BegunInHand'
  BY <1>2, SoundParts, BegunStays DEF TeardownMoves
<1>8. OwnTeardowns'
  BY <1>1, SoundParts DEF OwnTeardowns, TeardownMoves, PluginAssumption
<1>9. DisablesSeeAll'
  <2>1. \A b \in Admins : admin[b].before \subseteq VMs
    BY SoundParts DEF AdminType
  <2>. QED  BY <1>2, <2>1, SoundParts DEF DisablesSeeAll, UnbegunShrinks, TeardownMoves, ManagerStays
<1>10. CloserSees' /\ RegistrationsLive' /\ ClosedOnce'
  BY <1>1, SoundParts DEF CloserSees, RegistrationsLive, ClosedOnce, TeardownMoves, ManagerStays
<1>11. ClosedEmpty'
  <2>1. \A w \in VMs : Inside(w)' = Inside(w)
    BY DEF Inside, TeardownMoves
  <2>. QED  BY <1>1, <2>1, SoundParts DEF ClosedEmpty
<1>. QED
  BY <1>3, <1>4, <1>5, <1>6, <1>7, <1>8, <1>9, <1>10, <1>11 DEF PluginSound, PluginStrengthening

LEMMA TeardownWritten ==
  ASSUME NEW t \in TeardownType, NEW at \in {"group", "drain", "close", "sweep"}
  PROVE  /\ [t EXCEPT !.at = at] \in TeardownType
         /\ [t EXCEPT !.at = at].vm = t.vm /\ [t EXCEPT !.at = at].by = t.by /\ [t EXCEPT !.at = at].at = at
         /\ [t EXCEPT !.by = Nobody] \in TeardownType
         /\ [t EXCEPT !.by = Nobody].vm = t.vm /\ [t EXCEPT !.by = Nobody].by = Nobody
         /\ [t EXCEPT !.by = Nobody].at = t.at
BY DEF TeardownType

\* Until it closes the VM, a teardown leaves the locks alone.
LEMMA TeardownGoesOn ==
  ASSUME PluginAssumption, PluginSound, NEW t, NEW u, TeardownMoves(t, u), UNCHANGED lua,
         t.at # "sweep", u.at # "sweep"
  PROVE  PluginSound'
<1>1. t \in teardowns /\ t.vm \in VMs
  BY SoundParts DEF TeardownMoves, TeardownType
<1>2. lua[t.vm].closes = 0
  BY <1>1, SoundParts DEF OneTeardown
<1>. QED
  BY <1>2, SoundParts, TeardownLeaves

LEMMA TakeGroupSound ==
  ASSUME PluginAssumption, PluginSound, NEW t \in teardowns, TakeGroup(t)
  PROVE  PluginSound'
<1>. DEFINE u == [t EXCEPT !.at = "drain", !.group = manager.group]
<1>1. /\ t.at = "group" /\ teardowns' = (teardowns \ {t}) \cup {u}
      /\ UNCHANGED <<lua, admin, call, work, closer>>
      /\ manager' = [manager EXCEPT !.group = Nobody]
  BY DEF TakeGroup, Step
<1>2. manager.group \in Jobs \cup {Nobody} /\ t \in TeardownType
  BY SoundParts DEF ManagerType
<1>3. ManagerStays /\ manager'.actions \subseteq manager.actions
  BY <1>1, SoundParts DEF ManagerType, ManagerStays
<1>4. u \in TeardownType /\ u.vm = t.vm /\ u.by = t.by /\ u.at = "drain"
  BY <1>2 DEF TeardownType
<1>5. TeardownMoves(t, u)
  BY <1>1, <1>3, <1>4 DEF TeardownMoves
<1>. HIDE DEF u
<1>. QED
  BY <1>1, <1>4, <1>5, TeardownGoesOn

LEMMA DrainSound ==
  ASSUME PluginAssumption, PluginSound, NEW t \in teardowns, Drain(t)
  PROVE  PluginSound'
<1>1. t.at = "drain" /\ UNCHANGED <<manager, lua, admin, call, work, closer>> /\ t \in TeardownType
  BY SoundParts DEF Drain
<1>2. ManagerStays /\ manager'.actions \subseteq manager.actions
  BY <1>1, JobFrame
<1>3. ASSUME NEW u \in TeardownType, u.vm = t.vm, u.by \in {t.by, Nobody}, u.at # "sweep", Step(t, u)
      PROVE  PluginSound'
  <2>1. TeardownMoves(t, u)
    BY <1>1, <1>2, <1>3 DEF TeardownMoves, Step
  <2>. QED  BY <1>1, <1>3, <2>1, TeardownGoesOn
<1>4. CASE Step(t, [t EXCEPT !.at = "close"])
  BY <1>1, <1>3, <1>4, TeardownWritten
<1>5. CASE Step(t, [t EXCEPT !.by = Nobody])
  BY <1>1, <1>3, <1>5, TeardownWritten
<1>. QED
  BY <1>4, <1>5 DEF Drain

LEMMA CloseVMSound ==
  ASSUME PluginAssumption, PluginSound, NEW t \in teardowns, CloseVM(t)
  PROVE  PluginSound'
<1>. DEFINE u == [t EXCEPT !.at = "sweep"]
<1>1. /\ t.at = "close" /\ lua[t.vm].holder = Nobody /\ lua' = [lua EXCEPT ![t.vm].closes = @ + 1]
      /\ teardowns' = (teardowns \ {t}) \cup {u}
      /\ UNCHANGED <<manager, admin, call, work, closer>>
  BY DEF CloseVM, Step
<1>2. t \in TeardownType /\ t.vm \in VMs
  BY SoundParts DEF TeardownType
<1>3. lua[t.vm].closes = 0
  BY <1>1, SoundParts DEF OneTeardown
<1>4. /\ lua' \in LuaType /\ lua'[t.vm].closes = 1
      /\ \A v \in VMs : lua'[v].holder = lua[v].holder
      /\ \A v \in VMs \ {t.vm} : lua'[v].closes = lua[v].closes
  BY <1>1, <1>2, <1>3, SoundParts DEF LuaType
<1>5. Inside(t.vm) = {}
  <2>1. Holding(t.vm) = {}
    <3>1. Nobody \notin Holding(t.vm)
      BY DEF Holding, PluginAssumption
    <3>. QED  BY <1>1, <1>2, <3>1, SoundParts DEF HoldersKnown
  <2>. QED  BY <2>1 DEF Holding, Inside
<1>6. u \in TeardownType /\ u.vm = t.vm /\ u.by = t.by /\ u.at = "sweep"
  BY <1>2, TeardownWritten
<1>7. TeardownMoves(t, u)
  BY <1>1, <1>6, JobFrame DEF TeardownMoves
<1>. HIDE DEF u
<1>. QED
  BY <1>4, <1>5, <1>6, <1>7, TeardownLeaves

LEMMA SweepSound ==
  ASSUME PluginAssumption, PluginSound, NEW t \in teardowns, Sweep(t)
  PROVE  PluginSound'
<1>1. /\ t.at = "sweep" /\ manager' = Unregister(t.vm, manager) /\ teardowns' = teardowns \ {t}
      /\ UNCHANGED <<lua, admin, call, work, closer>>
  BY DEF Sweep
<1>2. ManagerStays /\ manager'.actions \subseteq manager.actions
  BY <1>1, SoundParts DEF ManagerType, ManagerStays, Unregister
<1>3. UnbegunShrinks
  BY <1>1, <1>2 DEF UnbegunShrinks, Unbegun, ManagerStays
<1>4. PluginTypeOK'
  BY <1>1, <1>2 DEF PluginSound, PluginTypeOK, ManagerStays
<1>5. LoadsAlone'
  BY <1>1, <1>2, SoundParts DEF LoadsAlone, ManagerStays
<1>6. OneTeardown'
  <2>1. OneTeardown /\ manager.locks \subseteq VMs /\ \A x \in teardowns : x.vm \in VMs
    BY SoundParts DEF ManagerType, TeardownType
  <2>. QED  BY <1>1, <1>2, <1>3, <2>1 DEF OneTeardown, UnbegunShrinks, ManagerStays
<1>7. BegunInHand' /\ OwnTeardowns' /\ HoldersKnown' /\ ClosedEmpty'
  BY <1>1, <1>3, SoundParts, BegunStays DEF OwnTeardowns, HoldersKnown, Holding, ClosedEmpty, Inside
<1>8. DisablesSeeAll'
  <2>1. \A b \in Admins : admin[b].before \subseteq VMs
    BY SoundParts DEF AdminType
  <2>. QED  BY <1>1, <1>2, <1>3, <2>1, SoundParts DEF DisablesSeeAll, UnbegunShrinks, ManagerStays
<1>9. CloserSees' /\ RegistrationsLive' /\ ClosedOnce'
  BY <1>1, <1>2, SoundParts DEF CloserSees, RegistrationsLive, ClosedOnce, ManagerStays
<1>. QED
  BY <1>4, <1>5, <1>6, <1>7, <1>8, <1>9 DEF PluginSound, PluginStrengthening

-----------------------------------------------------------------------------
(* Close                                                                     *)

LEMMA CloseSound ==
  ASSUME PluginAssumption, PluginSound, Close
  PROVE  PluginSound'
<1>1. UNCHANGED <<lua, admin, call, work>>
  BY DEF Close
<1>2. HoldersKnown' /\ ClosedEmpty' /\ ClosedOnce'
  BY <1>1, SoundParts DEF HoldersKnown, Holding, ClosedEmpty, Inside, ClosedOnce
<1>3. \A b \in Admins : admin[b].before \subseteq VMs
  BY SoundParts DEF AdminType
<1>4. OneTeardown /\ manager.locks \subseteq VMs /\ \A t \in teardowns : t.vm \in VMs
  BY SoundParts DEF ManagerType, TeardownType
<1>5. CASE /\ closer = "running" /\ manager' = [manager EXCEPT !.closed = TRUE]
           /\ closer' = "loads" /\ UNCHANGED teardowns
  <2>1. /\ manager' \in ManagerType /\ manager'.closed
        /\ manager'.enabling = manager.enabling /\ manager'.fresh = manager.fresh
        /\ manager'.loading = manager.loading /\ manager'.published = manager.published
        /\ manager'.locks = manager.locks /\ manager'.actions = manager.actions
    BY <1>5, SoundParts DEF ManagerType
  <2>2. UnbegunShrinks
    BY <1>1, <2>1 DEF UnbegunShrinks, Unbegun
  <2>3. PluginTypeOK'
    BY <1>1, <1>5, <2>1 DEF PluginSound, PluginTypeOK
  <2>4. LoadsAlone' /\ OwnTeardowns' /\ CloserSees' /\ RegistrationsLive'
    BY <1>1, <1>5, <2>1, SoundParts DEF LoadsAlone, OwnTeardowns, CloserSees, RegistrationsLive
  <2>5. OneTeardown'
    BY <1>1, <1>4, <1>5, <2>1, <2>2 DEF OneTeardown, UnbegunShrinks
  <2>6. BegunInHand' /\ DisablesSeeAll'
    BY <1>1, <1>3, <2>1, <2>2, SoundParts, BegunStays DEF DisablesSeeAll, UnbegunShrinks
  <2>. QED  BY <1>2, <2>3, <2>4, <2>5, <2>6 DEF PluginSound, PluginStrengthening
<1>6. CASE /\ \/ closer = "loads" /\ closer' = IF manager.published = NoVM THEN "clear" ELSE "revoke"
              \/ closer = "closing" /\ closer' = "clear"
           /\ UNCHANGED <<manager, teardowns>>
  <2>1. PluginTypeOK'
    BY <1>1, <1>6 DEF PluginSound, PluginTypeOK
  <2>2. LoadsAlone' /\ OwnTeardowns' /\ RegistrationsLive' /\ DisablesSeeAll' /\ BegunInHand'
    BY <1>1, <1>6, SoundParts
       DEF LoadsAlone, OwnTeardowns, RegistrationsLive, DisablesSeeAll, BegunInHand, Unbegun
  <2>3. OneTeardown'
    BY <1>1, <1>4, <1>6 DEF OneTeardown, Unbegun
  <2>4. CloserSees'
    BY <1>4, <1>6, SoundParts DEF CloserSees, PluginAssumption
  <2>. QED  BY <1>2, <2>1, <2>2, <2>3, <2>4 DEF PluginSound, PluginStrengthening
<1>7. CASE /\ closer = "revoke" /\ manager' = Revoke(manager.published, manager)
           /\ teardowns' = teardowns \cup Teardown(manager.published, "closer", "close")
           /\ closer' = "closing"
  <2>. DEFINE v == manager.published
  <2>1. /\ manager' \in ManagerType /\ manager'.closed = manager.closed
        /\ manager'.enabling = manager.enabling /\ manager'.fresh = manager.fresh
        /\ manager'.loading = manager.loading /\ manager'.published = manager.published
        /\ manager'.locks = manager.locks \ {v} /\ manager'.actions = manager.actions
    BY <1>7, SoundParts DEF ManagerType, Revoke
  <2>2. UnbegunShrinks
    BY <1>1, <2>1 DEF UnbegunShrinks, Unbegun
  <2>3. /\ teardowns' \subseteq TeardownType
        /\ \A t \in teardowns' : t \in teardowns \/ (t.by = "closer" /\ t.at = "close")
        /\ OneTeardown' /\ BegunInHand' /\ ClosedOnce'
    <3>1. v \in VMs \cup {NoVM}
      BY SoundParts DEF ManagerType
    <3>2. \A w \in manager'.locks : manager'.published = w \/
            \E b \in Admins : admin'[b].at \in {"init", "abandon"} /\ admin'[b].vm = w
      BY <1>1, <1>4, <2>1 DEF OneTeardown
    <3>. QED  BY <1>1, <1>7, <2>1, <2>2, <3>1, <3>2, RevokedParts
  <2>4. PluginTypeOK'
    BY <1>1, <1>7, <2>1, <2>3 DEF PluginSound, PluginTypeOK
  <2>5. LoadsAlone' /\ CloserSees' /\ RegistrationsLive'
    BY <1>1, <1>7, <2>1, SoundParts DEF LoadsAlone, CloserSees, RegistrationsLive
  <2>6. DisablesSeeAll'
    BY <1>1, <1>3, <2>1, <2>2, SoundParts DEF DisablesSeeAll, UnbegunShrinks
  <2>7. OwnTeardowns'
    <3>1. \A t \in teardowns' : t.by \in Admins => t \in teardowns
      BY <2>3 DEF PluginAssumption
    <3>. QED  BY <1>1, <3>1, SoundParts DEF OwnTeardowns
  <2>. QED  BY <1>2, <2>3, <2>4, <2>5, <2>6, <2>7 DEF PluginSound, PluginStrengthening
<1>8. CASE /\ closer = "clear" /\ manager' = [manager EXCEPT !.published = NoVM, !.actions = {}]
           /\ closer' = "closed" /\ UNCHANGED teardowns
  <2>1. /\ manager' \in ManagerType /\ manager'.closed = manager.closed
        /\ manager'.enabling = manager.enabling /\ manager'.fresh = manager.fresh
        /\ manager'.loading = manager.loading /\ manager'.published = NoVM
        /\ manager'.locks = manager.locks /\ manager'.actions = {}
    BY <1>8, SoundParts DEF ManagerType
  <2>2. UnbegunShrinks
    BY <1>1, <2>1 DEF UnbegunShrinks, Unbegun
  <2>3. PluginTypeOK'
    BY <1>1, <1>8, <2>1 DEF PluginSound, PluginTypeOK
  <2>4. LoadsAlone' /\ OwnTeardowns' /\ CloserSees' /\ RegistrationsLive'
    BY <1>1, <1>8, <2>1, SoundParts
       DEF LoadsAlone, OwnTeardowns, CloserSees, RegistrationsLive, ManagerType, PluginAssumption
  <2>5. OneTeardown'
    <3>1. manager.published \notin manager.locks
      BY <1>8, SoundParts DEF CloserSees
    <3>. QED  BY <1>1, <1>4, <1>8, <2>1, <2>2, <3>1 DEF OneTeardown, UnbegunShrinks, PluginAssumption
  <2>6. BegunInHand' /\ DisablesSeeAll'
    BY <1>1, <1>3, <2>1, <2>2, SoundParts, BegunStays DEF DisablesSeeAll, UnbegunShrinks
  <2>. QED  BY <1>2, <2>3, <2>4, <2>5, <2>6 DEF PluginSound, PluginStrengthening
<1>. QED
  BY <1>5, <1>6, <1>7, <1>8 DEF Close

-----------------------------------------------------------------------------
(* The theorem                                                               *)

LEMMA SoundAtFirst == ASSUME PluginAssumption, PluginInit PROVE PluginSound
<1>1. PluginTypeOK
  BY DEF PluginInit, PluginTypeOK, ManagerType, AdminType, AdminAts, Idle, CallType, NoCall,
         JobType, JobAts, NoJob, TeardownType, Goroutines
<1>2. /\ \A a \in Admins : admin[a].at = "idle" /\ admin[a].before = {}
      /\ \A c \in Callers : call[c].at = "idle"
      /\ \A j \in Jobs : work[j].at = "none"
      /\ \A v \in VMs : lua[v].closes = 0
      /\ teardowns = {} /\ closer = "running"
      /\ manager.enabling = NoVM /\ manager.loading = NoVM /\ manager.published = NoVM
      /\ manager.fresh = VMs /\ manager.locks = {} /\ manager.actions = {}
  BY DEF PluginInit, Idle, NoCall, NoJob
<1>3. LoadsAlone
  BY <1>2 DEF LoadsAlone, Enabling, PluginAssumption
<1>4. HoldersKnown /\ ClosedEmpty /\ ClosedOnce
  BY <1>2 DEF HoldersKnown, Holding, ClosedEmpty, ClosedOnce
<1>5. OneTeardown /\ BegunInHand /\ OwnTeardowns
  BY <1>2 DEF OneTeardown, BegunInHand, OwnTeardowns, PluginAssumption
<1>6. DisablesSeeAll /\ CloserSees /\ RegistrationsLive
  BY <1>2 DEF DisablesSeeAll, CloserSees, RegistrationsLive
<1>. QED
  BY <1>1, <1>3, <1>4, <1>5, <1>6 DEF PluginSound, PluginStrengthening

LEMMA SoundKept ==
  ASSUME PluginAssumption, PluginSound, [PluginNext]_pluginVars
  PROVE  PluginSound'
<1>1. CASE \E a \in Admins : Loading(a) \/ Disabling(a)
  BY <1>1, LoadingSound, DisablingSound
<1>2. CASE Tearing
  BY <1>2, TakeGroupSound, DrainSound, CloseVMSound, SweepSound DEF Tearing
<1>3. CASE Close
  BY <1>3, CloseSound
<1>4. CASE \E c \in Callers : Calling(c)
  BY <1>4, FoundSound, EnterSound, LeaveSound DEF Calling
<1>5. CASE \E v \in VMs : Register(v)
  BY <1>5, RegisterSound
<1>6. CASE \E j \in Jobs : StartJob(j) \/ JoinGroup(j) \/ Working(j) \/ Report(j) \/ ClearJob(j)
  BY <1>6, StartJobSound, JoinGroupSound, TakeSlotSound, EnterJobSound, HandlerEndsSound, RecordSound
     DEF Working
<1>7. CASE UNCHANGED pluginVars
  BY <1>7 DEF pluginVars, PluginSound, PluginTypeOK, PluginStrengthening, LoadsAlone, HoldersKnown,
              Holding, OneTeardown, Unbegun, BegunInHand, OwnTeardowns, DisablesSeeAll, CloserSees,
              RegistrationsLive, ClosedOnce, ClosedEmpty, Inside
<1>. QED
  BY <1>1, <1>2, <1>3, <1>4, <1>5, <1>6, <1>7 DEF PluginNext

\* A set whose members are one thing has at most one.
LEMMA AtMostOne ==
  ASSUME NEW S, NEW x, S \subseteq {x}
  PROVE  Cardinality(S) <= 1
<1>1. CASE S = {}
  BY <1>1, FS_EmptySet
<1>2. CASE S # {}
  <2>1. S = {x}
    BY <1>2
  <2>. QED  BY <2>1, FS_Singleton
<1>. QED  BY <1>1, <1>2

LEMMA SoundEnough ==
  ASSUME PluginAssumption, PluginSound
  PROVE  VMsSound
<1>1. NeverInClosedVM
  <2>1. ASSUME NEW v \in VMs PROVE Cardinality(Inside(v)) <= 1
    <3>1. Inside(v) \subseteq Holding(v)
      BY DEF Inside, Holding
    <3>2. Inside(v) \subseteq {lua[v].holder}
      BY <3>1, SoundParts DEF HoldersKnown
    <3>. QED  BY <3>2, AtMostOne
  <2>. QED  BY <2>1, SoundParts DEF NeverInClosedVM, ClosedEmpty
<1>2. NothingLeftOpen
  <2>1. ASSUME closer = "closed", \A a \in Admins : admin[a].at = "idle" PROVE manager.locks = {}
    BY <2>1, SoundParts DEF OneTeardown, CloserSees, ManagerType, PluginAssumption
  <2>. QED  BY <2>1 DEF NothingLeftOpen
<1>3. DisabledIsOff
  BY SoundParts DEF DisabledIsOff, DisablesSeeAll
<1>. QED
  BY <1>1, <1>2, <1>3 DEF VMsSound, PluginSound

(* Whatever VMs, administrators, calls and jobs there are, and in whatever order they   *)
(* meet: one goroutine at a time runs Lua in a VM (LockVM), a VM is closed once, after  *)
(* the last of them and always (closeUnderLock, finishTeardown, Close), what is         *)
(* registered belongs to a VM that is not revoked, and a DisablePlugin that answers     *)
(* leaves nothing of what it found to come up.                                          *)
THEOREM VMsAlwaysSound == PluginSpec => []VMsSound
<1>1. PluginInit => PluginSound
  BY PluginAssumption, SoundAtFirst
<1>2. PluginSound /\ [PluginNext]_pluginVars => PluginSound'
  BY PluginAssumption, SoundKept
<1>3. PluginSound => VMsSound
  BY PluginAssumption, SoundEnough
<1>. QED
  BY <1>1, <1>2, <1>3, PTL DEF PluginSpec

-----------------------------------------------------------------------------
(* What the jobs end as, and the WaitGroups they count on.                   *)

JobsSound == GroupsNamed /\ GroupsTaken /\ SaidOfJobs

\* A teardown that knows of the jobs of its VM.
Counts(t) == t.at = "drain" \/ (t.at = "close" /\ t.by # "closer")

\* GroupsTaken, of the jobs alone.
Taken(t) ==
  \A j \in Jobs : work[j].at = "lua" /\ work[j].vm = t.vm =>
    work[j].group # manager.group /\ (t.at = "close" => work[j].group # t.group)

LEMMA TakenMeans ==
  ASSUME PluginAssumption
  PROVE  GroupsTaken <=> \A t \in teardowns : Counts(t) => Taken(t)
<1>1. \A v : \A j \in Jobs : j \in Inside(v) <=> work[j].at = "lua" /\ work[j].vm = v
  BY DEF Inside, PluginAssumption
<1>. QED
  BY <1>1 DEF GroupsTaken, Counts, Taken

\* The same of the next state.
LEMMA TakenMeansNext ==
  ASSUME PluginAssumption
  PROVE  GroupsTaken' <=> \A t \in teardowns' : Counts(t) => Taken(t)'
<1>1. \A v : \A j \in Jobs : j \in Inside(v)' <=> work'[j].at = "lua" /\ work'[j].vm = v
  BY DEF Inside, PluginAssumption
<1>. QED
  BY <1>1 DEF GroupsTaken, Counts, Taken

\* A step of no job: a teardown that knows of jobs was one, with the same WaitGroup.
LEMMA NoJobMoves ==
  ASSUME PluginAssumption, PluginSound, JobsSound, UNCHANGED work, manager'.group = manager.group,
         \A u \in teardowns' : /\ u.group = Nobody \/ \E t \in teardowns : t.group = u.group
                               /\ Counts(u) => \E t \in teardowns : /\ Counts(t) /\ t.at = u.at
                                                  /\ t.vm = u.vm /\ t.group = u.group
  PROVE  JobsSound'
<1>1. GroupsNamed'
  BY DEF JobsSound, GroupsNamed, PluginAssumption
<1>2. GroupsTaken'
  BY TakenMeans, TakenMeansNext DEF JobsSound, Taken
<1>3. SaidOfJobs'
  BY DEF JobsSound, SaidOfJobs
<1>. QED
  BY <1>1, <1>2, <1>3 DEF JobsSound

LEMMA NoTeardownMoves ==
  ASSUME PluginAssumption, PluginSound, JobsSound, UNCHANGED <<work, teardowns>>,
         manager'.group = manager.group
  PROVE  JobsSound'
BY NoJobMoves

LEMMA RevocationMoves ==
  ASSUME PluginAssumption, PluginSound, JobsSound, UNCHANGED work, manager'.group = manager.group,
         NEW v, NEW by, NEW at \in {"held", "group", "close"}, at = "close" => by = "closer",
         teardowns' = teardowns \cup Teardown(v, by, at)
  PROVE  JobsSound'
<1>1. \A u \in Teardown(v, by, at) : u.group = Nobody /\ ~Counts(u)
  BY DEF Teardown, Counts
<1>. QED
  BY <1>1, NoJobMoves

LEMMA LoadingKeepsJobs ==
  ASSUME PluginAssumption, PluginSound, JobsSound, NEW a \in Admins, Loading(a)
  PROVE  JobsSound'
<1>1. manager \in ManagerType
  BY SoundParts
<1>2. CASE Claim(a) \/ Refuse(a) \/ SeeAbsent(a) \/ BeginLoad(a) \/ Publish(a) \/ LoadFails(a)
             \/ OpenToOthers(a) \/ EndLoad(a)
  <2>1. UNCHANGED <<work, teardowns>>
    BY <1>2 DEF Claim, Refuse, SeeAbsent, BeginLoad, Publish, LoadFails, OpenToOthers, EndLoad
  <2>2. manager'.group = manager.group
    BY <1>1, <1>2 DEF Claim, Refuse, SeeAbsent, BeginLoad, Publish, LoadFails, OpenToOthers, EndLoad, ManagerType
  <2>. QED  BY <2>1, <2>2, NoTeardownMoves
<1>3. CASE /\ manager' = Unregister(admin[a].vm, Revoke(admin[a].vm, manager))
           /\ teardowns' = teardowns \cup Teardown(admin[a].vm, a, "held")
           /\ UNCHANGED work
  <2>1. manager'.group = manager.group
    BY <1>1, <1>3 DEF Unregister, Revoke, ManagerType
  <2>. QED  BY <1>3, <2>1, RevocationMoves
<1>4. CASE /\ UNCHANGED <<manager, work>>
           /\ teardowns' = {IF t.by = a THEN [t EXCEPT !.at = "group"] ELSE t : t \in teardowns}
  <2>1. ASSUME NEW u \in teardowns'
        PROVE  \E t \in teardowns : t.group = u.group /\ (Counts(u) => t = u)
    <3>1. PICK t \in teardowns : u = IF t.by = a THEN [t EXCEPT !.at = "group"] ELSE t
      BY <1>4
    <3>2. t \in TeardownType
      BY SoundParts
    <3>3. [t EXCEPT !.at = "group"].group = t.group /\ [t EXCEPT !.at = "group"].at = "group"
      BY <3>2 DEF TeardownType
    <3>. QED  BY <3>1, <3>3 DEF Counts
  <2>. QED  BY <1>4, <2>1, NoJobMoves
<1>5. CASE Abandon(a)
  BY <1>3, <1>4, <1>5 DEF Abandon
<1>. QED
  BY <1>2, <1>5 DEF Loading

LEMMA DisablingKeepsJobs ==
  ASSUME PluginAssumption, PluginSound, JobsSound, NEW a \in Admins, Disabling(a)
  PROVE  JobsSound'
<1>1. CASE Disable(a) \/ AwaitVisible(a) \/ WaitForLoad(a) \/ Return(a)
  BY <1>1, NoTeardownMoves DEF Disable, AwaitVisible, WaitForLoad, Return
<1>2. CASE Look(a)
  <2>1. CASE UNCHANGED <<manager, work, teardowns>>
    BY <2>1, NoTeardownMoves
  <2>2. CASE /\ manager' = [Unregister(manager.published, Revoke(manager.published, manager))
                             EXCEPT !.published = NoVM]
             /\ teardowns' = teardowns \cup Teardown(manager.published, a, "group")
             /\ UNCHANGED work
    <3>1. manager'.group = manager.group
      BY <2>2, SoundParts DEF Unregister, Revoke, ManagerType
    <3>. QED  BY <2>2, <3>1, RevocationMoves
  <2>. QED  BY <1>2, <2>1, <2>2 DEF Look
<1>. QED
  BY <1>1, <1>2 DEF Disabling

\* A job inside, a WaitGroup of its own in hand.
LEMMA InsideCounted ==
  ASSUME PluginAssumption, JobsSound
  PROVE  \A j \in Jobs : work[j].at = "lua" => work[j].group \in Jobs /\ work[j].group # Nobody
BY DEF JobsSound, GroupsNamed, PluginAssumption

LEMMA TearingKeepsJobs ==
  ASSUME PluginAssumption, PluginSound, JobsSound, Tearing
  PROVE  JobsSound'
<1>1. PICK t \in teardowns : TakeGroup(t) \/ Drain(t) \/ CloseVM(t) \/ Sweep(t)
  BY DEF Tearing
<1>2. t \in TeardownType /\ manager \in ManagerType
  BY SoundParts
<1>3. CASE TakeGroup(t)
  <2>. DEFINE u == [t EXCEPT !.at = "drain", !.group = manager.group]
  <2>1. u.at = "drain" /\ u.group = manager.group
    BY <1>2 DEF TeardownType
  <2>2. /\ teardowns' = (teardowns \ {t}) \cup {u} /\ UNCHANGED work /\ manager'.group = Nobody
    BY <1>2, <1>3 DEF TakeGroup, Step, ManagerType
  <2>. HIDE DEF u
  <2>3. GroupsNamed'
    BY <2>1, <2>2 DEF JobsSound, GroupsNamed, PluginAssumption
  <2>4. GroupsTaken'
    <3>1. ASSUME NEW x \in teardowns', Counts(x) PROVE Taken(x)'
      <4>1. x.at = "close" => x \in teardowns
        BY <2>1, <2>2
      <4>2. x.at = "close" => Taken(x)
        BY <3>1, <4>1, TakenMeans DEF JobsSound
      <4>. QED  BY <2>2, <4>2, InsideCounted DEF Taken
    <3>. QED  BY <3>1, TakenMeansNext
  <2>5. SaidOfJobs'
    BY <2>2 DEF JobsSound, SaidOfJobs
  <2>. QED  BY <2>3, <2>4, <2>5 DEF JobsSound
<1>4. CASE t.at = "drain" /\ Counted(t.group) = {} /\ Step(t, [t EXCEPT !.at = "close"])
             /\ UNCHANGED <<manager, work>>
  <2>. DEFINE u == [t EXCEPT !.at = "close"]
  <2>1. u.at = "close" /\ u.group = t.group /\ u.vm = t.vm
    BY <1>2 DEF TeardownType
  <2>2. teardowns' = (teardowns \ {t}) \cup {u}
    BY <1>4 DEF Step
  <2>. HIDE DEF u
  <2>3. GroupsNamed' /\ SaidOfJobs'
    BY <1>4, <2>1, <2>2 DEF JobsSound, GroupsNamed, SaidOfJobs
  <2>4. GroupsTaken'
    <3>1. Taken(t)
      BY <1>4, TakenMeans DEF JobsSound, Counts
    <3>2. \A j \in Jobs : work[j].at = "lua" => work[j].group # t.group
      BY <1>4, InsideCounted DEF Counted
    <3>3. Taken(u)'
      BY <1>4, <2>1, <3>1, <3>2 DEF Taken
    <3>4. \A x \in teardowns : Counts(x) => Taken(x)'
      BY <1>4, TakenMeans DEF JobsSound, Taken
    <3>. QED  BY <2>2, <3>3, <3>4, TakenMeansNext
  <2>. QED  BY <2>3, <2>4 DEF JobsSound
<1>5. CASE t.at = "drain" /\ Step(t, [t EXCEPT !.by = Nobody]) /\ UNCHANGED <<manager, work>>
  <2>1. LET u == [t EXCEPT !.by = Nobody] IN u.at = t.at /\ u.group = t.group /\ u.vm = t.vm
    BY <1>2 DEF TeardownType
  <2>. QED  BY <1>5, <2>1, NoJobMoves DEF Step, Counts
<1>6. CASE CloseVM(t)
  <2>1. LET u == [t EXCEPT !.at = "sweep"] IN u.at = "sweep" /\ u.group = t.group
    BY <1>2 DEF TeardownType
  <2>. QED  BY <1>6, <2>1, NoJobMoves DEF CloseVM, Step, Counts
<1>7. CASE Sweep(t)
  <2>1. manager'.group = manager.group
    BY <1>2, <1>7 DEF Sweep, Unregister, ManagerType
  <2>. QED  BY <1>7, <2>1, NoJobMoves DEF Sweep
<1>. QED
  BY <1>1, <1>3, <1>4, <1>5, <1>6, <1>7 DEF Drain

LEMMA CloseKeepsJobs ==
  ASSUME PluginAssumption, PluginSound, JobsSound, Close
  PROVE  JobsSound'
<1>1. UNCHANGED work /\ manager \in ManagerType
  BY SoundParts DEF Close
<1>2. CASE UNCHANGED teardowns
  <2>1. manager'.group = manager.group
    BY <1>1 DEF Close, Revoke, ManagerType
  <2>. QED  BY <1>1, <1>2, <2>1, NoTeardownMoves
<1>3. CASE /\ manager' = Revoke(manager.published, manager)
           /\ teardowns' = teardowns \cup Teardown(manager.published, "closer", "close")
  <2>1. manager'.group = manager.group
    BY <1>1, <1>3 DEF Revoke, ManagerType
  <2>. QED  BY <1>1, <1>3, <2>1, RevocationMoves
<1>. QED
  BY <1>2, <1>3 DEF Close

\* A call, and what registers, leave the jobs alone.
LEMMA CallsKeepJobs ==
  ASSUME PluginAssumption, PluginSound, JobsSound,
         (\E c \in Callers : Calling(c)) \/ \E v \in VMs : Register(v)
  PROVE  JobsSound'
<1>1. UNCHANGED <<work, teardowns>>
  BY DEF Calling, FindRegistration, Enter, Leave, Register
<1>2. manager'.group = manager.group
  BY SoundParts DEF Calling, FindRegistration, Enter, Leave, Register, ManagerType
<1>. QED
  BY <1>1, <1>2, NoTeardownMoves

Joined == {"waiting", "running", "locked", "lua"}

\* What is said of one job.
SaidOf(j) ==
  /\ work[j].said \in {"nothing", work[j].status}
  /\ work[j].said # "nothing" => work[j].at \in {"lua", "returned", "ended"}
  /\ work[j].at = "ended" => work[j].status \in Finished

\* A step of a job that joins no WaitGroup.
LEMMA JobKeepsJobs ==
  ASSUME PluginAssumption, PluginSound, JobsSound, NEW j \in Jobs, NEW r,
         UNCHANGED <<manager, teardowns>>, work' = [work EXCEPT ![j] = r],
         work[j].at \notin {"none", "accepted"} => r.at \notin {"none", "accepted"},
         r.group \in {work[j].group, Nobody},
         r.at \in Joined => work[j].at \in Joined /\ r.group = work[j].group,
         r.at = "lua" => Live(r.vm) \/ (work[j].at = "lua" /\ r.vm = work[j].vm),
         /\ r.said \in {"nothing", r.status}
         /\ r.said # "nothing" => r.at \in {"lua", "returned", "ended"}
         /\ r.at = "ended" => r.status \in Finished
  PROVE  JobsSound'
<1>1. work'[j] = r /\ \A k \in Jobs \ {j} : work'[k] = work[k]
  BY SoundParts
<1>2. GroupsNamed'
  <2>1. \A g \in Jobs : work[g].at \notin {"none", "accepted"} => work'[g].at \notin {"none", "accepted"}
    BY <1>1
  <2>2. \A k \in Jobs : work'[k].group \in {work[k].group, Nobody}
    BY <1>1
  <2>3. \A k \in Jobs : work'[k].at \in Joined => work'[k].group = work[k].group /\ work[k].at \in Joined
    BY <1>1
  <2>. QED  BY <2>1, <2>2, <2>3 DEF JobsSound, GroupsNamed, PluginAssumption, Joined
<1>3. GroupsTaken'
  <2>1. ASSUME NEW t \in teardowns, Counts(t), NEW k \in Jobs, work'[k].at = "lua", work'[k].vm = t.vm
        PROVE  work'[k].group # manager.group /\ (t.at = "close" => work'[k].group # t.group)
    <3>1. ~Live(t.vm)
      BY SoundParts DEF OneTeardown, Live
    <3>2. work[k].at = "lua" /\ work[k].vm = t.vm /\ work'[k].group = work[k].group
      BY <1>1, <2>1, <3>1 DEF Joined
    <3>. QED  BY <2>1, <3>2, TakenMeans DEF JobsSound, Taken
  <2>. QED  BY <2>1, TakenMeansNext DEF Taken
<1>4. SaidOfJobs'
  BY <1>1 DEF JobsSound, SaidOfJobs
<1>. QED
  BY <1>2, <1>3, <1>4 DEF JobsSound

LEMMA SaidBefore ==
  ASSUME JobsSound, NEW j \in Jobs
  PROVE  SaidOf(j)
BY DEF JobsSound, SaidOfJobs, SaidOf

LEMMA StartKeepsJobs ==
  ASSUME PluginAssumption, PluginSound, JobsSound, NEW j \in Jobs, StartJob(j)
  PROVE  JobsSound'
<1>1. UNCHANGED <<manager, teardowns>> /\ work[j].at = "none"
  BY DEF StartJob
<1>2. ASSUME NEW v, NEW g, work' = [work EXCEPT ![j] = [NoJob EXCEPT !.at = "accepted", !.vm = v, !.by = g]]
      PROVE  JobsSound'
  <2>. DEFINE r == [NoJob EXCEPT !.at = "accepted", !.vm = v, !.by = g]
  <2>1. r.at = "accepted" /\ r.group = Nobody /\ r.said = "nothing"
    BY DEF NoJob
  <2>2. work' = [work EXCEPT ![j] = r]
    BY <1>2
  <2>. HIDE DEF r
  <2>. QED  BY <1>1, <2>1, <2>2, JobKeepsJobs DEF Joined
<1>3. ASSUME NEW v, work' = [work EXCEPT ![j] = [NoJob EXCEPT !.at = "accepted", !.vm = v]]
      PROVE  JobsSound'
  <2>. DEFINE r == [NoJob EXCEPT !.at = "accepted", !.vm = v]
  <2>1. r.at = "accepted" /\ r.group = Nobody /\ r.said = "nothing"
    BY DEF NoJob
  <2>2. work' = [work EXCEPT ![j] = r]
    BY <1>3
  <2>. HIDE DEF r
  <2>. QED  BY <1>1, <2>1, <2>2, JobKeepsJobs DEF Joined
<1>. QED
  BY <1>2, <1>3 DEF StartJob

LEMMA JoinKeepsJobs ==
  ASSUME PluginAssumption, PluginSound, JobsSound, NEW j \in Jobs, JoinGroup(j)
  PROVE  JobsSound'
<1>. DEFINE g == IF manager.group = Nobody THEN j ELSE manager.group
            r == [work[j] EXCEPT !.at = "waiting", !.listed = TRUE, !.group = g]
<1>1. /\ work[j].at = "accepted" /\ UNCHANGED teardowns
      /\ manager' = [manager EXCEPT !.group = IF @ = Nobody THEN j ELSE @]
  BY DEF JoinGroup
<1>2. manager'.group = g /\ g \in Jobs /\ g # Nobody /\ work[j] \in JobType
  BY <1>1, SoundParts DEF ManagerType, PluginAssumption
<1>3. r.at = "waiting" /\ r.group = g /\ r.said = work[j].said /\ r.status = work[j].status
  BY <1>2 DEF JobType
<1>4. work' = [work EXCEPT ![j] = r]
  <2>1. work' = [work EXCEPT ![j].at = "waiting", ![j].listed = TRUE, ![j].group = manager'.group]
    BY DEF JoinGroup
  <2>. QED  BY <1>2, <2>1
<1>. HIDE DEF r
<1>5. work'[j] = r /\ \A k \in Jobs \ {j} : work'[k] = work[k]
  BY <1>4, SoundParts
<1>6. GroupsNamed'
  <2>1. \A h \in Jobs : work[h].at \notin {"none", "accepted"} => work'[h].at \notin {"none", "accepted"}
    BY <1>3, <1>5
  <2>2. work'[g].at \notin {"none", "accepted"}
    BY <1>2, <1>3, <1>5, <2>1 DEF JobsSound, GroupsNamed
  <2>3. \A k \in Jobs : work'[k].group \in {work[k].group, g}
    BY <1>3, <1>5
  <2>4. \A k \in Jobs : work'[k].at \in Joined => work'[k].group \in Jobs
    BY <1>2, <1>3, <1>5 DEF JobsSound, GroupsNamed, Joined
  <2>. QED  BY <1>1, <1>2, <2>1, <2>2, <2>3, <2>4 DEF JobsSound, GroupsNamed, Joined
<1>7. GroupsTaken'
  <2>1. ASSUME NEW t \in teardowns, Counts(t), NEW k \in Jobs, work'[k].at = "lua", work'[k].vm = t.vm
        PROVE  work'[k].group # manager'.group /\ (t.at = "close" => work'[k].group # t.group)
    <3>1. k # j /\ work'[k] = work[k]
      BY <1>3, <1>5, <2>1
    <3>2. work[k].group # manager.group /\ (t.at = "close" => work[k].group # t.group)
      BY <2>1, <3>1, TakenMeans DEF JobsSound, Taken
    <3>3. work[k].group # j
      BY <1>1 DEF JobsSound, GroupsNamed
    <3>. QED  BY <1>2, <3>1, <3>2, <3>3
  <2>. QED  BY <1>1, <2>1, TakenMeansNext DEF Taken
<1>8. SaidOfJobs'
  <2>1. work[j].said = "nothing"
    BY <1>1, SaidBefore DEF SaidOf
  <2>. QED  BY <1>3, <1>5, <2>1 DEF JobsSound, SaidOfJobs
<1>. QED
  BY <1>6, <1>7, <1>8 DEF JobsSound

LEMMA TakeSlotKeepsJobs ==
  ASSUME PluginAssumption, PluginSound, JobsSound, NEW j \in Jobs, TakeSlot(j)
  PROVE  JobsSound'
<1>. DEFINE r == [work[j] EXCEPT !.at = "running", !.status = "running"]
<1>1. work[j].at = "waiting" /\ UNCHANGED <<manager, teardowns>> /\ work' = [work EXCEPT ![j] = r]
  BY DEF TakeSlot
<1>2. r.at = "running" /\ r.group = work[j].group /\ r.said = work[j].said
  BY SoundJobs DEF JobTyped, JobType
<1>3. work[j].said = "nothing"
  BY <1>1, SaidBefore DEF SaidOf
<1>. HIDE DEF r
<1>. QED
  BY <1>1, <1>2, <1>3, JobKeepsJobs DEF Joined

LEMMA EnterJobKeepsJobs ==
  ASSUME PluginAssumption, PluginSound, JobsSound, NEW j \in Jobs, EnterJob(j)
  PROVE  JobsSound'
<1>1. work[j].at \in {"running", "locked"} /\ UNCHANGED <<manager, teardowns>> /\ work[j] \in JobType
  BY SoundParts DEF EnterJob
<1>2. work[j].said = "nothing"
  BY <1>1, SaidBefore DEF SaidOf
<1>3. ASSUME NEW at \in {"locked", "lua"}, work' = [work EXCEPT ![j].at = at],
             at = "lua" => Live(work[j].vm)
      PROVE  JobsSound'
  <2>. DEFINE r == [work[j] EXCEPT !.at = at]
  <2>1. r.at = at /\ r.vm = work[j].vm /\ r.group = work[j].group /\ r.said = work[j].said
    BY <1>1 DEF JobType
  <2>2. work' = [work EXCEPT ![j] = r]
    BY <1>3
  <2>. HIDE DEF r
  <2>3. r.at = "lua" => Live(r.vm)
    BY <1>3, <2>1 DEF Live
  <2>4. r.at \in Joined /\ work[j].at \in Joined /\ r.at \notin {"none", "accepted", "ended"}
    BY <1>1, <2>1 DEF Joined
  <2>. QED  BY <1>1, <1>2, <2>1, <2>2, <2>3, <2>4, JobKeepsJobs
<1>4. CASE work' = [work EXCEPT ![j] = Gone(@)]
  <2>. DEFINE r == Gone(work[j])
  <2>1. r.at = "returned" /\ r.group = work[j].group /\ r.said = work[j].said
    BY <1>1 DEF JobType, Gone
  <2>2. work' = [work EXCEPT ![j] = r]
    BY <1>4
  <2>. HIDE DEF r
  <2>. QED  BY <1>1, <1>2, <2>1, <2>2, JobKeepsJobs DEF Joined
<1>. QED
  BY <1>3, <1>4 DEF EnterJob, StillRegistered

LEMMA ReportKeepsJobs ==
  ASSUME PluginAssumption, PluginSound, JobsSound, NEW j \in Jobs, Report(j)
  PROVE  JobsSound'
<1>1. PICK s \in Finished : work' = [work EXCEPT ![j].status = s, ![j].said = s]
  BY DEF Report
<1>2. work[j].at = "lua" /\ UNCHANGED <<manager, teardowns>> /\ work[j] \in JobType
  BY SoundParts DEF Report
<1>. DEFINE r == [work[j] EXCEPT !.status = s, !.said = s]
<1>3. r.at = "lua" /\ r.vm = work[j].vm /\ r.group = work[j].group /\ r.said = s /\ r.status = s
  BY <1>2 DEF JobType
<1>4. work' = [work EXCEPT ![j] = r]
  BY <1>1
<1>. HIDE DEF r
<1>. QED
  BY <1>2, <1>3, <1>4, JobKeepsJobs DEF Joined

LEMMA HandlerEndsKeepsJobs ==
  ASSUME PluginAssumption, PluginSound, JobsSound, NEW j \in Jobs, HandlerEnds(j)
  PROVE  JobsSound'
<1>1. PICK q \in {"none", "table", "error"} :
        work' = [work EXCEPT ![j].at = "returned", ![j].vm = NoVM, ![j].result = q]
  BY DEF HandlerEnds
<1>2. work[j].at = "lua" /\ UNCHANGED <<manager, teardowns>> /\ work[j] \in JobType
  BY SoundParts DEF HandlerEnds
<1>. DEFINE r == [work[j] EXCEPT !.at = "returned", !.vm = NoVM, !.result = q]
<1>3. r.at = "returned" /\ r.group = work[j].group /\ r.said = work[j].said /\ r.status = work[j].status
  BY <1>2 DEF JobType
<1>4. work' = [work EXCEPT ![j] = r]
  BY <1>1
<1>. HIDE DEF r
<1>. QED
  BY <1>2, <1>3, <1>4, SaidBefore, JobKeepsJobs DEF Joined, SaidOf

LEMMA ClearKeepsJobs ==
  ASSUME PluginAssumption, PluginSound, JobsSound, NEW j \in Jobs, ClearJob(j)
  PROVE  JobsSound'
<1>. DEFINE r == [work[j] EXCEPT !.listed = FALSE]
<1>1. UNCHANGED <<manager, teardowns>> /\ work[j] \in JobType /\ work' = [work EXCEPT ![j] = r]
  BY SoundParts DEF ClearJob
<1>2. /\ r.at = work[j].at /\ r.vm = work[j].vm /\ r.group = work[j].group
      /\ r.said = work[j].said /\ r.status = work[j].status
  BY <1>1 DEF JobType
<1>. HIDE DEF r
<1>. QED
  BY <1>1, <1>2, SaidBefore, JobKeepsJobs DEF Joined, SaidOf

LEMMA SettleKeepsJobs ==
  ASSUME PluginAssumption, PluginSound, JobsSound, NEW j \in Jobs, Settle(j)
  PROVE  JobsSound'
<1>. DEFINE w == work[j]
<1>1. UNCHANGED <<manager, teardowns>> /\ w \in JobType /\ w.at \in {"returned", "settling", "ended"}
  BY SoundParts DEF Settle
<1>2. SaidOf(j)
  BY SaidBefore
<1>3. CASE w.at = "returned" /\ work' = [work EXCEPT ![j].result = "none",
              ![j].status = IF Decided(w) THEN @ ELSE "completed"]
  <2>. DEFINE r == [w EXCEPT !.result = "none", !.status = IF Decided(w) THEN @ ELSE "completed"]
  <2>1. /\ r.at = "returned" /\ r.group = w.group /\ r.said = w.said
        /\ r.status = IF w.status = "failed" THEN w.status ELSE "completed"
    BY <1>1, <1>3 DEF JobType, Decided
  <2>2. work' = [work EXCEPT ![j] = r]
    BY <1>3
  <2>3. r.said \in {"nothing", r.status}
    BY <1>1, <1>2, <2>1 DEF SaidOf, JobType, Finished
  <2>. HIDE DEF r
  <2>. QED  BY <1>1, <2>1, <2>2, <2>3, JobKeepsJobs DEF Joined
<1>4. CASE w.at = "returned" /\ work' = [work EXCEPT ![j].at = IF AlreadyDone(w) THEN "ended" ELSE "settling"]
  <2>. DEFINE r == [w EXCEPT !.at = IF AlreadyDone(w) THEN "ended" ELSE "settling"]
  <2>1. /\ r.at = (IF w.status \in Finished THEN "ended" ELSE "settling")
        /\ r.group = w.group /\ r.said = w.said /\ r.status = w.status
    BY <1>1, <1>4 DEF JobType, AlreadyDone
  <2>2. work' = [work EXCEPT ![j] = r]
    BY <1>4
  <2>3. w.status \notin Finished => w.said = "nothing"
    BY <1>1, <1>2 DEF SaidOf, JobType
  <2>. HIDE DEF r
  <2>. QED  BY <1>1, <1>2, <2>1, <2>2, <2>3, JobKeepsJobs DEF Joined, SaidOf
<1>5. CASE w.at = "settling" /\ work' = [work EXCEPT ![j].at = "ended",
              ![j].status = IF w.result = "error" THEN "failed" ELSE "completed"]
  <2>. DEFINE r == [w EXCEPT !.at = "ended", !.status = IF w.result = "error" THEN "failed" ELSE "completed"]
  <2>1. r.at = "ended" /\ r.group = w.group /\ r.said = w.said /\ r.status \in Finished
    BY <1>1, <1>5 DEF JobType, Finished
  <2>2. work' = [work EXCEPT ![j] = r]
    BY <1>5
  <2>3. w.said = "nothing"
    BY <1>2, <1>5 DEF SaidOf
  <2>. HIDE DEF r
  <2>. QED  BY <1>1, <2>1, <2>2, <2>3, JobKeepsJobs DEF Joined
<1>6. CASE work' = [work EXCEPT ![j] = [NoJob EXCEPT !.at = "gone"]]
  <2>. DEFINE r == [NoJob EXCEPT !.at = "gone"]
  <2>1. r.at = "gone" /\ r.group = Nobody /\ r.said = "nothing"
    BY DEF NoJob
  <2>2. work' = [work EXCEPT ![j] = r]
    BY <1>6
  <2>. HIDE DEF r
  <2>. QED  BY <1>1, <2>1, <2>2, JobKeepsJobs DEF Joined
<1>. QED
  BY <1>3, <1>4, <1>5, <1>6 DEF Settle

LEMMA JobsKept ==
  ASSUME PluginAssumption, PluginSound, JobsSound, [PluginNext]_pluginVars
  PROVE  JobsSound'
<1>1. CASE \E a \in Admins : Loading(a) \/ Disabling(a)
  BY <1>1, LoadingKeepsJobs, DisablingKeepsJobs
<1>2. CASE Tearing
  BY <1>2, TearingKeepsJobs
<1>3. CASE Close
  BY <1>3, CloseKeepsJobs
<1>4. CASE (\E c \in Callers : Calling(c)) \/ \E v \in VMs : Register(v)
  BY <1>4, CallsKeepJobs
<1>5. CASE \E j \in Jobs : StartJob(j) \/ JoinGroup(j) \/ Working(j) \/ Report(j) \/ ClearJob(j)
  BY <1>5, StartKeepsJobs, JoinKeepsJobs, TakeSlotKeepsJobs, EnterJobKeepsJobs,
     HandlerEndsKeepsJobs, SettleKeepsJobs, ReportKeepsJobs, ClearKeepsJobs DEF Working
<1>6. CASE UNCHANGED pluginVars
  BY <1>6, NoTeardownMoves DEF pluginVars
<1>. QED
  BY <1>1, <1>2, <1>3, <1>4, <1>5, <1>6 DEF PluginNext

LEMMA JobsAtFirst == ASSUME PluginAssumption, PluginInit PROVE JobsSound
<1>1. /\ \A j \in Jobs : work[j].at = "none" /\ work[j].said = "nothing" /\ work[j].group = Nobody
      /\ teardowns = {} /\ manager.group = Nobody
  BY DEF PluginInit, NoJob
<1>. QED
  BY <1>1 DEF JobsSound, GroupsNamed, GroupsTaken, SaidOfJobs, PluginAssumption

LEMMA JobsEnough == ASSUME JobsSound PROVE JobsSettle
<1>1. JobsDrained
  BY DEF JobsSound, GroupsTaken, JobsDrained
<1>2. ReportStands
  BY DEF JobsSound, SaidOfJobs, ReportStands
<1>. QED
  BY <1>1, <1>2 DEF JobsSettle, JobsSound

(* When a teardown goes on to close the VM (finishTeardown, past the WaitGroup of the   *)
(* name), no job is inside but one that another teardown's WaitGroup counts, and a job  *)
(* ends as what its handler last said of it (executeAsyncJobWithin), however many jobs, *)
(* VMs and administrators there are.                                                    *)
THEOREM JobsAlwaysSettle == PluginSpec => []JobsSettle
<1>1. PluginInit => PluginSound /\ JobsSound
  BY PluginAssumption, SoundAtFirst, JobsAtFirst
<1>2. PluginSound /\ JobsSound /\ [PluginNext]_pluginVars => PluginSound' /\ JobsSound'
  BY PluginAssumption, SoundKept, JobsKept
<1>3. JobsSound => JobsSettle
  BY JobsEnough
<1>. QED
  BY <1>1, <1>2, <1>3, PTL DEF PluginSpec

-----------------------------------------------------------------------------
(* Only the published VM is entered, and only a VM's own end takes what it    *)
(* registered.                                                                *)

\* Who has the lock of a live VM while it is not loading finds it published.
LEMMA LiveIsPublished ==
  ASSUME PluginAssumption, PluginSound, NEW v \in VMs, Live(v),
         NEW g \in Callers \cup Jobs, g \in Holding(v)
  PROVE  manager.published = v
<1>1. SUFFICES ASSUME manager.published # v PROVE FALSE
  OBVIOUS
<1>2. PICK a \in Admins : admin[a].at \in {"init", "abandon"} /\ admin[a].vm = v
  BY <1>1, SoundParts DEF OneTeardown, Live
<1>3. a \in Holding(v) /\ a # g
  BY <1>2 DEF Holding, PluginAssumption
<1>. QED
  BY <1>3, SoundParts DEF HoldersKnown

\* A job runs Lua after it found its VM live with the lock held.
LEMMA JobEnters ==
  ASSUME PluginSound, NEW j \in Jobs,
         StartJob(j) \/ JoinGroup(j) \/ Working(j) \/ Report(j) \/ ClearJob(j)
  PROVE  /\ JobStays(j)
         /\ work'[j].at = "lua" =>
              /\ work'[j].vm = work[j].vm
              /\ work[j].at = "lua" \/ (work[j].at = "locked" /\ Live(work[j].vm))
<1>1. JobTyped /\ work[j] \in JobType
  BY SoundJobs DEF JobTyped
<1>2. CASE StartJob(j)
  BY <1>1, <1>2 DEF StartJob, JobTyped, JobStays, NoJob
<1>3. CASE JoinGroup(j)
  <2>1. work' = [work EXCEPT ![j].at = "waiting", ![j].listed = TRUE, ![j].group = manager'.group]
    BY <1>3 DEF JoinGroup
  <2>. QED  BY <1>1, <2>1 DEF JobTyped, JobStays, JobType
<1>4. CASE TakeSlot(j)
  BY <1>1, <1>4 DEF TakeSlot, JobTyped, JobStays, JobType
<1>5. CASE EnterJob(j)
  <2>1. CASE work' = [work EXCEPT ![j].at = "locked"]
    BY <1>1, <2>1, JobGoes DEF JobAts
  <2>2. CASE work[j].at = "locked" /\ Live(work[j].vm) /\ work' = [work EXCEPT ![j].at = "lua"]
    <3>1. work' = [work EXCEPT ![j].at = "lua"]
      BY <2>2
    <3>. QED  BY <1>1, <2>2, <3>1, JobGoes DEF JobAts
  <2>3. CASE work' = [work EXCEPT ![j] = Gone(@)]
    BY <1>1, <2>3, JobIsGone
  <2>. QED  BY <1>5, <2>1, <2>2, <2>3 DEF EnterJob, StillRegistered
<1>6. CASE HandlerEnds(j)
  BY <1>1, <1>6 DEF HandlerEnds, JobTyped, JobStays, JobType
<1>7. CASE Settle(j)
  BY <1>1, <1>7 DEF Settle, JobTyped, JobStays, JobType, NoJob
<1>8. CASE Report(j) \/ ClearJob(j)
  BY <1>1, <1>8 DEF Report, ClearJob, JobTyped, JobStays, JobType
<1>. QED
  BY <1>2, <1>3, <1>4, <1>5, <1>6, <1>7, <1>8 DEF Working

LEMMA EntersPublished ==
  ASSUME PluginAssumption, PluginSound, [PluginNext]_pluginVars,
         NEW v \in VMs, NEW g \in Inside(v)' \ Inside(v), g \in Callers \cup Jobs
  PROVE  manager.published = v
<1>1. g \notin Admins
  BY DEF PluginAssumption
<1>2. CASE g \in Callers
  <2>1. call'[g].at = "lua" /\ call'[g].vm = v /\ ~(call[g].at = "lua" /\ call[g].vm = v)
    BY <1>1, <1>2 DEF Inside, PluginAssumption
  <2>2. PICK c \in Callers : FindRegistration(c) \/ Enter(c) \/ Leave(c)
    <3>1. call' # call
      BY <2>1
    <3>. QED
      BY <3>1 DEF PluginNext, pluginVars, Calling, Tearing, Loading, Disabling, Working, Claim, Refuse,
         SeeAbsent, BeginLoad, Publish, LoadFails, Abandon, OpenToOthers, EndLoad, Disable, AwaitVisible,
         Look, WaitForLoad, Return, TakeGroup, Drain, CloseVM, Sweep, Close, Register, StartJob, JoinGroup,
         TakeSlot, EnterJob, HandlerEnds, Settle, Report, ClearJob
  <2>3. call \in [Callers -> CallType]
    BY SoundParts
  <2>4. /\ Enter(c) /\ c = g /\ call[c].at = "locked" /\ Live(call[c].vm)
        /\ call' = [call EXCEPT ![c].at = "lua"]
    <3>1. CASE FindRegistration(c)
      BY <2>1, <2>3, <3>1 DEF FindRegistration
    <3>2. CASE Leave(c)
      BY <2>1, <2>3, <3>2 DEF Leave, NoCall
    <3>3. CASE Enter(c)
      <4>1. \/ call' = [call EXCEPT ![c].at = "locked"]
            \/ call' = [call EXCEPT ![c] = NoCall]
            \/ call[c].at = "locked" /\ Live(call[c].vm) /\ call' = [call EXCEPT ![c].at = "lua"]
        BY <3>3 DEF Enter, StillRegistered
      <4>2. CASE call' = [call EXCEPT ![c].at = "locked"]
        BY <1>2, <2>1, <2>3, <4>2, CallGoes DEF CallStays
      <4>3. CASE call' = [call EXCEPT ![c] = NoCall]
        BY <1>2, <2>1, <2>3, <4>3, CallRests DEF CallStays
      <4>4. CASE call[c].at = "locked" /\ Live(call[c].vm) /\ call' = [call EXCEPT ![c].at = "lua"]
        BY <1>2, <2>1, <2>3, <3>3, <4>4, CallGoes DEF CallStays
      <4>. QED  BY <4>1, <4>2, <4>3, <4>4
    <3>. QED  BY <2>2, <3>1, <3>2, <3>3
  <2>5. call[g].vm = v
    BY <2>1, <2>3, <2>4 DEF CallType
  <2>6. g \in Holding(v)
    BY <1>2, <2>4, <2>5 DEF Holding
  <2>. QED  BY <2>4, <2>5, <2>6, LiveIsPublished
<1>3. CASE g \in Jobs
  <2>1. work'[g].at = "lua" /\ work'[g].vm = v /\ ~(work[g].at = "lua" /\ work[g].vm = v)
    BY <1>1, <1>3 DEF Inside, PluginAssumption
  <2>2. PICK j \in Jobs : StartJob(j) \/ JoinGroup(j) \/ Working(j) \/ Report(j) \/ ClearJob(j)
    <3>1. work' # work
      BY <2>1
    <3>. QED
      BY <3>1 DEF PluginNext, pluginVars, Calling, Tearing, Loading, Disabling, Claim, Refuse,
         SeeAbsent, BeginLoad, Publish, LoadFails, Abandon, OpenToOthers, EndLoad, Disable, AwaitVisible,
         Look, WaitForLoad, Return, TakeGroup, Drain, CloseVM, Sweep, Close, Register,
         FindRegistration, Enter, Leave
  <2>4. work[g].at = "locked" /\ Live(work[g].vm) /\ work[g].vm = v
    BY <1>3, <2>1, <2>2, JobEnters DEF JobStays
  <2>5. g \in Holding(v)
    BY <1>3, <2>4 DEF Holding
  <2>. QED  BY <2>4, <2>5, LiveIsPublished
<1>. QED
  BY <1>2, <1>3

\* An unregistration of a revoked VM takes what is its own.
LEMMA UnregisterTakes ==
  ASSUME PluginSound, NEW w, NEW m, m = Unregister(w, Revoke(w, manager))
  PROVE  /\ m.actions = manager.actions \ {w} /\ m.locks = manager.locks \ {w}
         /\ [m EXCEPT !.published = NoVM].actions = m.actions
         /\ [m EXCEPT !.published = NoVM].locks = m.locks
BY SoundParts DEF Unregister, Revoke, ManagerType

\* The registrations of one VM stay while it is live, until the manager closes.
LEMMA RegistrationsStay ==
  ASSUME PluginAssumption, PluginSound, [PluginNext]_pluginVars,
         NEW v \in manager.actions \ manager'.actions
  PROVE  v \notin manager'.locks \/ manager.closed
<1>1. manager \in ManagerType
  BY SoundParts
<1>2. ASSUME NEW a \in Admins, Loading(a) PROVE v \notin manager'.locks
  <2>1. CASE Abandon(a)
    <3>1. manager' # manager
      OBVIOUS
    <3>2. manager' = Unregister(admin[a].vm, Revoke(admin[a].vm, manager))
      BY <2>1, <3>1 DEF Abandon
    <3>. QED  BY <3>2, UnregisterTakes
  <2>2. CASE Claim(a) \/ Refuse(a) \/ SeeAbsent(a) \/ BeginLoad(a) \/ Publish(a) \/ LoadFails(a)
               \/ OpenToOthers(a) \/ EndLoad(a)
    BY <1>1, <2>2 DEF Claim, Refuse, SeeAbsent, BeginLoad, Publish, LoadFails, OpenToOthers, EndLoad, ManagerType
  <2>. QED  BY <1>2, <2>1, <2>2 DEF Loading
<1>3. ASSUME NEW a \in Admins, Disabling(a) PROVE v \notin manager'.locks
  <2>1. Look(a)
    BY <1>3 DEF Disabling, Disable, AwaitVisible, WaitForLoad, Return
  <2>2. manager' = [Unregister(manager.published, Revoke(manager.published, manager))
                      EXCEPT !.published = NoVM]
    BY <2>1 DEF Look
  <2>. QED  BY <2>2, UnregisterTakes
<1>4. CASE Tearing
  <2>1. PICK t \in teardowns : TakeGroup(t) \/ Drain(t) \/ CloseVM(t) \/ Sweep(t)
    BY <1>4 DEF Tearing
  <2>2. Sweep(t)
    BY <1>1, <2>1 DEF TakeGroup, Drain, CloseVM, ManagerType
  <2>3. v = t.vm /\ manager'.locks = manager.locks
    BY <1>1, <2>2 DEF Sweep, Unregister, ManagerType
  <2>. QED  BY <2>3, SoundParts DEF OneTeardown
<1>5. CASE Close
  BY <1>1, <1>5, SoundParts DEF Close, Revoke, ManagerType, CloserSees
<1>6. CASE \E c \in Callers : Calling(c)
  BY <1>6 DEF Calling, FindRegistration, Enter, Leave
<1>7. CASE \E w \in VMs : Register(w)
  BY <1>1, <1>7 DEF Register, ManagerType
<1>8. CASE \E j \in Jobs : StartJob(j) \/ JoinGroup(j) \/ Working(j) \/ Report(j) \/ ClearJob(j)
  BY <1>1, <1>8 DEF StartJob, JoinGroup, Working, TakeSlot, EnterJob, HandlerEnds, Settle, Report, ClearJob,
                    ManagerType
<1>9. CASE UNCHANGED pluginVars
  BY <1>9 DEF pluginVars
<1>. QED
  BY <1>2, <1>3, <1>4, <1>5, <1>6, <1>7, <1>8, <1>9 DEF PluginNext

(* A call or a job that goes into a VM finds it published (the second look at vmLocks   *)
(* in LockVM), and a registration goes only with its own VM or at the shutdown          *)
(* (unregisterPluginLocked), whatever loads and disables meet it.                       *)
THEOREM PublishedAlwaysServes == PluginSpec => PublishedServes
<1>1. PluginInit => PluginSound
  BY PluginAssumption, SoundAtFirst
<1>2. PluginSound /\ [PluginNext]_pluginVars => PluginSound'
  BY PluginAssumption, SoundKept
<1>3. PluginSound /\ [PluginNext]_pluginVars =>
        [\A v \in VMs : \A g \in (Inside(v))' \ Inside(v) :
           g \in Callers \cup Jobs => manager.published = v]_pluginVars
  BY PluginAssumption, EntersPublished
<1>4. PluginSound /\ [PluginNext]_pluginVars =>
        [\A v \in manager.actions \ manager'.actions :
           v \notin manager'.locks \/ manager.closed]_pluginVars
  BY PluginAssumption, RegistrationsStay
<1>5. PluginSpec => OnlyPublishedRuns
  BY <1>1, <1>2, <1>3, PTL DEF PluginSpec, OnlyPublishedRuns
<1>6. PluginSpec => RegistrationsOutlast
  BY <1>1, <1>2, <1>4, PTL DEF PluginSpec, RegistrationsOutlast
<1>. QED
  BY <1>5, <1>6 DEF PublishedServes
=============================================================================
