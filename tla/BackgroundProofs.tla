-------------------------- MODULE BackgroundProofs --------------------------
(* Theorems about the rows that goroutines in the background write: those of *)
(* the download history, for every set of jobs and requests and every value  *)
(* of the ages and bounds, and then those of the hashes of images and their  *)
(* pairs, for every set of images, pictures and goroutines.                  *)
EXTENDS DownloadHistory, HashWorker, FiniteSetTheorems, TLAPS

-----------------------------------------------------------------------------
(* The parts of the types, and the two kinds of steps.                       *)

JobType == [phase : {"unborn", "live", "lost"} \cup Outcomes,
            listed : BOOLEAN, discarded : BOOLEAN, retried : BOOLEAN]

RecorderType == [job : Jobs, status : Outcomes, at : 1..MaxTime, writing : BOOLEAN]

Markers == Jobs \cup Calls \cup {None}

RowType == [exists : BOOLEAN, id : Nat, status : Outcomes, at : 0..MaxTime,
            marker : Markers, markedAt : 0..MaxTime]

Places ==
  {"unmade", "link", "url", "find", "inplace", "claim", "submit", "release", "mark", "markinplace",
   "load", "linked", "remove", "stillqueued", "drop", "over", "abandoned"}

CallType == [pc : Places, job : Jobs \cup {None}, started : Jobs \cup {None},
             copy : [id : Nat, marker : Markers, markedAt : 0..MaxTime],
             at : 0..MaxTime, late : BOOLEAN]

SweepType == [on : BOOLEAN, now : 0..MaxTime, status : Outcomes, ids : SUBSET (Jobs \X Nat)]

LEMMA TypesNamed ==
  TypeOK <=> /\ clock \in 1..MaxTime /\ queue \in [Jobs -> JobType]
             /\ recorders \subseteq RecorderType /\ rows \in [Jobs -> RowType]
             /\ calls \in [Calls -> CallType] /\ sweeper \in SweepType
             /\ retries \in 0..MaxRetries /\ crashes \in 0..MaxCrashes
             /\ overwritten \subseteq Jobs \X Nat
BY DEF TypeOK, JobType, RecorderType, RowType, CallType, SweepType, Markers, Places

\* A request that has claimed nothing yet.
Unclaiming == Places \ (Window \cup {"over", "abandoned"})

\* A job that was submitted stays so, and one that left the registry stays out of it.
QueueGoesOn ==
  /\ queue' \in [Jobs -> JobType]
  /\ \A j \in Jobs :
       /\ queue'[j].phase = "live" => queue'[j].listed
       /\ queue[j].phase # "unborn" =>
            queue'[j].phase # "unborn" /\ (queue[j].listed \/ ~queue'[j].listed)

\* A row keeps its claim, or it is made, or it goes.
RowsGoOn ==
  /\ rows' \in [Jobs -> RowType]
  /\ \A j \in Jobs :
       \/ /\ rows'[j].id = rows[j].id /\ (rows'[j].exists => rows[j].exists)
          /\ rows'[j].marker = rows[j].marker /\ rows'[j].markedAt = rows[j].markedAt
       \/ /\ ~rows[j].exists /\ rows'[j].id = rows[j].id + 1
          /\ rows'[j].marker = None
       \/ ~rows'[j].exists /\ rows'[j].id = rows[j].id /\ rows'[j].marker = None

\* A request that changes has claimed nothing, and claims nothing now.
CallsGoOn ==
  /\ calls' \in [Calls -> CallType]
  /\ \A c \in Calls :
       \/ calls'[c] = calls[c]
       \/ /\ calls[c].pc \in Unclaiming /\ calls'[c].pc \notin Window
          /\ CallFits(calls[c])'

\* Nobody claims, hands back or marks in such a step.
GoesOn ==
  /\ QueueGoesOn /\ RowsGoOn /\ CallsGoOn
  /\ recorders' \subseteq RecorderType
  /\ \A r \in recorders' : queue'[r.job].phase # "unborn"
  /\ \A j \in Jobs : rows'[j].exists => queue'[j].phase # "unborn"
  /\ sweeper' \in SweepType /\ sweeper'.now <= clock
  /\ retries' \in 0..MaxRetries /\ crashes' \in 0..MaxCrashes
  /\ UNCHANGED <<clock, overwritten>>

-----------------------------------------------------------------------------
(* A step in which nobody claims keeps the invariant.                        *)

\* Whoever's claim is in a row or a copy does not change in such a step.
LEMMA OwnersStay ==
  ASSUME NamesAssumption, TypeOK, CallsGoOn, NEW x, NEW time, NEW row, Claimed(x, time, row)
  PROVE  x \in Calls => calls'[x] = calls[x]
BY DEF CallsGoOn, Claimed, Unclaiming

LEMMA GoingOnKeepsCalls ==
  ASSUME HistoryAssumption, NamesAssumption, RetriesSound, GoesOn
  PROVE  CallsFit'
<1>1. SUFFICES ASSUME NEW c \in Calls, calls'[c] = calls[c] PROVE CallFits(calls[c])'
  BY DEF CallsFit, GoesOn, CallsGoOn
<1>2. TypeOK /\ CallFits(calls[c])
  BY DEF RetriesSound, RetriesStrengthening, CallsFit
<1> DEFINE k == calls[c]
           x == k.copy.marker
<1>3. k \in CallType
  BY <1>2, TypesNamed
<1>4. x \in Calls => calls'[x] = calls[x]
  BY <1>2, OwnersStay DEF GoesOn, CallFits
<1>5. Named(calls[c])'
  <2>1. k.pc \notin Settled => k.job \in Jobs /\ k.copy.id <= rows'[k.job].id
    <3>1. ASSUME k.job \in Jobs PROVE rows[k.job].id \in Nat /\ rows'[k.job].id \in Nat
                                     /\ rows'[k.job].id >= rows[k.job].id
      BY <1>2, <3>1, TypesNamed DEF GoesOn, RowsGoOn, RowType
    <3>2. k.copy.id \in Nat
      BY <1>3 DEF CallType
    <3>3. QED
      BY <1>2, <3>1, <3>2 DEF CallFits, Named
  <2>2. k.pc \in {"linked", "remove", "stillqueued", "drop"} => queue'[k.job].phase # "unborn"
    BY <1>2 DEF CallFits, Named, GoesOn, QueueGoesOn, Settled
  <2>3. k.pc = "drop" => ~queue'[k.job].listed
    BY <1>2 DEF CallFits, Named, GoesOn, QueueGoesOn, Settled
  <2>4. QED
    BY <1>1, <1>2, <2>1, <2>2, <2>3 DEF CallFits, Named, GoesOn
<1>6. PassesStale(calls[c])'
  BY <1>1, <1>2, <1>4 DEF CallFits, PassesStale
<1>7. Claimed(x, k.copy.markedAt, <<k.job, k.copy.id>>)'
  BY <1>1, <1>2, <1>4 DEF CallFits, Claimed, RowOf
<1>8. QED
  BY <1>1, <1>5, <1>6, <1>7 DEF CallFits

LEMMA GoingOnKeepsRows ==
  ASSUME HistoryAssumption, NamesAssumption, RetriesSound, GoesOn
  PROVE  RowsFit' /\ ClaimHasOwner' /\ SlotsHeld'
<1>1. TypeOK /\ RowsFit /\ ClaimHasOwner /\ SlotsHeld /\ CallsFit
  BY DEF RetriesSound, RetriesStrengthening
<1>2. ASSUME NEW j \in Jobs PROVE rows[j].marker \in Calls => calls'[rows[j].marker] = calls[rows[j].marker]
  BY <1>1, OwnersStay DEF GoesOn, RowsFit
<1>3. RowsFit'
  <2>1. ASSUME NEW j \in Jobs PROVE Claimed(rows[j].marker, rows[j].markedAt, <<j, rows[j].id>>)'
    <3>1. CASE rows'[j].marker = None
      BY <3>1, NamesAssumption DEF Claimed
    <3>2. CASE rows'[j].marker # None
      <4>1. /\ rows'[j].id = rows[j].id /\ rows'[j].marker = rows[j].marker
            /\ rows'[j].markedAt = rows[j].markedAt
        BY <3>2 DEF GoesOn, RowsGoOn
      <4>2. QED
        BY <1>1, <1>2, <4>1 DEF RowsFit, Claimed, RowOf
    <3>3. QED
      BY <3>1, <3>2
  <2>2. QED
    BY <2>1 DEF RowsFit, GoesOn
<1>4. ClaimHasOwner'
  <2>1. SUFFICES ASSUME NEW j \in Jobs, rows'[j].exists, rows'[j].marker \in Calls
                 PROVE  calls'[rows'[j].marker].late
                          \/ calls'[rows'[j].marker].pc \in Window \cup {"abandoned"}
    BY DEF ClaimHasOwner, Window
  <2>2. rows[j].exists /\ rows'[j].marker = rows[j].marker
    BY <2>1, NamesAssumption DEF GoesOn, RowsGoOn
  <2>3. QED
    BY <1>1, <1>2, <2>1, <2>2 DEF ClaimHasOwner
<1>5. SlotsHeld'
  <2>1. SUFFICES ASSUME NEW c \in Calls, calls'[c].pc \in Window, SameRow(c)'
                 PROVE  (rows[calls[c].job].marker = c \/ calls[c].late \/ RowOf(c) \in overwritten)'
    BY DEF SlotsHeld, Window
  <2>2. calls'[c] = calls[c]
    BY <2>1 DEF GoesOn, CallsGoOn
  <2> DEFINE j == calls[c].job
  <2>3. j \in Jobs /\ calls[c].copy.id <= rows[j].id /\ rows[j].id \in Nat /\ calls[c].copy.id \in Nat
    BY <1>1, <2>1, <2>2, TypesNamed DEF CallsFit, CallFits, Named, Settled, Window, RowType, CallType
  <2>4. rows'[j].exists /\ rows'[j].id = calls[c].copy.id
    BY <2>1, <2>2 DEF SameRow
  <2>5. rows[j].exists /\ rows[j].id = rows'[j].id /\ rows'[j].marker = rows[j].marker
    BY <2>3, <2>4 DEF GoesOn, RowsGoOn
  <2>6. rows[j].marker = c \/ calls[c].late \/ RowOf(c) \in overwritten
    BY <1>1, <2>1, <2>2, <2>4, <2>5 DEF SlotsHeld, SameRow
  <2>7. RowOf(c)' = RowOf(c)
    BY <2>2 DEF RowOf
  <2>8. QED
    BY <2>2, <2>5, <2>6, <2>7 DEF GoesOn
<1>6. QED
  BY <1>3, <1>4, <1>5

\* A request that fits and is not past its claim has read another's.
LEMMA NotOwnAfter ==
  ASSUME NamesAssumption, NEW c \in Calls, CallFits(calls[c])', calls'[c].pc \notin Window
  PROVE  calls'[c].copy.marker # c
<1>1. SUFFICES ASSUME calls'[c].copy.marker = c PROVE FALSE
  OBVIOUS
<1>2. calls'[c].pc \in Settled
  BY <1>1 DEF CallFits, Claimed, Settled, Window
<1>3. calls'[c].copy.marker = None
  BY <1>2 DEF CallFits, Named, CopyOf, NoRow
<1>4. QED
  BY <1>1, <1>3, NamesAssumption

LEMMA GoingOnKeeps ==
  ASSUME HistoryAssumption, NamesAssumption, RetriesSound, GoesOn
  PROVE  RetriesSound'
<1>1. TypeOK'
  BY TypesNamed DEF GoesOn, QueueGoesOn, RowsGoOn, CallsGoOn, RetriesSound, TypeOK, JobType,
     RecorderType, RowType, CallType, SweepType, Markers, Places
<1>2. LiveIsListed'
  BY DEF GoesOn, QueueGoesOn, LiveIsListed
<1>3. SlotHeldAlone'
  <2>1. SUFFICES ASSUME NEW c \in Calls, NEW d \in Calls, calls'[c].pc \in Window,
                        calls'[d].pc \in Window, c # d, RowOf(c)' = RowOf(d)'
                 PROVE  (calls[c].late \/ calls[d].late \/ RowOf(c) \in overwritten)'
    BY DEF SlotHeldAlone, Window
  <2>2. calls'[c] = calls[c] /\ calls'[d] = calls[d]
    BY <2>1 DEF GoesOn, CallsGoOn
  <2>3. RowOf(c)' = RowOf(c) /\ RowOf(d)' = RowOf(d)
    BY <2>2 DEF RowOf
  <2>4. QED
    BY <2>1, <2>2, <2>3 DEF RetriesSound, SlotHeldAlone, GoesOn
<1>4. ClaimsRead'
  <2>1. SUFFICES ASSUME NEW c \in Calls PROVE calls'[c].copy.marker # c
    BY DEF ClaimsRead
  <2>2. CASE calls'[c] = calls[c]
    BY <2>2 DEF RetriesSound, RetriesStrengthening, ClaimsRead
  <2>3. CASE calls'[c].pc \notin Window /\ CallFits(calls[c])'
    BY <2>3, NotOwnAfter
  <2>4. QED
    BY <2>2, <2>3 DEF GoesOn, CallsGoOn
<1>5. QED
  BY <1>1, <1>2, <1>3, <1>4, GoingOnKeepsCalls, GoingOnKeepsRows
     DEF RetriesSound, RetriesStrengthening, GoesOn

-----------------------------------------------------------------------------
(* The steps in which nobody claims.                                         *)

LEMMA StillGoesOn ==
  ASSUME RetriesSound
  PROVE  /\ UNCHANGED queue => QueueGoesOn
         /\ UNCHANGED rows => RowsGoOn
         /\ UNCHANGED calls => CallsGoOn
         /\ recorders \subseteq RecorderType /\ sweeper \in SweepType
         /\ sweeper.now <= clock
         /\ \A r \in recorders : r.job \in Jobs /\ queue[r.job].phase # "unborn"
         /\ \A j \in Jobs : rows[j].exists => queue[j].phase # "unborn"
<1>1. TypeOK /\ LiveIsListed /\ RowsFit /\ sweeper.now <= clock
  BY DEF RetriesSound, RetriesStrengthening
<1>2. UNCHANGED queue => QueueGoesOn
  BY <1>1, TypesNamed DEF QueueGoesOn, LiveIsListed
<1>3. UNCHANGED rows => RowsGoOn
  BY <1>1, TypesNamed DEF RowsGoOn
<1>4. UNCHANGED calls => CallsGoOn
  BY <1>1, TypesNamed DEF CallsGoOn
<1>5. QED
  BY <1>1, <1>2, <1>3, <1>4, TypesNamed DEF RowsFit, RecorderType

\* A step of one request that has claimed nothing and touches no row.
LEMMA OneCallGoesOn ==
  ASSUME RetriesSound, NEW c \in Calls, NEW k \in CallType,
         calls[c].pc \in Unclaiming, k.pc \notin Window,
         calls' = [calls EXCEPT ![c] = k], CallFits(calls[c])',
         QueueGoesOn, retries' \in 0..MaxRetries,
         UNCHANGED <<clock, recorders, rows, sweeper, crashes, overwritten>>
  PROVE  GoesOn
<1>1. TypeOK
  BY DEF RetriesSound
<1>2. calls' \in [Calls -> CallType] /\ calls'[c] = k
      /\ \A d \in Calls : d # c => calls'[d] = calls[d]
  BY <1>1, TypesNamed
<1>3. CallsGoOn
  BY <1>2 DEF CallsGoOn
<1>4. /\ \A r \in recorders' : queue'[r.job].phase # "unborn"
      /\ \A j \in Jobs : rows'[j].exists => queue'[j].phase # "unborn"
  BY StillGoesOn DEF QueueGoesOn
<1>5. crashes' \in 0..MaxCrashes
  BY <1>1 DEF TypeOK
<1>6. RowsGoOn /\ recorders' \subseteq RecorderType /\ sweeper' \in SweepType
      /\ sweeper'.now <= clock
  BY StillGoesOn
<1>7. QED
  BY <1>3, <1>4, <1>5, <1>6 DEF GoesOn

\* A request that is answered holds nothing.
LEMMA EndedFits ==
  ASSUME HistoryAssumption, NamesAssumption, RetriesSound, NEW c \in Calls,
         NEW pc \in {"over", "abandoned"}, UNCHANGED clock
  PROVE  /\ Ended(c, pc) \in CallType
         /\ calls' = [calls EXCEPT ![c] = Ended(c, pc)] => CallFits(calls[c])'
<1>1. calls \in [Calls -> CallType] /\ clock \in 1..MaxTime
  BY TypesNamed DEF RetriesSound
<1>2. CopyOf(NoRow) = [id |-> 0, marker |-> None, markedAt |-> 0]
  BY DEF CopyOf, NoRow
<1>3. /\ Ended(c, pc).pc = pc /\ Ended(c, pc).copy = CopyOf(NoRow) /\ Ended(c, pc).at = 0
      /\ Ended(c, pc).job = None
  BY DEF Ended, Unmade
<1>4. Unmade \in CallType
  <2>1. MaxTime \in Nat
    BY DEF HistoryAssumption
  <2>2. QED
    BY <1>2, <2>1 DEF CallType, Places, Markers, Unmade
<1>5. Ended(c, pc) \in CallType
  BY <1>1, <1>4 DEF CallType, Places, Ended
<1>6. ASSUME calls' = [calls EXCEPT ![c] = Ended(c, pc)] PROVE CallFits(calls[c])'
  <2>1. calls'[c] = Ended(c, pc)
    BY <1>1, <1>6
  <2>2. Named(calls[c])'
    BY <1>1, <1>2, <1>3, <2>1 DEF Named, Settled, Window
  <2>3. calls'[c].copy.marker \notin Calls
    BY <1>2, <1>3, <2>1, NamesAssumption
  <2>4. QED
    BY <2>2, <2>3 DEF CallFits, PassesStale, Claimed
<1>7. QED
  BY <1>5, <1>6

\* A request that goes on to another statement with the copy it has.
LEMMA GoneOnFits ==
  ASSUME RetriesSound, NEW c \in Calls, NEW k \in CallType,
         calls' = [calls EXCEPT ![c] = k], UNCHANGED <<clock, rows>>, QueueGoesOn,
         calls[c].pc \in Unclaiming \ Settled,
         k.pc \notin Settled \cup Window, k.job = calls[c].job, k.copy = calls[c].copy,
         k.at <= clock, k.pc = "claim" /\ k.at + TTL <= clock => k.late,
         k.pc \in {"linked", "remove", "stillqueued", "drop"} =>
           calls[c].pc \in {"linked", "remove", "stillqueued", "drop"},
         k.pc = "drop" => ~queue'[k.job].listed,
         k.pc \in {"url", "find", "inplace", "claim"} =>
           \/ calls[c].pc \in {"url", "find", "inplace", "claim"}
           \/ k.copy.marker \in Calls => LET owner == calls[k.copy.marker]
                                         IN  owner.late \/ owner.pc \notin Window
  PROVE  CallFits(calls[c])'
<1>1. TypeOK /\ CallFits(calls[c]) /\ calls'[c] = k
  BY TypesNamed DEF RetriesSound, RetriesStrengthening, CallsFit
<1> DEFINE x == k.copy.marker
<1>2. x \in Calls => x # c /\ calls'[x] = calls[x]
  BY <1>1, TypesNamed DEF CallFits, Claimed, Unclaiming
<1>3. Named(calls[c])'
  <2>1. k.job \in Jobs /\ k.copy.id <= rows'[k.job].id
    BY <1>1 DEF CallFits, Named
  <2>2. k.pc \in {"linked", "remove", "stillqueued", "drop"} => queue'[k.job].phase # "unborn"
    BY <1>1, <2>1 DEF CallFits, Named, QueueGoesOn
  <2>3. QED
    BY <1>1, <2>1, <2>2 DEF Named, Window, Settled
<1>4. PassesStale(calls[c])'
  BY <1>1, <1>2 DEF CallFits, PassesStale
<1>5. Claimed(x, k.copy.markedAt, <<k.job, k.copy.id>>)'
  BY <1>1, <1>2 DEF CallFits, Claimed, RowOf
<1>6. QED
  BY <1>1, <1>3, <1>4, <1>5 DEF CallFits

LEMMA GotoGoesOn ==
  ASSUME RetriesSound, NEW c \in Calls, NEW pc \in Unclaiming \ (Settled \cup {"claim"}),
         Goto(c, pc), calls[c].pc \in Unclaiming \ Settled,
         QueueGoesOn, retries' \in 0..MaxRetries,
         UNCHANGED <<clock, recorders, rows, sweeper, crashes, overwritten>>,
         pc \in {"linked", "remove", "stillqueued", "drop"} =>
           calls[c].pc \in {"linked", "remove", "stillqueued", "drop"},
         pc = "drop" => ~queue'[calls[c].job].listed,
         pc \in {"url", "find", "inplace"} =>
           \/ calls[c].pc \in {"url", "find", "inplace", "claim"}
           \/ calls[c].copy.marker \in Calls =>
                LET owner == calls[calls[c].copy.marker]
                IN  owner.late \/ owner.pc \notin Window
  PROVE  GoesOn
<1> DEFINE k == [calls[c] EXCEPT !.pc = pc]
<1>1. calls \in [Calls -> CallType] /\ CallFits(calls[c])
  BY TypesNamed DEF RetriesSound, RetriesStrengthening, CallsFit
<1>2. k \in CallType /\ k.pc = pc /\ k.job = calls[c].job /\ k.copy = calls[c].copy
      /\ k.at = calls[c].at
  BY <1>1 DEF CallType, Unclaiming
<1>3. calls' = [calls EXCEPT ![c] = k]
  BY <1>1 DEF Goto
<1>4. k.at <= clock
  BY <1>1, <1>2 DEF CallFits, Named
<1>5. CallFits(calls[c])'
  <2> HIDE DEF k
  <2>1. pc \notin Settled \cup Window /\ pc # "claim"
    BY DEF Unclaiming, Settled
  <2>2. QED
    BY <1>2, <1>3, <1>4, <2>1, GoneOnFits
<1>6. QED
  <2> HIDE DEF k
  <2>1. k.pc \notin Window /\ calls[c].pc \in Unclaiming
    BY <1>2 DEF Unclaiming
  <2>2. QED
    BY <1>2, <1>3, <1>5, <2>1, OneCallGoesOn

LEMMA EndGoesOn ==
  ASSUME HistoryAssumption, NamesAssumption, RetriesSound, NEW c \in Calls,
         calls[c].pc \in Unclaiming, End(c, "over"), UNCHANGED queue, UNCHANGED retries,
         UNCHANGED <<clock, recorders, rows, sweeper, crashes, overwritten>>
  PROVE  GoesOn
<1>1. Ended(c, "over") \in CallType /\ CallFits(calls[c])'
  BY EndedFits DEF End
<1>2. Ended(c, "over").pc = "over"
  BY DEF Ended, Unmade
<1>3. QueueGoesOn /\ retries' \in 0..MaxRetries
  BY StillGoesOn DEF RetriesSound, TypeOK
<1>4. QED
  BY <1>1, <1>2, <1>3, OneCallGoesOn DEF End, Window

\* One job changes, which stays submitted and does not come back.
LEMMA OneJobGoesOn ==
  ASSUME RetriesSound, NEW j \in Jobs, NEW k \in JobType, queue' = [queue EXCEPT ![j] = k],
         k.phase = "live" => k.listed,
         queue[j].phase # "unborn" => k.phase # "unborn" /\ (queue[j].listed \/ ~k.listed)
  PROVE  QueueGoesOn
<1>1. queue \in [Jobs -> JobType] /\ LiveIsListed
  BY TypesNamed DEF RetriesSound
<1>2. queue' \in [Jobs -> JobType] /\ queue'[j] = k
      /\ \A i \in Jobs : i # j => queue'[i] = queue[i]
  BY <1>1
<1>3. QED
  BY <1>1, <1>2 DEF QueueGoesOn, LiveIsListed

\* A restart leaves the job submitted and listed.
LEMMA RestartGoesOn ==
  ASSUME HistoryAssumption, RetriesSound, NEW j \in Jobs, NEW retried \in BOOLEAN,
         Listed(j, {"failed"}), Restart(j, retried)
  PROVE  QueueGoesOn /\ retries' \in 0..MaxRetries
<1>1. queue \in [Jobs -> JobType] /\ retries \in 0..MaxRetries /\ MaxRetries \in Nat
  BY TypesNamed DEF RetriesSound, HistoryAssumption
<1> DEFINE k == [queue[j] EXCEPT !.phase = "live", !.retried = retried]
<1>2. k \in JobType /\ k.phase = "live" /\ k.listed = queue[j].listed
  BY <1>1 DEF JobType
<1>3. queue' = [queue EXCEPT ![j] = k] /\ queue[j].listed
  BY <1>1 DEF Restart, Listed
<1>4. QueueGoesOn
  <2> HIDE DEF k
  <2>1. QED
    BY <1>2, <1>3, OneJobGoesOn
<1>5. retries' \in 0..MaxRetries
  BY <1>1 DEF Restart
<1>6. QED
  BY <1>4, <1>5

-----------------------------------------------------------------------------
(* The queue, its recorders and the sweep.                                   *)

LEMMA QueueStepGoesOn ==
  ASSUME HistoryAssumption, NamesAssumption, RetriesSound, QueueStep
  PROVE  GoesOn
<1>1. TypeOK /\ LiveIsListed /\ RowsFit
  BY DEF RetriesSound, RetriesStrengthening
<1>2. retries \in 0..MaxRetries /\ crashes \in 0..MaxCrashes
  BY <1>1 DEF TypeOK
<1>3. ASSUME NEW j \in Jobs, SubmitNew(j) PROVE GoesOn
  <2>1. QueueGoesOn
    BY <1>1, <1>3, TypesNamed DEF SubmitNew, NewJob, QueueGoesOn, LiveIsListed, JobType
  <2>2. QED
    BY <1>2, <1>3, <2>1, StillGoesOn DEF SubmitNew, GoesOn, QueueGoesOn
<1>4. ASSUME NEW j \in Jobs, RetryInPanel(j) PROVE GoesOn
  <2>1. QueueGoesOn /\ retries' \in 0..MaxRetries
    BY <1>4, RestartGoesOn DEF RetryInPanel
  <2>2. QED
    BY <1>2, <1>4, <2>1, StillGoesOn DEF RetryInPanel, GoesOn, QueueGoesOn
<1>5. ASSUME NEW j \in Jobs, Evict(j) PROVE GoesOn
  <2>1. QueueGoesOn
    BY <1>1, <1>5, TypesNamed DEF Evict, Listed, Outcomes, QueueGoesOn, LiveIsListed, JobType
  <2>2. QED
    BY <1>2, <1>5, <2>1, StillGoesOn DEF Evict, GoesOn, QueueGoesOn
<1>6. ASSUME NEW j \in Jobs, NEW outcome \in Outcomes, Finish(j, outcome) PROVE GoesOn
  <2> DEFINE k == [queue[j] EXCEPT !.phase = outcome, !.retried = FALSE]
             snap == [job |-> j, status |-> outcome, at |-> clock, writing |-> FALSE]
  <2>0. queue \in [Jobs -> JobType] /\ clock \in 1..MaxTime /\ recorders \subseteq RecorderType
    BY <1>1, TypesNamed
  <2>1. QueueGoesOn
    <3>1. k \in JobType /\ k.phase = outcome /\ k.listed = queue[j].listed
      BY <2>0 DEF JobType
    <3>2. queue' = [queue EXCEPT ![j] = k] /\ outcome \notin {"live", "unborn"}
      BY <1>6, <2>0 DEF Finish, Outcomes
    <3> HIDE DEF k
    <3>3. QED
      BY <3>1, <3>2, OneJobGoesOn
  <2>2. recorders' = recorders \cup {snap} /\ snap \in RecorderType /\ snap.job = j
    BY <1>6, <2>0 DEF Finish, RecorderType
  <2>3. recorders' \subseteq RecorderType /\ \A r \in recorders' : queue'[r.job].phase # "unborn"
    <3> HIDE DEF snap
    <3>1. queue[j].phase # "unborn"
      BY <1>6 DEF Finish
    <3>2. QED
      BY <2>0, <2>1, <2>2, <3>1, StillGoesOn DEF QueueGoesOn
  <2>4. QED
    BY <1>2, <1>6, <2>1, <2>3, StillGoesOn DEF Finish, GoesOn, QueueGoesOn
<1>7. ASSUME NEW r \in recorders, recordTerminal(r) PROVE GoesOn
  <2>1. recorders' \subseteq RecorderType
    BY <1>1, <1>7, TypesNamed DEF recordTerminal, RecorderType
  <2>2. r.job \in Jobs /\ [r EXCEPT !.writing = TRUE].job = r.job
    BY <1>1, TypesNamed DEF RecorderType
  <2>3. \A s \in recorders' : queue'[s.job].phase # "unborn"
    BY <1>7, <2>2, StillGoesOn DEF recordTerminal
  <2>4. QED
    BY <1>2, <1>7, <2>1, <2>3, StillGoesOn DEF recordTerminal, GoesOn
<1>8. ASSUME NEW r \in recorders, RecordTerminalDownload(r) PROVE GoesOn
  <2>1. r \in RecorderType /\ r.job \in Jobs
    BY <1>1, TypesNamed DEF RecorderType
  <2>2. MaxTime \in Nat
    BY DEF HistoryAssumption
  <2>3. rows[r.job] \in RowType
    BY <1>1, <2>1, TypesNamed
  <2> DEFINE after == Upsert(rows[r.job], r)
  <2>4. after \in RowType
    <3>1. r.status \in Outcomes /\ r.at \in 0..MaxTime
      BY <2>1, <2>2 DEF RecorderType
    <3>2. CASE ~rows[r.job].exists
      <4>1. after = [NoRow EXCEPT !.exists = TRUE, !.id = rows[r.job].id + 1,
                                  !.status = r.status, !.at = r.at]
        BY <3>2 DEF Upsert
      <4>2. NoRow \in RowType /\ rows[r.job].id + 1 \in Nat
        BY <2>2, <2>3 DEF NoRow, RowType, Markers, Outcomes
      <4>3. QED
        BY <3>1, <4>1, <4>2 DEF RowType
    <3>3. CASE rows[r.job].exists
      <4>1. after = [rows[r.job] EXCEPT !.status = r.status, !.at = r.at] \/ after = rows[r.job]
        BY <3>3 DEF Upsert
      <4>2. QED
        BY <2>3, <3>1, <4>1 DEF RowType
    <3>4. QED
      BY <3>2, <3>3
  <2>5. \/ /\ after.id = rows[r.job].id /\ rows[r.job].exists
           /\ after.marker = rows[r.job].marker /\ after.markedAt = rows[r.job].markedAt
        \/ ~rows[r.job].exists /\ after.id = rows[r.job].id + 1 /\ after.marker = None
    BY <2>3 DEF Upsert, NoRow, RowType
  <2>6. rows' = [rows EXCEPT ![r.job] = after]
    BY <1>8 DEF RecordTerminalDownload
  <2>7. RowsGoOn
    <3> HIDE DEF after
    <3>1. QED
      BY <1>1, <2>1, <2>4, <2>5, <2>6, TypesNamed DEF RowsGoOn
  <2>8. \A j \in Jobs : rows'[j].exists => queue[j].phase # "unborn"
    <3> HIDE DEF after
    <3>1. QED
      BY <1>1, <2>1, <2>6, TypesNamed, StillGoesOn
  <2>9. QED
    BY <1>2, <1>8, <2>7, <2>8, StillGoesOn DEF RecordTerminalDownload, GoesOn
<1>9. QED
  BY <1>3, <1>4, <1>5, <1>6, <1>7, <1>8 DEF QueueStep

\* A row that goes leaves its id.
LEMMA RowGoes ==
  ASSUME HistoryAssumption, TypeOK, NEW j \in Jobs, NEW after,
         after = [NoRow EXCEPT !.id = rows[j].id]
  PROVE  /\ after \in RowType /\ ~after.exists
         /\ after.id = rows[j].id /\ after.marker = None
<1>1. rows[j] \in RowType /\ MaxTime \in Nat
  BY TypesNamed DEF HistoryAssumption
<1>2. NoRow \in RowType /\ ~NoRow.exists /\ NoRow.marker = None
  BY <1>1 DEF NoRow, RowType, Markers, Outcomes
<1>3. QED
  BY <1>1, <1>2 DEF RowType

LEMMA SweepGoesOn ==
  ASSUME HistoryAssumption, NamesAssumption, RetriesSound,
         SweepDeletes \/ \E status \in Outcomes : SweepSelects(status)
  PROVE  GoesOn
<1>1. TypeOK /\ RowsFit /\ MaxTime \in Nat
  BY DEF RetriesSound, RetriesStrengthening, HistoryAssumption
<1>2. retries \in 0..MaxRetries /\ crashes \in 0..MaxCrashes /\ clock \in 1..MaxTime
  BY <1>1 DEF TypeOK
<1>3. ASSUME NEW status \in Outcomes, SweepSelects(status) PROVE GoesOn
  <2>1. PICK ids : /\ ids = {<<j, rows[j].id>> : j \in {i \in Jobs : Expired(rows[i], status, clock)}}
                   /\ sweeper' = [on |-> TRUE, now |-> clock, status |-> status, ids |-> ids]
    BY <1>3 DEF SweepSelects
  <2>2. ids \subseteq Jobs \X Nat
    BY <1>1, <2>1, TypesNamed DEF RowType
  <2>3. sweeper' \in SweepType /\ sweeper'.now <= clock
    BY <1>1, <1>2, <2>1, <2>2 DEF SweepType
  <2>4. QED
    BY <1>2, <1>3, <2>3, StillGoesOn DEF SweepSelects, GoesOn
<1>4. CASE SweepDeletes
  <2>1. \A j \in Jobs : \/ rows'[j] = rows[j]
                        \/ rows'[j] = [NoRow EXCEPT !.id = rows[j].id]
    BY <1>4 DEF SweepDeletes
  <2>2. rows' = [j \in Jobs |-> rows'[j]]
    BY <1>4 DEF SweepDeletes
  <2>3. \A j \in Jobs :
          \/ rows'[j] = rows[j]
          \/ /\ rows'[j] \in RowType /\ ~rows'[j].exists
             /\ rows'[j].id = rows[j].id /\ rows'[j].marker = None
    BY <1>1, <2>1, RowGoes
  <2>4. RowsGoOn
    BY <1>1, <2>2, <2>3, TypesNamed DEF RowsGoOn
  <2>5. \A j \in Jobs : rows'[j].exists => queue[j].phase # "unborn"
    BY <2>3, StillGoesOn
  <2>6. sweeper' \in SweepType /\ sweeper'.now <= clock
    BY <1>1, <1>2, <1>4 DEF SweepDeletes, NoSweep, SweepType, Outcomes
  <2>7. QED
    BY <1>2, <1>4, <2>4, <2>5, <2>6, StillGoesOn DEF SweepDeletes, GoesOn
<1>5. QED
  BY <1>3, <1>4

-----------------------------------------------------------------------------
(* The requests, up to their claim and after their last look.                *)

\* The copy that a request loads of a row.
LEMMA LoadedFits ==
  ASSUME HistoryAssumption, RetriesSound, NEW c \in Calls, NEW k \in CallType, NEW j \in Jobs,
         rows[j].exists, k.job = j, k.copy = CopyOf(rows[j]), k.at <= clock,
         k.pc \in {"link", "linked"}, calls[c].pc \in Unclaiming,
         calls' = [calls EXCEPT ![c] = k], UNCHANGED <<clock, rows, queue>>
  PROVE  CallFits(calls[c])'
<1>1. TypeOK /\ RowsFit /\ calls'[c] = k
  BY TypesNamed DEF RetriesSound, RetriesStrengthening
<1>2. k.copy.id = rows[j].id /\ k.copy.marker = rows[j].marker /\ k.copy.markedAt = rows[j].markedAt
  BY DEF CopyOf
<1> DEFINE x == k.copy.marker
<1>3. x \in Calls => x # c /\ calls'[x] = calls[x]
  BY <1>1, <1>2, TypesNamed DEF RowsFit, Claimed, Unclaiming
<1>4. rows[j].id \in Nat /\ k.copy.id <= rows[j].id
  BY <1>1, <1>2, TypesNamed DEF RowType
<1>5. Named(calls[c])'
  BY <1>1, <1>4 DEF Named, RowsFit, Settled, Window
<1>6. PassesStale(calls[c])'
  BY <1>1 DEF PassesStale, Window
<1>7. Claimed(x, k.copy.markedAt, <<k.job, k.copy.id>>)'
  BY <1>1, <1>2, <1>3 DEF RowsFit, Claimed, RowOf
<1>8. QED
  BY <1>1, <1>5, <1>6, <1>7 DEF CallFits

\* A claim that is not in the way has passed its age, or is not at work any more.
LEMMA LinkPassesStale ==
  ASSUME HistoryAssumption, NamesAssumption, RetriesSound, NEW c \in Calls,
         calls[c].pc \notin Settled, linkedRetry(calls[c].copy, calls[c].job) = "none",
         calls[c].copy.marker \in Calls
  PROVE  LET owner == calls[calls[c].copy.marker] IN owner.late \/ owner.pc \notin Window
<1> DEFINE x == calls[c].copy.marker
<1>1. TypeOK /\ CallFits(calls[c]) /\ CallFits(calls[x])
  BY DEF RetriesSound, RetriesStrengthening, CallsFit
<1>2. x # None /\ x # calls[c].job
  BY <1>1, NamesAssumption DEF CallFits, Named
<1>3. ~(clock < calls[c].copy.markedAt + TTL)
  BY <1>2 DEF linkedRetry
<1>4. calls[x].at <= calls[c].copy.markedAt
  BY <1>1 DEF CallFits, Claimed
<1>5. /\ clock \in Nat /\ TTL \in Nat /\ MaxTime \in Nat
      /\ calls[x].at \in Nat /\ calls[c].copy.markedAt \in Nat
  BY <1>1, TypesNamed DEF HistoryAssumption, CallType
<1>6. calls[x].at + TTL <= clock
  BY <1>3, <1>4, <1>5
<1>7. QED
  BY <1>1, <1>6 DEF CallFits, Named

LEMMA RetryGoesOn ==
  ASSUME HistoryAssumption, NamesAssumption, RetriesSound, NEW c \in Calls,
         \/ \E j \in Jobs : LoadRetry(c, j)
         \/ Link(c) \/ CheckURL(c) \/ FindJob(c) \/ RetryInPlace(c)
  PROVE  GoesOn
<1>1. TypeOK /\ CallFits(calls[c])
  BY DEF RetriesSound, RetriesStrengthening, CallsFit
<1>2. calls \in [Calls -> CallType] /\ clock \in 1..MaxTime /\ rows \in [Jobs -> RowType]
      /\ retries \in 0..MaxRetries /\ MaxTime \in Nat
  BY <1>1, TypesNamed DEF HistoryAssumption
<1>3. UNCHANGED queue => QueueGoesOn
  BY StillGoesOn
<1>4. ASSUME NEW j \in Jobs, LoadRetry(c, j) PROVE GoesOn
  <2> DEFINE k == [calls[c] EXCEPT !.pc = "link", !.job = j, !.copy = CopyOf(rows[j])]
  <2>1. CopyOf(rows[j]) \in [id : Nat, marker : Markers, markedAt : 0..MaxTime]
    BY <1>2 DEF CopyOf, RowType
  <2>2. calls[c].pc = "unmade" /\ calls' = [calls EXCEPT ![c] = k]
    BY <1>4 DEF LoadRetry, At
  <2>3. /\ k \in CallType
        /\ k.pc = "link" /\ k.job = j /\ k.copy = CopyOf(rows[j]) /\ k.at = calls[c].at
    <3>1. calls[c] \in CallType /\ "link" \in Places /\ j \in Jobs \cup {None}
      BY <1>2 DEF Places
    <3>2. QED
      BY <2>1, <3>1 DEF CallType
  <2>4. calls[c].pc \in Unclaiming /\ k.pc \notin Window /\ k.at <= clock
    BY <1>1, <2>2, <2>3 DEF Unclaiming, Places, Window, CallFits, Named
  <2> HIDE DEF k
  <2>5. CallFits(calls[c])'
    BY <1>4, <2>2, <2>3, <2>4, LoadedFits DEF LoadRetry
  <2>6. QED
    BY <1>2, <1>3, <1>4, <2>2, <2>3, <2>4, <2>5, OneCallGoesOn DEF LoadRetry
<1>5. CASE Link(c)
  <2>1. calls[c].pc = "link" /\ calls[c].pc \in Unclaiming \ Settled
    BY <1>5 DEF Link, At, Unclaiming, Places, Window, Settled
  <2>2. CASE linkedRetry(calls[c].copy, calls[c].job) = "none"
    <3>1. calls[c].copy.marker \in Calls =>
            LET owner == calls[calls[c].copy.marker] IN owner.late \/ owner.pc \notin Window
      BY <2>1, <2>2, LinkPassesStale
    <3>2. "url" \in Unclaiming \ (Settled \cup {"claim"})
      BY DEF Unclaiming, Places, Window, Settled
    <3>3. QED
      BY <1>2, <1>3, <1>5, <2>1, <2>2, <3>1, <3>2, GotoGoesOn DEF Link
  <2>3. CASE linkedRetry(calls[c].copy, calls[c].job) # "none"
    BY <1>5, <2>1, <2>3, EndGoesOn DEF Link
  <2>4. QED
    BY <2>2, <2>3
<1>6. CASE CheckURL(c)
  <2>1. calls[c].pc = "url" /\ calls[c].pc \in Unclaiming \ Settled
        /\ "find" \in Unclaiming \ (Settled \cup {"claim"})
    BY <1>6 DEF CheckURL, At, Unclaiming, Places, Window, Settled
  <2>2. CASE Goto(c, "find")
    BY <1>2, <1>3, <1>6, <2>1, <2>2, GotoGoesOn DEF CheckURL
  <2>3. CASE End(c, "over")
    BY <1>6, <2>1, <2>3, EndGoesOn DEF CheckURL
  <2>4. QED
    BY <1>6, <2>2, <2>3 DEF CheckURL
<1>7. CASE FindJob(c)
  <2>1. calls[c].pc = "find" /\ calls[c].pc \in Unclaiming \ Settled
        /\ "inplace" \in Unclaiming \ (Settled \cup {"claim"})
    BY <1>7 DEF FindJob, At, Unclaiming, Places, Window, Settled
  <2>2. CASE Goto(c, "inplace")
    BY <1>2, <1>3, <1>7, <2>1, <2>2, GotoGoesOn DEF FindJob
  <2>3. CASE End(c, "over")
    BY <1>7, <2>1, <2>3, EndGoesOn DEF FindJob
  <2>4. CASE calls' = [calls EXCEPT ![c].pc = "claim", ![c].at = clock]
    <3> DEFINE k == [calls[c] EXCEPT !.pc = "claim", !.at = clock]
    <3>1. calls' = [calls EXCEPT ![c] = k]
      BY <1>2, <2>4
    <3>2. /\ k \in CallType
          /\ k.pc = "claim" /\ k.job = calls[c].job /\ k.copy = calls[c].copy /\ k.at = clock
      <4>1. calls[c] \in CallType /\ "claim" \in Places /\ clock \in 0..MaxTime
        BY <1>2 DEF Places
      <4>2. QED
        BY <4>1 DEF CallType
    <3>3. ~(k.at + TTL <= clock) /\ k.at <= clock
      BY <1>2, <3>2 DEF HistoryAssumption
    <3>4. k.pc \notin Settled \cup Window
      BY <3>2 DEF Settled, Window
    <3> HIDE DEF k
    <3>5. CallFits(calls[c])'
      BY <1>3, <1>7, <2>1, <3>1, <3>2, <3>3, <3>4, GoneOnFits DEF FindJob
    <3>6. QED
      BY <1>2, <1>3, <1>7, <2>1, <3>1, <3>2, <3>4, <3>5, OneCallGoesOn DEF FindJob
  <2>5. QED
    BY <1>7, <2>2, <2>3, <2>4 DEF FindJob
<1>8. CASE RetryInPlace(c)
  <2>1. calls[c].pc = "inplace" /\ calls[c].pc \in Unclaiming \ Settled
        /\ "markinplace" \in Unclaiming \ (Settled \cup {"claim"})
    BY <1>8 DEF RetryInPlace, At, Unclaiming, Places, Window, Settled
  <2>2. calls[c].job \in Jobs
    BY <1>1, <2>1 DEF CallFits, Named
  <2>3. CASE Listed(calls[c].job, {"failed"}) /\ Restart(calls[c].job, TRUE) /\ Goto(c, "markinplace")
    <3>1. QueueGoesOn /\ retries' \in 0..MaxRetries
      BY <2>2, <2>3, RestartGoesOn
    <3>2. QED
      BY <1>8, <2>1, <2>3, <3>1, GotoGoesOn DEF RetryInPlace
  <2>4. CASE End(c, "over") /\ UNCHANGED <<queue, retries>>
    BY <1>8, <2>1, <2>4, EndGoesOn DEF RetryInPlace
  <2>5. QED
    BY <1>8, <2>3, <2>4 DEF RetryInPlace
<1>9. QED
  BY <1>4, <1>5, <1>6, <1>7, <1>8

LEMMA DeleteGoesOn ==
  ASSUME HistoryAssumption, NamesAssumption, RetriesSound, NEW c \in Calls, Delete(c)
  PROVE  GoesOn
<1>1. TypeOK /\ CallFits(calls[c]) /\ RowsFit
  BY DEF RetriesSound, RetriesStrengthening, CallsFit
<1>2. calls \in [Calls -> CallType] /\ clock \in 1..MaxTime /\ rows \in [Jobs -> RowType]
      /\ queue \in [Jobs -> JobType]
      /\ retries \in 0..MaxRetries /\ crashes \in 0..MaxCrashes /\ MaxTime \in Nat
  BY <1>1, TypesNamed DEF HistoryAssumption
<1>3. UNCHANGED queue => QueueGoesOn
  BY StillGoesOn
<1>4. ASSUME NEW j \in Jobs, StartDelete(c, j) PROVE GoesOn
  <2> DEFINE k == [calls[c] EXCEPT !.pc = "load", !.job = j, !.at = clock]
  <2>1. calls[c].pc = "unmade" /\ calls' = [calls EXCEPT ![c] = k]
    BY <1>4 DEF StartDelete, At
  <2>2. /\ k \in CallType
        /\ k.pc = "load" /\ k.job = j /\ k.copy = calls[c].copy /\ k.at = clock
    <3>1. /\ calls[c] \in CallType /\ "load" \in Places /\ clock \in 0..MaxTime
          /\ j \in Jobs \cup {None}
      BY <1>2 DEF Places
    <3>2. QED
      BY <3>1 DEF CallType
  <2>3. calls[c].pc \in Unclaiming /\ k.pc \notin Window
    BY <2>1, <2>2 DEF Unclaiming, Places, Window
  <2>4. k.copy.marker = None /\ k.copy.id = 0
    BY <1>1, <2>1, <2>2 DEF CallFits, Named, Settled, CopyOf, NoRow
  <2> HIDE DEF k
  <2>5. calls'[c] = k
    BY <1>2, <2>1
  <2>6. k.copy.id <= rows[j].id
    BY <1>2, <2>4 DEF RowType
  <2>7. CallFits(calls[c])'
    BY <1>2, <1>4, <2>2, <2>4, <2>5, <2>6, NamesAssumption
       DEF CallFits, Named, PassesStale, Claimed, Settled, Window, StartDelete
  <2>8. QED
    BY <1>2, <1>3, <1>4, <2>1, <2>2, <2>3, <2>7, OneCallGoesOn DEF StartDelete
<1>5. CASE LoadDelete(c)
  <2>1. calls[c].pc = "load" /\ calls[c].pc \in Unclaiming /\ calls[c].job \in Jobs
    BY <1>1, <1>5 DEF LoadDelete, At, Unclaiming, Places, Window, CallFits, Named, Settled
  <2> DEFINE j == calls[c].job
  <2>2. CASE rows[j].exists /\ calls' = [calls EXCEPT ![c].pc = "linked", ![c].copy = CopyOf(rows[j])]
    <3> DEFINE k == [calls[c] EXCEPT !.pc = "linked", !.copy = CopyOf(rows[j])]
    <3>1. calls' = [calls EXCEPT ![c] = k]
      BY <1>2, <2>2
    <3>2. CopyOf(rows[j]) \in [id : Nat, marker : Markers, markedAt : 0..MaxTime]
      BY <1>2, <2>1 DEF CopyOf, RowType
    <3>3. /\ k \in CallType
          /\ k.pc = "linked" /\ k.job = j /\ k.copy = CopyOf(rows[j]) /\ k.at = calls[c].at
      <4>1. calls[c] \in CallType /\ "linked" \in Places
        BY <1>2 DEF Places
      <4>2. QED
        BY <3>2, <4>1 DEF CallType
    <3>4. k.pc \notin Window /\ k.at <= clock
      BY <1>1, <3>3 DEF Window, CallFits, Named
    <3> HIDE DEF k
    <3>5. CallFits(calls[c])'
      BY <1>5, <2>1, <2>2, <3>1, <3>3, <3>4, LoadedFits DEF LoadDelete
    <3>6. QED
      BY <1>2, <1>3, <1>5, <2>1, <3>1, <3>3, <3>4, <3>5, OneCallGoesOn DEF LoadDelete
  <2>3. CASE End(c, "over")
    BY <1>5, <2>1, <2>3, EndGoesOn DEF LoadDelete
  <2>4. QED
    BY <1>5, <2>2, <2>3 DEF LoadDelete
<1>6. CASE LinkDelete(c)
  <2>1. calls[c].pc = "linked" /\ calls[c].pc \in Unclaiming \ Settled
        /\ "remove" \in Unclaiming \ (Settled \cup {"claim"})
    BY <1>6 DEF LinkDelete, At, Unclaiming, Places, Window, Settled
  <2>2. CASE Goto(c, "remove")
    BY <1>2, <1>3, <1>6, <2>1, <2>2, GotoGoesOn DEF LinkDelete
  <2>3. CASE End(c, "over")
    BY <1>6, <2>1, <2>3, EndGoesOn DEF LinkDelete
  <2>4. QED
    BY <1>6, <2>2, <2>3 DEF LinkDelete
<1>7. CASE RemoveFinished(c)
  <2>1. calls[c].pc = "remove" /\ calls[c].pc \in Unclaiming \ Settled /\ calls[c].job \in Jobs
        /\ "drop" \in Unclaiming \ (Settled \cup {"claim"})
        /\ "stillqueued" \in Unclaiming \ (Settled \cup {"claim"})
    BY <1>1, <1>7
       DEF RemoveFinished, At, Unclaiming, Places, Window, Settled, CallFits, Named
  <2> DEFINE j == calls[c].job
             gone == [queue[j] EXCEPT !.listed = FALSE, !.discarded = TRUE]
  <2>2. CASE /\ Listed(j, Outcomes) /\ Goto(c, "drop")
             /\ queue' = [queue EXCEPT ![j].listed = FALSE, ![j].discarded = TRUE]
    <3>1. queue' = [queue EXCEPT ![j] = gone]
      BY <1>2, <2>1, <2>2
    <3>2. /\ gone \in JobType
          /\ gone.phase = queue[j].phase /\ ~gone.listed
      <4>1. queue[j] \in JobType
        BY <1>2, <2>1
      <4>2. QED
        BY <4>1 DEF JobType
    <3>3. queue[j].phase # "live"
      BY <2>2 DEF Listed, Outcomes
    <3> HIDE DEF gone
    <3>4. QueueGoesOn
      BY <2>1, <3>1, <3>2, <3>3, OneJobGoesOn
    <3>5. ~queue'[j].listed
      BY <1>2, <2>1, <3>1, <3>2
    <3>6. QED
      BY <1>2, <1>7, <2>1, <2>2, <3>4, <3>5, GotoGoesOn DEF RemoveFinished
  <2>3. CASE Goto(c, "stillqueued") /\ UNCHANGED queue
    BY <1>2, <1>3, <1>7, <2>1, <2>3, GotoGoesOn DEF RemoveFinished
  <2>4. QED
    BY <1>7, <2>2, <2>3 DEF RemoveFinished
<1>8. CASE CheckQueued(c)
  <2>1. calls[c].pc = "stillqueued" /\ calls[c].pc \in Unclaiming \ Settled
        /\ "drop" \in Unclaiming \ (Settled \cup {"claim"})
    BY <1>8 DEF CheckQueued, At, Unclaiming, Places, Window, Settled
  <2>2. CASE ~queue[calls[c].job].listed
    BY <1>2, <1>3, <1>8, <2>1, <2>2, GotoGoesOn DEF CheckQueued
  <2>3. CASE queue[calls[c].job].listed
    BY <1>8, <2>1, <2>3, EndGoesOn DEF CheckQueued
  <2>4. QED
    BY <2>2, <2>3
<1>9. CASE DeleteRow(c)
  <2>1. calls[c].pc = "drop" /\ calls[c].pc \in Unclaiming /\ calls[c].job \in Jobs
    BY <1>1, <1>9 DEF DeleteRow, At, Unclaiming, Places, Window, CallFits, Named, Settled
  <2> DEFINE j == calls[c].job
             after == [NoRow EXCEPT !.id = rows[j].id]
  <2>2. rows' = rows \/ rows' = [rows EXCEPT ![j] = after]
    BY <1>9 DEF DeleteRow
  <2>3. /\ after \in RowType /\ ~after.exists
        /\ after.id = rows[j].id /\ after.marker = None
    BY <1>1, <2>1, RowGoes
  <2> HIDE DEF after
  <2>4. RowsGoOn
    BY <1>2, <2>1, <2>2, <2>3, StillGoesOn DEF RowsGoOn
  <2>5. \A i \in Jobs : rows'[i].exists => queue[i].phase # "unborn"
    BY <1>2, <2>1, <2>2, <2>3, StillGoesOn
  <2>6. Ended(c, "over") \in CallType /\ CallFits(calls[c])' /\ Ended(c, "over").pc = "over"
    <3>1. calls' = [calls EXCEPT ![c] = Ended(c, "over")] /\ UNCHANGED clock
      BY <1>9 DEF DeleteRow, End
    <3>2. QED
      BY <3>1, EndedFits DEF Ended, Unmade
  <2>7. CallsGoOn
    <3>1. calls' = [calls EXCEPT ![c] = Ended(c, "over")]
      BY <1>9 DEF DeleteRow, End
    <3>2. /\ calls' \in [Calls -> CallType] /\ calls'[c] = Ended(c, "over")
          /\ \A d \in Calls : d # c => calls'[d] = calls[d]
      BY <1>2, <2>6, <3>1
    <3>3. QED
      BY <2>1, <2>6, <3>2 DEF CallsGoOn, Window
  <2>8. QED
    BY <1>2, <1>3, <1>9, <2>4, <2>5, <2>7, StillGoesOn DEF DeleteRow, GoesOn
<1>10. QED
  BY <1>4, <1>5, <1>6, <1>7, <1>8, <1>9 DEF Delete

-----------------------------------------------------------------------------
(* The requests that claim, submit, hand back and mark.                      *)

LEMMA ClaimKeeps ==
  ASSUME HistoryAssumption, NamesAssumption, RetriesSound, NEW c \in Calls,
         ClaimDownloadHistoryRetry(c)
  PROVE  RetriesSound'
<1>1. TypeOK /\ LiveIsListed /\ CallsFit /\ RowsFit /\ SlotsHeld /\ ClaimHasOwner /\ SlotHeldAlone
      /\ ClaimsRead
  BY DEF RetriesSound, RetriesStrengthening
<1>2. calls \in [Calls -> CallType] /\ clock \in 1..MaxTime /\ rows \in [Jobs -> RowType]
  BY <1>1, TypesNamed
<1>3. calls[c].pc = "claim" /\ calls[c].pc \in Unclaiming \ Settled /\ calls[c].job \in Jobs
  BY <1>1 DEF ClaimDownloadHistoryRetry, At, Unclaiming, Places, Window, CallsFit, CallFits,
     Named, Settled
<1> DEFINE j == calls[c].job
           x == calls[c].copy.marker
<1>4. CASE ~Unclaimed(c)
  <2>1. GoesOn
    BY <1>3, <1>4, EndGoesOn DEF ClaimDownloadHistoryRetry
  <2>2. QED
    BY <2>1, GoingOnKeeps
<1>5. CASE Unclaimed(c)
  <2>1. /\ rows' = [rows EXCEPT ![j].marker = c, ![j].markedAt = calls[c].at]
        /\ calls' = [calls EXCEPT ![c].pc = "submit"]
        /\ UNCHANGED <<clock, queue, recorders, sweeper, crashes, retries, overwritten>>
    BY <1>5 DEF ClaimDownloadHistoryRetry, Goto
  <2>0. UNCHANGED clock /\ UNCHANGED queue /\ UNCHANGED overwritten
    BY <2>1
  <2>2. rows[j].exists /\ rows[j].id = calls[c].copy.id /\ rows[j].marker = x
    BY <1>5 DEF Unclaimed, SameRow
  <2>3. /\ rows'[j].exists = rows[j].exists /\ rows'[j].id = rows[j].id
        /\ rows'[j].marker = c /\ rows'[j].markedAt = calls[c].at
        /\ \A i \in Jobs : i # j => rows'[i] = rows[i]
    BY <1>2, <1>3, <2>1 DEF RowType
  <2>4. /\ calls'[c].pc = "submit" /\ calls'[c].job = j /\ calls'[c].copy = calls[c].copy
        /\ calls'[c].at = calls[c].at /\ calls'[c].late = calls[c].late
        /\ \A d \in Calls : d # c => calls'[d] = calls[d]
    BY <1>2, <2>1 DEF CallType
  \* Whoever's claim is found was late, or cut short; and it is not this request.
  <2>5. x \in Calls => x # c /\ (calls[x].late \/ calls[x].pc = "abandoned")
    <3>1. SUFFICES ASSUME x \in Calls PROVE x # c /\ (calls[x].late \/ calls[x].pc = "abandoned")
      OBVIOUS
    <3>2. x # c
      BY <1>1, <1>3, <3>1 DEF CallsFit, CallFits, Claimed, Unclaiming
    <3>3. calls[x].late \/ calls[x].pc \notin Window
      BY <1>1, <1>3, <3>1 DEF CallsFit, CallFits, PassesStale
    <3>4. calls[x].late \/ calls[x].pc \in Window \cup {"abandoned"}
      BY <1>1, <1>3, <2>2, <3>1 DEF ClaimHasOwner
    <3>5. QED
      BY <3>2, <3>3, <3>4
  \* Nobody whose claim is in a row or a copy is this request.
  <2>6. /\ \A i \in Jobs : rows[i].marker # c
        /\ \A d \in Calls : calls[d].copy.marker # c
    BY <1>1, <1>3 DEF RowsFit, CallsFit, CallFits, Claimed, Unclaiming
  <2>7. TypeOK'
    <3>1. calls[c].at \in 0..MaxTime /\ c \in Markers /\ "submit" \in Places
      BY <1>2 DEF CallType, Markers, Places
    <3>2. rows' \in [Jobs -> RowType]
      BY <1>2, <1>3, <2>1, <3>1 DEF RowType
    <3>3. calls' \in [Calls -> CallType]
      BY <1>2, <2>1, <3>1 DEF CallType
    <3>4. QED
      BY <1>1, <2>1, <3>2, <3>3, TypesNamed DEF TypeOK, JobType, RecorderType, RowType, CallType,
         SweepType, Markers, Places
  <2>8. \A d \in Calls : d # c => RowOf(d)' = RowOf(d)
    BY <2>4 DEF RowOf
  \* Another request between its claim and its mark has lost the row to this one.
  <2>9. ASSUME NEW d \in Calls, d # c, calls[d].pc \in Window, RowOf(d) = RowOf(c)
        PROVE  calls[d].late \/ RowOf(d) \in overwritten
    <3>1. SameRow(d) /\ calls[d].job = j
      BY <1>5, <2>9 DEF RowOf, SameRow, Unclaimed
    <3>2. rows[j].marker = d \/ calls[d].late \/ RowOf(d) \in overwritten
      BY <1>1, <2>9, <3>1 DEF SlotsHeld
    <3>3. QED
      BY <2>2, <2>5, <2>9, <3>2 DEF Window
  <2>10. SlotHeldAlone'
    <3>1. RowOf(c)' = RowOf(c)
      BY <2>4 DEF RowOf
    <3>2. SUFFICES ASSUME NEW a \in Calls, NEW b \in Calls, calls'[a].pc \in Window,
                          calls'[b].pc \in Window, a # b, RowOf(a)' = RowOf(b)'
                   PROVE  (calls[a].late \/ calls[b].late \/ RowOf(a) \in overwritten)'
      BY DEF SlotHeldAlone, Window
    <3>3. CASE a # c /\ b # c
      BY <1>1, <2>1, <2>4, <2>8, <3>2, <3>3 DEF SlotHeldAlone
    <3>4. CASE a = c \/ b = c
      BY <2>1, <2>4, <2>8, <2>9, <3>1, <3>2, <3>4
    <3>5. QED
      BY <3>3, <3>4
  <2>11. ClaimHasOwner'
    BY <1>1, <2>3, <2>4, <2>6 DEF ClaimHasOwner, Window
  <2>12. CallsFit'
    <3>1. ASSUME NEW d \in Calls, d # c PROVE CallFits(calls[d])'
      <4> DEFINE y == calls[d].copy.marker
      <4>1. CallFits(calls[d]) /\ calls'[d] = calls[d] /\ (y \in Calls => calls'[y] = calls[y])
        BY <1>1, <2>4, <2>6, <3>1 DEF CallsFit
      <4>2. calls[d].job \in Jobs => rows'[calls[d].job].id = rows[calls[d].job].id
        BY <2>3
      <4>3. Named(calls[d])'
        <5>1. calls[d].pc \notin Settled => calls[d].job \in Jobs
                                           /\ calls[d].copy.id <= rows'[calls[d].job].id
          BY <4>1, <4>2 DEF CallFits, Named
        <5>2. QED
          BY <2>0, <4>1, <5>1 DEF CallFits, Named
      <4>4. PassesStale(calls[d])' /\ Claimed(y, calls[d].copy.markedAt, <<calls[d].job, calls[d].copy.id>>)'
        BY <4>1 DEF CallFits, PassesStale, Claimed, RowOf
      <4>5. QED
        BY <4>1, <4>3, <4>4 DEF CallFits
    <3>2. CallFits(calls[c])'
      <4>1. CallFits(calls[c]) /\ (x \in Calls => calls'[x] = calls[x])
        BY <1>1, <2>4, <2>5 DEF CallsFit
      <4>2. Named(calls[c])'
        BY <1>3, <2>1, <2>3, <2>4, <4>1 DEF CallFits, Named, Window, Settled
      <4>3. PassesStale(calls[c])'
        BY <2>4, <2>5, <4>1 DEF PassesStale, Window
      <4>4. Claimed(x, calls[c].copy.markedAt, <<calls[c].job, calls[c].copy.id>>)'
        BY <2>4, <4>1 DEF CallFits, Claimed, RowOf
      <4>5. QED
        BY <2>4, <4>2, <4>3, <4>4 DEF CallFits
    <3>3. QED
      BY <3>1, <3>2 DEF CallsFit
  <2>13. RowsFit'
    <3>1. ASSUME NEW i \in Jobs PROVE Claimed(rows[i].marker, rows[i].markedAt, <<i, rows[i].id>>)'
      <4>1. CASE i = j
        <5>1. RowOf(c)' = <<j, rows[j].id>>
          BY <2>2, <2>4 DEF RowOf
        <5>2. calls[c].at <= calls[c].at
          BY <1>2 DEF CallType
        <5>3. QED
          BY <2>3, <2>4, <4>1, <5>1, <5>2 DEF Claimed, Window
      <4>2. CASE i # j
        BY <1>1, <2>3, <2>4, <2>6, <2>8, <4>2 DEF RowsFit, Claimed
      <4>3. QED
        BY <4>1, <4>2
    <3>2. QED
      BY <1>1, <2>1, <2>3, <3>1 DEF RowsFit
  <2>14. SlotsHeld'
    <3>1. SUFFICES ASSUME NEW d \in Calls, calls'[d].pc \in Window, SameRow(d)'
                   PROVE  (rows[calls[d].job].marker = d \/ calls[d].late \/ RowOf(d) \in overwritten)'
      BY DEF SlotsHeld, Window
    <3>2. CASE d = c
      BY <2>3, <2>4, <3>2
    <3>3. CASE d # c /\ calls[d].job = j
      <4>1. RowOf(d) = RowOf(c)
        BY <2>2, <2>3, <2>4, <3>1, <3>3 DEF RowOf, SameRow
      <4>2. calls[d].late \/ RowOf(d) \in overwritten
        BY <2>4, <2>9, <3>1, <3>3, <4>1
      <4>3. QED
        BY <2>0, <2>4, <2>8, <3>3, <4>2
    <3>4. CASE d # c /\ calls[d].job # j
      <4>1. calls[d].job \in Jobs
        BY <1>1, <2>4, <3>1, <3>4 DEF CallsFit, CallFits, Named, Settled, Window
      <4>2. QED
        <5>1. rows'[calls[d].job] = rows[calls[d].job] /\ calls'[d] = calls[d]
          BY <2>3, <2>4, <3>4, <4>1
        <5>2. SameRow(d)
          BY <3>1, <5>1 DEF SameRow
        <5>3. rows[calls[d].job].marker = d \/ calls[d].late \/ RowOf(d) \in overwritten
          BY <1>1, <3>1, <5>1, <5>2 DEF SlotsHeld
        <5>4. QED
          BY <2>0, <2>8, <3>4, <5>1, <5>3
    <3>5. QED
      BY <3>2, <3>3, <3>4
  <2>15. ClaimsRead'
    <3>1. \A d \in Calls : calls'[d].copy = calls[d].copy
      BY <2>4
    <3>2. QED
      BY <1>1, <3>1 DEF ClaimsRead
  <2>16. QED
    BY <1>1, <2>1, <2>7, <2>10, <2>11, <2>12, <2>13, <2>14, <2>15
       DEF RetriesSound, RetriesStrengthening, LiveIsListed
<1>6. QED
  BY <1>4, <1>5

\* One request changes after its claim: it may still be who it was, or it has come to
\* its end.  It keeps being late, and its claim stays where it was made.
OwnerGoesOn(c) ==
  /\ calls' \in [Calls -> CallType]
  /\ \A d \in Calls : d # c => calls'[d] = calls[d]
  /\ calls[c].pc \in Window => calls'[c].pc \in Window \cup {"over", "abandoned"}
  /\ calls[c].pc \notin Window => calls[c].pc = "markinplace" /\ calls'[c].pc \in {"over", "abandoned"}
  /\ calls'[c].pc \in Window => RowOf(c)' = RowOf(c) /\ calls'[c].copy = calls[c].copy
  /\ calls'[c].late = calls[c].late /\ calls'[c].at <= calls[c].at

\* The claim in row j gives way to m, at a time t: not to a request that could still be
\* about to mark, and not unnoticed, unless it is the request's own.
Gives(c, j, m, t) ==
  /\ rows' = [rows EXCEPT ![j].marker = m, ![j].markedAt = t]
  /\ rows[j].exists /\ calls'[c].pc \notin Window
  /\ m # c /\ (m \in Calls => calls[m].late \/ calls[m].pc = "abandoned")
  /\ Claimed(m, t, <<j, rows[j].id>>)
  /\ rows[j].marker \in Calls \ {c} => <<j, rows[j].id>> \in overwritten'

LEMMA ClaimsStay ==
  ASSUME NEW c \in Calls, OwnerGoesOn(c), NEW x, NEW time, NEW row, Claimed(x, time, row),
         time \in Nat, \A d \in Calls : calls[d] \in CallType /\ calls'[d] \in CallType,
         MaxTime \in Nat
  PROVE  x \in Calls =>
           /\ calls'[x].pc \in Window \cup {"over", "abandoned"}
           /\ calls'[x].at <= time
           /\ calls'[x].pc \in Window => calls[x].pc \in Window /\ RowOf(x)' = row
<1> SUFFICES ASSUME x \in Calls
             PROVE  /\ calls'[x].pc \in Window \cup {"over", "abandoned"}
                    /\ calls'[x].at <= time
                    /\ calls'[x].pc \in Window => calls[x].pc \in Window /\ RowOf(x)' = row
  OBVIOUS
<1>1. CASE x # c
  BY <1>1 DEF Claimed, OwnerGoesOn, RowOf
<1>2. CASE x = c
  <2>1. calls[c].pc \in Window \/ calls[c].pc \notin Window \cup {"markinplace"}
    BY <1>2 DEF Claimed, Window
  <2>2. calls[c].at \in Nat /\ calls'[c].at \in Nat /\ calls'[c].at <= calls[c].at
        /\ calls[c].at <= time
    BY <1>2 DEF CallType, OwnerGoesOn, Claimed
  <2>3. QED
    BY <1>2, <2>1, <2>2 DEF Claimed, OwnerGoesOn
<1>3. QED
  BY <1>1, <1>2

LEMMA OwnerKeeps ==
  ASSUME HistoryAssumption, NamesAssumption, RetriesSound, NEW c \in Calls, OwnerGoesOn(c),
         QueueGoesOn, CallFits(calls[c])', NEW j \in Jobs, NEW m \in Markers, NEW t \in 0..MaxTime,
         UNCHANGED rows \/ Gives(c, j, m, t),
         \A i \in Jobs : rows'[i].exists /\ rows'[i].marker = c =>
           calls'[c].late \/ calls'[c].pc \in Window \cup {"abandoned"},
         overwritten \subseteq overwritten', overwritten' \subseteq Jobs \X Nat,
         UNCHANGED <<clock, recorders, sweeper, crashes, retries>>
  PROVE  RetriesSound'
<1>1. TypeOK /\ LiveIsListed /\ CallsFit /\ RowsFit /\ SlotsHeld /\ ClaimHasOwner /\ SlotHeldAlone
      /\ ClaimsRead /\ sweeper.now <= clock
  BY DEF RetriesSound, RetriesStrengthening
<1>2. /\ calls \in [Calls -> CallType] /\ calls' \in [Calls -> CallType]
      /\ rows \in [Jobs -> RowType] /\ MaxTime \in Nat
  BY <1>1, TypesNamed DEF HistoryAssumption, OwnerGoesOn
<1>3. /\ rows' \in [Jobs -> RowType]
      /\ \A i \in Jobs : rows'[i].id = rows[i].id /\ rows'[i].exists = rows[i].exists
      /\ \A i \in Jobs : \/ rows'[i].marker = rows[i].marker /\ rows'[i].markedAt = rows[i].markedAt
                         \/ /\ i = j /\ rows'[i].marker = m /\ rows'[i].markedAt = t
                            /\ Gives(c, j, m, t)
  <2>1. CASE UNCHANGED rows
    BY <1>2, <2>1
  <2>2. CASE Gives(c, j, m, t)
    <3> DEFINE k == [rows[j] EXCEPT !.marker = m, !.markedAt = t]
    <3>1. rows' = [rows EXCEPT ![j] = k] /\ rows[j] \in RowType
      BY <1>2, <2>2 DEF Gives
    <3>2. /\ k \in RowType
          /\ k.id = rows[j].id /\ k.exists = rows[j].exists /\ k.marker = m /\ k.markedAt = t
      BY <3>1 DEF RowType
    <3> HIDE DEF k
    <3>3. QED
      BY <1>2, <2>2, <3>1, <3>2
  <2>3. QED
    BY <2>1, <2>2
<1>4. TypeOK'
  BY <1>1, <1>2, <1>3, TypesNamed DEF QueueGoesOn, TypeOK, JobType, RecorderType, RowType, CallType,
     SweepType, Markers, Places
<1>5. ASSUME NEW x, NEW time \in Nat, NEW row, Claimed(x, time, row)
      PROVE  x \in Calls =>
           /\ calls'[x].pc \in Window \cup {"over", "abandoned"}
           /\ calls'[x].at <= time
           /\ calls'[x].pc \in Window => calls[x].pc \in Window /\ RowOf(x)' = row
  BY <1>2, <1>5, ClaimsStay
\* Only who was past its claim before is so now, on the row it was.
<1>6. ASSUME NEW d \in Calls, calls'[d].pc \in Window
      PROVE  calls[d].pc \in Window /\ RowOf(d)' = RowOf(d) /\ calls'[d].late = calls[d].late
  BY <1>6 DEF OwnerGoesOn, RowOf, Window
<1>7. SlotHeldAlone'
  <2>1. SUFFICES ASSUME NEW a \in Calls, NEW b \in Calls, calls'[a].pc \in Window,
                        calls'[b].pc \in Window, a # b, RowOf(a)' = RowOf(b)'
                 PROVE  (calls[a].late \/ calls[b].late \/ RowOf(a) \in overwritten)'
    BY DEF SlotHeldAlone, Window
  <2>2. QED
    BY <1>1, <1>6, <2>1 DEF SlotHeldAlone
<1>8. ClaimHasOwner'
  <2>1. SUFFICES ASSUME NEW i \in Jobs, rows'[i].exists, rows'[i].marker \in Calls
                 PROVE  calls'[rows'[i].marker].late
                          \/ calls'[rows'[i].marker].pc \in Window \cup {"abandoned"}
    BY DEF ClaimHasOwner, Window
  <2>2. CASE rows'[i].marker = c
    BY <2>1, <2>2
  <2>3. CASE rows'[i].marker # c /\ rows'[i].marker = rows[i].marker
    BY <1>1, <1>3, <2>1, <2>3 DEF ClaimHasOwner, OwnerGoesOn
  <2>4. CASE rows'[i].marker # c /\ rows'[i].marker = m /\ Gives(c, j, m, t)
    BY <2>1, <2>4 DEF Gives, OwnerGoesOn
  <2>5. QED
    BY <1>3, <2>2, <2>3, <2>4
<1>9. CallsFit'
  <2>1. SUFFICES ASSUME NEW d \in Calls, d # c PROVE CallFits(calls[d])'
    BY DEF CallsFit
  <2> DEFINE x == calls[d].copy.marker
  <2>2. CallFits(calls[d]) /\ calls'[d] = calls[d] /\ calls[d].copy.markedAt \in Nat
        /\ UNCHANGED clock
    BY <1>1, <1>2, <2>1 DEF CallsFit, OwnerGoesOn, CallType
  <2>3. Named(calls[d])'
    <3>1. calls[d].pc \notin Settled => calls[d].job \in Jobs
                                       /\ calls[d].copy.id <= rows'[calls[d].job].id
      BY <1>3, <2>2 DEF CallFits, Named
    <3>2. calls[d].pc \in {"linked", "remove", "stillqueued", "drop"} =>
            queue'[calls[d].job].phase # "unborn"
      BY <2>2, <3>1 DEF CallFits, Named, QueueGoesOn, Settled
    <3>3. calls[d].pc = "drop" => ~queue'[calls[d].job].listed
      BY <2>2, <3>1 DEF CallFits, Named, QueueGoesOn, Settled
    <3>4. QED
      BY <2>2, <3>1, <3>2, <3>3 DEF CallFits, Named
  <2>4. PassesStale(calls[d])'
    <3>1. ASSUME x = c, c \in Calls PROVE calls[c].pc \in Window \cup {"over", "abandoned"}
      BY <2>2, <3>1 DEF CallFits, Claimed
    <3>2. CASE x = c
      BY <2>2, <3>1, <3>2 DEF CallFits, PassesStale, OwnerGoesOn, Window
    <3>3. CASE x # c
      BY <2>2, <3>3 DEF CallFits, PassesStale, OwnerGoesOn
    <3>4. QED
      BY <3>2, <3>3
  <2>5. Claimed(x, calls[d].copy.markedAt, <<calls[d].job, calls[d].copy.id>>)'
    BY <1>5, <2>2 DEF CallFits, Claimed
  <2>6. QED
    BY <2>2, <2>3, <2>4, <2>5 DEF CallFits
<1>10. RowsFit'
  <2>1. ASSUME NEW i \in Jobs PROVE Claimed(rows[i].marker, rows[i].markedAt, <<i, rows[i].id>>)'
    <3>1. CASE rows'[i].marker = rows[i].marker /\ rows'[i].markedAt = rows[i].markedAt
      <4>1. rows[i].markedAt \in Nat /\ Claimed(rows[i].marker, rows[i].markedAt, <<i, rows[i].id>>)
        BY <1>1, <1>2 DEF RowsFit, RowType
      <4>2. QED
        BY <1>3, <1>5, <3>1, <4>1 DEF Claimed
    <3>2. CASE i = j /\ rows'[i].marker = m /\ rows'[i].markedAt = t /\ Gives(c, j, m, t)
      <4>1. t \in Nat /\ Claimed(m, t, <<j, rows[j].id>>)
        BY <1>2, <3>2 DEF Gives
      <4>2. QED
        BY <1>3, <1>5, <3>2, <4>1 DEF Claimed
    <3>3. QED
      BY <1>3, <3>1, <3>2
  <2>2. \A i \in Jobs : rows'[i].exists => queue'[i].phase # "unborn"
    BY <1>1, <1>3 DEF RowsFit, QueueGoesOn
  <2>3. \A r \in recorders' : queue'[r.job].phase # "unborn"
    BY StillGoesOn DEF QueueGoesOn
  <2>4. QED
    BY <2>1, <2>2, <2>3 DEF RowsFit
<1>11. SlotsHeld'
  <2>1. SUFFICES ASSUME NEW d \in Calls, calls'[d].pc \in Window, SameRow(d)'
                 PROVE  (rows[calls[d].job].marker = d \/ calls[d].late \/ RowOf(d) \in overwritten)'
    BY DEF SlotsHeld, Window
  <2>2. calls[d].pc \in Window /\ RowOf(d)' = RowOf(d) /\ calls'[d].late = calls[d].late
    BY <1>6, <2>1
  <2>3. calls'[d].job = calls[d].job /\ calls'[d].copy.id = calls[d].copy.id
    BY <2>2 DEF RowOf
  <2>4. calls[d].job \in Jobs
    BY <1>1, <2>2 DEF CallsFit, CallFits, Named, Settled, Window
  <2>5. SameRow(d)
    BY <1>3, <2>1, <2>3, <2>4 DEF SameRow
  <2>6. rows[calls[d].job].marker = d \/ calls[d].late \/ RowOf(d) \in overwritten
    BY <1>1, <2>2, <2>5 DEF SlotsHeld
  <2>7. CASE rows'[calls[d].job].marker = rows[calls[d].job].marker
    BY <2>2, <2>3, <2>6, <2>7
  <2>8. CASE calls[d].job = j /\ Gives(c, j, m, t)
    <3>1. d # c
      BY <2>1, <2>8 DEF Gives
    <3>2. RowOf(d) = <<j, rows[j].id>>
      BY <2>5, <2>8 DEF RowOf, SameRow
    <3>3. QED
      BY <2>2, <2>6, <2>8, <3>1, <3>2 DEF Gives
  <2>9. QED
    BY <1>3, <2>4, <2>7, <2>8
<1>12. QED
  <2>1. LiveIsListed' /\ sweeper'.now <= clock'
    BY <1>1 DEF LiveIsListed, QueueGoesOn
  <2>2. ClaimsRead'
    <3>1. SUFFICES ASSUME NEW d \in Calls PROVE calls'[d].copy.marker # d
      BY DEF ClaimsRead
    <3>2. CASE d # c
      BY <1>1, <3>2 DEF ClaimsRead, OwnerGoesOn
    <3>3. CASE d = c /\ calls'[c].pc \in Window
      BY <1>1, <3>3 DEF ClaimsRead, OwnerGoesOn
    <3>4. CASE d = c /\ calls'[c].pc \notin Window
      BY <3>4, NotOwnAfter
    <3>5. QED
      BY <3>2, <3>3, <3>4
  <2>3. QED
    BY <1>4, <1>7, <1>8, <1>9, <1>10, <1>11, <2>1, <2>2 DEF RetriesSound, RetriesStrengthening

\* A request that comes to its end.
LEMMA OwnerEnds ==
  ASSUME HistoryAssumption, NamesAssumption, RetriesSound, NEW c \in Calls,
         NEW pc \in {"over", "abandoned"}, calls[c].pc \in Window \cup {"markinplace"}, End(c, pc),
         UNCHANGED clock
  PROVE  OwnerGoesOn(c) /\ CallFits(calls[c])'
<1>1. calls \in [Calls -> CallType] /\ Ended(c, pc) \in CallType
  BY TypesNamed, EndedFits DEF RetriesSound
<1>2. calls' \in [Calls -> CallType] /\ calls'[c] = Ended(c, pc)
      /\ \A d \in Calls : d # c => calls'[d] = calls[d]
  BY <1>1 DEF End
<1>3. Ended(c, pc).pc = pc /\ Ended(c, pc).late = calls[c].late /\ Ended(c, pc).at = 0
  BY DEF Ended, Unmade
<1>4. 0 <= calls[c].at
  <2>1. calls[c].at \in 0..MaxTime /\ MaxTime \in Nat
    BY <1>1 DEF CallType, HistoryAssumption
  <2>2. QED
    BY <2>1
<1>5. OwnerGoesOn(c)
  BY <1>2, <1>3, <1>4 DEF OwnerGoesOn, Window
<1>6. QED
  BY <1>5, EndedFits DEF End

\* A claim in a row that is not of its own request is of a row it does not name.
LEMMA MarkerOfRow ==
  ASSUME RetriesSound, NEW c \in Calls, NEW i \in Jobs, rows[i].marker = c,
         calls[c].pc \in Window \cup {"markinplace"}
  PROVE  calls[c].pc \in Window /\ i = calls[c].job /\ rows[i].id = calls[c].copy.id
<1>1. Claimed(rows[i].marker, rows[i].markedAt, <<i, rows[i].id>>)
  BY DEF RetriesSound, RetriesStrengthening, RowsFit
<1>2. QED
  BY <1>1 DEF Claimed, RowOf

LEMMA SubmitAgainKeeps ==
  ASSUME HistoryAssumption, NamesAssumption, RetriesSound, NEW c \in Calls, SubmitAgain(c)
  PROVE  RetriesSound'
<1>1. TypeOK /\ LiveIsListed /\ CallFits(calls[c]) /\ calls[c].copy.marker # c
  BY DEF RetriesSound, RetriesStrengthening, CallsFit, ClaimsRead
<1>2. calls \in [Calls -> CallType] /\ calls[c].pc = "submit" /\ queue \in [Jobs -> JobType]
      /\ UNCHANGED <<clock, rows, recorders, sweeper, crashes, retries, overwritten>>
  BY <1>1, TypesNamed DEF SubmitAgain, At
<1>3. ASSUME NEW k \in CallType, calls' = [calls EXCEPT ![c] = k], QueueGoesOn,
             k.pc \in {"mark", "release"}, k.pc = "mark" => k.started \in Jobs,
             k.job = calls[c].job, k.copy = calls[c].copy, k.at = calls[c].at,
             k.late = calls[c].late
      PROVE  RetriesSound'
  <2>1. calls' \in [Calls -> CallType] /\ calls'[c] = k
        /\ \A d \in Calls : d # c => calls'[d] = calls[d]
    BY <1>2, <1>3
  <2>2. k.at <= k.at
    <3>1. k.at \in 0..MaxTime /\ MaxTime \in Nat
      BY <1>3 DEF CallType, HistoryAssumption
    <3>2. QED
      BY <3>1
  <2>3. OwnerGoesOn(c)
    BY <1>2, <1>3, <2>1, <2>2 DEF OwnerGoesOn, Window, RowOf
  <2> DEFINE x == k.copy.marker
  <2>4. CallFits(calls[c])'
    <3>1. Named(calls[c])'
      BY <1>1, <1>2, <1>3, <2>1 DEF CallFits, Named, Settled, Window
    <3>2. x \in Calls => x # c /\ calls'[x] = calls[x]
      BY <1>1, <1>3, <2>1
    <3>3. PassesStale(calls[c])'
      BY <1>1, <1>2, <1>3, <2>1, <3>2 DEF CallFits, PassesStale, Window
    <3>4. Claimed(x, k.copy.markedAt, <<k.job, k.copy.id>>)'
      BY <1>1, <1>3, <3>2 DEF CallFits, Claimed, RowOf
    <3>5. QED
      BY <2>1, <3>1, <3>3, <3>4 DEF CallFits
  <2>5. calls'[c].pc \in Window
    BY <1>3, <2>1 DEF Window
  <2>6. calls[c].job \in Jobs /\ None \in Markers /\ 0 \in 0..MaxTime
    BY <1>1, <1>2 DEF CallFits, Named, Settled, Markers, HistoryAssumption
  <2>7. overwritten \subseteq Jobs \X Nat
    BY <1>1 DEF TypeOK
  <2>8. QED
    BY <1>2, <1>3, <2>3, <2>4, <2>5, <2>6, <2>7, OwnerKeeps
<1>4. ASSUME NEW n \in Jobs, queue[n].phase = "unborn", queue' = [queue EXCEPT ![n] = NewJob(TRUE)],
             calls' = [calls EXCEPT ![c].pc = "mark", ![c].started = n]
      PROVE  RetriesSound'
  <2> DEFINE k == [calls[c] EXCEPT !.pc = "mark", !.started = n]
  <2>1. calls[c] \in CallType /\ "mark" \in Places /\ n \in Jobs \cup {None}
    BY <1>2 DEF Places
  <2>2. /\ k \in CallType
        /\ k.pc = "mark" /\ k.started = n /\ k.job = calls[c].job /\ k.copy = calls[c].copy
        /\ k.at = calls[c].at /\ k.late = calls[c].late
    BY <2>1 DEF CallType
  <2>3. calls' = [calls EXCEPT ![c] = k]
    BY <1>2, <1>4
  <2>4. QueueGoesOn
    <3>1. NewJob(TRUE) \in JobType /\ NewJob(TRUE).phase = "live" /\ NewJob(TRUE).listed
      BY DEF NewJob, JobType
    <3>2. QED
      BY <1>4, <3>1, OneJobGoesOn
  <2> HIDE DEF k
  <2>5. QED
    BY <1>3, <2>2, <2>3, <2>4
<1>5. CASE Goto(c, "release") /\ UNCHANGED queue
  <2> DEFINE k == [calls[c] EXCEPT !.pc = "release"]
  <2>1. calls[c] \in CallType /\ "release" \in Places
    BY <1>2 DEF Places
  <2>2. /\ k \in CallType
        /\ k.pc = "release" /\ k.job = calls[c].job /\ k.copy = calls[c].copy
        /\ k.at = calls[c].at /\ k.late = calls[c].late
    BY <2>1 DEF CallType
  <2>3. calls' = [calls EXCEPT ![c] = k]
    BY <1>2, <1>5 DEF Goto
  <2>4. QueueGoesOn
    BY <1>5, StillGoesOn
  <2> HIDE DEF k
  <2>5. QED
    BY <1>3, <2>2, <2>3, <2>4
<1>6. QED
  BY <1>4, <1>5 DEF SubmitAgain

LEMMA ReleaseKeeps ==
  ASSUME HistoryAssumption, NamesAssumption, RetriesSound, NEW c \in Calls, ReleaseSlot(c)
  PROVE  RetriesSound'
<1> DEFINE j == calls[c].job
           x == calls[c].copy.marker
<1>1. TypeOK /\ CallsFit /\ CallFits(calls[c]) /\ x # c
  BY DEF RetriesSound, RetriesStrengthening, CallsFit, ClaimsRead
<1>2. /\ calls[c] \in CallType /\ calls[c].pc = "release" /\ End(c, "over")
      /\ UNCHANGED <<clock, queue, recorders, sweeper, crashes, retries, overwritten>>
      /\ clock \in 1..MaxTime /\ overwritten \subseteq Jobs \X Nat /\ MaxTime \in Nat
  BY <1>1, TypesNamed DEF ReleaseSlot, At, HistoryAssumption
<1>3. OwnerGoesOn(c) /\ CallFits(calls[c])' /\ QueueGoesOn
  BY <1>2, OwnerEnds, StillGoesOn DEF Window
<1>4. j \in Jobs /\ x \in Markers /\ clock \in 0..MaxTime
  BY <1>1, <1>2 DEF CallFits, Named, Settled, CallType
<1>5. calls'[c].pc = "over"
  <2>1. calls'[c] = Ended(c, "over")
    BY <1>1, <1>2, TypesNamed DEF End
  <2>2. QED
    BY <2>1 DEF Ended, Unmade
<1>6. CASE SameRow(c) /\ rows[j].marker = c
  <2>1. rows' = [rows EXCEPT ![j].marker = x, ![j].markedAt = clock]
    BY <1>6 DEF ReleaseSlot
  \* What is put back is a claim of somebody else, who is late or was cut short.
  <2>2. x \in Calls => x # c /\ (calls[x].late \/ calls[x].pc = "abandoned")
    BY <1>1, <1>2 DEF CallFits, PassesStale, Window
  <2>3. Claimed(x, clock, <<j, rows[j].id>>)
    <3>1. x \in Calls => calls[x].at <= clock
      BY <1>1 DEF CallsFit, CallFits, Named
    <3>2. QED
      BY <1>1, <1>6, <3>1 DEF CallFits, Claimed, SameRow
  <2>4. Gives(c, j, x, clock)
    BY <1>4, <1>5, <1>6, <2>1, <2>2, <2>3, NamesAssumption DEF Gives, SameRow, Window
  <2>5. \A i \in Jobs : rows'[i].marker # c
    <3>1. rows \in [Jobs -> RowType]
      BY <1>1, TypesNamed
    <3>2. rows'[j].marker = x /\ \A i \in Jobs : i # j => rows'[i] = rows[i]
      BY <1>4, <2>1, <3>1 DEF RowType
    <3>3. \A i \in Jobs : rows[i].marker = c => i = j
      BY <1>2, MarkerOfRow DEF Window
    <3>4. QED
      BY <1>1, <3>2, <3>3
  <2>6. QED
    BY <1>2, <1>3, <1>4, <2>4, <2>5, OwnerKeeps
<1>7. CASE ~(SameRow(c) /\ rows[j].marker = c)
  <2>1. UNCHANGED rows
    BY <1>7 DEF ReleaseSlot
  <2>2. \A i \in Jobs : rows[i].exists => rows[i].marker # c
    BY <1>2, <1>7, MarkerOfRow DEF SameRow, Window
  <2>3. QED
    BY <1>2, <1>3, <1>4, <2>1, <2>2, OwnerKeeps
<1>8. QED
  BY <1>6, <1>7

LEMMA MarkKeeps ==
  ASSUME HistoryAssumption, NamesAssumption, RetriesSound, NEW c \in Calls, NEW m \in Jobs,
         calls[c].pc \in {"mark", "markinplace"}, Mark(c, m)
  PROVE  RetriesSound'
<1> DEFINE j == calls[c].job
<1>1. TypeOK /\ CallFits(calls[c])
  BY DEF RetriesSound, RetriesStrengthening, CallsFit
<1>2. /\ calls[c] \in CallType /\ calls[c].pc \in Window \cup {"markinplace"}
      /\ UNCHANGED <<clock, queue, recorders, sweeper, crashes, retries>>
      /\ clock \in 0..MaxTime /\ rows \in [Jobs -> RowType]
      /\ overwritten \subseteq Jobs \X Nat
  BY <1>1, TypesNamed DEF Mark, Window, HistoryAssumption
<1>3. j \in Jobs /\ m \in Markers /\ QueueGoesOn
  BY <1>1, <1>2, StillGoesOn DEF CallFits, Named, Settled, Markers
<1>4. ASSUME NEW pc \in {"over", "abandoned"}, End(c, pc)
      PROVE  OwnerGoesOn(c) /\ CallFits(calls[c])' /\ calls'[c].pc = pc
  <2>1. OwnerGoesOn(c) /\ CallFits(calls[c])'
    BY <1>2, <1>4, OwnerEnds
  <2>2. calls'[c] = Ended(c, pc)
    BY <1>1, <1>4, TypesNamed DEF End
  <2>3. QED
    BY <2>1, <2>2 DEF Ended, Unmade
\* Only the row that it retries can have its claim.
<1>5. \A i \in Jobs : rows[i].marker = c => i = j /\ rows[i].id = calls[c].copy.id
  BY <1>2, MarkerOfRow
<1>6. CASE SameRow(c) /\ End(c, "over")
           /\ rows' = [rows EXCEPT ![j].marker = m, ![j].markedAt = clock]
           /\ overwritten' = IF rows[j].marker \in Calls \ {c}
                             THEN overwritten \cup {<<j, rows[j].id>>} ELSE overwritten
  <2>1. m # c /\ m \notin Calls
    BY NamesAssumption
  <2>2. overwritten \subseteq overwritten' /\ overwritten' \subseteq Jobs \X Nat
    <3>1. rows[j].id \in Nat
      BY <1>2, <1>3 DEF RowType
    <3>2. QED
      BY <1>2, <1>3, <1>6, <3>1
  <2>3. Gives(c, j, m, clock)
    BY <1>4, <1>6, <2>1 DEF Gives, Claimed, SameRow, Window
  <2>4. rows'[j].marker = m /\ \A i \in Jobs : i # j => rows'[i] = rows[i]
    BY <1>2, <1>3, <1>6 DEF RowType
  <2>5. \A i \in Jobs : rows'[i].marker # c
    BY <1>5, <2>1, <2>4
  <2>6. QED
    BY <1>2, <1>3, <1>4, <1>6, <2>2, <2>3, <2>5, OwnerKeeps
<1>7. CASE ~SameRow(c) /\ End(c, "over") /\ UNCHANGED <<rows, overwritten>>
  <2>1. \A i \in Jobs : rows[i].exists => rows[i].marker # c
    BY <1>5, <1>7 DEF SameRow
  <2>2. QED
    BY <1>2, <1>3, <1>4, <1>7, <2>1, OwnerKeeps
<1>8. CASE End(c, "abandoned") /\ UNCHANGED <<rows, overwritten>>
  BY <1>2, <1>3, <1>4, <1>8, OwnerKeeps
<1>9. QED
  BY <1>6, <1>7, <1>8 DEF Mark

-----------------------------------------------------------------------------
(* The clock, and a restart.                                                 *)

LEMMA PassKeeps ==
  ASSUME HistoryAssumption, NamesAssumption, RetriesSound, Pass
  PROVE  RetriesSound'
<1>1. TypeOK /\ LiveIsListed /\ CallsFit /\ RowsFit /\ SlotsHeld /\ ClaimHasOwner /\ SlotHeldAlone
      /\ ClaimsRead /\ sweeper.now <= clock
  BY DEF RetriesSound, RetriesStrengthening
<1>2. /\ calls \in [Calls -> CallType] /\ clock \in 1..MaxTime /\ rows \in [Jobs -> RowType]
      /\ sweeper \in SweepType /\ TTL \in Nat /\ MaxTime \in Nat
  BY <1>1, TypesNamed DEF HistoryAssumption
<1>3. clock' = clock + 1 /\ clock' \in 1..MaxTime
      /\ UNCHANGED <<queue, recorders, rows, sweeper, crashes, retries, overwritten>>
  BY <1>2 DEF Pass
\* A request is only found to be late.
<1>4. ASSUME NEW c \in Calls
      PROVE  /\ calls'[c] \in CallType
             /\ calls'[c].pc = calls[c].pc /\ calls'[c].job = calls[c].job
             /\ calls'[c].copy = calls[c].copy /\ calls'[c].started = calls[c].started
             /\ calls'[c].at = calls[c].at /\ (calls[c].late => calls'[c].late)
             /\ calls[c].pc \in Window \cup {"claim"} /\ calls[c].at + TTL <= clock + 1 =>
                  calls'[c].late
  <2> DEFINE late == calls[c].late \/ /\ calls[c].pc \in Window \cup {"claim"}
                                      /\ clock + 1 >= calls[c].at + TTL
             k == [calls[c] EXCEPT !.late = late]
  <2>1. calls'[c] = k
    BY DEF Pass
  <2>2. calls[c] \in CallType
    BY <1>2
  <2>3. late \in BOOLEAN
    BY <2>2 DEF CallType
  <2>4. /\ k \in CallType
        /\ k.pc = calls[c].pc /\ k.job = calls[c].job /\ k.copy = calls[c].copy
        /\ k.started = calls[c].started /\ k.at = calls[c].at /\ k.late = late
    <3> HIDE DEF late
    <3>1. QED
      BY <2>2, <2>3 DEF CallType
  <2>5. calls[c].at \in Nat /\ clock \in Nat
    BY <1>2, <2>2 DEF CallType
  <2> HIDE DEF k
  <2>6. QED
    BY <1>2, <2>1, <2>4, <2>5
<1>5. calls' \in [Calls -> CallType]
  <2>1. calls' = [c \in Calls |-> calls'[c]]
    BY DEF Pass
  <2>2. QED
    BY <1>4, <2>1
<1>6. \A c \in Calls : RowOf(c)' = RowOf(c) /\ (SameRow(c)' <=> SameRow(c))
  BY <1>3, <1>4 DEF RowOf, SameRow
<1>7. TypeOK'
  BY <1>1, <1>3, <1>5, TypesNamed DEF TypeOK, JobType, RecorderType, RowType, CallType, SweepType,
     Markers, Places
<1>8. \A x, time, row : Claimed(x, time, row) => Claimed(x, time, row)'
  BY <1>4, <1>6 DEF Claimed
<1>9. CallsFit'
  <2>1. SUFFICES ASSUME NEW c \in Calls PROVE CallFits(calls[c])'
    BY DEF CallsFit
  <2>2. CallFits(calls[c])
    BY <1>1 DEF CallsFit
  <2>3. Named(calls[c])'
    <3>1. calls[c].at <= clock + 1
      <4>1. calls[c].at \in Nat /\ clock \in Nat /\ calls[c].at <= clock
        BY <1>2, <2>2 DEF CallType, CallFits, Named
      <4>2. QED
        BY <4>1
    <3>2. QED
      BY <1>3, <1>4, <2>2, <3>1 DEF CallFits, Named
  <2>4. PassesStale(calls[c])'
    BY <1>4, <2>2 DEF CallFits, PassesStale
  <2>5. Claimed(calls[c].copy.marker, calls[c].copy.markedAt, <<calls[c].job, calls[c].copy.id>>)'
    BY <1>4, <1>6, <2>2 DEF CallFits, Claimed
  <2>6. QED
    BY <2>3, <2>4, <2>5 DEF CallFits
<1>10. RowsFit'
  BY <1>1, <1>3, <1>4, <1>6 DEF RowsFit, Claimed
<1>11. SlotsHeld' /\ ClaimHasOwner' /\ ClaimsRead'
  BY <1>1, <1>3, <1>4, <1>6 DEF SlotsHeld, ClaimHasOwner, ClaimsRead, SameRow
<1>12. SlotHeldAlone'
  <2>1. SUFFICES ASSUME NEW c \in Calls, NEW d \in Calls, calls'[c].pc \in Window,
                        calls'[d].pc \in Window, c # d, RowOf(c)' = RowOf(d)'
                 PROVE  (calls[c].late \/ calls[d].late \/ RowOf(c) \in overwritten)'
    BY DEF SlotHeldAlone, Window
  <2>2. calls[c].late \/ calls[d].late \/ RowOf(c) \in overwritten
    BY <1>1, <1>4, <1>6, <2>1 DEF SlotHeldAlone
  <2>3. QED
    BY <1>3, <1>4, <1>6, <2>2
<1>13. sweeper'.now <= clock'
  <2>1. sweeper.now \in Nat /\ clock \in Nat
    BY <1>2 DEF SweepType
  <2>2. QED
    BY <1>1, <1>3, <2>1
<1>14. QED
  BY <1>1, <1>3, <1>7, <1>9, <1>10, <1>11, <1>12, <1>13
     DEF RetriesSound, RetriesStrengthening, LiveIsListed

LEMMA CrashKeeps ==
  ASSUME HistoryAssumption, NamesAssumption, RetriesSound, Crash
  PROVE  RetriesSound'
<1>1. TypeOK /\ CallsFit /\ RowsFit /\ ClaimHasOwner
  BY DEF RetriesSound, RetriesStrengthening
<1>2. /\ calls \in [Calls -> CallType] /\ clock \in 1..MaxTime /\ rows \in [Jobs -> RowType]
      /\ MaxTime \in Nat /\ crashes \in 0..MaxCrashes /\ MaxCrashes \in Nat
  BY <1>1, TypesNamed DEF HistoryAssumption, TypeOK
<1>3. crashes' \in 0..MaxCrashes /\ recorders' = {} /\ sweeper' = NoSweep
      /\ UNCHANGED <<clock, rows, retries, overwritten>>
  BY <1>2 DEF Crash
<1>4. queue' \in [Jobs -> JobType] /\ \A j \in Jobs : queue'[j].phase # "live"
      /\ (queue[j].phase # "unborn" => queue'[j].phase # "unborn")
  <2>1. /\ Unborn \in JobType /\ Unborn.phase = "unborn"
        /\ [Unborn EXCEPT !.phase = "lost"] \in JobType
        /\ [Unborn EXCEPT !.phase = "lost"].phase = "lost"
    BY DEF Unborn, JobType
  <2>2. QED
    BY <2>1 DEF Crash
\* Nobody is at work any more, and nobody has a copy.
<1>5. ASSUME NEW c \in Calls
      PROVE  /\ calls'[c] \in CallType
             /\ calls'[c].pc \in Settled /\ calls'[c].copy = CopyOf(NoRow)
             /\ calls'[c].at <= calls[c].at /\ calls'[c].late = calls[c].late
             /\ calls[c].pc \in {"unmade", "over"} => calls'[c].pc = calls[c].pc
             /\ calls[c].pc \notin {"unmade", "over"} => calls'[c].pc = "abandoned"
  <2>1. calls[c] \in CallType /\ Named(calls[c])
    BY <1>1, <1>2 DEF CallsFit, CallFits
  <2>2. calls[c].at \in Nat
    BY <1>2, <2>1 DEF CallType
  <2>3. CASE calls[c].pc \in {"unmade", "over"}
    <3>1. calls'[c] = calls[c]
      BY <2>3 DEF Crash
    <3>2. QED
      BY <2>1, <2>2, <2>3, <3>1 DEF Named, Settled
  <2>4. CASE calls[c].pc \notin {"unmade", "over"}
    <3>1. calls'[c] = Ended(c, "abandoned")
      BY <2>4 DEF Crash
    <3>2. Ended(c, "abandoned") \in CallType
      BY <1>3, EndedFits
    <3>3. /\ Ended(c, "abandoned").pc = "abandoned" /\ Ended(c, "abandoned").at = 0
          /\ Ended(c, "abandoned").copy = CopyOf(NoRow) /\ Ended(c, "abandoned").late = calls[c].late
      BY DEF Ended, Unmade
    <3>4. QED
      BY <2>2, <2>4, <3>1, <3>2, <3>3 DEF Settled
  <2>5. QED
    BY <2>3, <2>4
<1>6. calls' \in [Calls -> CallType]
  <2>1. calls' = [c \in Calls |-> calls'[c]]
    BY DEF Crash
  <2>2. QED
    BY <1>5, <2>1
<1>7. \A c \in Calls : calls'[c].pc \notin Window /\ calls'[c].copy.marker = None
  BY <1>5 DEF Settled, Window, CopyOf, NoRow
<1>8. TypeOK'
  <2>1. NoSweep \in SweepType
    BY <1>2 DEF NoSweep, SweepType, Outcomes
  <2>2. QED
    BY <1>1, <1>3, <1>4, <1>6, <2>1, TypesNamed
       DEF TypeOK, JobType, RecorderType, RowType, CallType, SweepType, Markers, Places
<1>9. LiveIsListed' /\ SlotHeldAlone' /\ SlotsHeld' /\ ClaimsRead'
  BY <1>4, <1>7, NamesAssumption DEF LiveIsListed, SlotHeldAlone, SlotsHeld, ClaimsRead, Window
<1>10. ClaimHasOwner'
  BY <1>1, <1>3, <1>5 DEF ClaimHasOwner, Window
<1>11. CallsFit'
  <2>1. SUFFICES ASSUME NEW c \in Calls PROVE CallFits(calls[c])'
    BY DEF CallsFit
  <2>2. calls'[c].at <= clock
    <3>1. calls[c].at \in Nat /\ calls'[c].at \in Nat /\ clock \in Nat
      BY <1>2, <1>5 DEF CallType
    <3>2. calls[c].at <= clock /\ calls'[c].at <= calls[c].at
      BY <1>1, <1>5 DEF CallsFit, CallFits, Named
    <3>3. QED
      BY <3>1, <3>2
  <2>3. Named(calls[c])'
    BY <1>3, <1>5, <2>2 DEF Named, Settled, Window
  <2>4. QED
    BY <1>7, <2>3, NamesAssumption DEF CallFits, PassesStale, Claimed
<1>12. RowsFit'
  <2>1. ASSUME NEW j \in Jobs, rows[j].marker \in Calls
        PROVE  Claimed(rows[j].marker, rows[j].markedAt, <<j, rows[j].id>>)'
    <3> DEFINE x == rows[j].marker
    <3>1. Claimed(x, rows[j].markedAt, <<j, rows[j].id>>)
      BY <1>1 DEF RowsFit
    <3>2. calls'[x].pc \in {"over", "abandoned"}
      BY <1>5, <2>1, <3>1 DEF Claimed, Window
    <3>3. calls'[x].at <= rows[j].markedAt
      <4>1. /\ calls[x].at \in Nat /\ calls'[x].at \in Nat /\ rows[j].markedAt \in Nat
            /\ calls[x].at <= rows[j].markedAt /\ calls'[x].at <= calls[x].at
        BY <1>2, <1>5, <2>1, <3>1 DEF CallType, RowType, Claimed
      <4>2. QED
        BY <4>1
    <3>4. QED
      BY <1>3, <3>2, <3>3 DEF Claimed, Window
  <2>2. \A j \in Jobs : Claimed(rows[j].marker, rows[j].markedAt, <<j, rows[j].id>>)'
    BY <1>3, <2>1 DEF Claimed
  <2>3. QED
    BY <1>1, <1>3, <1>4, <2>2 DEF RowsFit
<1>13. sweeper'.now <= clock'
  BY <1>2, <1>3 DEF NoSweep
<1>14. QED
  BY <1>8, <1>9, <1>10, <1>11, <1>12, <1>13 DEF RetriesSound, RetriesStrengthening

-----------------------------------------------------------------------------
(* The invariant, and what it says of the rows that go.                      *)

LEMMA InitSound ==
  ASSUME HistoryAssumption, NamesAssumption, Init
  PROVE  RetriesSound
<1>1. MaxTime \in Nat \ {0} /\ MaxRetries \in Nat /\ MaxCrashes \in Nat
  BY DEF HistoryAssumption
<1>2. Unborn \in JobType /\ FailedJob \in JobType /\ FailedJob.phase = "failed"
      /\ Unborn.phase = "unborn"
  BY DEF Unborn, FailedJob, JobType, Outcomes
<1>3. /\ NoRow \in RowType /\ NoRow.marker = None /\ ~NoRow.exists
      /\ FailedRow \in RowType /\ FailedRow.marker = None
  <2>1. NoRow \in RowType /\ NoRow.marker = None /\ ~NoRow.exists
    BY <1>1 DEF NoRow, RowType, Markers, Outcomes
  <2>2. 1 \in Nat /\ 1 \in 0..MaxTime
    BY <1>1
  <2>3. QED
    BY <2>1, <2>2 DEF FailedRow, RowType
<1>4. /\ Unmade \in CallType /\ Unmade.pc = "unmade" /\ Unmade.at = 0
      /\ Unmade.copy = CopyOf(NoRow) /\ Unmade.copy.marker = None
  BY <1>1 DEF Unmade, CopyOf, NoRow, CallType, Places, Markers
<1>5. NoSweep \in SweepType /\ NoSweep.now = 0
  BY <1>1 DEF NoSweep, SweepType, Outcomes
<1>6. TypeOK
  BY <1>1, <1>2, <1>3, <1>4, <1>5, TypesNamed DEF Init
<1>7. \A c \in Calls : calls[c] = Unmade
  BY DEF Init
<1>8. \A j \in Jobs : rows[j].marker = None /\ (rows[j].exists => queue[j].phase # "unborn")
                      /\ queue[j].phase # "live"
  BY <1>2, <1>3 DEF Init
<1>9. CallsFit
  <2>1. ASSUME NEW c \in Calls PROVE CallFits(calls[c])
    <3>1. Named(calls[c])
      BY <1>4, <1>7 DEF Named, Settled, Window, Init
    <3>2. QED
      BY <1>4, <1>7, <3>1, NamesAssumption DEF CallFits, PassesStale, Claimed
  <2>2. QED
    BY <2>1 DEF CallsFit
<1>10. RowsFit /\ ClaimHasOwner /\ LiveIsListed
  BY <1>8, NamesAssumption DEF RowsFit, Claimed, ClaimHasOwner, LiveIsListed, Init
<1>11. SlotsHeld /\ SlotHeldAlone /\ ClaimsRead
  BY <1>4, <1>7, NamesAssumption DEF SlotsHeld, SlotHeldAlone, ClaimsRead, Window
<1>12. sweeper.now <= clock
  BY <1>5 DEF Init
<1>13. QED
  BY <1>6, <1>9, <1>10, <1>11, <1>12 DEF RetriesSound, RetriesStrengthening

LEMMA StutterKeeps ==
  ASSUME HistoryAssumption, NamesAssumption, RetriesSound, UNCHANGED vars
  PROVE  RetriesSound'
<1>1. GoesOn
  BY StillGoesOn DEF vars, GoesOn, RetriesSound, TypeOK
<1>2. QED
  BY <1>1, GoingOnKeeps

LEMMA NextKeeps ==
  ASSUME HistoryAssumption, NamesAssumption, RetriesSound, Next
  PROVE  RetriesSound'
<1>1. CASE Pass
  BY <1>1, PassKeeps
<1>2. CASE Crash
  BY <1>2, CrashKeeps
<1>3. CASE QueueStep
  BY <1>3, QueueStepGoesOn, GoingOnKeeps
<1>4. ASSUME NEW c \in Calls, Retry(c) PROVE RetriesSound'
  <2>1. CASE \/ \E j \in Jobs : LoadRetry(c, j)
             \/ Link(c) \/ CheckURL(c) \/ FindJob(c) \/ RetryInPlace(c)
    BY <2>1, RetryGoesOn, GoingOnKeeps
  <2>2. CASE ClaimDownloadHistoryRetry(c)
    BY <2>2, ClaimKeeps
  <2>3. CASE SubmitAgain(c)
    BY <2>3, SubmitAgainKeeps
  <2>4. CASE ReleaseSlot(c)
    BY <2>4, ReleaseKeeps
  <2>5. CASE MarkDownloadHistoryRetried(c)
    <3>1. Named(calls[c])
      BY DEF RetriesSound, RetriesStrengthening, CallsFit, CallFits
    <3>2. CASE At(c, "mark") /\ Mark(c, calls[c].started)
      BY <3>1, <3>2, MarkKeeps DEF At, Named
    <3>3. CASE At(c, "markinplace") /\ Mark(c, calls[c].job)
      BY <3>1, <3>3, MarkKeeps DEF At, Named, Settled
    <3>4. QED
      BY <2>5, <3>2, <3>3 DEF MarkDownloadHistoryRetried
  <2>6. QED
    BY <1>4, <2>1, <2>2, <2>3, <2>4, <2>5 DEF Retry
<1>5. ASSUME NEW c \in Calls, Delete(c) PROVE RetriesSound'
  BY <1>5, DeleteGoesOn, GoingOnKeeps
<1>6. CASE (\E status \in Outcomes : SweepSelects(status)) \/ SweepDeletes
  BY <1>6, SweepGoesOn, GoingOnKeeps
<1>7. QED
  BY <1>1, <1>2, <1>3, <1>4, <1>5, <1>6 DEF Next

\* For every set of jobs and requests, every age of a claim and every bound: of the
\* requests that retry one row at most one is between its claim and its mark, unless
\* it is late or a mark in place has landed on its claim; a claim left in a row has an
\* owner; and a job that runs is in the registry.
THEOREM RetriesAlwaysSound == Spec => []RetriesSound
<1> USE HistoryAssumption, NamesAssumption
<1>1. Init => RetriesSound
  BY InitSound
<1>2. RetriesSound /\ [Next]_vars => RetriesSound'
  BY NextKeeps, StutterKeeps
<1>3. QED
  BY <1>1, <1>2, PTL DEF Spec

\* Nothing but the statement of the request itself deletes the row of a deletion, and
\* only a row that was last marked before the request began.
LEMMA OnlyDeleteRow ==
  ASSUME RetriesSound, Next, NEW c \in Calls, Deletes(c)
  PROVE  rows[calls[c].job].markedAt < calls[c].at
<1> DEFINE j == calls[c].job
<1>1. /\ calls \in [Calls -> CallType] /\ rows \in [Jobs -> RowType] /\ j \in Jobs
      /\ calls[c].pc = "drop" /\ calls'[c].pc # "drop" /\ rows[j].exists /\ ~rows'[j].exists
  BY TypesNamed
     DEF RetriesSound, RetriesStrengthening, CallsFit, CallFits, Named, Settled, Deletes, At
<1>2. CASE DeleteRow(c)
  <2>1. CASE SameRow(c) /\ rows[j].markedAt < calls[c].at
    BY <2>1
  <2>2. CASE ~(SameRow(c) /\ rows[j].markedAt < calls[c].at)
    BY <1>1, <1>2, <2>2 DEF DeleteRow
  <2>3. QED
    BY <2>1, <2>2
<1>3. CASE UNCHANGED rows
  BY <1>1, <1>3
<1>4. CASE UNCHANGED calls
  BY <1>1, <1>4
\* Another request's statement leaves this one where it was.
<1>5. ASSUME NEW d \in Calls, Retry(d) \/ Delete(d), ~DeleteRow(c)
      PROVE  UNCHANGED rows \/ calls'[c].pc = "drop"
  <2>1. ASSUME calls[d].pc # "drop", \E pc \in {"submit", "over", "abandoned"} : Goto(d, pc) \/ End(d, pc)
        PROVE  calls'[c].pc = "drop"
    <3>1. c # d
      BY <1>1, <2>1
    <3>2. QED
      BY <1>1, <2>1, <3>1 DEF Goto, End
  <2>2. CASE ClaimDownloadHistoryRetry(d) \/ ReleaseSlot(d)
    BY <2>1, <2>2 DEF ClaimDownloadHistoryRetry, ReleaseSlot, At
  <2>3. CASE MarkDownloadHistoryRetried(d)
    BY <2>1, <2>3 DEF MarkDownloadHistoryRetried, Mark, At
  <2>4. CASE DeleteRow(d)
    <3>1. c # d
      BY <1>5, <2>4
    <3>2. QED
      BY <1>1, <2>4, <3>1 DEF DeleteRow, End
  <2>5. QED
    BY <1>5, <2>2, <2>3, <2>4
       DEF Retry, Delete, LoadRetry, Link, CheckURL, FindJob, RetryInPlace, SubmitAgain,
           StartDelete, LoadDelete, LinkDelete, RemoveFinished, CheckQueued
<1>6. CASE Pass \/ Crash
  BY <1>3, <1>6 DEF Pass, Crash
<1>7. CASE QueueStep
  BY <1>4, <1>7
     DEF QueueStep, SubmitNew, RetryInPanel, Evict, Finish, recordTerminal, RecordTerminalDownload
<1>8. CASE (\E status \in Outcomes : SweepSelects(status)) \/ SweepDeletes
  BY <1>4, <1>8 DEF SweepSelects, SweepDeletes
<1>9. QED
  BY <1>1, <1>2, <1>3, <1>5, <1>6, <1>7, <1>8 DEF Next

\* Only the sweep's own second statement ends a sweep and deletes.
LEMMA OnlySweepDeletes ==
  ASSUME RetriesSound, Next, NEW j \in Jobs, sweeper.on, ~sweeper'.on, rows[j].exists,
         ~rows'[j].exists
  PROVE  Expired(rows[j], sweeper.status, sweeper.now)
<1>1. CASE SweepDeletes
  BY <1>1 DEF SweepDeletes
<1>2. CASE Pass \/ Crash
  BY <1>2 DEF Pass, Crash
<1>3. CASE QueueStep
  BY <1>3
     DEF QueueStep, SubmitNew, RetryInPanel, Evict, Finish, recordTerminal, RecordTerminalDownload
<1>4. ASSUME NEW c \in Calls, Retry(c) PROVE UNCHANGED sweeper
  BY <1>4 DEF Retry, LoadRetry, Link, CheckURL, FindJob, RetryInPlace, ClaimDownloadHistoryRetry,
     SubmitAgain, ReleaseSlot, MarkDownloadHistoryRetried, Mark
<1>5. ASSUME NEW c \in Calls, Delete(c) PROVE UNCHANGED sweeper
  BY <1>5 DEF Delete, StartDelete, LoadDelete, LinkDelete, RemoveFinished, CheckQueued, DeleteRow
<1>6. CASE \E status \in Outcomes : SweepSelects(status)
  BY <1>6 DEF SweepSelects
<1>7. QED
  BY <1>1, <1>2, <1>3, <1>4, <1>5, <1>6 DEF Next

\* For every set of jobs and requests: no row is deleted while its download runs, nor
\* while a request whose claim is newer than the deletion is about to run it again,
\* nor by the sweep before its window, and that of its last retry, have passed.
THEOREM DeletionsAlwaysSpare == Spec => DeletionsSpare
<1> USE HistoryAssumption, NamesAssumption
<1>1. RetriesSound /\ [Next]_vars =>
        [\A c \in Calls : Deletes(c) => queue[calls[c].job].phase # "live"]_vars
  <2>1. ASSUME RetriesSound, NEW c \in Calls, Deletes(c)
        PROVE  queue[calls[c].job].phase # "live"
    <3>1. calls[c].job \in Jobs /\ ~queue[calls[c].job].listed
      BY <2>1 DEF RetriesSound, RetriesStrengthening, CallsFit, CallFits, Named, Settled, Deletes, At
    <3>2. QED
      BY <2>1, <3>1 DEF RetriesSound, LiveIsListed
  <2>2. QED
    BY <2>1
<1>2. RetriesSound /\ [Next]_vars =>
        [\A c, d \in Calls :
           Deletes(c) /\ calls[d].pc \in Window
           /\ RowOf(d) = <<calls[c].job, rows[calls[c].job].id>> /\ RowOf(d) \notin overwritten
           => calls[d].at < calls[c].at \/ calls[d].late]_vars
  <2>1. ASSUME RetriesSound, Next, NEW c \in Calls, NEW d \in Calls, Deletes(c),
               calls[d].pc \in Window, RowOf(d) = <<calls[c].job, rows[calls[c].job].id>>,
               RowOf(d) \notin overwritten, ~calls[d].late
        PROVE  calls[d].at < calls[c].at
    <3> DEFINE row == rows[calls[c].job]
    <3>1. SameRow(d) /\ calls[d].job = calls[c].job
      BY <2>1 DEF RowOf, SameRow, Deletes
    <3>2. row.marker = d
      BY <2>1, <3>1 DEF RetriesSound, RetriesStrengthening, SlotsHeld
    <3>3. calls[c].job \in Jobs
      BY <2>1 DEF RetriesSound, RetriesStrengthening, CallsFit, CallFits, Named, Settled, Deletes, At
    <3>4. calls[d].at <= row.markedAt
      BY <2>1, <3>2, <3>3 DEF RetriesSound, RetriesStrengthening, RowsFit, Claimed
    <3>5. row.markedAt < calls[c].at
      BY <2>1, OnlyDeleteRow
    <3>6. calls[c].at \in Nat /\ calls[d].at \in Nat /\ row.markedAt \in Nat
      <4>1. calls \in [Calls -> CallType] /\ rows \in [Jobs -> RowType] /\ MaxTime \in Nat
        BY <2>1, TypesNamed DEF RetriesSound, HistoryAssumption
      <4>2. QED
        BY <3>3, <4>1 DEF CallType, RowType
    <3>7. QED
      BY <3>4, <3>5, <3>6
  <2>2. QED
    BY <2>1
<1>3. RetriesSound /\ [Next]_vars =>
        [\A j \in Jobs :
           sweeper.on /\ ~sweeper'.on /\ rows[j].exists /\ ~rows'[j].exists
           => /\ rows[j].at + Age(rows[j].status) < clock
              /\ rows[j].markedAt = 0 \/ rows[j].markedAt + Age(rows[j].status) < clock]_vars
  <2>1. ASSUME RetriesSound, Next, NEW j \in Jobs, sweeper.on, ~sweeper'.on, rows[j].exists,
               ~rows'[j].exists
        PROVE  /\ rows[j].at + Age(rows[j].status) < clock
               /\ rows[j].markedAt = 0 \/ rows[j].markedAt + Age(rows[j].status) < clock
    <3>1. Expired(rows[j], sweeper.status, sweeper.now) /\ sweeper.now <= clock
      BY <2>1, OnlySweepDeletes DEF RetriesSound, RetriesStrengthening
    <3>2. /\ rows[j].at \in Nat /\ rows[j].markedAt \in Nat /\ Age(rows[j].status) \in Nat
          /\ sweeper.now \in Nat /\ clock \in Nat
      <4>1. rows \in [Jobs -> RowType] /\ clock \in 1..MaxTime /\ sweeper \in SweepType
            /\ MaxTime \in Nat /\ FailedAge \in Nat /\ DoneAge \in Nat
        BY <2>1, TypesNamed DEF RetriesSound, HistoryAssumption
      <4>2. QED
        BY <4>1 DEF RowType, SweepType, Age
    <3>3. QED
      BY <3>1, <3>2 DEF Expired
  <2>2. QED
    BY <2>1
<1>4. QED
  BY <1>1, <1>2, <1>3, RetriesAlwaysSound, PTL
     DEF Spec, DeletionsSpare, DeleteSparesLive, DeleteSparesClaimed, SweepSparesFresh

-----------------------------------------------------------------------------
(* The hashes and pairs of images: types, and what a step leaves as it is.   *)

ImageRows == [version: 0..2, of: Pictures \cup {Nothing}]

HasherType == [at: {"idle", "read", "saved", "match", "found"}, image: Images \cup {Nothing},
               of: Pictures \cup {Nothing}, old: BOOLEAN, found: SUBSET Images]

RecomputeType == [at: {"idle", "begun", "rows", "found"}, image: Images \cup {Nothing},
                  rest: SUBSET [image: Images, of: Pictures], found: SUBSET Images, whole: BOOLEAN]

PairsFit ==
  /\ \A p \in pairs : p \subseteq Images /\ Cardinality(p) = 2 /\ \A i \in p : Kept(i)
  /\ PairsTrue

\* The invariant without what follows from the rest of it, by what it is about.
PairsSound ==
  /\ file \in [Images -> Pictures \cup {Nothing, Deleted}]
  /\ hash \in [Images -> ImageRows] /\ cache \in [Images -> Pictures \cup {Nothing}]
  /\ hasher \in [Hashers -> HasherType] /\ recompute \in RecomputeType
  /\ hashQueue \in Seq(Images) /\ Len(hashQueue) <= QueueLength
  /\ changing \subseteq Images /\ overtaken \subseteq Images /\ changed \subseteq Images
  /\ lost \in BOOLEAN
  /\ \A i \in Images : hash[i].version # 0 => Kept(i) /\ hash[i].of # Nothing
  /\ HashesCurrent /\ RowsRead /\ PairsFit /\ RecomputeFits /\ PairsPromised
  /\ \A w \in Hashers : HasherFits(hasher[w])

LEMMA PairsComeTrue ==
  ASSUME PairsSound
  PROVE  PairsComplete
<1>1. SUFFICES ASSUME ~lost, recompute.at = "idle", \A w \in Hashers : hasher[w].at = "idle",
                      NEW i \in Images, NEW j \in Images, Owed(i, j)
               PROVE  {i, j} \in pairs
  BY DEF PairsComplete
<1>2. Covered(i, j)
  BY <1>1 DEF PairsSound, PairsPromised
<1>3. recompute.rest = {} /\ recompute.found = {}
  BY <1>1 DEF PairsSound, RecomputeFits
<1>4. QED
  BY <1>1, <1>2, <1>3 DEF Covered, Promised, Excused

LEMMA PairsSaid == PairsExact <=> PairsSound
<1>1. HashTypeOK /\ HashesCurrent /\ PairsTrue /\ PairsStrengthening <=> PairsSound
  BY DEF HashTypeOK, PairsStrengthening, PairsSound, PairsFit, ImageRows, HasherType, RecomputeType
<1>2. QED
  BY <1>1, PairsComeTrue DEF PairsExact

\* An image does not go back to before its upload, and one whose file has not changed
\* has the file it had.
FilesMove ==
  \A i \in Images : file[i] # Nothing =>
    file'[i] # Nothing /\ (Steady(i)' => Steady(i) /\ file'[i] = file[i])

LEMMA FilesStand ==
  ASSUME UNCHANGED <<file, changed>>
  PROVE  FilesMove /\ \A i \in Images : (Steady(i)' <=> Steady(i)) /\ (Kept(i)' <=> Kept(i))
BY DEF FilesMove, Steady, Kept

\* p was read of i, and the images were found for i, as the next state has it.
SteadyNext(i) == file'[i] \in Pictures /\ i \notin changed'

ReadNext(i, p) == file'[i] # Nothing /\ (SteadyNext(i) => p = file'[i])

FoundNext(i, found) ==
  \A j \in found : j # i /\ file'[j] # Nothing
                   /\ (SteadyNext(i) /\ SteadyNext(j) => AlikeFiles(file'[i], file'[j]))

LEMMA ReadStays ==
  ASSUME FilesMove, NEW i \in Images, NEW p, ReadOf(i, p)
  PROVE  ReadNext(i, p)
BY DEF FilesMove, ReadOf, ReadNext, SteadyNext, Steady, Kept

LEMMA FoundStays ==
  ASSUME FilesMove, NEW i, NEW found, found \subseteq Images, FoundFor(i, found),
         found # {} => i \in Images /\ file[i] # Nothing
  PROVE  FoundNext(i, found)
BY DEF FilesMove, FoundFor, FoundNext, SteadyNext, Steady, Kept

-----------------------------------------------------------------------------
(* The parts of the invariant, kept where a step does not touch what they are of. *)

\* What a goroutine has in hand, as the next state has it.
HasherNext(h) ==
  /\ h.at = "idle" => h.image = Nothing
  /\ h.at # "idle" => /\ h.image \in Images /\ h.of \in Pictures
                      /\ ReadNext(h.image, h.of) /\ FoundNext(h.image, h.found)
  /\ h.at = "read" /\ file'[h.image] \in Pictures /\ h.image \notin changing' \cup overtaken'
       => h.of = file'[h.image]

LEMMA HasherStays ==
  ASSUME FilesMove, NEW h \in HasherType, HasherFits(h),
         h.at = "read" /\ h.image \in Images /\ file'[h.image] \in Pictures
           /\ h.image \notin changing' \cup overtaken' => h.of = file'[h.image]
  PROVE  HasherNext(h)
<1>1. CASE h.at = "idle"
  BY <1>1 DEF HasherFits, HasherNext
<1>2. CASE h.at # "idle"
  <2>1. /\ h.image \in Images /\ h.of \in Pictures /\ h.found \subseteq Images
        /\ ReadOf(h.image, h.of) /\ FoundFor(h.image, h.found) /\ file[h.image] # Nothing
    BY <1>2 DEF HasherFits, HasherType, ReadOf
  <2>2. ReadNext(h.image, h.of) /\ FoundNext(h.image, h.found)
    BY <2>1, ReadStays, FoundStays
  <2>3. QED
    BY <1>2, <2>1, <2>2 DEF HasherNext
<1>3. QED
  BY <1>1, <1>2

LEMMA HashersNext ==
  ASSUME \A w \in Hashers : HasherNext(hasher'[w])
  PROVE  \A w \in Hashers : HasherFits(hasher[w])'
<1>1. SUFFICES ASSUME NEW w \in Hashers
               PROVE  HasherFits(hasher[w])'
  OBVIOUS
<1>2. ReadNext(hasher'[w].image, hasher'[w].of) <=> ReadOf(hasher[w].image, hasher[w].of)'
  BY DEF ReadNext, ReadOf, SteadyNext, Steady, Kept
<1>3. FoundNext(hasher'[w].image, hasher'[w].found) <=> FoundFor(hasher[w].image, hasher[w].found)'
  BY DEF FoundNext, FoundFor, SteadyNext, Steady, Kept
<1>4. HasherNext(hasher'[w])
  BY <1>1
<1>5. QED
  BY <1>2, <1>3, <1>4 DEF HasherNext, HasherFits, Kept

LEMMA RecomputeStays ==
  ASSUME FilesMove, recompute \in RecomputeType, RecomputeFits,
         UNCHANGED recompute \/ \E whole \in BOOLEAN : recompute' = [recompute EXCEPT !.whole = whole]
  PROVE  RecomputeFits' /\ recompute' \in RecomputeType
<1>1. /\ recompute'.at = recompute.at /\ recompute'.image = recompute.image
      /\ recompute'.rest = recompute.rest /\ recompute'.found = recompute.found
      /\ recompute' \in RecomputeType
  BY DEF RecomputeType
<1>2. \A r \in recompute.rest : r.image \in Images
  BY DEF RecomputeType
<1>3. \A r \in recompute.rest : ReadNext(r.image, r.of)
  BY <1>2, ReadStays DEF RecomputeFits
<1>4. FoundNext(recompute.image, recompute.found)
  <2>1. recompute.found # {} => recompute.image \in Images /\ file[recompute.image] # Nothing
    BY DEF RecomputeFits
  <2>2. recompute.found \subseteq Images
    BY DEF RecomputeType
  <2>3. QED
    BY <2>1, <2>2, FoundStays DEF RecomputeFits
<1>5. recompute.at = "found" => recompute.image \in Images /\ file'[recompute.image] # Nothing
  BY DEF RecomputeFits, FilesMove
<1>6. (\A r \in recompute.rest : ReadOf(r.image, r.of))' /\ FoundFor(recompute.image, recompute.found)'
  BY <1>1, <1>3, <1>4 DEF ReadNext, FoundNext, ReadOf, FoundFor, SteadyNext, Steady, Kept
<1>7. QED
  BY <1>1, <1>5, <1>6 DEF RecomputeFits

\* The table of hashes and the cache: nothing new, or what was read of the image.
LEMMA RowsStay ==
  ASSUME FilesMove, RowsRead,
         \A i \in Images : \/ hash'[i].version = 0 \/ ReadNext(i, hash'[i].of)
                           \/ hash[i].version # 0 /\ hash'[i].of = hash[i].of,
         \A i \in Images : cache'[i] = cache[i] \/ cache'[i] = Nothing \/ ReadNext(i, cache'[i])
  PROVE  RowsRead'
<1>1. \A i \in Images : hash[i].version # 0 => ReadNext(i, hash[i].of)
  BY ReadStays DEF RowsRead
<1>2. \A i \in Images : cache[i] # Nothing => ReadNext(i, cache[i])
  BY ReadStays DEF RowsRead
<1>3. \A i \in Images : /\ hash'[i].version # 0 => ReadNext(i, hash'[i].of)
                        /\ cache'[i] # Nothing => ReadNext(i, cache'[i])
  BY <1>1, <1>2
<1>4. QED
  BY <1>3 DEF RowsRead, ReadOf, ReadNext, SteadyNext, Steady, Kept

LEMMA CoveredBothWays ==
  ASSUME NEW i, NEW j
  PROVE  Covered(i, j)' <=> Covered(j, i)'
<1>1. {i, j} = {j, i}
  OBVIOUS
<1>2. QED
  BY <1>1 DEF Covered

\* Two images that are to be a pair were so before, and what covered them still does.
LEMMA PromisesKeep ==
  ASSUME PairsPromised,
         \A i, j \in Images : Owed(i, j)' => Owed(i, j) \/ Covered(i, j)',
         \A i, j \in Images : Owed(i, j)' /\ {i, j} \in pairs => Covered(i, j)',
         \A i, j \in Images : Owed(i, j)' /\ Owed(i, j) /\ Promised(i, j) => Covered(i, j)',
         \A i, j \in Images : Owed(i, j)' /\ recompute.at = "begun" => Covered(i, j)',
         \A i, j \in Images : Owed(i, j)' /\ Excused => Covered(i, j)'
  PROVE  PairsPromised'
<1>1. \A i, j \in Images : (Owed(i, j) <=> Owed(j, i)) /\ (Owed(i, j)' <=> Owed(j, i)')
  <2>1. \A p, q : AlikeFiles(p, q) <=> AlikeFiles(q, p)
    <3>1. \A p, q : {p, q} = {q, p} /\ (p = q => {p} = {q})
      OBVIOUS
    <3>2. QED
      BY <3>1 DEF AlikeFiles
  <2>2. QED
    BY <2>1 DEF Owed
<1>2. SUFFICES ASSUME NEW i \in Images, NEW j \in Images, Owed(i, j)', Owed(i, j)
               PROVE  Covered(i, j)'
  BY DEF PairsPromised
<1>3. Covered(i, j)
  BY <1>2 DEF PairsPromised
<1>4. CASE Promised(j, i)
  BY <1>1, <1>2, <1>4, CoveredBothWays
<1>5. QED
  BY <1>2, <1>3, <1>4 DEF Covered

\* The same where goroutines and recompute stay as they are, or one of them only begins.
LEMMA PromisesStand ==
  ASSUME PairsPromised, hasher \in [Hashers -> HasherType], UNCHANGED <<recompute, lost>>,
         \A w \in Hashers : hasher'[w] = hasher[w] \/ hasher[w].at \in {"idle", "read"},
         \A i \in Images : hash'[i] = hash[i] \/ ~Hashed(i)',
         \A i, j \in Images : Hashed(i)' /\ Hashed(j)' /\ {i, j} \in pairs => {i, j} \in pairs'
  PROVE  PairsPromised'
<1>1. \A i, j \in Images : Owed(i, j)' =>
        Owed(i, j) /\ Hashed(i)' /\ Hashed(j)' /\ hash'[i] = hash[i] /\ hash'[j] = hash[j]
  BY DEF Owed, Hashed
<1>2. \A i, j \in Images : Owed(i, j)' /\ Promised(i, j) => Promised(i, j)'
  BY <1>1 DEF Promised
<1>3. \A i, j \in Images : Owed(i, j)' /\ {i, j} \in pairs => {i, j} \in pairs'
  BY <1>1
<1>4. recompute'.at = recompute.at /\ (Excused => Excused')
  BY DEF Excused
<1>5. QED
  BY <1>1, <1>2, <1>3, <1>4, PromisesKeep DEF Covered

\* The pairs that a step leaves or takes away, where no file of theirs is lost.
LEMMA PairsStand ==
  ASSUME FilesMove, PairsFit, pairs' \subseteq pairs,
         \A p \in pairs' : \A i \in p : Kept(i)',
         changed \subseteq changed'
  PROVE  PairsFit'
<1>1. \A p \in pairs' : p \subseteq Images /\ Cardinality(p) = 2 /\ \A i \in p : Kept(i) /\ Kept(i)'
  BY DEF PairsFit
<1>2. PairsTrue'
  <2>1. SUFFICES ASSUME NEW p \in pairs', p \cap changed' = {}, NEW i \in p, NEW j \in p, i # j
                 PROVE  AlikeFiles(file'[i], file'[j])
    BY DEF PairsTrue, AlikeFiles
  <2>2. p \in pairs /\ p \cap changed = {} /\ i \notin changed' /\ j \notin changed'
    BY <2>1
  <2>3. AlikeFiles(file[i], file[j])
    BY <2>1, <2>2 DEF PairsFit, PairsTrue
  <2>4. i \in Images /\ j \in Images /\ Steady(i)' /\ Steady(j)' /\ file[i] # Nothing /\ file[j] # Nothing
    BY <1>1, <2>1, <2>2, ImageNamesAssumption DEF Steady, Kept
  <2>5. file'[i] = file[i] /\ file'[j] = file[j]
    BY <2>4 DEF FilesMove
  <2>6. QED
    BY <2>3, <2>5
<1>3. QED
  BY <1>1, <1>2 DEF PairsFit

-----------------------------------------------------------------------------
(* The cache, and what is found in it and in the table.                      *)

LEMMA CacheAdded ==
  ASSUME cache \in [Images -> Pictures \cup {Nothing}],
         NEW i \in Images, NEW p \in Pictures, cache' \in CacheWith(i, p)
  PROVE  /\ cache' \in [Images -> Pictures \cup {Nothing}]
         /\ \A k \in Images : cache'[k] \in {cache[k], Nothing} \/ (k = i /\ cache'[k] = p)
<1> DEFINE full == [cache EXCEPT ![i] = p]
           used == {j \in Images : full[j] # Nothing}
<1>1. full \in [Images -> Pictures \cup {Nothing}]
  OBVIOUS
<1>2. full[i] = p /\ \A k \in Images \ {i} : full[k] = cache[k]
  OBVIOUS
<1>3. cache' = full \/ \E j \in used : cache' = [full EXCEPT ![j] = Nothing]
  BY DEF CacheWith
<1>4. used \subseteq Images
  OBVIOUS
<1> HIDE DEF full, used
<1>5. \A k \in Images : full[k] \in {cache[k], Nothing} \/ (k = i /\ full[k] = p)
  BY <1>2
<1>6. CASE cache' = full
  BY <1>1, <1>5, <1>6
<1>7. ASSUME NEW j \in used, cache' = [full EXCEPT ![j] = Nothing]
      PROVE  /\ cache' \in [Images -> Pictures \cup {Nothing}]
             /\ \A k \in Images : cache'[k] = full[k] \/ cache'[k] = Nothing
  BY <1>1, <1>4, <1>7
<1>8. QED
  BY <1>3, <1>5, <1>6, <1>7

LEMMA CacheWarmed ==
  ASSUME cache \in [Images -> Pictures \cup {Nothing}], hash \in [Images -> ImageRows],
         cache' \in Warmed
  PROVE  /\ cache' \in [Images -> Pictures \cup {Nothing}]
         /\ \A k \in Images : \/ cache'[k] \in {cache[k], Nothing}
                              \/ hash[k].version # 0 /\ cache'[k] = hash[k].of
<1> DEFINE all == [i \in Images |-> IF hash[i].version = 0 \/ ~Decoded(hash[i].of) THEN Nothing
                                    ELSE hash[i].of]
<1>1. \A k \in Images : /\ all[k] = Nothing \/ (hash[k].version # 0 /\ all[k] = hash[k].of)
                        /\ all[k] \in Pictures \cup {Nothing}
  <2>1. SUFFICES ASSUME NEW k \in Images
                 PROVE  /\ all[k] = Nothing \/ (hash[k].version # 0 /\ all[k] = hash[k].of)
                        /\ all[k] \in Pictures \cup {Nothing}
    OBVIOUS
  <2>2. hash[k].of \in Pictures \cup {Nothing}
    BY DEF ImageRows
  <2>3. all[k] = IF hash[k].version = 0 \/ ~Decoded(hash[k].of) THEN Nothing ELSE hash[k].of
    OBVIOUS
  <2> HIDE DEF all
  <2>4. CASE hash[k].version = 0 \/ ~Decoded(hash[k].of)
    BY <2>3, <2>4
  <2>5. CASE ~(hash[k].version = 0 \/ ~Decoded(hash[k].of))
    BY <2>2, <2>3, <2>5
  <2>6. QED
    BY <2>4, <2>5
<1>2. cache' = cache \/ \E keep \in SUBSET Images :
                          cache' = [i \in Images |-> IF i \in keep THEN all[i] ELSE Nothing]
  BY DEF Warmed
<1> HIDE DEF all
<1>3. QED
  BY <1>1, <1>2

LEMMA CandidatesFit ==
  ASSUME hash \in [Images -> ImageRows], RowsRead, NEW i \in Images, NEW p, ReadOf(i, p)
  PROVE  Candidates(i, p) \subseteq Images /\ FoundFor(i, Candidates(i, p))
<1>1. \A j \in Candidates(i, p) : j \in Images /\ j # i /\ ReadOf(j, hash[j].of)
                                  /\ AlikeFiles(p, hash[j].of)
  BY DEF Candidates, Hashed, RowsRead
<1>2. QED
  BY <1>1 DEF FoundFor, ReadOf

\* Whatever is alike shares a chunk, so that the prefilter loses nothing.
LEMMA CandidatesFind ==
  ASSUME NEW i \in Images, NEW j \in Images, Owed(i, j)
  PROVE  j \in Candidates(i, hash[i].of)
BY HashAssumption DEF Owed, Candidates, AlikeFiles, NearFiles

\* An insert that is not refused adds pairs that fit.
LEMMA InsertFits ==
  ASSUME PairsFit, file \in [Images -> Pictures \cup {Nothing, Deleted}],
         UNCHANGED <<file, changed>>,
         NEW i \in Images, NEW found \in SUBSET Images, FoundFor(i, found), file[i] # Nothing,
         pairs' = IF Refused(i, found) THEN pairs ELSE pairs \cup With(i, found)
  PROVE  PairsFit'
<1>1. CASE Refused(i, found) \/ found = {}
  <2>1. With(i, {}) = {}
    BY DEF With
  <2>2. pairs' = pairs
    BY <1>1, <2>1 DEF Refused
  <2>3. QED
    BY <2>2 DEF PairsFit, PairsTrue, Kept, AlikeFiles
<1>2. CASE ~Refused(i, found) /\ found # {}
  <2>1. \A j \in found : j # i /\ Kept(j) /\ Kept(i)
    BY <1>2 DEF Refused, FoundFor, Kept
  <2>2. ASSUME NEW p \in With(i, found)
        PROVE  /\ p \subseteq Images /\ Cardinality(p) = 2 /\ \A k \in p : Kept(k)
               /\ p \cap changed = {} =>
                    \A k, l \in p : k # l => AlikeFiles(file[k], file[l])
    <3>1. PICK j \in found : p = {i, j}
      BY DEF With
    <3>2. j # i /\ Kept(i) /\ Kept(j) /\ j \in Images
      BY <2>1
    <3>3. Cardinality({i, j}) = 2
      <4>1. IsFiniteSet({i}) /\ Cardinality({i}) = 1
        BY FS_Singleton
      <4>2. Cardinality({i} \cup {j}) = Cardinality({i}) + 1
        BY <3>2, <4>1, FS_AddElement
      <4>3. {i} \cup {j} = {i, j}
        OBVIOUS
      <4>4. QED
        BY <4>1, <4>2, <4>3
    <3>4. p \cap changed = {} => AlikeFiles(file[i], file[j]) /\ AlikeFiles(file[j], file[i])
      <4>1. p \cap changed = {} => AlikeFiles(file[i], file[j])
        BY <3>1, <3>2 DEF FoundFor, Steady
      <4>2. {file[i], file[j]} = {file[j], file[i]}
        OBVIOUS
      <4>3. QED
        BY <4>1, <4>2 DEF AlikeFiles
    <3>5. QED
      BY <3>1, <3>2, <3>3, <3>4
  <2>3. pairs' = pairs \cup With(i, found)
    BY <1>2
  <2>4. \A p \in pairs' : p \subseteq Images /\ Cardinality(p) = 2 /\ \A k \in p : Kept(k)
    BY <2>2, <2>3 DEF PairsFit
  <2>5. \A p \in pairs' : p \cap changed = {} =>
          \A k, l \in p : k # l => AlikeFiles(file[k], file[l])
    BY <2>2, <2>3 DEF PairsFit, PairsTrue
  <2>6. PairsTrue'
    BY <2>5 DEF PairsTrue, AlikeFiles
  <2>7. QED
    BY <2>4, <2>6 DEF PairsFit, Kept
<1>3. QED
  BY <1>1, <1>2

-----------------------------------------------------------------------------
(* The steps of the images.                                                  *)

\* The part of a step that goroutines and recompute have no part in.
LEMMA BystandersStay ==
  ASSUME PairsSound, FilesMove, UNCHANGED <<hasher, recompute, lost>>,
         \A w \in Hashers : hasher[w].at = "read" /\ hasher[w].image \in Images
                              /\ file'[hasher[w].image] \in Pictures
                              /\ hasher[w].image \notin changing' \cup overtaken'
                            => hasher[w].of = file'[hasher[w].image],
         \A i \in Images : hash'[i] = hash[i] \/ ~Hashed(i)',
         \A i, j \in Images : Hashed(i)' /\ Hashed(j)' /\ {i, j} \in pairs => {i, j} \in pairs'
  PROVE  /\ \A w \in Hashers : HasherFits(hasher[w])'
         /\ RecomputeFits' /\ recompute' \in RecomputeType /\ hasher' \in [Hashers -> HasherType]
         /\ PairsPromised'
<1>1. \A w \in Hashers : HasherNext(hasher'[w])
  BY HasherStays DEF PairsSound
<1>2. \A w \in Hashers : HasherFits(hasher[w])'
  BY <1>1, HashersNext
<1>3. RecomputeFits' /\ recompute' \in RecomputeType
  BY RecomputeStays DEF PairsSound
<1>4. PairsPromised'
  BY PromisesStand DEF PairsSound
<1>5. QED
  BY <1>2, <1>3, <1>4 DEF PairsSound

LEMMA QueuedFits ==
  ASSUME hashQueue \in Seq(Images), Len(hashQueue) <= QueueLength, NEW i \in Images
  PROVE  Queued(i) \in Seq(Images) /\ Len(Queued(i)) <= QueueLength
BY HashAssumption DEF Queued

LEMMA UploadKeeps ==
  ASSUME PairsSound, NEW i \in Images, Upload(i)
  PROVE  PairsSound'
<1>1. /\ file[i] = Nothing /\ file' \in [Images -> Pictures \cup {Nothing, Deleted}]
      /\ file'[i] \in Pictures /\ \A j \in Images \ {i} : file'[j] = file[j]
      /\ UNCHANGED <<hash, pairs, cache, hasher, changing, recompute, tally, lost, overtaken, changed>>
  BY DEF Upload, PairsSound
<1>2. FilesMove
  BY <1>1 DEF FilesMove, Steady, Kept
<1>3. \A j \in Images : Kept(j) => j # i /\ Kept(j)' /\ file'[j] = file[j]
  BY <1>1, ImageNamesAssumption DEF Kept
<1>4. \A j \in Images : hash[j].version # 0 => Kept(j)' /\ hash'[j].of # Nothing /\ file'[j] = file[j]
  BY <1>1, <1>3 DEF PairsSound
<1>5. HashesCurrent'
  BY <1>1, <1>4 DEF HashesCurrent, PairsSound
<1>6. RowsRead'
  <2>1. \A j \in Images : hash'[j] = hash[j] /\ cache'[j] = cache[j]
    BY <1>1
  <2>2. QED
    BY <1>2, <2>1, RowsStay DEF PairsSound
<1>7. PairsFit'
  BY <1>1, <1>2, <1>3, PairsStand DEF PairsSound, PairsFit
<1>8. \A w \in Hashers : hasher[w].at = "read" /\ hasher[w].image \in Images
        /\ file'[hasher[w].image] \in Pictures /\ hasher[w].image \notin changing' \cup overtaken'
      => hasher[w].of = file'[hasher[w].image]
  BY <1>1 DEF PairsSound, HasherFits, ReadOf, Kept
<1>9. /\ \A w \in Hashers : HasherFits(hasher[w])'
      /\ RecomputeFits' /\ recompute' \in RecomputeType /\ hasher' \in [Hashers -> HasherType]
      /\ PairsPromised'
  BY <1>1, <1>2, <1>8, BystandersStay
<1>10. hashQueue' \in Seq(Images) /\ Len(hashQueue') <= QueueLength
  BY QueuedFits DEF Upload, PairsSound
<1>11. QED
  BY <1>1, <1>4, <1>5, <1>6, <1>7, <1>9, <1>10 DEF PairsSound

LEMMA ChangeKeeps ==
  ASSUME PairsSound, NEW i \in Images, ChangeFile(i)
  PROVE  PairsSound'
<1>1. /\ Kept(i) /\ file' \in [Images -> Pictures \cup {Nothing, Deleted}]
      /\ file'[i] \in Pictures /\ \A j \in Images \ {i} : file'[j] = file[j]
      /\ changing' = changing \cup {i} /\ changed' = changed \cup {i}
      /\ UNCHANGED <<hash, pairs, cache, hashQueue, hasher, recompute, lost, overtaken>>
  BY DEF ChangeFile, PairsSound
<1>2. FilesMove
  BY <1>1, ImageNamesAssumption DEF FilesMove, Steady, Kept
<1>3. \A j \in Images : Kept(j) => Kept(j)'
  BY <1>1 DEF Kept
<1>4. \A j \in Images : hash[j].version # 0 => Kept(j)' /\ hash'[j].of # Nothing
  BY <1>1, <1>3 DEF PairsSound
<1>5. HashesCurrent'
  BY <1>1 DEF HashesCurrent, PairsSound
<1>6. RowsRead'
  <2>1. \A j \in Images : hash'[j] = hash[j] /\ cache'[j] = cache[j]
    BY <1>1
  <2>2. QED
    BY <1>2, <2>1, RowsStay DEF PairsSound
<1>7. PairsFit'
  BY <1>1, <1>2, <1>3, PairsStand DEF PairsSound, PairsFit
<1>8. \A w \in Hashers : hasher[w].at = "read" /\ hasher[w].image \in Images
        /\ file'[hasher[w].image] \in Pictures /\ hasher[w].image \notin changing' \cup overtaken'
      => hasher[w].of = file'[hasher[w].image]
  BY <1>1 DEF PairsSound, HasherFits, ReadOf, Kept
<1>9. /\ \A w \in Hashers : HasherFits(hasher[w])'
      /\ RecomputeFits' /\ recompute' \in RecomputeType /\ hasher' \in [Hashers -> HasherType]
      /\ PairsPromised'
  BY <1>1, <1>2, <1>8, BystandersStay
<1>10. changing' \subseteq Images /\ changed' \subseteq Images
  BY <1>1 DEF PairsSound
<1>11. QED
  BY <1>1, <1>4, <1>5, <1>6, <1>7, <1>9, <1>10 DEF PairsSound

LEMMA FileChangedKeeps ==
  ASSUME PairsSound, NEW i \in Images, OnResourceFileChanged(i)
  PROVE  PairsSound'
<1>1. /\ hash' \in [Images -> ImageRows] /\ hash'[i] = NoHash
      /\ \A j \in Images \ {i} : hash'[j] = hash[j]
      /\ UNCHANGED <<file, pairs, cache, hasher, recompute, lost, changed>>
      /\ changing' = changing \ {i}
      /\ overtaken' = IF Overtaken(i) THEN overtaken \cup {i} ELSE overtaken \ {i}
  BY DEF OnResourceFileChanged, PairsSound, NoHash, ImageRows
<1>2. FilesMove /\ \A j \in Images : Kept(j)' <=> Kept(j)
  BY <1>1, FilesStand
<1>3. \A j \in Images \ {i} : j \in changing' \cup overtaken' <=> j \in changing \cup overtaken
  BY <1>1
<1>4. \A j \in Images : hash'[j].version # 0 => Kept(j)' /\ hash'[j].of # Nothing
  BY <1>1, <1>2 DEF PairsSound, NoHash
<1>5. HashesCurrent'
  BY <1>1, <1>3 DEF HashesCurrent, PairsSound, NoHash
<1>6. RowsRead'
  <2>1. \A j \in Images : (hash'[j] = hash[j] \/ hash'[j].version = 0) /\ cache'[j] = cache[j]
    BY <1>1 DEF NoHash
  <2>2. QED
    BY <1>2, <2>1, RowsStay DEF PairsSound
<1>7. PairsFit'
  BY <1>1, <1>2, PairsStand DEF PairsSound, PairsFit
<1>8. \A w \in Hashers : hasher[w].at = "read" /\ hasher[w].image \in Images
        /\ file'[hasher[w].image] \in Pictures /\ hasher[w].image \notin changing' \cup overtaken'
      => hasher[w].of = file'[hasher[w].image]
  <2>1. SUFFICES ASSUME NEW w \in Hashers, hasher[w].at = "read", hasher[w].image \in Images,
                        file'[hasher[w].image] \in Pictures,
                        hasher[w].image \notin changing' \cup overtaken'
                 PROVE  hasher[w].of = file'[hasher[w].image]
    OBVIOUS
  <2>2. CASE hasher[w].image = i
    BY <1>1, <2>1, <2>2 DEF Overtaken
  <2>3. CASE hasher[w].image # i
    BY <1>1, <1>3, <2>1, <2>3 DEF PairsSound, HasherFits, Kept
  <2>4. QED
    BY <2>2, <2>3
<1>9. \A j \in Images : hash'[j] = hash[j] \/ ~Hashed(j)'
  BY <1>1 DEF Hashed, NoHash
<1>10. /\ \A w \in Hashers : HasherFits(hasher[w])'
       /\ RecomputeFits' /\ recompute' \in RecomputeType /\ hasher' \in [Hashers -> HasherType]
       /\ PairsPromised'
  BY <1>1, <1>2, <1>8, <1>9, BystandersStay
<1>11. hashQueue' \in Seq(Images) /\ Len(hashQueue') <= QueueLength
  BY QueuedFits DEF OnResourceFileChanged, PairsSound
<1>12. changing' \subseteq Images /\ overtaken' \subseteq Images
  BY <1>1 DEF PairsSound
<1>13. QED
  BY <1>1, <1>4, <1>5, <1>6, <1>7, <1>10, <1>11, <1>12 DEF PairsSound

LEMMA DeleteKeeps ==
  ASSUME PairsSound, NEW i \in Images, DeleteImage(i)
  PROVE  PairsSound'
<1>1. /\ Kept(i) /\ file' \in [Images -> Pictures \cup {Nothing, Deleted}]
      /\ file'[i] = Deleted /\ \A j \in Images \ {i} : file'[j] = file[j]
      /\ hash' \in [Images -> ImageRows] /\ hash'[i] = NoHash
      /\ \A j \in Images \ {i} : hash'[j] = hash[j]
      /\ pairs' = {p \in pairs : i \notin p}
      /\ UNCHANGED <<cache, hashQueue, hasher, changing, recompute, lost, overtaken, changed>>
  BY DEF DeleteImage, PairsSound, NoHash, ImageRows
<1>2. FilesMove
  BY <1>1, ImageNamesAssumption DEF FilesMove, Steady, Kept, Nothing, Deleted
<1>3. \A j \in Images \ {i} : Kept(j)' <=> Kept(j)
  BY <1>1 DEF Kept
<1>4. \A j \in Images : hash'[j].version # 0 => Kept(j)' /\ hash'[j].of # Nothing
  BY <1>1, <1>3 DEF PairsSound, NoHash
<1>5. HashesCurrent'
  BY <1>1 DEF HashesCurrent, PairsSound, NoHash
<1>6. RowsRead'
  <2>1. \A j \in Images : (hash'[j] = hash[j] \/ hash'[j].version = 0) /\ cache'[j] = cache[j]
    BY <1>1 DEF NoHash
  <2>2. QED
    BY <1>2, <2>1, RowsStay DEF PairsSound
<1>7. PairsFit'
  <2>1. \A p \in pairs' : \A j \in p : Kept(j)'
    BY <1>1, <1>3 DEF PairsSound, PairsFit
  <2>2. QED
    BY <1>1, <1>2, <2>1, PairsStand DEF PairsSound
<1>8. \A w \in Hashers : hasher[w].at = "read" /\ hasher[w].image \in Images
        /\ file'[hasher[w].image] \in Pictures /\ hasher[w].image \notin changing' \cup overtaken'
      => hasher[w].of = file'[hasher[w].image]
  BY <1>1, ImageNamesAssumption DEF PairsSound, HasherFits, Kept
<1>9. \A j \in Images : hash'[j] = hash[j] \/ ~Hashed(j)'
  BY <1>1 DEF Hashed, NoHash
<1>10. \A j, k \in Images : Hashed(j)' /\ Hashed(k)' /\ {j, k} \in pairs => {j, k} \in pairs'
  BY <1>1 DEF Hashed, NoHash
<1>11. /\ \A w \in Hashers : HasherFits(hasher[w])'
       /\ RecomputeFits' /\ recompute' \in RecomputeType /\ hasher' \in [Hashers -> HasherType]
       /\ PairsPromised'
  BY <1>1, <1>2, <1>8, <1>9, <1>10, BystandersStay
<1>12. QED
  BY <1>1, <1>4, <1>5, <1>6, <1>7, <1>11 DEF PairsSound

-----------------------------------------------------------------------------
(* The steps of a goroutine.                                                 *)

LEMMA HasherMoves ==
  ASSUME PairsSound, NEW w \in Hashers, NEW h \in HasherType,
         UNCHANGED <<file, changing, overtaken, changed>>,
         hasher' = [hasher EXCEPT ![w] = h], HasherFits(h)
  PROVE  (\A v \in Hashers : HasherFits(hasher[v])') /\ hasher' \in [Hashers -> HasherType]
<1>1. FilesMove
  BY FilesStand
<1>2. \A v \in Hashers : hasher'[v] \in HasherType /\ HasherFits(hasher'[v])
  BY DEF PairsSound
<1>3. SUFFICES ASSUME NEW v \in Hashers
               PROVE  HasherNext(hasher'[v])
  BY HashersNext DEF PairsSound
<1>4. PICK g \in HasherType : g = hasher'[v] /\ HasherFits(g)
  BY <1>2
<1>5. g.at = "read" /\ g.image \in Images /\ file'[g.image] \in Pictures
        /\ g.image \notin changing' \cup overtaken' => g.of = file'[g.image]
  BY <1>4 DEF HasherFits, Kept
<1>6. HasherNext(g)
  BY <1>1, <1>4, <1>5, HasherStays
<1>7. QED
  BY <1>4, <1>6

\* Where only goroutines and the cache move.
LEMMA TableStays ==
  ASSUME PairsSound, UNCHANGED <<file, hash, changing, overtaken, changed>>
  PROVE  /\ \A i \in Images : hash'[i].version # 0 => Kept(i)' /\ hash'[i].of # Nothing
         /\ HashesCurrent'
         /\ (\A i \in Images : cache'[i] \in {cache[i], Nothing} \/ ReadOf(i, cache'[i])) => RowsRead'
         /\ UNCHANGED pairs => PairsFit'
<1>1. FilesMove /\ \A i \in Images : Kept(i)' <=> Kept(i)
  BY FilesStand
<1>2. ASSUME \A i \in Images : cache'[i] \in {cache[i], Nothing} \/ ReadOf(i, cache'[i])
      PROVE  RowsRead'
  <2>1. \A i \in Images : \/ cache'[i] = cache[i] \/ cache'[i] = Nothing
                          \/ ReadNext(i, cache'[i])
    BY <1>1, <1>2, ReadStays
  <2>2. QED
    BY <1>1, <2>1, RowsStay DEF PairsSound
<1>3. UNCHANGED pairs => PairsFit'
  BY <1>1, PairsStand DEF PairsSound, PairsFit
<1>4. QED
  BY <1>1, <1>2, <1>3 DEF PairsSound, HashesCurrent

LEMMA TakeKeeps ==
  ASSUME PairsSound, NEW w \in Hashers, TakeQueued(w) \/ TakeBatch(w)
  PROVE  PairsSound'
<1>1. /\ UNCHANGED <<file, hash, pairs, changing, recompute, tally, lost, overtaken, changed>>
      /\ hasher[w].at = "idle"
      /\ hashQueue' = hashQueue \/ (hashQueue # <<>> /\ hashQueue' = Tail(hashQueue))
      /\ cache' = cache \/ cache' \in Warmed
      /\ \/ hasher' = hasher
         \/ \E i \in Images, old \in BOOLEAN : Kept(i) /\ Begin(w, i, old)
  <2>1. CASE TakeQueued(w)
    <3>1. hashQueue # <<>> => Head(hashQueue) \in Images
      BY DEF PairsSound
    <3>2. QED
      BY <2>1, <3>1 DEF TakeQueued
  <2>2. CASE TakeBatch(w)
    BY <2>2 DEF TakeBatch
  <2>3. QED
    BY <2>1, <2>2
<1>2. hashQueue' \in Seq(Images) /\ Len(hashQueue') <= QueueLength
  <2>1. hashQueue \in Seq(Images) /\ Len(hashQueue) <= QueueLength /\ QueueLength \in Nat
    BY HashAssumption DEF PairsSound
  <2>2. hashQueue # <<>> => /\ Tail(hashQueue) \in Seq(Images)
                            /\ Len(Tail(hashQueue)) = Len(hashQueue) - 1
    BY <2>1
  <2>3. QED
    BY <1>1, <2>1, <2>2
<1>3. (\A v \in Hashers : HasherFits(hasher[v])') /\ hasher' \in [Hashers -> HasherType]
  <2>1. CASE hasher' = hasher
    <3>1. hasher' = [hasher EXCEPT ![w] = hasher[w]]
      BY <2>1 DEF PairsSound
    <3>2. QED
      BY <1>1, <3>1, HasherMoves DEF PairsSound
  <2>2. ASSUME NEW i \in Images, NEW old \in BOOLEAN, Kept(i), Begin(w, i, old)
        PROVE  (\A v \in Hashers : HasherFits(hasher[v])') /\ hasher' \in [Hashers -> HasherType]
    <3> DEFINE h == [at |-> "read", image |-> i, of |-> file[i], old |-> old, found |-> {}]
    <3>1. h \in HasherType
      BY <2>2 DEF HasherType, Kept
    <3>2. HasherFits(h)
      BY <2>2, ImageNamesAssumption DEF HasherFits, Kept, ReadOf, FoundFor
    <3>3. hasher' = [hasher EXCEPT ![w] = h]
      BY <2>2 DEF Begin
    <3> HIDE DEF h
    <3>4. QED
      BY <1>1, <3>1, <3>2, <3>3, HasherMoves
  <2>3. QED
    BY <1>1, <2>1, <2>2
<1>4. /\ cache' \in [Images -> Pictures \cup {Nothing}]
      /\ \A i \in Images : cache'[i] \in {cache[i], Nothing} \/ ReadOf(i, cache'[i])
  <2>1. CASE cache' = cache
    BY <2>1 DEF PairsSound
  <2>2. CASE cache' \in Warmed
    BY <2>2, CacheWarmed DEF PairsSound, RowsRead
  <2>3. QED
    BY <1>1, <2>1, <2>2
<1>5. RecomputeFits' /\ recompute' \in RecomputeType
  BY <1>1, FilesStand, RecomputeStays DEF PairsSound
<1>6. \A v \in Hashers : hasher'[v] = hasher[v] \/ hasher[v].at \in {"idle", "read"}
  BY <1>1 DEF Begin, PairsSound
<1>7. PairsPromised'
  BY <1>1, <1>6, PromisesStand DEF PairsSound
<1>8. QED
  BY <1>1, <1>2, <1>3, <1>4, <1>5, <1>7, TableStays DEF PairsSound

LEMMA MatchRowsKeeps ==
  ASSUME PairsSound, NEW w \in Hashers, MatchRows(w)
  PROVE  PairsSound'
<1> DEFINE found == Candidates(hasher[w].image, hasher[w].of)
           h == [hasher[w] EXCEPT !.at = "found", !.found = found]
<1>1. /\ UNCHANGED <<file, hash, pairs, cache, hashQueue, changing, recompute, tally, lost,
                     overtaken, changed>>
      /\ hasher[w].at = "match" /\ hasher[w] \in HasherType /\ HasherFits(hasher[w])
  BY DEF MatchRows, PairsSound
<1>2. hasher' = [hasher EXCEPT ![w] = h]
  BY <1>1 DEF MatchRows, PairsSound, HasherType
<1>3. hasher[w].image \in Images /\ hasher[w].of \in Pictures
      /\ ReadOf(hasher[w].image, hasher[w].of)
  BY <1>1 DEF HasherFits
<1>4. found \subseteq Images /\ FoundFor(hasher[w].image, found)
  BY <1>3, CandidatesFit DEF PairsSound
<1> HIDE DEF found
<1>5. h \in HasherType /\ h.at = "found" /\ h.image = hasher[w].image
      /\ h.of = hasher[w].of /\ h.found = found
  BY <1>1, <1>4 DEF HasherType
<1> HIDE DEF h
<1>6. HasherFits(h)
  BY <1>3, <1>4, <1>5 DEF HasherFits
<1>7. (\A v \in Hashers : HasherFits(hasher[v])') /\ hasher' \in [Hashers -> HasherType]
  BY <1>1, <1>2, <1>5, <1>6, HasherMoves
<1>8. hasher'[w] = h /\ \A v \in Hashers \ {w} : hasher'[v] = hasher[v]
  BY <1>2 DEF PairsSound
<1>9. RecomputeFits' /\ recompute' \in RecomputeType
  BY <1>1, FilesStand, RecomputeStays DEF PairsSound
<1>10. \A i, j \in Images : (Owed(i, j)' <=> Owed(i, j)) /\ (Excused' <=> Excused)
  BY <1>1 DEF Owed, Hashed, AlikeFiles, Excused
<1>11. \A i, j \in Images : Owed(i, j) /\ Promised(i, j) => Promised(i, j)'
  <2>1. SUFFICES ASSUME NEW i \in Images, NEW j \in Images, Owed(i, j), Promised(i, j)
                 PROVE  Promised(i, j)'
    OBVIOUS
  <2>2. CASE hasher[w].image = i /\ hasher[w].of = hash[i].of
    <3>1. j \in found
      BY <2>1, <2>2, CandidatesFind DEF found
    <3>2. QED
      BY <1>5, <1>8, <2>2, <3>1 DEF Promised
  <2>3. CASE ~(hasher[w].image = i /\ hasher[w].of = hash[i].of)
    BY <1>1, <1>8, <2>1, <2>3 DEF Promised
  <2>4. QED
    BY <2>2, <2>3
<1>12. PairsPromised'
  BY <1>1, <1>10, <1>11, PromisesKeep DEF PairsSound, Covered
<1>13. QED
  BY <1>1, <1>7, <1>9, <1>12, TableStays DEF PairsSound

LEMMA SaveHashKeeps ==
  ASSUME PairsSound, NEW w \in Hashers, SaveHash(w)
  PROVE  PairsSound'
<1>1. PICK h \in HasherType : h = hasher[w] /\ HasherFits(h)
  BY DEF PairsSound
<1>2. PICK i \in Images : i = h.image
  BY <1>1 DEF SaveHash, HasherFits
<1>3. /\ UNCHANGED <<file, pairs, cache, hashQueue, changing, recompute, tally, lost, overtaken,
                     changed>>
      /\ h.at = "read" /\ h.of \in Pictures /\ ReadOf(i, h.of)
      /\ Kept(i) /\ i \notin changing \cup overtaken => h.of = file[i]
  BY <1>1, <1>2 DEF SaveHash, HasherFits
<1>4. \/ hash' = hash
      \/ /\ hash' = [hash EXCEPT ![i] = [version |-> 2, of |-> h.of]]
         /\ file[i] # Deleted
  BY <1>1, <1>2 DEF SaveHash, Saved
<1>5. PICK g \in HasherType :
        /\ hasher' = [hasher EXCEPT ![w] = g] /\ HasherFits(g)
        /\ g = NoImage \/ (g.at \in {"saved", "match"} /\ g.image = i /\ g.of = h.of)
        /\ h.of \notin Flat \cup Undecodable /\ file[i] # Deleted => g # NoImage
  <2> DEFINE g == IF ~Decoded(h.of) \/ (~h.old /\ file[i] = Deleted) THEN NoImage
                  ELSE IF h.old THEN IF h.of \in Flat THEN NoImage ELSE [h EXCEPT !.at = "match"]
                  ELSE [h EXCEPT !.at = "saved"]
  <2>1. hasher' = [hasher EXCEPT ![w] = g]
    BY <1>1, <1>2 DEF SaveHash, PairsSound
  <2>2. NoImage \in HasherType /\ HasherFits(NoImage)
    BY DEF NoImage, HasherType, HasherFits
  <2>3. ASSUME NEW at \in {"saved", "match"}
        PROVE  /\ [h EXCEPT !.at = at] \in HasherType /\ HasherFits([h EXCEPT !.at = at])
               /\ [h EXCEPT !.at = at].at = at /\ [h EXCEPT !.at = at].image = i
               /\ [h EXCEPT !.at = at].of = h.of /\ [h EXCEPT !.at = at] # NoImage
    BY <1>1, <1>2, <1>3 DEF HasherType, HasherFits, NoImage
  <2>4. \/ g = NoImage /\ (Decoded(h.of) => h.of \in Flat \/ file[i] = Deleted)
        \/ \E at \in {"saved", "match"} : g = [h EXCEPT !.at = at]
    OBVIOUS
  <2> HIDE DEF g
  <2>5. CASE g = NoImage /\ (Decoded(h.of) => h.of \in Flat \/ file[i] = Deleted)
    BY <2>1, <2>2, <2>5 DEF Decoded
  <2>6. CASE \E at \in {"saved", "match"} : g = [h EXCEPT !.at = at]
    BY <2>1, <2>3, <2>6
  <2>7. QED
    BY <2>4, <2>5, <2>6
<1>6. (\A v \in Hashers : HasherFits(hasher[v])') /\ hasher' \in [Hashers -> HasherType]
  BY <1>3, <1>5, HasherMoves
<1>7. hasher'[w] = g /\ \A v \in Hashers \ {w} : hasher'[v] = hasher[v]
  BY <1>5 DEF PairsSound
<1>8. FilesMove /\ \A j \in Images : Kept(j)' <=> Kept(j)
  BY <1>3, FilesStand
<1>9. RecomputeFits' /\ recompute' \in RecomputeType
  BY <1>3, <1>8, RecomputeStays DEF PairsSound
<1>10. PairsFit'
  BY <1>3, <1>8, PairsStand DEF PairsSound, PairsFit
<1>11. CASE hash' = hash
  <2>1. \A a, b \in Images : Owed(a, b)' => Owed(a, b)
    BY <1>11 DEF Owed, Hashed, AlikeFiles
  <2>2. \A v \in Hashers : hasher'[v] = hasher[v] \/ hasher[v].at \in {"idle", "read"}
    BY <1>1, <1>3, <1>7
  <2>3. PairsPromised'
    BY <1>3, <1>11, <2>2, PromisesStand DEF PairsSound
  <2>4. QED
    BY <1>3, <1>6, <1>9, <1>11, <2>3, TableStays DEF PairsSound
<1>12. CASE /\ hash' = [hash EXCEPT ![i] = [version |-> 2, of |-> h.of]]
            /\ file[i] # Deleted
  <2>1. Kept(i)
    BY <1>3, <1>12 DEF ReadOf, Kept, PairsSound
  <2>2. /\ hash' \in [Images -> ImageRows] /\ hash'[i].version = 2 /\ hash'[i].of = h.of
        /\ \A j \in Images \ {i} : hash'[j] = hash[j]
    BY <1>3, <1>12 DEF PairsSound, ImageRows
  <2>3. \A j \in Images : hash'[j].version # 0 => Kept(j)' /\ hash'[j].of # Nothing
    BY <1>3, <1>8, <2>1, <2>2, ImageNamesAssumption DEF PairsSound
  <2>4. HashesCurrent'
    BY <1>3, <2>1, <2>2 DEF HashesCurrent, PairsSound
  <2>5. RowsRead'
    <3>1. \A j \in Images : \/ hash'[j].version = 0 \/ ReadNext(j, hash'[j].of)
                            \/ (hash[j].version # 0 /\ hash'[j].of = hash[j].of)
      BY <1>3, <1>8, <2>2, ReadStays
    <3>2. \A j \in Images : cache'[j] = cache[j]
      BY <1>3
    <3>3. QED
      BY <1>8, <3>1, <3>2, RowsStay DEF PairsSound
  <2>6. Hashed(i)' => /\ hasher'[w].at \in {"saved", "match"} /\ hasher'[w].image = i
                      /\ hasher'[w].of = hash'[i].of
    BY <1>5, <1>7, <1>12, <2>2 DEF Hashed
  <2>7. \A j \in Images : Hashed(i)' => Promised(i, j)'
    BY <2>6 DEF Promised
  <2>8. \A a, b \in Images : Owed(a, b)' /\ (a = i \/ b = i) => Covered(a, b)'
    BY <2>7 DEF Owed, Covered
  <2>9. \A a, b \in Images : Owed(a, b)' /\ a # i /\ b # i => Owed(a, b)
    BY <2>2 DEF Owed, Hashed, AlikeFiles
  <2>10. \A a, b \in Images : a # i /\ Promised(a, b) => Promised(a, b)'
    BY <1>1, <1>2, <1>3, <1>7, <2>2 DEF Promised
  <2>11. Excused' <=> Excused
    BY <1>3 DEF Excused
  <2>12. PairsPromised'
    <3>1. \A a, b \in Images : Owed(a, b)' => Owed(a, b) \/ Covered(a, b)'
      BY <2>8, <2>9
    <3>2. \A a, b \in Images : Owed(a, b)' /\ Promised(a, b) => Covered(a, b)'
      BY <2>8, <2>10 DEF Covered
    <3>3. QED
      BY <1>3, <2>11, <3>1, <3>2, PromisesKeep DEF PairsSound, Covered
  <2>13. QED
    BY <1>3, <1>6, <1>9, <1>10, <2>2, <2>3, <2>4, <2>5, <2>12 DEF PairsSound
<1>13. QED
  BY <1>4, <1>11, <1>12

LEMMA MatchCacheKeeps ==
  ASSUME PairsSound, NEW w \in Hashers, MatchCache(w)
  PROVE  PairsSound'
<1>1. PICK h \in HasherType : h = hasher[w] /\ HasherFits(h)
  BY DEF PairsSound
<1>2. PICK i \in Images : i = h.image
  BY <1>1 DEF MatchCache, HasherFits
<1> DEFINE like == {j \in Images \ {i} : cache[j] # Nothing /\ AlikeFiles(h.of, cache[j])}
<1>3. /\ UNCHANGED <<file, hash, hashQueue, changing, recompute, tally, lost, overtaken, changed>>
      /\ h.at = "saved" /\ h.of \in Pictures /\ ReadOf(i, h.of) /\ FoundFor(i, h.found)
      /\ cache' \in CacheWith(i, h.of)
  BY <1>1, <1>2 DEF MatchCache, HasherFits
<1>4. pairs' = IF \E j \in like \cup {i} : file[j] = Deleted THEN pairs ELSE pairs \cup With(i, like)
  BY <1>1, <1>2 DEF MatchCache
<1>5. PICK g \in HasherType :
        /\ hasher' = [hasher EXCEPT ![w] = g] /\ HasherFits(g)
        /\ \/ g = NoImage /\ h.of \in Flat
           \/ g.at = "match" /\ g.image = i /\ g.of = h.of
  <2> DEFINE g == IF h.of \in Flat THEN NoImage ELSE [h EXCEPT !.at = "match"]
  <2>1. hasher' = [hasher EXCEPT ![w] = g]
    BY <1>1 DEF MatchCache, PairsSound
  <2>2. NoImage \in HasherType /\ HasherFits(NoImage)
    BY DEF NoImage, HasherType, HasherFits
  <2>3. /\ [h EXCEPT !.at = "match"] \in HasherType /\ HasherFits([h EXCEPT !.at = "match"])
        /\ [h EXCEPT !.at = "match"].at = "match" /\ [h EXCEPT !.at = "match"].image = i
        /\ [h EXCEPT !.at = "match"].of = h.of
    BY <1>2, <1>3 DEF HasherType, HasherFits
  <2>4. (g = NoImage /\ h.of \in Flat) \/ g = [h EXCEPT !.at = "match"]
    OBVIOUS
  <2> HIDE DEF g
  <2>5. QED
    BY <2>1, <2>2, <2>3, <2>4
<1>6. (\A v \in Hashers : HasherFits(hasher[v])') /\ hasher' \in [Hashers -> HasherType]
  BY <1>3, <1>5, HasherMoves
<1>7. hasher'[w] = g /\ \A v \in Hashers \ {w} : hasher'[v] = hasher[v]
  BY <1>5 DEF PairsSound
<1>8. FilesMove
  BY <1>3, FilesStand
<1>9. RecomputeFits' /\ recompute' \in RecomputeType
  BY <1>3, <1>8, RecomputeStays DEF PairsSound
<1>10. /\ cache' \in [Images -> Pictures \cup {Nothing}]
       /\ \A j \in Images : cache'[j] \in {cache[j], Nothing} \/ ReadOf(j, cache'[j])
  BY <1>3, CacheAdded DEF PairsSound
<1>11. PairsFit'
  <2>1. like \subseteq Images /\ FoundFor(i, like)
    BY <1>3 DEF FoundFor, ReadOf, RowsRead, PairsSound
  <2> HIDE DEF like
  <2>2. like = {} => With(i, like) = {}
    BY DEF With
  <2>3. pairs' = IF Refused(i, like) THEN pairs ELSE pairs \cup With(i, like)
    BY <1>4, <2>2 DEF Refused
  <2>4. QED
    BY <1>3, <2>1, <2>3, InsertFits DEF PairsSound, ReadOf
<1>12. pairs \subseteq pairs'
  BY <1>4
<1>13. \A a, b \in Images : Owed(a, b)' => Owed(a, b)
  BY <1>3 DEF Owed, Hashed, AlikeFiles
<1>14. \A a, b \in Images : Owed(a, b) /\ Promised(a, b) => Promised(a, b)'
  <2>1. SUFFICES ASSUME NEW a \in Images, NEW b \in Images, Owed(a, b), Promised(a, b)
                 PROVE  Promised(a, b)'
    OBVIOUS
  <2>2. CASE a = i /\ h.of = hash[i].of
    <3>1. h.of \notin Flat
      BY <2>1, <2>2 DEF Owed, Hashed
    <3>2. QED
      BY <1>3, <1>5, <1>7, <2>2, <3>1 DEF Promised
  <2>3. CASE ~(a = i /\ h.of = hash[i].of)
    BY <1>1, <1>2, <1>3, <1>7, <2>1, <2>3 DEF Promised
  <2>4. QED
    BY <2>2, <2>3
<1>15. Excused' <=> Excused
  BY <1>3 DEF Excused
<1>16. PairsPromised'
  BY <1>3, <1>12, <1>13, <1>14, <1>15, PromisesKeep DEF PairsSound, Covered
<1>17. QED
  BY <1>3, <1>6, <1>9, <1>10, <1>11, <1>16, TableStays DEF PairsSound

LEMMA SavePairsKeeps ==
  ASSUME PairsSound, NEW w \in Hashers, SavePairs(w)
  PROVE  PairsSound'
<1>1. PICK h \in HasherType : h = hasher[w] /\ HasherFits(h)
  BY DEF PairsSound
<1>2. PICK i \in Images : i = h.image
  BY <1>1 DEF SavePairs, HasherFits
<1>3. /\ UNCHANGED <<file, hash, cache, hashQueue, changing, tally, overtaken, changed>>
      /\ h.at = "found" /\ file[i] # Nothing /\ FoundFor(i, h.found) /\ h.found \subseteq Images
      /\ hasher' = [hasher EXCEPT ![w] = NoImage]
      /\ recompute' = [recompute EXCEPT !.whole = @ /\ ~Refused(i, h.found)]
      /\ pairs' = IF Refused(i, h.found) THEN pairs ELSE pairs \cup With(i, h.found)
      /\ lost' = (lost \/ Refused(i, h.found))
  BY <1>1, <1>2 DEF SavePairs, Insert, HasherFits, HasherType, ReadOf
<1>4. (\A v \in Hashers : HasherFits(hasher[v])') /\ hasher' \in [Hashers -> HasherType]
  <2>1. NoImage \in HasherType /\ HasherFits(NoImage)
    BY DEF NoImage, HasherType, HasherFits
  <2>2. QED
    BY <1>3, <2>1, HasherMoves
<1>5. \A v \in Hashers \ {w} : hasher'[v] = hasher[v]
  BY <1>3 DEF PairsSound
<1>6. FilesMove
  BY <1>3, FilesStand
<1>7. RecomputeFits' /\ recompute' \in RecomputeType
  <2>1. PICK whole \in BOOLEAN : whole = (recompute.whole /\ ~Refused(i, h.found))
    BY Zenon
  <2>2. recompute' = [recompute EXCEPT !.whole = whole]
    BY <1>3, <2>1
  <2>3. QED
    BY <1>3, <1>6, <2>2, RecomputeStays DEF PairsSound
<1>8. /\ recompute'.at = recompute.at /\ recompute'.rest = recompute.rest
      /\ recompute'.image = recompute.image /\ recompute'.found = recompute.found
      /\ recompute'.whole <=> (recompute.whole /\ ~Refused(i, h.found))
  BY <1>3 DEF PairsSound, RecomputeType
<1>9. PairsFit'
  BY <1>3, InsertFits DEF PairsSound
<1>10. pairs \subseteq pairs'
  BY <1>3
<1>11. \A a, b \in Images : Owed(a, b)' => Owed(a, b)
  BY <1>3 DEF Owed, Hashed, AlikeFiles
<1>12. \A a, b \in Images : Promised(a, b) => Covered(a, b)'
  <2>1. SUFFICES ASSUME NEW a \in Images, NEW b \in Images, Promised(a, b)
                 PROVE  Covered(a, b)'
    OBVIOUS
  <2>2. CASE a = i /\ b \in h.found /\ Refused(i, h.found)
    BY <1>3, <1>8, <2>2 DEF Covered, Excused
  <2>3. CASE a = i /\ b \in h.found /\ ~Refused(i, h.found)
    BY <1>3, <2>3 DEF Covered, With
  <2>4. CASE ~(a = i /\ b \in h.found)
    BY <1>1, <1>2, <1>3, <1>5, <1>8, <2>1, <2>4 DEF Promised, Covered
  <2>5. QED
    BY <2>2, <2>3, <2>4
<1>13. Excused => Excused'
  BY <1>3, <1>8 DEF Excused
<1>14. PairsPromised'
  BY <1>8, <1>10, <1>11, <1>12, <1>13, PromisesKeep DEF PairsSound, Covered
<1>15. cache' = cache /\ RowsRead'
  BY <1>3, TableStays
<1>16. lost' \in BOOLEAN
  BY <1>3 DEF PairsSound, Refused
<1>17. QED
  BY <1>3, <1>4, <1>7, <1>9, <1>14, <1>15, <1>16, TableStays DEF PairsSound

-----------------------------------------------------------------------------
(* The administrator, and the end of the process.                            *)

LEMMA RetryKeeps ==
  ASSUME PairsSound, RetryFailedHashes
  PROVE  PairsSound'
<1>1. /\ UNCHANGED <<file, pairs, cache, hashQueue, hasher, changing, recompute, tally, lost,
                     overtaken, changed>>
      /\ hash' = [i \in Images |-> IF hash[i].version = 2 /\ ~Decoded(hash[i].of)
                                   THEN [hash[i] EXCEPT !.version = 1] ELSE hash[i]]
  BY DEF RetryFailedHashes
<1>2. ASSUME NEW i \in Images
      PROVE  /\ hash'[i] \in ImageRows /\ hash'[i].of = hash[i].of
             /\ hash'[i].version # 0 => hash[i].version # 0
             /\ hash'[i].version = 2 => hash'[i] = hash[i]
             /\ hash'[i] = hash[i] \/ ~Hashed(i)'
  <2>1. hash[i] \in ImageRows
    BY DEF PairsSound
  <2>2. CASE hash[i].version = 2 /\ ~Decoded(hash[i].of)
    BY <1>1, <2>1, <2>2 DEF ImageRows, Hashed
  <2>3. CASE ~(hash[i].version = 2 /\ ~Decoded(hash[i].of))
    BY <1>1, <2>1, <2>3 DEF ImageRows, Hashed
  <2>4. QED
    BY <2>2, <2>3
<1>3. hash' \in [Images -> ImageRows]
  <2>1. hash' = [i \in Images |-> hash'[i]]
    BY <1>1
  <2>2. QED
    BY <1>2, <2>1
<1>4. FilesMove /\ \A i \in Images : Kept(i)' <=> Kept(i)
  BY <1>1, FilesStand
<1>5. \A i \in Images : hash'[i].version # 0 => Kept(i)' /\ hash'[i].of # Nothing
  BY <1>2, <1>4 DEF PairsSound
<1>6. HashesCurrent'
  BY <1>1, <1>2 DEF PairsSound, HashesCurrent
<1>7. RowsRead'
  <2>1. \A i \in Images : /\ \/ hash'[i].version = 0
                             \/ (hash[i].version # 0 /\ hash'[i].of = hash[i].of)
                          /\ cache'[i] = cache[i]
    BY <1>1, <1>2
  <2>2. QED
    BY <1>4, <2>1, RowsStay DEF PairsSound
<1>8. PairsFit'
  BY <1>1, <1>4, PairsStand DEF PairsSound, PairsFit
<1>9. \A w \in Hashers : hasher[w].at = "read" /\ hasher[w].image \in Images
        /\ file'[hasher[w].image] \in Pictures /\ hasher[w].image \notin changing' \cup overtaken'
      => hasher[w].of = file'[hasher[w].image]
  BY <1>1 DEF PairsSound, HasherFits, Kept
<1>10. /\ \A w \in Hashers : HasherFits(hasher[w])'
       /\ RecomputeFits' /\ recompute' \in RecomputeType /\ hasher' \in [Hashers -> HasherType]
       /\ PairsPromised'
  BY <1>1, <1>2, <1>4, <1>9, BystandersStay
<1>11. QED
  BY <1>1, <1>3, <1>5, <1>6, <1>7, <1>8, <1>10 DEF PairsSound

\* Images that are to be a pair, where no row of a hash is written.
LEMMA OwedStays ==
  ASSUME UNCHANGED hash
  PROVE  \A i, j \in Images : Owed(i, j)' => Owed(i, j)
BY DEF Owed, Hashed, AlikeFiles

LEMMA RecomputeDeletes ==
  ASSUME PairsSound, UNCHANGED <<file, hash, hasher, changed>>, UNCHANGED <<tally, lost>>,
         recompute' = [NoRecompute EXCEPT !.at = "begun"],
         pairs' = {p \in pairs : \E i \in p : hash[i].version # 2}
  PROVE  /\ RecomputeFits' /\ recompute' \in RecomputeType /\ PairsFit' /\ PairsPromised'
         /\ lost' \in BOOLEAN
<1>1. recompute' \in RecomputeType /\ recompute'.at = "begun"
      /\ recompute'.rest = {} /\ recompute'.found = {}
  BY DEF NoRecompute, RecomputeType
<1>2. RecomputeFits'
  BY <1>1 DEF RecomputeFits, FoundFor
<1>3. FilesMove /\ \A i \in Images : Kept(i)' <=> Kept(i)
  BY FilesStand
<1>4. PairsFit'
  BY <1>3, PairsStand DEF PairsSound, PairsFit
<1>5. PairsPromised'
  BY <1>1 DEF PairsPromised, Covered
<1>6. QED
  BY <1>1, <1>2, <1>4, <1>5 DEF PairsSound

LEMMA RecomputeReads ==
  ASSUME PairsSound, UNCHANGED <<file, hash, hasher, changed>>, UNCHANGED <<pairs, tally, lost>>,
         recompute.at = "begun", recompute' = [recompute EXCEPT !.at = "rows", !.rest = Rows]
  PROVE  /\ RecomputeFits' /\ recompute' \in RecomputeType /\ PairsFit' /\ PairsPromised'
         /\ lost' \in BOOLEAN
<1>1. \A r \in Rows : r \in [image: Images, of: Pictures] /\ ReadOf(r.image, r.of)
  BY DEF Rows, Hashed, PairsSound, RowsRead, ImageRows
<1>2. recompute' \in RecomputeType /\ recompute'.at = "rows"
      /\ recompute'.rest = Rows /\ recompute'.found = {}
  BY <1>1 DEF RecomputeType, PairsSound, RecomputeFits
<1>3. FilesMove /\ \A i \in Images : Kept(i)' <=> Kept(i)
  BY FilesStand
<1>4. \A r \in Rows : ReadOf(r.image, r.of)'
  BY <1>1 DEF ReadOf, Steady, Kept
<1>5. RecomputeFits'
  BY <1>2, <1>4 DEF RecomputeFits, FoundFor
<1>6. PairsFit'
  BY <1>3, PairsStand DEF PairsSound, PairsFit
<1>7. PairsPromised'
  <2>1. SUFFICES ASSUME NEW i \in Images, NEW j \in Images, Owed(i, j)'
                 PROVE  Covered(i, j)'
    BY DEF PairsPromised
  <2>2. [image |-> i, of |-> hash'[i].of] \in Rows
    BY <2>1 DEF Owed, Hashed, Rows
  <2>3. QED
    BY <1>2, <2>2 DEF Covered, Promised
<1>8. QED
  BY <1>2, <1>5, <1>6, <1>7 DEF PairsSound

LEMMA RecomputeMatches ==
  ASSUME PairsSound, UNCHANGED <<file, hash, hasher, changed>>, UNCHANGED <<pairs, tally, lost>>,
         recompute.at = "rows", NEW r \in recompute.rest,
         recompute' = [recompute EXCEPT !.at = "found", !.rest = @ \ {r}, !.image = r.image,
                                        !.found = Candidates(r.image, r.of)]
  PROVE  /\ RecomputeFits' /\ recompute' \in RecomputeType /\ PairsFit' /\ PairsPromised'
         /\ lost' \in BOOLEAN
<1> DEFINE found == Candidates(r.image, r.of)
<1>1. r.image \in Images /\ r.of \in Pictures /\ ReadOf(r.image, r.of)
      /\ r = [image |-> r.image, of |-> r.of]
  BY DEF PairsSound, RecomputeType, RecomputeFits
<1>2. found \subseteq Images /\ FoundFor(r.image, found)
  BY <1>1, CandidatesFit DEF PairsSound
<1> HIDE DEF found
<1>3. /\ recompute' \in RecomputeType /\ recompute'.at = "found" /\ recompute'.image = r.image
      /\ recompute'.rest = recompute.rest \ {r} /\ recompute'.found = found
      /\ recompute'.whole = recompute.whole
  BY <1>1, <1>2 DEF found, RecomputeType, PairsSound
<1>4. FilesMove /\ \A i \in Images : Kept(i)' <=> Kept(i)
  BY FilesStand
<1>5. RecomputeFits'
  <2>1. \A s \in recompute.rest : ReadOf(s.image, s.of)'
    BY DEF PairsSound, RecomputeFits, ReadOf, Steady, Kept
  <2>2. file'[r.image] # Nothing
    BY <1>1 DEF ReadOf
  <2>3. FoundFor(recompute.image, recompute.found)'
    <3>1. FoundNext(r.image, found)
      BY <1>1, <1>2, <1>4, FoundStays DEF ReadOf
    <3>2. QED
      BY <1>3, <3>1 DEF FoundNext, SteadyNext, FoundFor, Steady, Kept
  <2>5. QED
    BY <1>1, <1>3, <2>1, <2>2, <2>3 DEF RecomputeFits
<1>6. PairsFit'
  BY <1>4, PairsStand DEF PairsSound, PairsFit
<1>7. \A i, j \in Images : Owed(i, j) /\ Promised(i, j) => Promised(i, j)'
  <2>1. SUFFICES ASSUME NEW i \in Images, NEW j \in Images, Owed(i, j), Promised(i, j)
                 PROVE  Promised(i, j)'
    OBVIOUS
  <2>2. CASE r = [image |-> i, of |-> hash[i].of]
    <3>1. j \in found
      BY <2>1, <2>2, CandidatesFind DEF found
    <3>2. QED
      BY <1>3, <2>2, <3>1 DEF Promised
  <2>3. CASE r # [image |-> i, of |-> hash[i].of]
    <3>1. recompute.found = {}
      BY DEF PairsSound, RecomputeFits
    <3>2. QED
      BY <1>3, <2>1, <2>3, <3>1 DEF Promised
  <2>4. QED
    BY <2>2, <2>3
<1>8. PairsPromised'
  <2>1. Excused => Excused'
    BY <1>3 DEF Excused
  <2>2. QED
    BY <1>7, <2>1, OwedStays, PromisesKeep DEF PairsSound, Covered
<1>9. QED
  BY <1>3, <1>5, <1>6, <1>8 DEF PairsSound

LEMMA RecomputeInserts ==
  ASSUME PairsSound, UNCHANGED <<file, hash, hasher, changed>>, UNCHANGED tally,
         recompute.at = "found", Insert(recompute.image, recompute.found),
         recompute' = [recompute EXCEPT !.at = "rows", !.image = Nothing, !.found = {},
                            !.whole = @ /\ ~Refused(recompute.image, recompute.found)]
  PROVE  /\ RecomputeFits' /\ recompute' \in RecomputeType /\ PairsFit' /\ PairsPromised'
         /\ lost' \in BOOLEAN
<1> DEFINE refused == Refused(recompute.image, recompute.found)
<1>1. recompute.image \in Images /\ file[recompute.image] # Nothing
      /\ FoundFor(recompute.image, recompute.found) /\ recompute.found \subseteq Images
  BY DEF PairsSound, RecomputeFits, RecomputeType
<1>2. /\ pairs' = IF refused THEN pairs ELSE pairs \cup With(recompute.image, recompute.found)
      /\ lost' = (lost \/ refused) /\ refused \in BOOLEAN
  BY DEF Insert, Refused
<1> HIDE DEF refused
<1>3. PICK whole \in BOOLEAN : whole = (recompute.whole /\ ~refused)
  BY Zenon
<1>4. recompute' = [recompute EXCEPT !.at = "rows", !.image = Nothing, !.found = {}, !.whole = whole]
  BY <1>3 DEF refused
<1>5. /\ recompute' \in RecomputeType /\ recompute'.at = "rows"
      /\ recompute'.rest = recompute.rest /\ recompute'.found = {}
      /\ recompute'.whole <=> (recompute.whole /\ ~refused)
  BY <1>3, <1>4 DEF RecomputeType, PairsSound
<1>6. RecomputeFits'
  <2>1. \A s \in recompute.rest : ReadOf(s.image, s.of)'
    BY DEF PairsSound, RecomputeFits, ReadOf, Steady, Kept
  <2>2. QED
    BY <1>5, <2>1 DEF RecomputeFits, FoundFor
<1>7. PairsFit'
  BY <1>1, <1>2, InsertFits DEF PairsSound, refused
<1>8. pairs \subseteq pairs'
  BY <1>2
<1>9. \A i, j \in Images : Promised(i, j) => Covered(i, j)'
  <2>1. SUFFICES ASSUME NEW i \in Images, NEW j \in Images, Promised(i, j)
                 PROVE  Covered(i, j)'
    OBVIOUS
  <2>2. CASE recompute.image = i /\ j \in recompute.found
    <3>1. CASE refused
      BY <1>2, <1>5, <3>1 DEF Covered, Excused
    <3>2. CASE ~refused
      BY <1>2, <2>2, <3>2 DEF Covered, With
    <3>3. QED
      BY <3>1, <3>2
  <2>3. CASE ~(recompute.image = i /\ j \in recompute.found)
    BY <1>5, <2>1, <2>3 DEF Promised, Covered
  <2>4. QED
    BY <2>2, <2>3
<1>10. Excused => Excused'
  BY <1>2, <1>5 DEF Excused
<1>11. PairsPromised'
  BY <1>8, <1>9, <1>10, OwedStays, PromisesKeep DEF PairsSound, Covered
<1>12. lost' \in BOOLEAN
  BY <1>2 DEF PairsSound
<1>13. QED
  BY <1>5, <1>6, <1>7, <1>11, <1>12

LEMMA RecomputeEnds ==
  ASSUME PairsSound, UNCHANGED <<file, hash, hasher, changed>>, UNCHANGED pairs,
         recompute' = NoRecompute,
         \/ /\ recompute.at = "rows" /\ recompute.rest = {}
            /\ lost' = (lost /\ ~recompute.whole)
         \/ lost' = TRUE
  PROVE  /\ RecomputeFits' /\ recompute' \in RecomputeType /\ PairsFit' /\ PairsPromised'
         /\ lost' \in BOOLEAN
<1>1. recompute' \in RecomputeType /\ recompute'.at = "idle"
      /\ recompute'.rest = {} /\ recompute'.found = {}
  BY DEF NoRecompute, RecomputeType
<1>2. RecomputeFits'
  BY <1>1 DEF RecomputeFits, FoundFor
<1>3. FilesMove /\ \A i \in Images : Kept(i)' <=> Kept(i)
  BY FilesStand
<1>4. PairsFit'
  BY <1>3, PairsStand DEF PairsSound, PairsFit
<1>5. CASE lost' = TRUE
  BY <1>1, <1>2, <1>4, <1>5 DEF PairsPromised, Covered, Excused
<1>6. CASE /\ recompute.at = "rows" /\ recompute.rest = {}
           /\ lost' = (lost /\ ~recompute.whole)
  <2>1. recompute.found = {}
    BY <1>6 DEF PairsSound, RecomputeFits
  <2>2. \A i, j \in Images : Promised(i, j) => Promised(i, j)'
    BY <1>6, <2>1 DEF Promised
  <2>3. Excused => Excused'
    BY <1>1, <1>6 DEF Excused
  <2>4. PairsPromised'
    BY <1>6, <2>2, <2>3, OwedStays, PromisesKeep DEF PairsSound, Covered
  <2>5. lost' \in BOOLEAN
    BY <1>6 DEF PairsSound
  <2>6. QED
    BY <1>1, <1>2, <1>4, <2>4, <2>5
<1>7. QED
  BY <1>5, <1>6

LEMMA RecomputeKeeps ==
  ASSUME PairsSound, RecomputeStep
  PROVE  PairsSound'
<1>1. UNCHANGED <<file, hash, cache, hashQueue, hasher, changing, overtaken, changed>>
  BY DEF RecomputeStep
<1>2. /\ RecomputeFits' /\ recompute' \in RecomputeType /\ PairsFit' /\ PairsPromised'
      /\ lost' \in BOOLEAN
  BY <1>1, RecomputeDeletes, RecomputeReads, RecomputeMatches, RecomputeInserts, RecomputeEnds
  DEF RecomputeStep, Recompute
<1>3. \A w \in Hashers : HasherFits(hasher[w])'
  BY <1>1 DEF PairsSound, HasherFits, ReadOf, FoundFor, Steady, Kept, AlikeFiles
<1>4. QED
  BY <1>1, <1>2, <1>3, TableStays DEF PairsSound

LEMMA HashRestartKeeps ==
  ASSUME PairsSound, HashRestart
  PROVE  PairsSound'
<1>1. /\ UNCHANGED <<file, hash, pairs, changed>>
      /\ cache' = [i \in Images |-> Nothing] /\ hashQueue' = <<>>
      /\ hasher' = [w \in Hashers |-> NoImage] /\ recompute' = NoRecompute
      /\ changing' = {} /\ overtaken' = overtaken \cup changing
      /\ lost' = (lost \/ recompute.at # "idle"
                       \/ \E w \in Hashers : hasher[w].at \notin {"idle", "read"})
  BY DEF HashRestart
<1>2. FilesMove /\ \A i \in Images : Kept(i)' <=> Kept(i)
  BY <1>1, FilesStand
<1>3. /\ hasher' \in [Hashers -> HasherType] /\ recompute' \in RecomputeType
      /\ recompute'.at = "idle" /\ recompute'.rest = {} /\ recompute'.found = {}
      /\ \A w \in Hashers : hasher'[w] = NoImage
  BY <1>1 DEF NoImage, NoRecompute, HasherType, RecomputeType
<1>4. RecomputeFits' /\ \A w \in Hashers : HasherFits(hasher[w])'
  BY <1>3 DEF RecomputeFits, HasherFits, FoundFor, NoImage
<1>5. \A i \in Images : hash'[i].version # 0 => Kept(i)' /\ hash'[i].of # Nothing
  BY <1>1, <1>2 DEF PairsSound
<1>6. HashesCurrent'
  BY <1>1 DEF PairsSound, HashesCurrent
<1>7. RowsRead'
  <2>1. \A i \in Images : hash'[i] = hash[i] /\ cache'[i] = Nothing
    BY <1>1
  <2>2. QED
    BY <1>2, <2>1, RowsStay DEF PairsSound
<1>8. PairsFit'
  BY <1>1, <1>2, PairsStand DEF PairsSound, PairsFit
<1>9. lost' \in BOOLEAN /\ (lost => lost') /\ (recompute.at # "idle" => lost')
      /\ \A w \in Hashers : hasher[w].at \notin {"idle", "read"} => lost'
  BY <1>1 DEF PairsSound
<1>10. lost' => Excused'
  BY <1>3 DEF Excused
<1>11. \A i, j \in Images : Promised(i, j) => lost'
  <2>1. recompute.at = "idle" => recompute.rest = {} /\ recompute.found = {}
    BY DEF PairsSound, RecomputeFits
  <2>2. QED
    BY <1>9, <2>1 DEF Promised
<1>12. PairsPromised'
  BY <1>1, <1>9, <1>10, <1>11, OwedStays, PromisesKeep DEF PairsSound, Covered, Excused
<1>13. /\ cache' \in [Images -> Pictures \cup {Nothing}] /\ hashQueue' \in Seq(Images)
       /\ Len(hashQueue') <= QueueLength /\ changing' \subseteq Images /\ overtaken' \subseteq Images
  BY <1>1, HashAssumption DEF PairsSound
<1>14. QED
  BY <1>1, <1>3, <1>4, <1>5, <1>6, <1>7, <1>8, <1>9, <1>12, <1>13 DEF PairsSound

-----------------------------------------------------------------------------
LEMMA HashInitSound ==
  ASSUME HashInit
  PROVE  PairsSound
<1>1. /\ file \in [Images -> Pictures \cup {Nothing}]
      /\ \A i \in Images : (i \in Legacy) <=> file[i] # Nothing
      /\ hash = [i \in Images |-> IF i \in Legacy THEN [version |-> 1, of |-> file[i]] ELSE NoHash]
      /\ pairs = {} /\ cache = [i \in Images |-> Nothing] /\ hashQueue = <<>>
      /\ hasher = [w \in Hashers |-> NoImage] /\ changing = {} /\ recompute = NoRecompute
      /\ lost = FALSE /\ overtaken = {} /\ changed = {}
  BY DEF HashInit
<1>2. \A i \in Images :
        \/ hash[i] = NoHash
        \/ file[i] \in Pictures /\ hash[i].version = 1 /\ hash[i].of = file[i] /\ hash[i] \in ImageRows
  BY <1>1 DEF ImageRows
<1>3. NoHash \in ImageRows /\ NoHash.version = 0
  BY DEF NoHash, ImageRows
<1>4. hash \in [Images -> ImageRows]
  <2>1. \A i \in Images : hash[i] \in ImageRows
    BY <1>2, <1>3
  <2>2. hash = [i \in Images |-> hash[i]]
    BY <1>1
  <2>3. QED
    BY <2>1, <2>2
<1>5. \A i \in Images : hash[i].version # 0 => Kept(i) /\ hash[i].of # Nothing
  BY <1>2, <1>3, ImageNamesAssumption DEF Kept
<1>6. HashesCurrent
  BY <1>2, <1>3 DEF HashesCurrent
<1>7. RowsRead
  <2>1. \A i \in Images : cache[i] = Nothing
    BY <1>1
  <2>2. QED
    BY <1>2, <1>3, <2>1, ImageNamesAssumption DEF RowsRead, ReadOf
<1>8. PairsFit
  BY <1>1 DEF PairsFit, PairsTrue
<1>9. /\ hasher \in [Hashers -> HasherType] /\ recompute \in RecomputeType
      /\ recompute.rest = {} /\ recompute.found = {} /\ recompute.at = "idle"
  BY <1>1 DEF NoImage, NoRecompute, HasherType, RecomputeType
<1>10. RecomputeFits
  BY <1>9 DEF RecomputeFits, FoundFor
<1>11. \A w \in Hashers : HasherFits(hasher[w])
  BY <1>1 DEF NoImage, HasherFits, FoundFor
<1>12. PairsPromised
  <2>1. \A i \in Images : ~Hashed(i)
    BY <1>2, <1>3 DEF Hashed
  <2>2. QED
    BY <2>1 DEF PairsPromised, Owed
<1>13. /\ file \in [Images -> Pictures \cup {Nothing, Deleted}]
       /\ cache \in [Images -> Pictures \cup {Nothing}]
       /\ hashQueue \in Seq(Images) /\ Len(hashQueue) <= QueueLength
  BY <1>1, HashAssumption
<1>14. QED
  BY <1>1, <1>4, <1>5, <1>6, <1>7, <1>8, <1>9, <1>10, <1>11, <1>12, <1>13 DEF PairsSound

LEMMA HashStutters ==
  ASSUME PairsSound, UNCHANGED hashVars
  PROVE  PairsSound'
<1>1. UNCHANGED <<file, hash, pairs, cache, hashQueue, hasher, changing, recompute, lost, overtaken,
                  changed>>
  BY DEF hashVars
<1>2. FilesMove
  BY <1>1, FilesStand
<1>3. \A w \in Hashers : hasher[w].at = "read" /\ hasher[w].image \in Images
        /\ file'[hasher[w].image] \in Pictures /\ hasher[w].image \notin changing' \cup overtaken'
      => hasher[w].of = file'[hasher[w].image]
  BY <1>1 DEF PairsSound, HasherFits, Kept
<1>4. /\ \A w \in Hashers : HasherFits(hasher[w])'
      /\ RecomputeFits' /\ recompute' \in RecomputeType /\ hasher' \in [Hashers -> HasherType]
      /\ PairsPromised'
  BY <1>1, <1>2, <1>3, BystandersStay
<1>5. QED
  BY <1>1, <1>4, TableStays DEF PairsSound

(* The hash of an image is that of the file it has, unless the file changed under the    *)
(* goroutine that saved it; two images whose hashes are alike are a pair once nobody is  *)
(* matching, unless a crash, a cancel or a refused insert cut a match short; and a pair  *)
(* is of two images that are alike, as long as neither has changed: for every number of  *)
(* images, goroutines and pictures, and every cache and queue.                           *)
THEOREM PairsAlwaysExact == HashSpec => []PairsExact
<1>1. HashInit => PairsSound
  BY HashInitSound
<1>2. PairsSound /\ [HashNext]_hashVars => PairsSound'
  <2>1. SUFFICES ASSUME PairsSound, [HashNext]_hashVars
                 PROVE  PairsSound'
    OBVIOUS
  <2>2. ASSUME NEW i \in Images,
               Upload(i) \/ ChangeFile(i) \/ OnResourceFileChanged(i) \/ DeleteImage(i)
        PROVE  PairsSound'
    BY <2>1, <2>2, UploadKeeps, ChangeKeeps, FileChangedKeeps, DeleteKeeps
  <2>3. ASSUME NEW w \in Hashers,
               \/ TakeQueued(w) \/ TakeBatch(w) \/ SaveHash(w)
               \/ MatchCache(w) \/ MatchRows(w) \/ SavePairs(w)
        PROVE  PairsSound'
    BY <2>1, <2>3, TakeKeeps, SaveHashKeeps, MatchCacheKeeps, MatchRowsKeeps, SavePairsKeeps
  <2>4. CASE RetryFailedHashes \/ RecomputeStep \/ HashRestart
    BY <2>1, <2>4, RetryKeeps, RecomputeKeeps, HashRestartKeeps
  <2>5. CASE UNCHANGED hashVars
    BY <2>1, <2>5, HashStutters
  <2>6. QED
    BY <2>1, <2>2, <2>3, <2>4, <2>5 DEF HashNext
<1>3. PairsSound => PairsExact
  BY PairsSaid
<1>4. QED
  BY <1>1, <1>2, <1>3, PTL DEF HashSpec
=============================================================================
