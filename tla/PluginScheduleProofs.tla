------------------------ MODULE PluginScheduleProofs ------------------------
(* Proofs about PluginSchedule: a claim is held by one run at a time, of the *)
(* occurrence it was made for, and the row only moves on.                    *)
EXTENDS PluginSchedule, TLAPS

-----------------------------------------------------------------------------
(* Types.                                                                    *)

\* The initial state is well typed.
LEMMA TypesInit == Init => TypeOK
BY ScheduleAssumption DEF Init, TypeOK, NoRow, NoOutcome, Unloaded, IdleTicker, Idle, Rows,
   Outcomes, Plugins, Tickers, AttemptStates, Pcs, Policy

\* What the steps of a run write to its attempt and to its row is well typed.
LEMMA WrittenTypes ==
  ASSUME TypeOK, TokensMatch, NEW a \in Attempts, ~At(a, "idle")
  PROVE  /\ attempt[a].schedule \in Schedules
         /\ attempt[a] \in AttemptStates
         /\ Unclaimed(row[attempt[a].schedule]) \in Rows
         /\ Outcome(a) \in Outcomes
<1>1. attempt[a].schedule \in Schedules /\ attempt[a] \in AttemptStates
  BY DEF TypeOK, TokensMatch
<1>2. Unclaimed(row[attempt[a].schedule]) \in Rows
  BY <1>1 DEF TypeOK, Unclaimed, Rows
<1>3. Outcome(a) \in Outcomes
  BY <1>1 DEF Outcome, Outcomes, Keeps, AttemptStates
<1>4. QED
  BY <1>1, <1>2, <1>3

\* A write under a claim leaves the rows well typed.
LEMMA IfHeldTypes ==
  ASSUME TypeOK, NEW a \in Attempts, NEW r \in Rows, attempt[a].schedule \in Schedules,
         IfHeld(a, r)
  PROVE  row' \in [Schedules -> Rows]
BY DEF TypeOK, IfHeld

\* Every step keeps the types.
LEMMA TypesNext == TypeOK /\ TokensMatch /\ [Next]_vars => TypeOK'
<1> SUFFICES ASSUME TypeOK, TokensMatch, [Next]_vars PROVE TypeOK'
  OBVIOUS
<1> USE ScheduleAssumption
<1>0. /\ Idle \in AttemptStates /\ NoRow \in Rows /\ IdleTicker \in Tickers
      /\ Unloaded \in Plugins
  BY DEF NoRow, NoOutcome, Unloaded, IdleTicker, Idle, Rows, Outcomes, Plugins, Tickers,
         AttemptStates, Pcs, Policy
<1>30. "claimed" \in Pcs /\ "asked" \in Pcs /\ "recording" \in Pcs /\ "skip" \in Policy
  BY DEF Pcs, Policy
<1>1. ASSUME NEW h \in Hosts, NEW u \in Operators \cup {Nobody}, NEW overlap \in Policies,
             Enable(h, u, overlap)
      PROVE  TypeOK'
  BY <1>1 DEF TypeOK, Enable, Plugins, Policy
<1>2. ASSUME NEW h \in Hosts, NEW s \in Schedules, Sync(h, s) PROVE TypeOK'
  <2>1. Synced(plugin[h], plugin[h].rest \ {s}) \in Plugins
    BY <1>0 DEF TypeOK, Synced, Plugins, Unloaded
  <2>2. row' \in [Schedules -> Rows]
    <3> DEFINE p == plugin[h]
               written == [row[s] EXCEPT !.overlap = p.overlap,
                             !.owner = IF p.owner = Nobody THEN row[s].owner ELSE p.owner]
               new == [NoRow EXCEPT !.exists = TRUE, !.owner = p.owner, !.overlap = p.overlap,
                                    !.nextDue = p.at + Every]
    <3>1. /\ p.owner \in Operators \cup {Nobody} /\ p.overlap \in Policy
          /\ row[s] \in Rows /\ p.at + Every \in Nat
      BY DEF TypeOK, Plugins
    <3>2. written \in Rows
      BY <3>1 DEF Rows
    <3>3. new \in Rows
      BY <1>0, <3>1 DEF Rows
    <3>4. row' = [row EXCEPT ![s] = IF row[s].exists THEN written ELSE new]
      BY <1>2 DEF Sync
    <3> HIDE DEF written, new
    <3>5. QED
      BY <3>2, <3>3, <3>4 DEF TypeOK
  <2>3. QED
    BY <1>2, <2>1, <2>2 DEF TypeOK, Sync
<1>3. ASSUME NEW h \in Hosts, SyncFails(h) PROVE TypeOK'
  <2>1. Synced(plugin[h], {}) \in Plugins
    BY <1>0 DEF TypeOK, Synced, Plugins, Unloaded
  <2>2. QED
    BY <1>3, <2>1 DEF TypeOK, SyncFails
<1>4. ASSUME NEW h \in Hosts, Disable(h) PROVE TypeOK'
  BY <1>4 DEF TypeOK, Disable, Plugins
<1>5. ASSUME NEW h \in Hosts, Exit(h) PROVE TypeOK'
  <2>1. [Unloaded EXCEPT !.gen = plugin[h].gen] \in Plugins
    BY <1>0 DEF TypeOK, Plugins
  <2>2. QED
    BY <1>0, <1>5, <2>1 DEF TypeOK, Exit
<1>6. ASSUME NEW u \in Operators, DeleteUser(u) PROVE TypeOK'
  BY <1>6 DEF TypeOK, DeleteUser, Rows
<1>7. ASSUME NEW h \in Hosts, List(h) PROVE TypeOK'
  BY <1>7 DEF TypeOK, List, Tickers, IdleTicker
<1>8. ASSUME NEW h \in Hosts, NEW s \in Schedules
      PROVE  Rest(ticker[h], s) \in Tickers
  BY <1>0 DEF TypeOK, Rest, Tickers
<1>9. ASSUME NEW h \in Hosts, NEW s \in Schedules, Skip(h, s) PROVE TypeOK'
  BY <1>8, <1>9 DEF TypeOK, Skip
<1>10. ASSUME NEW a \in Attempts, NEW h \in Hosts, NEW s \in Schedules, NEW now \in Nat,
              NEW manual \in BOOLEAN, NEW overlap \in Policy, NEW late \in BOOLEAN,
              Take(a, h, s, now, manual, overlap, late)
       PROVE  row' \in [Schedules -> Rows] /\ attempt' \in [Attempts -> AttemptStates]
  <2>1. row' \in [Schedules -> Rows]
    BY <1>10 DEF TypeOK, Take, Rows
  <2>2. [Idle EXCEPT !.pc = "claimed", !.host = h, !.schedule = s, !.manual = manual,
           !.overlap = overlap, !.limit = now + Lag, !.late = late] \in AttemptStates
    <3>1. now + Lag \in Nat
      OBVIOUS
    <3>2. \A m \in {TRUE, FALSE}, l \in {TRUE, FALSE} :
            [Idle EXCEPT !.pc = "claimed", !.host = h, !.schedule = s, !.manual = m,
               !.overlap = overlap, !.limit = now + Lag, !.late = l] \in AttemptStates
      BY <1>30, <3>1 DEF AttemptStates, Idle
    <3>3. QED
      BY <3>2
  <2>3. attempt' \in [Attempts -> AttemptStates]
    BY <1>10, <2>2 DEF TypeOK, Take
  <2>4. QED
    BY <2>1, <2>3
<1>11. ASSUME NEW h \in Hosts, NEW s \in Schedules, NEW a \in Attempts, Claim(h, s, a)
       PROVE  TypeOK'
  <2>1. ticker[h].now \in Nat
    BY DEF TypeOK, Tickers
  <2>2. row' \in [Schedules -> Rows] /\ attempt' \in [Attempts -> AttemptStates]
    <3> DEFINE overlap == IF s \in ticker[h].allow THEN "allow" ELSE "skip"
               late == clock > ticker[h].now + Lag
    <3>1. CASE Take(a, h, s, ticker[h].now, FALSE, overlap, late)
      <4>1. overlap \in Policy /\ late \in BOOLEAN
        BY DEF Policy
      <4> HIDE DEF overlap, late
      <4>2. QED
        BY <1>10, <2>1, <3>1, <4>1
    <3>2. CASE UNCHANGED <<row, attempt>>
      BY <3>2 DEF TypeOK
    <3>3. QED
      BY <1>11, <3>1, <3>2 DEF Claim
  <2>3. QED
    BY <1>8, <1>11, <2>2 DEF TypeOK, Claim
<1>12. ASSUME NEW h \in Hosts, NEW s \in Schedules, NEW a \in Attempts, Ask(a, h, s)
       PROVE  TypeOK'
  <2>1. [Idle EXCEPT !.pc = "asked", !.host = h, !.schedule = s, !.manual = TRUE,
           !.at = clock, !.limit = clock + Lag] \in AttemptStates
    <3>1. clock \in Nat /\ clock + Lag \in Nat
      BY DEF TypeOK
    <3>2. QED
      BY <1>0, <1>30, <3>1 DEF AttemptStates
  <2>2. QED
    BY <1>12, <2>1 DEF TypeOK, Ask
<1>13. ASSUME NEW a \in Attempts, ClaimNow(a) PROVE TypeOK'
  <2>1. /\ attempt[a].schedule \in Schedules /\ attempt[a].host \in Hosts \cup {Nobody}
        /\ attempt[a].at \in Nat /\ attempt[a].late \in BOOLEAN
    BY <1>13 DEF ClaimNow, At, TypeOK, TokensMatch, AttemptStates
  <2>2. CASE Claimable(row[attempt[a].schedule], attempt[a].at, FALSE)
    <3> DEFINE x == attempt[a]
    <3>1. [Idle EXCEPT !.pc = "claimed", !.host = x.host, !.schedule = x.schedule,
             !.manual = TRUE, !.overlap = "skip", !.limit = x.at + Lag,
             !.late = x.late] \in AttemptStates
      <4>1. x.at + Lag \in Nat
        BY <2>1
      <4>2. CASE x.late = TRUE
        BY <1>30, <2>1, <4>1, <4>2 DEF AttemptStates, Idle
      <4>3. CASE x.late = FALSE
        BY <1>30, <2>1, <4>1, <4>3 DEF AttemptStates, Idle
      <4>4. QED
        BY <2>1, <4>2, <4>3
    <3>2. attempt' \in [Attempts -> AttemptStates]
      BY <1>13, <2>2, <3>1 DEF TypeOK, ClaimNow, Take
    <3>3. row' \in [Schedules -> Rows]
      BY <1>13, <2>1, <2>2 DEF TypeOK, ClaimNow, Take, Rows
    <3>4. QED
      BY <1>13, <3>2, <3>3 DEF TypeOK, ClaimNow
  <2>3. CASE Done(a) /\ UNCHANGED row
    BY <1>0, <1>13, <2>3 DEF TypeOK, ClaimNow, Done
  <2>4. QED
    BY <1>13, <2>2, <2>3 DEF ClaimNow
<1>14. ASSUME NEW a \in Attempts, Goto(a, "starting") \/ Goto(a, "releasing") \/ Done(a)
       PROVE  attempt' \in [Attempts -> AttemptStates]
  BY <1>0, <1>14 DEF TypeOK, Goto, Done, AttemptStates, Pcs
<1>15. ASSUME NEW a \in Attempts, GivenBack(a) PROVE attempt' \in [Attempts -> AttemptStates]
  BY <1>14, <1>15 DEF TypeOK, GivenBack, AttemptStates, Pcs
<1>16. ASSUME NEW a \in Attempts, Dispatch(a) \/ Start(a) \/ GiveUp(a) PROVE TypeOK'
  <2>1. CASE Dispatch(a)
    BY <1>14, <2>1 DEF TypeOK, Dispatch, AttemptStates, Pcs
  <2>2. CASE Start(a)
    <3>1. ASSUME plugin[attempt[a].host].on
          PROVE  attempt' \in [Attempts -> AttemptStates]
      BY <2>2, <3>1 DEF TypeOK, Start, AttemptStates, Pcs, Plugins
    <3>2. QED
      BY <1>15, <2>2, <3>1 DEF TypeOK, Start
  <2>3. CASE GiveUp(a)
    BY <1>15, <2>3 DEF TypeOK, GiveUp
  <2>4. QED
    BY <1>16, <2>1, <2>2, <2>3
<1>17. ASSUME NEW a \in Attempts, Enter(a) \/ VMGone(a) PROVE TypeOK'
  <2>1. attempt[a].schedule \in Schedules
    BY <1>17 DEF Enter, VMGone, At, TokensMatch
  <2>2. QED
    BY <1>17, <2>1 DEF TypeOK, Enter, VMGone, Begin, AttemptStates, Pcs
<1>18. ASSUME NEW a \in Attempts, Return(a) PROVE TypeOK'
  <2>1. [attempt[a] EXCEPT !.pc = "recording", !.at = clock, !.limit = clock + Lag]
          \in AttemptStates
    <3>1. clock \in Nat /\ clock + Lag \in Nat /\ attempt[a] \in AttemptStates
      BY DEF TypeOK
    <3>2. QED
      BY <1>30, <3>1 DEF AttemptStates
  <2>2. QED
    BY <1>18, <2>1 DEF TypeOK, Return
<1>19. ASSUME NEW a \in Attempts, Advance(a) \/ Complete(a) \/ Record(a) \/ Release(a)
       PROVE  TypeOK'
  <2> DEFINE r == row[attempt[a].schedule]
             x == attempt[a]
  <2>1. /\ x.schedule \in Schedules /\ x.at + Every \in Nat
        /\ Unclaimed(r) \in Rows /\ Outcome(a) \in Outcomes
    BY <1>19, WrittenTypes DEF Advance, Complete, Record, Release, At, AttemptStates
  <2>2. /\ [Unclaimed(r) EXCEPT !.nextDue = x.at + Every] \in Rows
        /\ [Unclaimed(r) EXCEPT !.nextDue = x.at + Every, !.outcome = Outcome(a)] \in Rows
    BY <2>1 DEF Rows
  <2>3. row' \in [Schedules -> Rows]
    <3>1. CASE Record(a)
      BY <2>1, <3>1 DEF TypeOK, Record, Rows
    <3>2. QED
      BY <1>19, <2>1, <2>2, <3>1, IfHeldTypes DEF Advance, Complete, Release
  <2>4. QED
    BY <1>14, <1>19, <2>3 DEF TypeOK, Advance, Complete, Record, Release
<1>20. CASE Pass
  <2>1. \A a \in Attempts : [attempt[a] EXCEPT !.late = TRUE] \in AttemptStates
    BY DEF TypeOK, AttemptStates
  <2>2. QED
    BY <1>20, <2>1 DEF TypeOK, Pass
<1>21. CASE UNCHANGED vars
  BY <1>21 DEF TypeOK, vars
<1>22. QED
  BY <1>1, <1>2, <1>3, <1>4, <1>5, <1>6, <1>7, <1>9, <1>11, <1>12, <1>13, <1>16, <1>17,
     <1>18, <1>19, <1>20, <1>21 DEF Next, Process, Run
-----------------------------------------------------------------------------
(* Steps that leave every claim alone.                                       *)

\* Nothing a claim, its holder or an outcome says is changed.
SameClaims ==
  /\ UNCHANGED <<clock, attempt, runs>>
  /\ \A h \in Hosts : ticker'[h].now <= clock
  /\ \A s \in Schedules :
       /\ row'[s].token = row[s].token
       /\ row'[s].claimedAt = row[s].claimedAt
       /\ row'[s].outcome = row[s].outcome
       /\ row[s].exists => row'[s].exists /\ row'[s].nextDue = row[s].nextDue
       /\ ~row'[s].exists => row'[s] = NoRow

\* The steps of the plugin and of the ticker do that, when none of them claims.
QuietStep(h) ==
  \/ \E u \in Operators \cup {Nobody}, overlap \in Policies : Enable(h, u, overlap)
  \/ \E s \in Schedules : Sync(h, s) \/ Skip(h, s)
  \/ SyncFails(h) \/ Disable(h) \/ List(h)

\* They are SameClaims.
LEMMA QuietSteps ==
  ASSUME TypeOK, RowsBegin, TokensMatch, NEW h \in Hosts, QuietStep(h)
  PROVE  SameClaims
<1> USE DEF RowsBegin, SameClaims
<1>1. ASSUME UNCHANGED <<clock, row, attempt, runs>>, \A k \in Hosts : ticker'[k].now <= clock
      PROVE  SameClaims
  BY <1>1
<1>2. \A k \in Hosts : ticker[k].now <= clock /\ 0 <= clock
  BY DEF TokensMatch, TypeOK
<1>3. ASSUME NEW u \in Operators \cup {Nobody}, NEW overlap \in Policies, Enable(h, u, overlap)
      PROVE  SameClaims
  BY <1>1, <1>2, <1>3 DEF Enable
<1>4. ASSUME NEW s \in Schedules, Sync(h, s) PROVE SameClaims
  <2>1. UNCHANGED <<clock, attempt, runs, ticker>> /\ \A t \in Schedules \ {s} : row'[t] = row[t]
    BY <1>4 DEF Sync
  <2>2. CASE row[s].exists
    BY <1>2, <1>4, <2>1, <2>2 DEF Sync, TypeOK, Rows
  <2>3. CASE ~row[s].exists
    BY <1>2, <1>4, <2>1, <2>3 DEF Sync, TypeOK, Rows, NoRow
  <2>4. QED
    BY <2>2, <2>3
<1>5. ASSUME NEW s \in Schedules, Skip(h, s) PROVE SameClaims
  BY <1>1, <1>2, <1>5 DEF Skip, Rest, IdleTicker, TypeOK, Tickers
<1>6. ASSUME SyncFails(h) \/ Disable(h) PROVE SameClaims
  BY <1>1, <1>2, <1>6 DEF SyncFails, Disable
<1>7. ASSUME List(h) PROVE SameClaims
  BY <1>1, <1>2, <1>7 DEF List, IdleTicker, TypeOK, Tickers
<1>8. QED
  BY <1>3, <1>4, <1>5, <1>6, <1>7 DEF QuietStep

\* So does the deletion of a user.
LEMMA DeleteUserKeepsClaims ==
  ASSUME TypeOK, RowsBegin, TokensMatch, NEW u \in Operators, DeleteUser(u)
  PROVE  SameClaims
<1>1. \A s \in Schedules : row[s].owner = u => row[s].exists
  BY NobodyAssumption DEF RowsBegin, NoRow
<1>2. \A s \in Schedules :
        row'[s] = IF row[s].owner = u THEN [row[s] EXCEPT !.owner = Nobody] ELSE row[s]
  BY DEF DeleteUser
<1>3. \A s \in Schedules : row[s] \in Rows
  BY DEF TypeOK
<1>4. \A s \in Schedules : /\ row'[s].token = row[s].token
                           /\ row'[s].claimedAt = row[s].claimedAt
                           /\ row'[s].outcome = row[s].outcome
                           /\ row'[s].exists = row[s].exists
                           /\ row'[s].nextDue = row[s].nextDue
  BY <1>2, <1>3 DEF Rows
<1>5. QED
  BY <1>1, <1>2, <1>4 DEF DeleteUser, SameClaims, RowsBegin, TokensMatch

\* A claim is of a row that exists.
LEMMA ClaimedExists ==
  ASSUME RowsBegin, NEW s \in Schedules, NEW a \in Attempts, row[s].token = a
  PROVE  row[s].exists
BY NobodyAssumption DEF RowsBegin, NoRow

\* Such a step keeps the whole strengthening.
LEMMA SameClaimsKeep ==
  ASSUME TypeOK, Strengthening, SameClaims
  PROVE  Strengthening'
<1> USE DEF Strengthening
<1>1. RowsBegin'
  BY DEF SameClaims, RowsBegin
<1>2. TokensMatch'
  BY DEF SameClaims, TokensMatch, At, Keeps
<1>3. \A a \in Attempts : ~At(a, "idle") => attempt[a].schedule \in Schedules
  BY DEF TokensMatch
<1>4. ClaimsLast'
  BY <1>3 DEF SameClaims, ClaimsLast, Holds, Keeps, Budget, At
<1>5. DueWhenClaimed'
  BY <1>3, ClaimedExists DEF SameClaims, DueWhenClaimed, At
<1>6. OutcomesPast'
  BY <1>3 DEF SameClaims, OutcomesPast, Keeps, At
<1>7. QED
  BY <1>1, <1>2, <1>4, <1>5, <1>6
-----------------------------------------------------------------------------
(* Steps of one run, and what they leave of another's claim.                 *)

\* The part of the strengthening that is about one attempt.
Local(a) ==
  LET r == row[attempt[a].schedule] IN
  /\ ~At(a, "idle") => attempt[a].schedule \in Schedules /\ r.exists
  /\ At(a, "advancing") => ~Keeps(a)
  /\ \A s \in Schedules :
       row[s].token = a => ~At(a, "asked") /\ (At(a, "idle") \/ attempt[a].schedule = s)
  /\ At(a, "asked") => /\ attempt[a].manual
                       /\ attempt[a].at <= clock
                       /\ attempt[a].limit = attempt[a].at + Lag
                       /\ ~attempt[a].late => clock <= attempt[a].limit
  /\ Holds(a) /\ ~attempt[a].late => /\ r.token = a
                                     /\ clock <= attempt[a].limit
                                     /\ attempt[a].limit <= r.claimedAt + Budget(a)
  /\ ~At(a, "idle") /\ ~attempt[a].manual /\ r.token = a =>
       /\ r.nextDue <= r.claimedAt
       /\ r.claimedAt <= clock
       /\ attempt[a].pc \in {"advancing", "recording"} => r.claimedAt <= attempt[a].at
  /\ ~At(a, "idle") => attempt[a].run <= runs[attempt[a].schedule]
  /\ attempt[a].pc \in {"running", "recording"} /\ Keeps(a) /\ ~attempt[a].late /\ r.outcome.held
     => r.outcome.run <= attempt[a].run

\* The rest of it.
Global ==
  /\ RowsBegin
  /\ \A h \in Hosts : ticker[h].now <= clock
  /\ \A s \in Schedules : row[s].outcome.run <= runs[s]

\* The strengthening, attempt by attempt.
LEMMA Parts == Strengthening <=> Global /\ \A a \in Attempts : Local(a)
<1>1. ASSUME Strengthening PROVE Global /\ \A a \in Attempts : Local(a)
  BY <1>1 DEF Strengthening, Global, Local, TokensMatch, ClaimsLast, DueWhenClaimed, OutcomesPast
<1>2. ASSUME Global, \A a \in Attempts : Local(a) PROVE Strengthening
  <2>1. RowsBegin /\ TokensMatch
    BY <1>2 DEF Global, Local, TokensMatch
  <2>2. ClaimsLast
    BY <1>2 DEF Local, ClaimsLast
  <2>3. DueWhenClaimed
    BY <1>2 DEF Local, DueWhenClaimed
  <2>4. OutcomesPast
    BY <1>2 DEF Global, Local, OutcomesPast
  <2>5. QED
    BY <2>1, <2>2, <2>3, <2>4 DEF Strengthening
<1>3. QED
  BY <1>1, <1>2

\* In time and under a claim.
InClaim(a) == Holds(a) /\ ~attempt[a].late

\* Of every row, the attempt keeps its claim, or has none to lose.
Spares(b) ==
  /\ attempt'[b] = attempt[b]
  /\ clock' = clock
  /\ \A s \in Schedules :
       /\ runs'[s] >= runs[s]
       /\ row[s].exists => row'[s].exists
       /\ \/ /\ row[s].token = b /\ row'[s].token = b
             /\ row'[s].claimedAt = row[s].claimedAt
             /\ row'[s].nextDue = row[s].nextDue
             /\ row'[s].outcome = row[s].outcome \/ ~row'[s].outcome.held
          \/ /\ row'[s].token # b
             /\ attempt[b].schedule = s => ~InClaim(b)

\* An attempt that is spared keeps its part of the strengthening.
LEMMA SparedKeepsLocal ==
  ASSUME TypeOK, TypeOK', NEW b \in Attempts, Local(b), Spares(b)
  PROVE  Local(b)'
<1> DEFINE s == attempt[b].schedule
<1> USE DEF Spares
<1>1. CASE At(b, "idle")
  BY <1>1 DEF Local, At, Holds
<1>2. CASE ~At(b, "idle")
  <2>1. s \in Schedules /\ row'[s].exists
    BY <1>2 DEF Local
  <2>2. attempt[b].run <= runs'[s]
    BY <1>2, <2>1 DEF Local, TypeOK, AttemptStates
  <2>3. QED
    BY <1>2, <2>1, <2>2 DEF Local, At, Holds, InClaim, Keeps, Budget, TypeOK, AttemptStates
<1>3. QED
  BY <1>1, <1>2
\* A step of an attempt that writes nothing to a row spares every other.
LEMMA UnwrittenSpares ==
  ASSUME TypeOK, NEW b \in Attempts, Local(b), attempt'[b] = attempt[b],
         UNCHANGED <<clock, row>>, \A s \in Schedules : runs'[s] >= runs[s]
  PROVE  Spares(b)
<1>1. \A s \in Schedules : attempt[b].schedule = s /\ InClaim(b) => row[s].token = b
  BY DEF Local, InClaim
<1>2. QED
  BY <1>1 DEF Spares

\* The steps that start, end or move on an attempt, and write nothing.
Unwritten(a) ==
  \/ \E h \in Hosts, s \in Schedules : Ask(a, h, s)
  \/ ClaimNow(a) /\ Done(a) /\ UNCHANGED row
  \/ Dispatch(a) \/ Start(a) \/ GiveUp(a) \/ Enter(a) \/ VMGone(a) \/ Return(a)

\* Every phase an attempt goes on to ends within the age its claim may have.
LEMMA UnwrittenLocal ==
  ASSUME TypeOK, TypeOK', Global, NEW a \in Attempts, Local(a), Unwritten(a)
  PROVE  Local(a)'
<1> USE ScheduleAssumption DEF At
<1> DEFINE x == attempt[a]
           y == attempt'[a]
           s == x.schedule
<1>1. /\ x \in AttemptStates /\ y \in AttemptStates /\ clock \in Nat
      /\ \A t \in Schedules : runs[t] \in Nat /\ row[t] \in Rows
  BY DEF TypeOK
<1>2. /\ x.at \in Nat /\ x.limit \in Nat /\ x.run \in Nat /\ x.late \in BOOLEAN
      /\ x.manual \in BOOLEAN
  BY <1>1 DEF AttemptStates
<1>3. ASSUME NEW h \in Hosts, NEW t \in Schedules, Ask(a, h, t) PROVE Local(a)'
  <2>1. y = [Idle EXCEPT !.pc = "asked", !.host = h, !.schedule = t, !.manual = TRUE,
                         !.at = clock, !.limit = clock + Lag]
    BY <1>3 DEF Ask, TypeOK
  <2>2. /\ y.pc = "asked" /\ y.schedule = t /\ y.manual = TRUE /\ y.at = clock
        /\ y.limit = clock + Lag /\ y.run = 0
    BY <2>1 DEF Idle
  <2>3. QED
    BY <1>1, <1>3, <2>2 DEF Ask, Fresh, Local, Holds, Keeps
<1>4. ASSUME Done(a) PROVE y = Idle
  BY <1>4 DEF Done, TypeOK
<1>5. ASSUME y = Idle, UNCHANGED <<row, clock>> PROVE Local(a)'
  BY <1>5 DEF Local, Holds, Idle
<1>6. CASE ClaimNow(a) /\ Done(a) /\ UNCHANGED row
  BY <1>4, <1>5, <1>6 DEF ClaimNow
\* Of a claim in time: how old the claim is when the phase begins.
<1>7. Holds(a) /\ ~x.late => /\ s \in Schedules /\ row[s].token = a /\ row[s].claimedAt \in Nat
                             /\ clock <= row[s].claimedAt + Budget(a)
  <2>1. SUFFICES ASSUME Holds(a), ~x.late
                 PROVE  /\ s \in Schedules /\ row[s].token = a /\ row[s].claimedAt \in Nat
                        /\ clock <= row[s].claimedAt + Budget(a)
    OBVIOUS
  <2>2. s \in Schedules
    BY <2>1 DEF Local, Holds
  <2>3. row[s].claimedAt \in Nat
    BY <1>1, <2>2 DEF Rows
  <2>4. Budget(a) \in Nat
    BY DEF Budget, TTL
  <2>5. row[s].token = a /\ clock <= x.limit /\ x.limit <= row[s].claimedAt + Budget(a)
    BY <2>1 DEF Local
  <2>6. QED
    BY <1>1, <1>2, <2>2, <2>3, <2>4, <2>5
<1>8. ASSUME ~At(a, "idle"), UNCHANGED <<row, clock>>,
             y.schedule = s, y.manual = x.manual, y.overlap = x.overlap, y.late = x.late,
             y.pc \notin {"idle", "asked"},
             y.pc = "advancing" => ~Keeps(a),
             y.pc \in {"advancing", "recording"} => clock <= y.at,
             y.run <= runs'[s],
             \/ y.pc \in {"running", "recording"} =>
                  x.pc \in {"running", "recording"} /\ y.run = x.run
             \/ row[s].outcome.run <= y.run,
             Holds(a)' /\ ~x.late =>
               Holds(a) /\ clock <= y.limit /\ y.limit <= row[s].claimedAt + Budget(a)'
      PROVE  Local(a)'
  <2>1. s \in Schedules /\ row[s] \in Rows /\ row[s].claimedAt \in Nat
    BY <1>1, <1>8 DEF Local, Rows
  <2>2. Keeps(a)' = Keeps(a)
    BY <1>8 DEF Keeps
  <2>3. /\ y.pc # "idle" => s \in Schedules /\ row'[s].exists
        /\ y.pc = "advancing" => ~Keeps(a)'
        /\ \A t \in Schedules : row'[t].token = a => y.pc # "asked" /\ s = t
    BY <1>8, <2>1, <2>2 DEF Local
  <2>4. Holds(a)' /\ ~y.late =>
          row'[s].token = a /\ clock' <= y.limit /\ y.limit <= row'[s].claimedAt + Budget(a)'
    BY <1>7, <1>8
  <2>5. ~y.manual /\ row'[s].token = a =>
          /\ row'[s].nextDue <= row'[s].claimedAt
          /\ row'[s].claimedAt <= clock'
          /\ y.pc \in {"advancing", "recording"} => row'[s].claimedAt <= y.at
    <3>1. y.at \in Nat
      BY <1>1 DEF AttemptStates
    <3>2. QED
      BY <1>1, <1>8, <2>1, <3>1 DEF Local
  <2>6. /\ y.run <= runs'[s]
        /\ y.pc \in {"running", "recording"} /\ Keeps(a)' /\ ~y.late /\ row'[s].outcome.held
           => row'[s].outcome.run <= y.run
    BY <1>8, <2>2 DEF Local
  <2>7. QED
    BY <1>8, <2>3, <2>4, <2>5, <2>6 DEF Local
<1>9. ~At(a, "idle") => s \in Schedules /\ x.run <= runs[s] /\ row[s].claimedAt \in Nat
  BY <1>1 DEF Local, Rows
<1>10. CASE Dispatch(a)
  <2>1. Holds(a) /\ x.pc = "claimed" /\ UNCHANGED <<row, clock, runs>>
    BY <1>10 DEF Dispatch, Holds
  <2>2. Budget(a) = Lag
    BY <2>1 DEF Budget
  <2>3. CASE attempt' = [attempt EXCEPT ![a].pc = "advancing", ![a].at = clock] /\ ~Keeps(a)
    <3>1. y = [x EXCEPT !.pc = "advancing", !.at = clock]
      BY <2>3 DEF TypeOK
    <3>2. /\ y.pc = "advancing" /\ y.at = clock /\ y.schedule = s /\ y.manual = x.manual
          /\ y.overlap = x.overlap /\ y.late = x.late /\ y.limit = x.limit /\ y.run = x.run
      BY <1>1, <3>1 DEF AttemptStates
    <3>3. Budget(a)' = Lag
      BY <3>2 DEF Budget
    <3>4. ~x.late => clock <= x.limit /\ x.limit <= row[s].claimedAt + Lag
      BY <2>1, <2>2 DEF Local
    <3>5. QED
      BY <1>1, <1>8, <1>9, <2>1, <2>3, <3>2, <3>3, <3>4
  <2>4. ASSUME NEW pc \in {"releasing", "starting"}, Goto(a, pc), pc = "starting" => Keeps(a)
        PROVE  Local(a)'
    <3>1. y = [x EXCEPT !.pc = pc, !.at = 0]
      BY <2>4 DEF Goto, TypeOK
    <3>2. /\ y.pc = pc /\ y.schedule = s /\ y.manual = x.manual
          /\ y.overlap = x.overlap /\ y.late = x.late /\ y.limit = x.limit /\ y.run = x.run
      BY <1>1, <3>1 DEF AttemptStates
    <3>3. Budget(a)' \in Nat /\ Budget(a)' >= Lag
      BY <2>4, <3>2 DEF Budget, TTL
    <3>4. ~x.late => clock <= x.limit /\ x.limit <= row[s].claimedAt + Budget(a)'
      BY <1>2, <1>9, <2>1, <2>2, <3>3 DEF Local
    <3>5. QED
      BY <1>1, <1>8, <1>9, <2>1, <2>4, <3>2, <3>4
  <2>5. QED
    BY <1>10, <2>3, <2>4 DEF Dispatch
<1>11. ASSUME GivenBack(a), x.pc \in {"starting", "waiting"}, UNCHANGED <<row, clock, runs>>
       PROVE  Local(a)'
  <2>1. CASE Keeps(a)
    <3>1. y = [x EXCEPT !.pc = "releasing", !.limit = clock + Lag]
      BY <1>11, <2>1 DEF GivenBack, TypeOK
    <3>2. /\ y.pc = "releasing" /\ y.limit = clock + Lag /\ y.schedule = s
          /\ y.manual = x.manual /\ y.overlap = x.overlap /\ y.late = x.late /\ y.run = x.run
      BY <1>1, <3>1 DEF AttemptStates
    <3>3. Budget(a)' = TTL /\ Budget(a) <= Lag + Wait /\ Budget(a) \in Nat /\ Holds(a)
      BY <1>11, <2>1, <3>2 DEF Budget, Holds
    <3>4. ~x.late => clock <= y.limit /\ y.limit <= row[s].claimedAt + TTL
      BY <1>1, <1>7, <1>9, <3>2, <3>3 DEF TTL
    <3>5. QED
      BY <1>8, <1>9, <1>11, <3>2, <3>3, <3>4
  <2>2. CASE ~Keeps(a)
    BY <1>4, <1>5, <1>11, <2>2 DEF GivenBack
  <2>3. QED
    BY <2>1, <2>2
<1>12. CASE GiveUp(a)
  BY <1>11, <1>12 DEF GiveUp
<1>13. CASE Start(a)
  <2>1. UNCHANGED <<row, clock, runs>> /\ x.pc = "starting"
    BY <1>13 DEF Start
  <2>2. CASE plugin[x.host].on
    <3>1. y = [x EXCEPT !.pc = "waiting", !.limit = IF Keeps(a) THEN clock + Wait ELSE 0,
                        !.gen = plugin[x.host].gen]
      BY <1>13, <2>2 DEF Start, TypeOK
    <3>2. /\ y.pc = "waiting" /\ y.schedule = s /\ y.manual = x.manual
          /\ y.overlap = x.overlap /\ y.late = x.late /\ y.run = x.run
          /\ Keeps(a) => y.limit = clock + Wait
      BY <1>1, <3>1 DEF AttemptStates
    <3>3. Budget(a)' = Lag + Wait /\ Budget(a) = Lag
      BY <2>1, <3>2 DEF Budget
    <3>4. Holds(a)' => Keeps(a) /\ Holds(a)
      BY <2>1, <3>2 DEF Holds, Keeps
    <3>5. Holds(a)' /\ ~x.late =>
            Holds(a) /\ clock <= y.limit /\ y.limit <= row[s].claimedAt + Budget(a)'
      BY <1>1, <1>7, <1>9, <3>2, <3>3, <3>4
    <3>6. QED
      BY <1>8, <1>9, <2>1, <3>2, <3>5
  <2>3. CASE ~plugin[x.host].on
    BY <1>11, <1>13, <2>1, <2>3 DEF Start
  <2>4. QED
    BY <2>2, <2>3
<1>14. ASSUME NEW pc \in {"running", "recording"}, NEW at \in Nat, NEW limit \in Nat,
              x.pc = "waiting", Begin(a, pc, at, limit), UNCHANGED <<row, clock>>,
              pc = "recording" => clock <= at,
              clock <= limit,
              \/ pc = "running" /\ limit = clock + RunMax
              \/ limit = clock + Lag /\ pc = "recording"
       PROVE  Local(a)'
  <2>1. s \in Schedules /\ runs'[s] = runs[s] + 1 /\ row[s].outcome.run <= runs[s] + 1
    <3>1. s \in Schedules /\ row[s].outcome.run <= runs[s] /\ runs[s] \in Nat
      BY <1>1, <1>9, <1>14 DEF Global
    <3>2. row[s].outcome.run \in Nat
      BY <1>1, <3>1 DEF Rows, Outcomes
    <3>3. QED
      BY <1>14, <3>1, <3>2 DEF Begin, TypeOK
  <2>2. y = [x EXCEPT !.pc = pc, !.at = at, !.limit = limit, !.run = runs[s] + 1]
    BY <1>14 DEF Begin, TypeOK
  <2>3. /\ y.pc = pc /\ y.at = at /\ y.limit = limit /\ y.run = runs[s] + 1 /\ y.schedule = s
        /\ y.manual = x.manual /\ y.overlap = x.overlap /\ y.late = x.late
    BY <1>1, <2>2 DEF AttemptStates
  <2>4. Budget(a) = Lag + Wait /\ Budget(a)' = IF pc = "running" THEN Lag + Wait + RunMax ELSE TTL
    BY <1>14, <2>3 DEF Budget
  <2>5. Holds(a)' => Holds(a)
    BY <1>14, <2>3 DEF Holds, Keeps
  <2>6. Holds(a)' /\ ~x.late => limit <= row[s].claimedAt + Budget(a)'
    BY <1>1, <1>7, <1>9, <1>14, <2>4, <2>5 DEF TTL
  <2>7. QED
    BY <1>1, <1>8, <1>14, <2>1, <2>3, <2>5, <2>6
<1>15. CASE Enter(a) \/ VMGone(a)
  BY <1>1, <1>14, <1>15 DEF Enter, VMGone
<1>16. CASE Return(a)
  <2>1. UNCHANGED <<row, clock, runs>> /\ x.pc = "running"
    BY <1>16 DEF Return
  <2>2. y = [x EXCEPT !.pc = "recording", !.at = clock, !.limit = clock + Lag]
    BY <1>16 DEF Return, TypeOK
  <2>3. /\ y.pc = "recording" /\ y.at = clock /\ y.limit = clock + Lag /\ y.schedule = s
        /\ y.manual = x.manual /\ y.overlap = x.overlap /\ y.late = x.late /\ y.run = x.run
    BY <1>1, <2>2 DEF AttemptStates
  <2>4. Budget(a) = Lag + Wait + RunMax /\ Budget(a)' = TTL /\ Holds(a)' = Holds(a)
    BY <2>1, <2>3 DEF Budget, Holds, Keeps
  <2>5. Holds(a)' /\ ~x.late =>
          Holds(a) /\ clock <= y.limit /\ y.limit <= row[s].claimedAt + Budget(a)'
    BY <1>1, <1>7, <1>9, <2>1, <2>3, <2>4 DEF TTL
  <2>6. QED
    BY <1>1, <1>8, <1>9, <2>1, <2>3, <2>5
<1>17. QED
  BY <1>3, <1>6, <1>10, <1>12, <1>13, <1>15, <1>16 DEF Unwritten
\* A claim is taken from nobody, or from an attempt that has overrun its time.
LEMMA TakeKeeps ==
  ASSUME TypeOK, TypeOK', Strengthening, NEW a \in Attempts, NEW h \in Hosts \cup {Nobody},
         NEW s \in Schedules, NEW now \in Nat, NEW manual \in BOOLEAN, NEW overlap \in Policy,
         NEW late \in BOOLEAN, NEW requireDue \in BOOLEAN,
         Take(a, h, s, now, manual, overlap, late),
         Claimable(row[s], now, requireDue), ~manual => requireDue,
         \A t \in Schedules : row[t].token # a,
         now <= clock, ~late => clock <= now + Lag,
         UNCHANGED <<clock, runs>>
  PROVE  Local(a)' /\ \A b \in Attempts \ {a} : Spares(b)
<1> USE ScheduleAssumption DEF At
<1> DEFINE y == attempt'[a]
<1>1. /\ row[s] \in Rows /\ row[s].exists /\ clock \in Nat /\ runs[s] \in Nat
      /\ ~manual => row[s].nextDue <= now
  BY DEF TypeOK, Claimable
<1>2. y = [Idle EXCEPT !.pc = "claimed", !.host = h, !.schedule = s, !.manual = manual,
                       !.overlap = overlap, !.limit = now + Lag, !.late = late]
  BY DEF Take, TypeOK
<1>3. /\ y.pc = "claimed" /\ y.schedule = s /\ y.limit = now + Lag /\ y.run = 0
      /\ y.manual <=> manual
      /\ y.late <=> late
  BY <1>2 DEF Idle
<1>4. /\ row'[s] = [row[s] EXCEPT !.token = a, !.claimedAt = now]
      /\ \A t \in Schedules \ {s} : row'[t] = row[t]
      /\ \A b \in Attempts \ {a} : attempt'[b] = attempt[b]
  BY DEF Take, TypeOK
<1>5. /\ row'[s].token = a /\ row'[s].claimedAt = now /\ row'[s].nextDue = row[s].nextDue
      /\ row'[s].exists /\ row'[s].outcome = row[s].outcome
  BY <1>1, <1>4 DEF Rows
<1>6. Local(a)'
  <2>1. Budget(a)' = Lag
    BY <1>3 DEF Budget
  <2>2. \A t \in Schedules : row'[t].token = a => t = s
    BY <1>4
  <2>3. QED
    BY <1>1, <1>3, <1>5, <2>1, <2>2 DEF Local
<1>7. ASSUME NEW b \in Attempts \ {a}, attempt[b].schedule = s PROVE ~InClaim(b)
  <2>1. SUFFICES ASSUME InClaim(b) PROVE FALSE
    OBVIOUS
  <2>2. /\ row[s].token = b /\ clock <= attempt[b].limit
        /\ attempt[b].limit <= row[s].claimedAt + Budget(b)
    BY <1>7, <2>1, Parts DEF Local, InClaim
  <2>3. row[s].claimedAt + TTL < now
    BY <2>2, NobodyAssumption DEF Claimable, Unheld
  <2>4. Budget(b) \in Nat /\ Budget(b) <= TTL
    BY DEF Budget, TTL
  <2>5. row[s].claimedAt \in Nat /\ attempt[b].limit \in Nat
    BY <1>1 DEF Rows, TypeOK, AttemptStates
  <2>6. QED
    BY <1>1, <2>2, <2>3, <2>4, <2>5 DEF TTL
<1>8. ASSUME NEW b \in Attempts \ {a} PROVE Spares(b)
  <2>1. \A t \in Schedules : row[t].exists => row'[t].exists
    BY <1>4, <1>5
  <2>2. \A t \in Schedules : runs'[t] >= runs[t]
    BY DEF TypeOK
  <2>3. \A t \in Schedules \ {s} : attempt[b].schedule = t /\ InClaim(b) => row[t].token = b
    BY Parts DEF Local, InClaim
  <2>4. row'[s].token # b
    BY <1>5
  <2>5. \A t \in Schedules \ {s} :
          \/ /\ row[t].token = b /\ row'[t].token = b
             /\ row'[t].claimedAt = row[t].claimedAt
             /\ row'[t].nextDue = row[t].nextDue
             /\ row'[t].outcome = row[t].outcome \/ ~row'[t].outcome.held
          \/ /\ row'[t].token # b
             /\ attempt[b].schedule = t => ~InClaim(b)
    BY <1>4, <2>3
  <2>6. attempt[b].schedule = s => ~InClaim(b)
    BY <1>7, <1>8
  <2>7. attempt'[b] = attempt[b]
    BY <1>4, <1>8
  <2>8. QED
    BY <2>1, <2>2, <2>4, <2>5, <2>6, <2>7 DEF Spares
<1>9. QED
  BY <1>6, <1>8

\* Of the last write of a run, its claim and its outcome: no other is disturbed.
LEMMA WriteSpares ==
  ASSUME TypeOK, Strengthening, NEW a \in Attempts, NEW b \in Attempts \ {a},
         NEW r \in Rows, r.exists, r.token = Nobody,
         IfHeld(a, r), attempt[a].schedule \in Schedules,
         attempt'[b] = attempt[b], UNCHANGED <<clock, runs>>
  PROVE  Spares(b)
<1> DEFINE s == attempt[a].schedule
<1>1. \A t \in Schedules : attempt[b].schedule = t /\ InClaim(b) => row[t].token = b
  BY Parts DEF Local, InClaim
<1>2. \A t \in Schedules : runs'[t] >= runs[t]
  BY DEF TypeOK
<1>3. \A t \in Schedules \ {s} : row'[t] = row[t]
  BY DEF IfHeld, TypeOK
<1>4. \/ row'[s] = row[s]
      \/ row[s].token = a /\ row'[s] = r
  <2>1. CASE row' = [row EXCEPT ![s] = IF row[s].token = a THEN r ELSE row[s]]
    BY <2>1 DEF TypeOK
  <2>2. CASE row' = row
    BY <2>2
  <2>3. QED
    BY <2>1, <2>2 DEF IfHeld
<1>5. QED
  BY <1>1, <1>2, <1>3, <1>4, NobodyAssumption DEF Spares
\* Of an attempt that is over, nothing is asked.
LEMMA IdleLocal ==
  ASSUME NEW a \in Attempts, attempt'[a] = Idle
  PROVE  Local(a)'
BY DEF Local, Holds, Idle, At

\* Steps that write a row under a claim.
Writes(a) == Advance(a) \/ Complete(a) \/ Release(a)

\* Advance, Complete and Release keep the strengthening.
LEMMA WritesKeep ==
  ASSUME TypeOK, TypeOK', Strengthening, NEW a \in Attempts, Writes(a)
  PROVE  Global' /\ Local(a)' /\ \A b \in Attempts \ {a} : Spares(b)
<1> USE ScheduleAssumption
<1> DEFINE x == attempt[a]
           y == attempt'[a]
           s == x.schedule
<1>1. Local(a) /\ Global
  BY Parts
<1>2. /\ x \in AttemptStates /\ s \in Schedules /\ row[s] \in Rows /\ row[s].exists
      /\ x.pc \in {"advancing", "recording", "releasing"} /\ UNCHANGED <<clock, runs, ticker>>
      /\ x.run <= runs[s]
  BY <1>1 DEF Local, At, TypeOK, Writes, Advance, Complete, Release
<1>3. \A b \in Attempts \ {a} : attempt'[b] = attempt[b]
  BY DEF Writes, Advance, Complete, Release, Goto, Done, TypeOK
<1>4. PICK r \in Rows : /\ r.exists /\ r.token = Nobody /\ IfHeld(a, r)
                        /\ r.outcome \in {row[s].outcome, Outcome(a)}
  <2>1. /\ x.at + Every \in Nat /\ Unclaimed(row[s]) \in Rows /\ Outcome(a) \in Outcomes
    BY <1>1, <1>2, WrittenTypes DEF AttemptStates, Strengthening, At
  <2> DEFINE u == Unclaimed(row[s])
  <2>2. /\ u.exists /\ u.token = Nobody /\ u.outcome = row[s].outcome
    BY <1>2 DEF Unclaimed, Rows
  <2>3. CASE Advance(a)
    <3> DEFINE w == [u EXCEPT !.nextDue = x.at + Every]
    <3>1. w \in Rows /\ w.exists /\ w.token = Nobody /\ w.outcome = row[s].outcome
      BY <2>1, <2>2 DEF Rows
    <3>2. IfHeld(a, w)
      BY <2>3 DEF Advance
    <3>3. QED
      BY <3>1, <3>2
  <2>4. CASE Complete(a)
    <3> DEFINE w == [u EXCEPT !.nextDue = x.at + Every, !.outcome = Outcome(a)]
    <3>1. w \in Rows /\ w.exists /\ w.token = Nobody /\ w.outcome = Outcome(a)
      BY <2>1, <2>2 DEF Rows
    <3>2. IfHeld(a, w)
      BY <2>4 DEF Complete
    <3>3. QED
      BY <3>1, <3>2
  <2>5. CASE Release(a)
    BY <2>1, <2>2, <2>5 DEF Release
  <2>6. QED
    BY <2>3, <2>4, <2>5 DEF Writes
<1>5. \A b \in Attempts \ {a} : Spares(b)
  BY <1>2, <1>3, <1>4, WriteSpares
<1>6. \A t \in Schedules \ {s} : row'[t] = row[t]
  BY <1>4 DEF IfHeld, TypeOK
<1>7. \/ row'[s] = row[s]
      \/ row[s].token = a /\ row'[s] = r
  <2>1. CASE row' = [row EXCEPT ![s] = IF row[s].token = a THEN r ELSE row[s]]
    BY <1>2, <2>1 DEF TypeOK
  <2>2. CASE row' = row
    BY <2>2
  <2>3. QED
    BY <1>4, <2>1, <2>2 DEF IfHeld
<1>8. Global'
  <2>1. RowsBegin'
    BY <1>1, <1>2, <1>4, <1>6, <1>7 DEF Global, RowsBegin
  <2>2. \A h \in Hosts : ticker'[h].now <= clock'
    BY <1>1, <1>2 DEF Global
  <2>3. \A t \in Schedules : row'[t].outcome.run <= runs'[t]
    <3>1. Outcome(a).run = x.run
      BY DEF Outcome
    <3>2. QED
      BY <1>1, <1>2, <1>4, <1>6, <1>7, <3>1 DEF Global
  <2>4. QED
    BY <2>1, <2>2, <2>3 DEF Global
<1>9. ASSUME Advance(a) PROVE Local(a)'
  <2>1. y = [x EXCEPT !.pc = "starting", !.at = 0]
    BY <1>9 DEF Advance, Goto, TypeOK
  <2>2. /\ y.pc = "starting" /\ y.schedule = s /\ y.manual = x.manual
        /\ y.overlap = x.overlap /\ y.late = x.late /\ y.run = x.run
    BY <1>2, <2>1 DEF AttemptStates
  <2>3. ~Holds(a)'
    BY <1>1, <1>9, <2>2 DEF Advance, Local, Holds, Keeps
  <2>4. row'[s].exists /\ y.run <= runs'[s]
    BY <1>2, <1>4, <1>7, <2>2
  <2>5. \A t \in Schedules : row'[t].token = a => t = s /\ row'[s] = row[s] /\ row[s].token = a
    BY <1>1, <1>2, <1>4, <1>6, <1>7, NobodyAssumption DEF Local, At
  <2>6. ~y.manual /\ row'[s].token = a =>
          row'[s].nextDue <= row'[s].claimedAt /\ row'[s].claimedAt <= clock'
    BY <1>1, <1>2, <2>2, <2>5 DEF Local, At
  <2>7. QED
    BY <2>2, <2>3, <2>4, <2>5, <2>6, <1>2 DEF Local, At
<1>10. ASSUME Complete(a) \/ Release(a) PROVE Local(a)'
  <2>1. y = Idle
    BY <1>10 DEF Complete, Release, Done, TypeOK
  <2>2. QED
    BY <2>1, IdleLocal
<1>11. QED
  BY <1>5, <1>8, <1>9, <1>10 DEF Writes
\* A run's outcome, written without a look at the claim: the outcome of a run
\* that kept its claim is written while it has it.
LEMMA RecordKeeps ==
  ASSUME TypeOK, TypeOK', Strengthening, NEW a \in Attempts, Record(a)
  PROVE  Global' /\ Local(a)' /\ \A b \in Attempts \ {a} : Spares(b)
<1> DEFINE x == attempt[a]
           y == attempt'[a]
           s == x.schedule
<1>1. Local(a) /\ Global /\ \A b \in Attempts : Local(b)
  BY Parts
<1>2. /\ x \in AttemptStates /\ s \in Schedules /\ row[s] \in Rows /\ row[s].exists
      /\ x.pc = "recording" /\ UNCHANGED <<clock, runs, ticker>> /\ x.run <= runs[s]
  BY <1>1 DEF Local, At, TypeOK, Record
<1>3. \A b \in Attempts \ {a} : attempt'[b] = attempt[b]
  BY DEF Record, Goto, Done, TypeOK
<1>4. \A t \in Schedules \ {s} : row'[t] = row[t]
  BY DEF Record, TypeOK
<1>5. /\ row'[s].exists /\ row'[s].token = row[s].token /\ row'[s].claimedAt = row[s].claimedAt
      /\ row'[s].nextDue = row[s].nextDue
      /\ row'[s].outcome \in {row[s].outcome, Outcome(a)}
  <2>1. CASE row' = [row EXCEPT ![s].outcome = Outcome(a)]
    BY <1>2, <2>1 DEF TypeOK, Rows
  <2>2. CASE row' = row
    BY <1>2, <2>2
  <2>3. QED
    BY <2>1, <2>2 DEF Record
<1>6. Global'
  <2>1. RowsBegin'
    BY <1>1, <1>4, <1>5 DEF Global, RowsBegin
  <2>2. \A t \in Schedules : row'[t].outcome.run <= runs'[t]
    <3>1. Outcome(a).run = x.run
      BY DEF Outcome
    <3>2. QED
      BY <1>1, <1>2, <1>4, <1>5, <3>1 DEF Global
  <2>3. QED
    BY <1>1, <1>2, <2>1, <2>2 DEF Global
<1>7. Local(a)'
  <2>1. CASE x.manual
    <3>1. y = [x EXCEPT !.pc = "releasing", !.at = 0]
      BY <2>1 DEF Record, Goto, TypeOK
    <3>2. /\ y.pc = "releasing" /\ y.schedule = s /\ y.manual = x.manual /\ y.run = x.run
          /\ y.late = x.late /\ y.limit = x.limit
      BY <1>2, <3>1 DEF AttemptStates
    <3>3. Holds(a) /\ Budget(a) = TTL /\ Budget(a)' = TTL
      BY <1>2, <2>1, <3>2 DEF Holds, Keeps, Budget, At
    <3>4. ~x.late => /\ row'[s].token = a /\ clock' <= y.limit
                     /\ y.limit <= row'[s].claimedAt + Budget(a)'
      BY <1>1, <1>2, <1>5, <3>2, <3>3 DEF Local
    <3>5. \A t \in Schedules : row'[t].token = a => t = s
      BY <1>1, <1>2, <1>4, <1>5 DEF Local, At
    <3>6. QED
      BY <1>2, <1>5, <2>1, <3>2, <3>4, <3>5 DEF Local, At
  <2>2. CASE ~x.manual
    <3>1. y = Idle
      BY <2>2 DEF Record, Done, TypeOK
    <3>2. QED
      BY <3>1, IdleLocal
  <2>3. QED
    BY <2>1, <2>2
<1>8. ASSUME NEW b \in Attempts \ {a} PROVE Spares(b)
  <2>1. \A t \in Schedules : attempt[b].schedule = t /\ InClaim(b) => row[t].token = b
    BY <1>1, <1>8 DEF Local, InClaim
  <2>2. \A t \in Schedules : runs'[t] >= runs[t]
    BY <1>2 DEF TypeOK
  <2>3. row[s].token = b => row'[s].outcome = row[s].outcome \/ ~row'[s].outcome.held
    <3>1. Outcome(a).held => Holds(a) /\ ~x.late
      BY <1>2 DEF Outcome, Holds
    <3>2. Outcome(a).held => row[s].token = a
      BY <1>1, <3>1 DEF Local
    <3>3. QED
      BY <1>5, <1>8, <3>2
  <2>4. QED
    BY <1>2, <1>3, <1>4, <1>5, <1>8, <2>1, <2>2, <2>3 DEF Spares
<1>9. QED
  BY <1>6, <1>7, <1>8

-----------------------------------------------------------------------------
(* Time, and the end of a process.                                           *)

\* As time passes, an attempt is in time or is late.
LEMMA PassKeeps ==
  ASSUME TypeOK, TypeOK', Strengthening, Pass
  PROVE  Global' /\ \A a \in Attempts : Local(a)'
<1>1. Global /\ \A a \in Attempts : Local(a)
  BY Parts
<1>2. UNCHANGED <<row, runs, ticker>> /\ clock' = clock + 1 /\ clock \in Nat
  BY DEF Pass, TypeOK
<1>3. Global'
  <2>1. \A h \in Hosts : ticker[h].now \in Nat
    BY DEF TypeOK, Tickers
  <2>2. QED
    BY <1>1, <1>2, <2>1 DEF Global, RowsBegin
<1>4. ASSUME NEW a \in Attempts PROVE Local(a)'
  <2> DEFINE x == attempt[a]
             y == attempt'[a]
             s == x.schedule
  <2>1. x \in AttemptStates /\ y = IF InTime(a) THEN x ELSE [x EXCEPT !.late = TRUE]
    BY <1>4 DEF Pass, TypeOK
  <2>2. /\ y.pc = x.pc /\ y.schedule = s /\ y.manual = x.manual /\ y.overlap = x.overlap
        /\ y.at = x.at /\ y.limit = x.limit /\ y.run = x.run
        /\ ~y.late => ~x.late /\ InTime(a)
    BY <2>1 DEF AttemptStates
  <2>3. x.at \in Nat /\ x.limit \in Nat /\ \A t \in Schedules : row[t].claimedAt \in Nat
    BY <2>1 DEF AttemptStates, TypeOK, Rows
  <2>4. /\ Keeps(a)' = Keeps(a) /\ Holds(a)' = Holds(a) /\ Budget(a)' = Budget(a)
        /\ At(a, "idle")' = At(a, "idle") /\ At(a, "asked")' = At(a, "asked")
        /\ At(a, "advancing")' = At(a, "advancing")
    BY <2>2 DEF Keeps, Holds, Budget, At
  <2>5. ~y.late /\ (Holds(a) \/ At(a, "asked")) => clock' <= y.limit
    BY <1>2, <2>2, <2>3 DEF InTime, Holds, At
  <2>6. ~At(a, "idle") /\ ~x.manual /\ row[s].token = a => row[s].claimedAt <= clock'
    BY <1>1, <1>2, <1>4, <2>3 DEF Local
  <2>7. At(a, "asked") => x.at <= clock'
    BY <1>1, <1>2, <1>4, <2>3 DEF Local
  <2>8. QED
    BY <1>1, <1>2, <1>4, <2>2, <2>4, <2>5, <2>6, <2>7 DEF Local
<1>5. QED
  BY <1>3, <1>4

\* The end of a process leaves its claims in the rows.
LEMMA ExitKeeps ==
  ASSUME TypeOK, TypeOK', Strengthening, NEW h \in Hosts, Exit(h)
  PROVE  Global' /\ \A a \in Attempts : Local(a)'
<1>1. Global /\ \A a \in Attempts : Local(a)
  BY Parts
<1>2. UNCHANGED <<row, runs, clock>>
  BY DEF Exit
<1>3. Global'
  BY <1>1, <1>2 DEF Global, RowsBegin, Exit, IdleTicker, TypeOK, Tickers
<1>4. ASSUME NEW a \in Attempts PROVE Local(a)'
  <2>1. CASE attempt[a].host = h
    BY <1>4, <2>1, IdleLocal DEF Exit
  <2>2. CASE attempt[a].host # h
    <3>1. attempt'[a] = attempt[a]
      BY <1>4, <2>2 DEF Exit
    <3>2. \A s \in Schedules : runs'[s] >= runs[s]
      BY <1>2 DEF TypeOK
    <3>3. QED
      BY <1>1, <1>2, <1>4, <3>1, <3>2, UnwrittenSpares, SparedKeepsLocal
  <2>3. QED
    BY <2>1, <2>2
<1>5. QED
  BY <1>3, <1>4
-----------------------------------------------------------------------------
(* The inductive invariant.                                                  *)

\* The strengthening holds at first.
LEMMA StrengtheningInit == Init => Strengthening
<1> SUFFICES ASSUME Init PROVE Strengthening
  OBVIOUS
<1>1. \A a \in Attempts : attempt[a] = Idle
  BY DEF Init
<1>2. \A s \in Schedules : row[s] = NoRow /\ runs[s] = 0
  BY DEF Init
<1>3. Global
  BY <1>2 DEF Init, Global, RowsBegin, NoRow, NoOutcome, IdleTicker
<1>4. \A a \in Attempts : Local(a)
  BY <1>1 DEF Local, Holds, Idle, At
<1>5. QED
  BY <1>3, <1>4, Parts

\* Parts, of the next state.
LEMMA PartsNext ==
  ASSUME Global', \A a \in Attempts : Local(a)'
  PROVE  Strengthening'
<1>1. RowsBegin' /\ TokensMatch'
  BY DEF Global, Local, TokensMatch
<1>2. ClaimsLast'
  BY DEF Local, ClaimsLast
<1>3. DueWhenClaimed'
  BY DEF Local, DueWhenClaimed
<1>4. OutcomesPast'
  BY DEF Global, Local, OutcomesPast
<1>5. QED
  BY <1>1, <1>2, <1>3, <1>4 DEF Strengthening

\* A step of one attempt that spares all others keeps the strengthening.
LEMMA StepKeeps ==
  ASSUME TypeOK, TypeOK', Strengthening, NEW a \in Attempts,
         Global', Local(a)', \A b \in Attempts \ {a} : Spares(b)
  PROVE  Strengthening'
<1>1. \A b \in Attempts \ {a} : Local(b)'
  BY Parts, SparedKeepsLocal
<1>2. \A b \in Attempts : Local(b)'
  BY <1>1
<1>3. QED
  BY <1>2, PartsNext

\* Every step keeps the strengthening.
LEMMA StrengtheningNext == Inductive /\ [Next]_vars => Strengthening'
<1> SUFFICES ASSUME TypeOK, Strengthening, [Next]_vars PROVE Strengthening'
  BY DEF Inductive
<1>1. TypeOK' /\ RowsBegin /\ TokensMatch /\ Global /\ \A a \in Attempts : Local(a)
  BY TypesNext, Parts DEF Strengthening
<1>3. ASSUME NEW a \in Attempts, Unwritten(a) PROVE Strengthening'
  <2>1. /\ UNCHANGED <<clock, row, ticker>>
        /\ \A b \in Attempts \ {a} : attempt'[b] = attempt[b]
        /\ \A s \in Schedules : runs'[s] >= runs[s]
    <3>1. \A s \in Schedules : runs[s] \in Nat
      BY DEF TypeOK
    <3>2. CASE Enter(a) \/ VMGone(a)
      BY <3>1, <3>2 DEF Enter, VMGone, Begin, TypeOK
    <3>3. CASE \E h \in Hosts, s \in Schedules : Ask(a, h, s)
      BY <3>1, <3>3 DEF Ask, TypeOK
    <3>4. CASE ClaimNow(a) /\ Done(a) /\ UNCHANGED row
      <4>1. UNCHANGED <<clock, runs, ticker, row>>
        BY <3>4 DEF ClaimNow
      <4>2. QED
        BY <3>1, <3>4, <4>1 DEF Done, TypeOK
    <3>5. CASE Dispatch(a) \/ Start(a) \/ GiveUp(a) \/ Return(a)
      BY <3>1, <3>5 DEF Dispatch, Start, GiveUp, GivenBack, Return, Done, Goto, TypeOK
    <3>6. QED
      BY <1>3, <3>2, <3>3, <3>4, <3>5 DEF Unwritten
  <2>2. \A b \in Attempts \ {a} : Spares(b)
    BY <1>1, <2>1, UnwrittenSpares
  <2>3. Global'
    <3>1. \A s \in Schedules : row[s].outcome.run \in Nat /\ runs[s] \in Nat /\ runs'[s] \in Nat
      BY <1>1 DEF TypeOK, Rows, Outcomes
    <3>2. QED
      BY <1>1, <2>1, <3>1 DEF Global, RowsBegin
  <2>4. QED
    BY <1>1, <1>3, <2>2, <2>3, UnwrittenLocal, StepKeeps
<1>4. ASSUME NEW a \in Attempts, Writes(a) \/ Record(a) PROVE Strengthening'
  BY <1>1, <1>4, WritesKeep, RecordKeeps, StepKeeps
<1>5. ASSUME SameClaims PROVE Strengthening'
  BY <1>5, SameClaimsKeep
<1>6. ASSUME NEW a \in Attempts, NEW h \in Hosts \cup {Nobody}, NEW s \in Schedules, NEW now \in Nat,
             NEW manual \in BOOLEAN, NEW overlap \in Policy, NEW late \in BOOLEAN,
             NEW requireDue \in BOOLEAN,
             Take(a, h, s, now, manual, overlap, late),
             Claimable(row[s], now, requireDue), ~manual => requireDue,
             \A t \in Schedules : row[t].token # a,
             now <= clock, ~late => clock <= now + Lag,
             UNCHANGED <<clock, runs>>, \A k \in Hosts : ticker'[k].now <= clock
      PROVE  Strengthening'
  <2>1. Local(a)' /\ \A b \in Attempts \ {a} : Spares(b)
    BY <1>1, <1>6, TakeKeeps
  <2>2. /\ row' = [row EXCEPT ![s].token = a, ![s].claimedAt = now]
        /\ row[s] \in Rows /\ row[s].exists
    BY <1>6 DEF Take, Claimable, TypeOK
  <2>3. row'[s].exists /\ row'[s].outcome = row[s].outcome
    BY <2>2 DEF TypeOK, Rows
  <2>4. \A t \in Schedules \ {s} : row'[t] = row[t]
    BY <2>2 DEF TypeOK
  <2>5. Global'
    BY <1>1, <1>6, <2>3, <2>4 DEF Global, RowsBegin
  <2>6. QED
    BY <1>1, <2>1, <2>5, StepKeeps
<1>7. ASSUME NEW h \in Hosts, NEW s \in Schedules, NEW a \in Attempts, Claim(h, s, a)
      PROVE  Strengthening'
  <2> DEFINE t == ticker[h]
             overlap == IF s \in t.allow THEN "allow" ELSE "skip"
             late == clock > t.now + Lag
  <2>1. t.now \in Nat /\ t.now <= clock /\ clock \in Nat
    BY <1>1 DEF TypeOK, Tickers, Global
  <2>2. UNCHANGED <<clock, runs>> /\ \A k \in Hosts : ticker'[k].now <= clock
    BY <1>1, <1>7, <2>1 DEF Claim, Rest, IdleTicker, TypeOK, Tickers, Global
  <2>3. \A u \in Schedules : row[u].token # a
    BY <1>7 DEF Claim, Fresh
  <2>4. CASE /\ Take(a, h, s, t.now, FALSE, overlap, late)
             /\ Claimable(row[s], t.now, TRUE)
    <3>1. overlap \in Policy /\ late \in BOOLEAN /\ (~late => clock <= t.now + Lag)
      BY <2>1, ScheduleAssumption DEF Policy
    <3> HIDE DEF overlap, late
    <3>2. QED
      BY <1>6, <2>1, <2>2, <2>3, <2>4, <3>1
  <2>5. CASE UNCHANGED <<row, attempt>>
    BY <1>1, <1>5, <2>2, <2>5 DEF SameClaims, Global, RowsBegin
  <2>6. QED
    BY <1>7, <2>4, <2>5 DEF Claim
<1>8. ASSUME NEW a \in Attempts, ClaimNow(a) PROVE Strengthening'
  <2> DEFINE x == attempt[a]
  <2>1. CASE Done(a) /\ UNCHANGED row
    BY <1>3, <1>8, <2>1 DEF Unwritten
  <2>2. CASE /\ Take(a, x.host, x.schedule, x.at, TRUE, "skip", x.late)
             /\ Claimable(row[x.schedule], x.at, FALSE)
    <3>1. x \in AttemptStates /\ At(a, "asked")
      BY <1>8 DEF ClaimNow, TypeOK
    <3>2. /\ x.schedule \in Schedules /\ x.at \in Nat /\ x.host \in Hosts \cup {Nobody}
          /\ "skip" \in Policy
      BY <1>1, <3>1 DEF AttemptStates, Local, At, Policy
    <3>3. /\ \A u \in Schedules : row[u].token # a
          /\ x.at <= clock
          /\ ~x.late => clock <= x.at + Lag
      BY <1>1, <3>1 DEF Local
    <3>4. UNCHANGED <<clock, runs>> /\ \A k \in Hosts : ticker'[k].now <= clock
      BY <1>1, <1>8 DEF ClaimNow, Global
    <3> DEFINE late == x.late
               h == x.host
               s == x.schedule
               now == x.at
    <3>5. /\ late \in BOOLEAN /\ (~late => clock <= now + Lag)
          /\ Take(a, h, s, now, TRUE, "skip", late)
          /\ Claimable(row[s], now, FALSE)
          /\ h \in Hosts \cup {Nobody} /\ s \in Schedules /\ now \in Nat /\ now <= clock
      BY <2>2, <3>1, <3>2, <3>3 DEF AttemptStates
    <3> HIDE DEF late, h, s, now
    <3>6. \A u \in Schedules : row[u].token # a
      BY <3>3
    <3>7. QED
      BY <1>6, <3>2, <3>4, <3>5, <3>6
  <2>3. QED
    BY <1>8, <2>1, <2>2 DEF ClaimNow
<1>9. ASSUME NEW h \in Hosts, Process(h) PROVE Strengthening'
  <2>1. CASE QuietStep(h)
    BY <1>1, <1>5, <2>1, QuietSteps
  <2>2. CASE Exit(h)
    BY <1>1, <2>2, ExitKeeps, PartsNext
  <2>3. ASSUME NEW a \in Attempts, NEW s \in Schedules, Ask(a, h, s) PROVE Strengthening'
    BY <1>3, <2>3 DEF Unwritten
  <2>4. QED
    BY <1>7, <1>9, <2>1, <2>2, <2>3 DEF Process, QuietStep
<1>10. ASSUME NEW a \in Attempts, Run(a) PROVE Strengthening'
  BY <1>3, <1>4, <1>8, <1>10 DEF Run, Unwritten, Writes
<1>11. ASSUME NEW u \in Operators, DeleteUser(u) PROVE Strengthening'
  BY <1>1, <1>5, <1>11, DeleteUserKeepsClaims
<1>12. CASE Pass
  BY <1>1, <1>12, PassKeeps, PartsNext
<1>13. CASE UNCHANGED vars
  BY <1>1, <1>5, <1>13 DEF vars, SameClaims, Global, RowsBegin
<1>14. QED
  BY <1>9, <1>10, <1>11, <1>12, <1>13 DEF Next

\* For every number of processes, schedules and runs, whatever stalls and fails:
\* the types, and all the invariants of the claims.
THEOREM ScheduleInductive == Spec => []Inductive
<1>1. Init => Inductive
  BY TypesInit, StrengtheningInit DEF Inductive
<1>2. Inductive /\ [Next]_vars => Inductive'
  BY TypesNext, StrengtheningNext DEF Inductive, Strengthening
<1>3. QED
  BY <1>1, <1>2, PTL DEF Spec

-----------------------------------------------------------------------------
(* What follows from it.                                                     *)

\* TypeOK holds in every state.
THEOREM ScheduleTypes == Spec => []TypeOK
BY ScheduleInductive, PTL DEF Inductive

\* The runs of a schedule that keep their claim exclude each other, in one process
\* and across processes, as long as they are in time.
THEOREM ScheduleHeldAlone == Spec => []HeldAlone
<1>1. Inductive => HeldAlone
  BY DEF Inductive, Strengthening, ClaimsLast, HeldAlone
<1>2. QED
  BY <1>1, ScheduleInductive, PTL

\* A ticked run in time works on an occurrence that is due, under its own token.
THEOREM ScheduleHeldOccurrence == Spec => []HeldOccurrence
<1>1. Inductive => HeldOccurrence
  <2> SUFFICES ASSUME Inductive, NEW a \in Attempts,
                      Holds(a), ~attempt[a].manual, ~attempt[a].late
               PROVE  LET r == row[attempt[a].schedule] IN r.token = a /\ r.nextDue <= r.claimedAt
    BY DEF HeldOccurrence
  <2>1. row[attempt[a].schedule].token = a
    BY DEF Inductive, Strengthening, ClaimsLast
  <2>2. ~At(a, "idle")
    BY DEF Holds, At
  <2>3. QED
    BY <2>1, <2>2 DEF Inductive, Strengthening, DueWhenClaimed
<1>2. QED
  BY <1>1, ScheduleInductive, PTL
\* What a step does to a row, for the two action properties: it leaves the due
\* time and the outcome alone, or it is a write of an attempt.
LEMMA RowSteps ==
  ASSUME Inductive, TypeOK', [Next]_vars, NEW s \in Schedules
  PROVE  \/ /\ row'[s].nextDue >= row[s].nextDue
            /\ row'[s].outcome = row[s].outcome
         \/ \E a \in Attempts : (Writes(a) \/ Record(a)) /\ attempt[a].schedule = s
<1> DEFINE Same == /\ row'[s].nextDue >= row[s].nextDue
                   /\ row'[s].outcome = row[s].outcome
<1>1. /\ TypeOK /\ RowsBegin /\ TokensMatch
      /\ row[s].nextDue \in Nat /\ row'[s].nextDue \in Nat /\ row[s] \in Rows
  BY DEF Inductive, Strengthening, TypeOK, Rows
<1>2. ASSUME SameClaims PROVE Same
  BY <1>1, <1>2 DEF SameClaims, RowsBegin, NoRow
<1>3. ASSUME row' = row PROVE Same
  BY <1>1, <1>3
<1>4. ASSUME NEW a \in Attempts, NEW t \in Schedules, NEW now \in Nat,
             row' = [row EXCEPT ![t].token = a, ![t].claimedAt = now]
      PROVE  Same
  <2>1. row'[s] = IF s = t THEN [row[s] EXCEPT !.token = a, !.claimedAt = now] ELSE row[s]
    BY <1>1, <1>4 DEF TypeOK
  <2>2. QED
    BY <1>1, <2>1 DEF Rows
<1>5. ASSUME NEW a \in Attempts, Writes(a) \/ Record(a), attempt[a].schedule # s PROVE Same
  <2>1. row'[s] = row[s]
    BY <1>1, <1>5 DEF Writes, Record, Advance, Complete, Release, IfHeld, TypeOK
  <2>2. QED
    BY <1>1, <2>1
<1>6. ASSUME NEW a \in Attempts, Run(a), ~Writes(a), ~Record(a) PROVE Same
  <2>1. CASE ClaimNow(a)
    <3>1. attempt[a].schedule \in Schedules /\ attempt[a].at \in Nat
      BY <1>1, <2>1 DEF ClaimNow, At, TokensMatch, TypeOK, AttemptStates
    <3>2. QED
      BY <1>3, <1>4, <2>1, <3>1 DEF ClaimNow, Take
  <2>2. CASE ~ClaimNow(a)
    <3>1. row' = row
      BY <1>6, <2>2 DEF Run, Writes, Dispatch, Start, GiveUp, Enter, VMGone, Return
    <3>2. QED
      BY <1>3, <3>1
  <2>3. QED
    BY <2>1, <2>2
<1>7. ASSUME NEW h \in Hosts, Process(h) PROVE Same
  <2>1. CASE QuietStep(h)
    BY <1>1, <1>2, <2>1, QuietSteps
  <2>2. CASE Exit(h) \/ \E a \in Attempts, t \in Schedules : Ask(a, h, t)
    BY <1>3, <2>2 DEF Exit, Ask
  <2>3. ASSUME NEW a \in Attempts, NEW t \in Schedules, Claim(h, t, a) PROVE Same
    <3>1. ticker[h].now \in Nat
      BY <1>1 DEF TypeOK, Tickers
    <3>2. QED
      BY <1>3, <1>4, <2>3, <3>1 DEF Claim, Take
  <2>4. QED
    BY <1>7, <2>1, <2>2, <2>3 DEF Process, QuietStep
<1>8. ASSUME NEW u \in Operators, DeleteUser(u) PROVE Same
  BY <1>1, <1>2, <1>8, DeleteUserKeepsClaims
<1>9. CASE Pass \/ UNCHANGED vars
  BY <1>3, <1>9 DEF Pass, vars
<1>10. QED
  BY <1>5, <1>6, <1>7, <1>8, <1>9 DEF Next

\* The next due time of a schedule never goes back.
THEOREM ScheduleDueNeverRegresses == Spec => DueNeverRegresses
<1> USE ScheduleAssumption
<1>1. ASSUME Inductive, TypeOK', [Next]_vars, NEW s \in Schedules
      PROVE  row'[s].nextDue >= row[s].nextDue
  <2>1. ASSUME NEW a \in Attempts, Writes(a) \/ Record(a), attempt[a].schedule = s
        PROVE  row'[s].nextDue >= row[s].nextDue
    <3> DEFINE r == row[s]
               x == attempt[a]
    <3>1. /\ r \in Rows /\ r.nextDue \in Nat /\ r.claimedAt \in Nat /\ x.at \in Nat
          /\ Unclaimed(r) \in Rows /\ Unclaimed(r).nextDue = r.nextDue
      <4>1. r \in Rows /\ x \in AttemptStates
        BY <1>1, <2>1 DEF Inductive, TypeOK
      <4>2. Unclaimed(r) \in Rows /\ Unclaimed(r).nextDue = r.nextDue
        BY <4>1 DEF Rows, Unclaimed
      <4>3. r.nextDue \in Nat /\ r.claimedAt \in Nat /\ x.at \in Nat
        BY <4>1 DEF Rows, AttemptStates
      <4>4. QED
        BY <4>1, <4>2, <4>3
    <3>2. ASSUME NEW w \in Rows, IfHeld(a, w), r.token = a => w.nextDue >= r.nextDue
          PROVE  row'[s].nextDue >= r.nextDue
      <4>1. CASE row' = [row EXCEPT ![s] = IF r.token = a THEN w ELSE r]
        BY <1>1, <3>1, <3>2, <4>1 DEF Inductive, TypeOK
      <4>2. CASE row' = row
        BY <3>1, <4>2
      <4>3. QED
        BY <2>1, <3>2, <4>1, <4>2 DEF IfHeld
    <3>3. CASE Record(a)
      <4>1. CASE row' = [row EXCEPT ![s].outcome = Outcome(a)]
        BY <1>1, <3>1, <4>1 DEF Inductive, TypeOK, Rows
      <4>2. CASE row' = row
        BY <3>1, <4>2
      <4>3. QED
        BY <2>1, <3>3, <4>1, <4>2 DEF Record
    <3>4. CASE Advance(a) \/ Complete(a)
      <4>1. r.token = a => x.at + Every >= r.nextDue
        <5>1. ~x.manual /\ ~At(a, "idle") /\ x.pc \in {"advancing", "recording"}
          BY <1>1, <3>4 DEF Advance, Complete, At, Inductive, Strengthening, TokensMatch, Keeps
        <5>2. r.token = a => r.nextDue <= r.claimedAt /\ r.claimedAt <= x.at
          BY <1>1, <2>1, <5>1 DEF Inductive, Strengthening, DueWhenClaimed
        <5>3. QED
          BY <3>1, <5>2
      <4> DEFINE u == [Unclaimed(r) EXCEPT !.nextDue = x.at + Every]
                 v == [Unclaimed(r) EXCEPT !.nextDue = x.at + Every, !.outcome = Outcome(a)]
      <4>2. Outcome(a) \in Outcomes /\ x.at + Every \in Nat
        BY <1>1, <3>1, <3>4, WrittenTypes
           DEF Advance, Complete, At, Inductive, Strengthening
      <4>3. /\ u \in Rows /\ u.nextDue = x.at + Every
            /\ v \in Rows /\ v.nextDue = x.at + Every
        BY <3>1, <4>2 DEF Rows
      <4>4. IfHeld(a, u) \/ IfHeld(a, v)
        BY <2>1, <3>4 DEF Advance, Complete
      <4> HIDE DEF u, v
      <4>5. QED
        BY <3>2, <4>1, <4>3, <4>4
    <3>5. CASE Release(a)
      BY <2>1, <3>1, <3>2, <3>5 DEF Release
    <3>6. QED
      BY <2>1, <3>3, <3>4, <3>5 DEF Writes
  <2>2. QED
    BY <1>1, <2>1, RowSteps
<1>2. Inductive /\ TypeOK' /\ [Next]_vars =>
        [\A s \in Schedules : row'[s].nextDue >= row[s].nextDue]_vars
  BY <1>1
<1>3. QED
  BY <1>2, ScheduleInductive, ScheduleTypes, PTL DEF Spec, DueNeverRegresses

\* Of the runs that keep their claim, an older one never overwrites the outcome of
\* a newer one.
THEOREM ScheduleHeldOutcomesInOrder == Spec => HeldOutcomesInOrder
<1> DEFINE InOrder(s) == row'[s].outcome.held /\ row[s].outcome.held =>
                           row'[s].outcome.run >= row[s].outcome.run
<1>1. ASSUME Inductive, TypeOK', [Next]_vars, NEW s \in Schedules
      PROVE  InOrder(s)
  <2>1. row[s].outcome.run \in Nat /\ row[s] \in Rows
    BY <1>1 DEF Inductive, TypeOK, Rows, Outcomes
  <2>2. ASSUME NEW a \in Attempts, Writes(a) \/ Record(a), attempt[a].schedule = s
        PROVE  InOrder(s)
    <3>1. CASE row'[s].outcome = row[s].outcome
      BY <2>1, <3>1
    <3>2. CASE row'[s].outcome = Outcome(a) /\ At(a, "recording")
      <4>1. Outcome(a).held => Keeps(a) /\ ~attempt[a].late
        BY DEF Outcome
      <4>2. Outcome(a).run = attempt[a].run /\ attempt[a].run \in Nat
        BY <1>1, <2>2 DEF Outcome, Inductive, TypeOK, AttemptStates
      <4>3. Keeps(a) /\ ~attempt[a].late /\ row[s].outcome.held => row[s].outcome.run <= attempt[a].run
        BY <1>1, <2>2, <3>2 DEF Inductive, Strengthening, OutcomesPast, At
      <4>4. QED
        BY <2>1, <3>2, <4>1, <4>2, <4>3
    <3>3. \/ row'[s].outcome = row[s].outcome
          \/ row'[s].outcome = Outcome(a) /\ At(a, "recording")
      <4> DEFINE u == Unclaimed(row[s])
      <4>1. u \in Rows /\ u.outcome = row[s].outcome
        BY <2>1 DEF Rows, Unclaimed
      <4>2. ASSUME NEW w, IfHeld(a, w)
            PROVE  row'[s] = w \/ row'[s] = row[s]
        <5>1. CASE row' = [row EXCEPT ![s] = IF row[s].token = a THEN w ELSE row[s]]
          BY <1>1, <5>1 DEF Inductive, TypeOK
        <5>2. CASE row' = row
          BY <5>2
        <5>3. QED
          BY <2>2, <4>2, <5>1, <5>2 DEF IfHeld
      <4>3. CASE Advance(a)
        <5> DEFINE w == [u EXCEPT !.nextDue = attempt[a].at + Every]
        <5>1. w.outcome = row[s].outcome
          BY <4>1 DEF Rows
        <5>2. IfHeld(a, w)
          BY <2>2, <4>3 DEF Advance
        <5> HIDE DEF w
        <5>3. QED
          BY <4>2, <5>1, <5>2
      <4>4. CASE Complete(a)
        <5> DEFINE w == [u EXCEPT !.nextDue = attempt[a].at + Every, !.outcome = Outcome(a)]
        <5>1. w.outcome = Outcome(a)
          BY <4>1 DEF Rows
        <5>2. IfHeld(a, w) /\ At(a, "recording")
          BY <2>2, <4>4 DEF Complete
        <5> HIDE DEF w
        <5>3. QED
          BY <4>2, <5>1, <5>2
      <4>5. CASE Release(a)
        BY <2>2, <4>1, <4>2, <4>5 DEF Release
      <4>6. CASE Record(a)
        <5>1. CASE row' = [row EXCEPT ![s].outcome = Outcome(a)]
          BY <1>1, <2>1, <4>6, <5>1 DEF Record, Inductive, TypeOK, Rows
        <5>2. CASE row' = row
          BY <5>2
        <5>3. QED
          BY <2>2, <4>6, <5>1, <5>2 DEF Record
      <4>7. QED
        BY <2>2, <4>3, <4>4, <4>5, <4>6 DEF Writes
    <3>4. QED
      BY <3>1, <3>2, <3>3
  <2>3. CASE row'[s].outcome = row[s].outcome
    BY <2>1, <2>3
  <2>4. QED
    BY <1>1, <2>2, <2>3, RowSteps
<1>2. Inductive /\ TypeOK' /\ [Next]_vars =>
        [\A s \in Schedules : row'[s].outcome.held /\ row[s].outcome.held =>
           row'[s].outcome.run >= row[s].outcome.run]_vars
  BY <1>1
<1>3. QED
  BY <1>2, ScheduleInductive, ScheduleTypes, PTL DEF Spec, HeldOutcomesInOrder
=============================================================================
