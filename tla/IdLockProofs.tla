---------------------------- MODULE IdLockProofs ----------------------------
(* Proofs about IdLock: mutual exclusion per id, and the balance of the      *)
(* references and tokens it is built on.                                     *)
EXTENDS IdLock, FiniteSetTheorems, TLAPS

-----------------------------------------------------------------------------
(* Types.                                                                    *)

LEMMA TypesInit == Init => TypeOK
BY DEF Init, TypeOK, Idle, Calls, Pcs, AllKinds

\* What dropRef leaves well typed: a state in use has a reference to drop.
LEMMA DropRefTypes ==
  ASSUME TypeOK, NEW i \in Ids, NEW s \in States, refs[s] # 0, dropRef(i, s)
  PROVE  locks' \in [Ids -> States \cup {None}] /\ refs' \in [States -> Nat]
<1>1. refs[s] - 1 \in Nat
  BY DEF TypeOK
<1>2. QED
  BY <1>1 DEF TypeOK, dropRef

\* A goroutine that points at a state is one of its users, so it is counted.
LEMMA UserCounted ==
  ASSUME TypeOK, RefsCounted, NEW p \in Procs, NEW s \in States, Refers(p), proc[p].state = s
  PROVE  refs[s] # 0
<1>1. p \in Users(s) /\ IsFiniteSet(Users(s))
  BY FS_Subset, LockAssumption DEF Users
<1>2. QED
  BY <1>1, FS_EmptySet DEF RefsCounted

LEMMA TypesNext == TypeOK /\ Shared /\ [Next]_vars => TypeOK'
<1> SUFFICES ASSUME TypeOK, Shared, [Next]_vars PROVE TypeOK'
  OBVIOUS
<1> USE LockAssumption DEF TypeOK, Finish, At
<1>0. Idle \in Calls /\ \A p \in Procs : proc[p] \in Calls
  BY DEF Idle, Calls, Pcs, AllKinds
<1>13. ASSUME NEW p \in Procs, NEW pc \in Pcs, Goto(p, pc) PROVE proc' \in [Procs -> Calls]
  BY <1>0, <1>13 DEF Goto, Calls
<1>1. ASSUME NEW p \in Procs, NEW i \in Ids, NEW kind \in Kinds, NEW runs \in BOOLEAN,
             Call(p, i, kind, runs)
      PROVE  TypeOK'
  BY <1>0, <1>1 DEF Call, Idle, Calls, Pcs
<1>2. ASSUME NEW p \in Procs, Expire(p) PROVE TypeOK'
  <2>1. [proc[p] EXCEPT !.expired = TRUE] \in Calls
    BY <1>0 DEF Calls
  <2>2. QED
    BY <1>2, <2>1 DEF Expire
<1>3. ASSUME NEW p \in Procs, Check(p) \/ GiveUpToken(p) \/ TakeToken(p) PROVE TypeOK'
  BY <1>0, <1>3, <1>13 DEF Check, GiveUpToken, TakeToken, Pcs
<1>4. ASSUME NEW p \in Procs, Recheck(p) \/ DropToken(p) PROVE TypeOK'
  BY <1>0, <1>4, <1>13 DEF Recheck, DropToken, releaseGlobalToken, Pcs
<1>5. ASSUME NEW p \in Procs, TakeRef(p) PROVE TypeOK'
  <2>1. proc[p].id \in Ids
    BY <1>5 DEF TakeRef, Shared, Pointers
  <2>2. PICK s \in States :
          /\ locks' = [locks EXCEPT ![proc[p].id] = s]
          /\ refs' = [refs EXCEPT ![s] = refs[s] + 1]
          /\ proc' = [proc EXCEPT ![p].pc = "enter", ![p].state = s]
    BY <1>5, <2>1 DEF TakeRef
  <2>3. [proc[p] EXCEPT !.pc = "enter", !.state = s] \in Calls
    BY <1>0 DEF Calls, Pcs
  <2>4. proc' \in [Procs -> Calls]
    BY <2>2, <2>3
  <2>5. locks' \in [Ids -> States \cup {None}] /\ refs' \in [States -> Nat]
    <3>1. s \in States \cup {None} /\ refs[s] + 1 \in Nat
      OBVIOUS
    <3>2. locks' \in [Ids -> States \cup {None}]
      BY <2>2, <3>1
    <3>3. QED
      BY <2>2, <3>1, <3>2
  <2>6. QED
    BY <1>5, <2>4, <2>5 DEF TakeRef
<1>6. ASSUME NEW p \in Procs, Begin(p)
      PROVE  proc' \in [Procs -> Calls] /\ fn' \in [Procs -> {"none", "running", "returned"}]
  BY <1>6, <1>13 DEF Begin, Pcs
<1>7. ASSUME NEW p \in Procs, Enter(p) \/ Confirm(p) PROVE TypeOK'
  <2>1. UNCHANGED <<locks, refs, tokens>> /\ full' \in [States -> BOOLEAN]
    BY <1>7 DEF Enter, Confirm
  <2>2. proc' \in [Procs -> Calls] /\ fn' \in [Procs -> {"none", "running", "returned"}]
    BY <1>6, <1>7, <1>13 DEF Enter, Confirm, Pcs
  <2>3. QED
    BY <2>1, <2>2
<1>8. ASSUME NEW p \in Procs, Undo(p) \/ GiveUpEnter(p) \/ RunTimeout(p) \/ FnReturns(p)
      PROVE  TypeOK'
  <2>1. CASE Undo(p)
    BY <1>13, <2>1 DEF Undo, Pcs
  <2>2. CASE GiveUpEnter(p) \/ RunTimeout(p)
    BY <1>13, <2>2 DEF GiveUpEnter, RunTimeout, Pcs
  <2>3. CASE FnReturns(p)
    BY <2>3 DEF FnReturns
  <2>4. QED
    BY <1>8, <2>1, <2>2, <2>3
<1>9. ASSUME NEW p \in Procs, DropRef(p) PROVE TypeOK'
  <2>1. /\ proc[p].id \in Ids /\ proc[p].state \in States /\ Refers(p)
    BY <1>0, <1>9 DEF DropRef, Shared, Pointers, Refers, Calls
  <2>2. QED
    BY <1>0, <1>9, <2>1, UserCounted, DropRefTypes DEF DropRef, Shared, Calls, Pcs
<1>10. ASSUME NEW p \in Procs, Release(p) PROVE TypeOK'
  <2>1. /\ proc[p].id \in Ids /\ proc[p].state \in States /\ Refers(p)
        /\ locks[proc[p].id] = proc[p].state
    BY <1>0, <1>10 DEF Release, MayRelease, Shared, Pointers, OneStatePerId, Refers, Calls
  <2>2. refs[proc[p].state] # 0
    BY <2>1, UserCounted DEF Shared
  <2>3. locks' \in [Ids -> States \cup {None}] /\ refs' \in [States -> Nat]
    BY <1>10, <2>1, <2>2, DropRefTypes DEF Release
  <2>4. [proc[p] EXCEPT !.pc = "untoken", !.state = None] \in Calls
    BY <1>0 DEF Calls, Pcs
  <2>5. /\ proc' \in [Procs -> Calls] /\ full' \in [States -> BOOLEAN] /\ UNCHANGED tokens
        /\ fn' \in [Procs -> {"none", "running", "returned"}]
    BY <1>0, <1>10, <2>4 DEF Release
  <2>6. QED
    BY <2>3, <2>5
<1>11. CASE UNCHANGED vars
  BY <1>11 DEF vars
<1>12. QED
  BY <1>1, <1>2, <1>3, <1>4, <1>5, <1>6, <1>7, <1>8, <1>9, <1>10, <1>11, <1>7 DEF Next, Proceed
-----------------------------------------------------------------------------
(* fn.                                                                       *)

LEMMA FnMatchesNext == TypeOK /\ FnMatches /\ [Next]_vars => FnMatches'
<1> SUFFICES ASSUME TypeOK, FnMatches, [Next]_vars PROVE FnMatches'
  OBVIOUS
<1> USE DEF TypeOK, FnMatches, Goto, Finish, At, Idle, Calls
<1>1. ASSUME NEW p \in Procs, NEW i \in Ids, NEW kind \in Kinds, NEW runs \in BOOLEAN,
             Call(p, i, kind, runs)
      PROVE  FnMatches'
  BY <1>1 DEF Call
<1>2. ASSUME NEW p \in Procs, Begin(p), proc[p].pc \in {"enter", "confirm"} PROVE FnMatches'
  BY <1>2 DEF Begin
<1>3. ASSUME NEW p \in Procs, Enter(p) \/ Confirm(p) PROVE FnMatches'
  BY <1>2, <1>3 DEF Enter, Confirm
<1>4. ASSUME NEW p \in Procs, UNCHANGED fn, \A q \in Procs \ {p} : proc'[q] = proc[q],
             proc[p].pc \in {"running", "overrun"} <=> proc'[p].pc \in {"running", "overrun"}
      PROVE  FnMatches'
  BY <1>4
<1>5. ASSUME NEW p \in Procs, Expire(p) \/ Check(p) \/ GiveUpToken(p) \/ Recheck(p) \/ DropToken(p)
      PROVE  FnMatches'
  BY <1>4, <1>5 DEF Expire, Check, GiveUpToken, Recheck, DropToken
<1>6. ASSUME NEW p \in Procs, TakeToken(p) \/ Undo(p) \/ GiveUpEnter(p) \/ RunTimeout(p)
      PROVE  FnMatches'
  BY <1>4, <1>6 DEF TakeToken, Undo, GiveUpEnter, RunTimeout
<1>7. ASSUME NEW p \in Procs, TakeRef(p) \/ DropRef(p) PROVE FnMatches'
  <2>1. /\ UNCHANGED fn /\ \A q \in Procs \ {p} : proc'[q] = proc[q]
        /\ proc[p].pc \in {"ref", "unref"} /\ proc'[p].pc \in {"enter", "untoken"}
    BY <1>7 DEF TakeRef, DropRef
  <2>2. QED
    BY <1>4, <2>1
<1>8. ASSUME NEW p \in Procs, FnReturns(p) PROVE FnMatches'
  BY <1>8 DEF FnReturns
<1>9. ASSUME NEW p \in Procs, Release(p) PROVE FnMatches'
  <2>1. /\ fn' = [fn EXCEPT ![p] = "none"] /\ \A q \in Procs \ {p} : proc'[q] = proc[q]
        /\ proc'[p].pc \in {"idle", "untoken"}
    BY <1>9 DEF Release
  <2>2. QED
    BY <2>1
<1>10. CASE UNCHANGED vars
  BY <1>10 DEF vars
<1>11. QED
  BY <1>1, <1>3, <1>5, <1>6, <1>7, <1>8, <1>9, <1>10 DEF Next, Proceed

-----------------------------------------------------------------------------
(* References, pointers and channels.                                        *)

\* A step that touches no state, and after which the goroutine uses what it did.
Quiet(p) ==
  /\ UNCHANGED <<locks, refs, full>>
  /\ \A q \in Procs \ {p} : proc'[q] = proc[q]
  /\ Refers(p)' <=> Refers(p)
  /\ Entered(p)' <=> Entered(p)
  /\ proc'[p].state = proc[p].state
  /\ Refers(p) => proc'[p].id = proc[p].id
  /\ proc'[p].pc # "idle" => proc'[p].id \in Ids

LEMMA QuietKeepsShared ==
  ASSUME Shared, NEW p \in Procs, Quiet(p)
  PROVE  Shared'
<1> USE DEF Shared, Quiet
<1>1. \A q \in Procs : /\ Refers(q)' <=> Refers(q)
                       /\ Entered(q)' <=> Entered(q)
                       /\ proc'[q].state = proc[q].state
                       /\ Refers(q) => proc'[q].id = proc[q].id
                       /\ proc'[q].pc # "idle" => proc'[q].id \in Ids
  BY DEF Refers, Entered, Pointers, At
<1>2. \A s \in States : Users(s)' = Users(s)
  BY <1>1 DEF Users
<1>3. RefsCounted' /\ Channels'
  <2>1. RefsCounted'
    BY <1>2 DEF RefsCounted
  <2>2. \A s \in States : full'[s] <=> \E q \in Users(s)' : Entered(q)'
    BY <1>1, <1>2 DEF Channels, Users
  <2>3. \A q, r \in Procs :
          Entered(q)' /\ Entered(r)' /\ proc'[q].state = proc'[r].state => q = r
    BY <1>1 DEF Channels
  <2>4. QED
    BY <2>1, <2>2, <2>3 DEF Channels
<1>4. Pointers'
  BY <1>1 DEF Pointers, At
<1>5. OneStatePerId'
  BY <1>1 DEF OneStatePerId
<1>6. QED
  BY <1>3, <1>4, <1>5

\* The steps that are quiet: all but the ones on the map and on a channel.
LEMMA QuietSteps ==
  ASSUME TypeOK, Pointers, NEW p \in Procs,
         \/ \E i \in Ids, kind \in Kinds, runs \in BOOLEAN : Call(p, i, kind, runs)
         \/ Expire(p) \/ Check(p) \/ TakeToken(p) \/ GiveUpToken(p) \/ Recheck(p)
         \/ Confirm(p) \/ GiveUpEnter(p) \/ DropToken(p) \/ FnReturns(p) \/ RunTimeout(p)
  PROVE  Quiet(p)
<1> USE DEF TypeOK, Goto, Finish, At, Idle, Calls, Refers, Entered, Quiet
<1>0. proc[p] \in Calls /\ (proc[p].pc # "idle" => proc[p].id \in Ids)
  BY DEF Pointers
<1>1. CASE \E i \in Ids, kind \in Kinds, runs \in BOOLEAN : Call(p, i, kind, runs)
  <2>1. PICK i \in Ids, kind \in Kinds, runs \in BOOLEAN : Call(p, i, kind, runs)
    BY <1>1
  <2>2. proc[p].state = None
    BY <2>1 DEF Call, Pointers
  <2>3. QED
    BY <2>1, <2>2 DEF Call
<1>2. CASE Expire(p)
  BY <1>0, <1>2 DEF Expire
<1>3. CASE Check(p) \/ GiveUpToken(p) \/ Recheck(p) \/ DropToken(p)
  <2>1. ~Refers(p) /\ proc[p].state = None
    BY <1>3 DEF Check, GiveUpToken, Recheck, DropToken, Pointers
  <2>2. QED
    BY <1>0, <1>3, <2>1 DEF Check, GiveUpToken, Recheck, DropToken
<1>4. CASE TakeToken(p)
  BY <1>0, <1>4 DEF TakeToken
<1>5. CASE Confirm(p)
  BY <1>0, <1>5 DEF Confirm, Begin
<1>6. CASE GiveUpEnter(p) \/ RunTimeout(p)
  BY <1>0, <1>6 DEF GiveUpEnter, RunTimeout
<1>7. CASE FnReturns(p)
  BY <1>0, <1>7 DEF FnReturns
<1>8. QED
  BY <1>1, <1>2, <1>3, <1>4, <1>5, <1>6, <1>7

\* What a goroutine with a pointer points at is the entry of its id.
LEMMA PointerFacts ==
  ASSUME TypeOK, Shared, NEW p \in Procs, Refers(p)
  PROVE  /\ proc[p].state \in States /\ proc[p].id \in Ids
         /\ locks[proc[p].id] = proc[p].state
         /\ p \in Users(proc[p].state)
BY DEF TypeOK, Shared, Pointers, OneStatePerId, Refers, At, Calls, Users

LEMMA UsersFinite == \A s : IsFiniteSet(Users(s))
BY FS_Subset, LockAssumption DEF Users

\* A send or a receive of the goroutine p on the channel of its state.
LEMMA ChannelKeepsShared ==
  ASSUME TypeOK, Shared, NEW p \in Procs,
         Refers(p), Refers(p)', proc'[p].state = proc[p].state, proc'[p].id = proc[p].id,
         Entered(p)' <=> ~Entered(p),
         full[proc[p].state] <=> Entered(p),
         full' = [full EXCEPT ![proc[p].state] = ~Entered(p)],
         \A q \in Procs \ {p} : proc'[q] = proc[q],
         UNCHANGED <<locks, refs>>
  PROVE  Shared'
<1> DEFINE s == proc[p].state
<1>0. s \in States /\ proc[p].id \in Ids /\ p \in Users(s)
  BY PointerFacts
<1>1. \A q \in Procs : /\ Refers(q)' <=> Refers(q)
                       /\ q # p => (Entered(q)' <=> Entered(q))
                       /\ proc'[q].state = proc[q].state
                       /\ proc'[q].id = proc[q].id
  BY DEF Refers, Entered
<1>2. \A x \in States : Users(x)' = Users(x)
  BY <1>1 DEF Users
<1>3. RefsCounted'
  BY <1>2 DEF Shared, RefsCounted
<1>4. \A q \in Users(s) \ {p} : ~Entered(q)
  BY <1>0 DEF Shared, Channels, Users
<1>5. \A x \in States : full'[x] <=> \E q \in Users(x)' : Entered(q)'
  <2>1. ASSUME NEW x \in States, x # s PROVE full'[x] <=> \E q \in Users(x)' : Entered(q)'
    <3>1. full'[x] = full[x] /\ p \notin Users(x)
      BY <2>1 DEF TypeOK, Users
    <3>2. QED
      BY <1>1, <1>2, <3>1 DEF Shared, Channels, Users
  <2>2. full'[s] <=> \E q \in Users(s)' : Entered(q)'
    <3>1. full'[s] <=> ~Entered(p)
      BY <1>0 DEF TypeOK
    <3>2. (\E q \in Users(s) : Entered(q)') <=> Entered(p)'
      BY <1>0, <1>1, <1>4 DEF Users
    <3>3. QED
      BY <1>0, <1>2, <3>1, <3>2
  <2>3. QED
    BY <2>1, <2>2
<1>6. \A q, r \in Procs :
        Entered(q)' /\ Entered(r)' /\ proc'[q].state = proc'[r].state => q = r
  <2>1. \A q \in Procs \ {p} : Entered(q)' /\ proc'[q].state = s => FALSE
    BY <1>1, <1>4 DEF Users, Entered, Refers
  <2>2. QED
    BY <1>1, <2>1 DEF Shared, Channels
<1>7. Pointers' /\ OneStatePerId'
  <2>1. OneStatePerId'
    BY <1>1 DEF Shared, OneStatePerId
  <2>2. \A q \in Procs : (proc'[q].pc = "idle") <=> (proc[q].pc = "idle")
    BY DEF Refers
  <2>3. Pointers'
    BY <1>1, <2>2 DEF Shared, Pointers, At
  <2>4. QED
    BY <2>1, <2>3
<1>8. QED
  BY <1>3, <1>5, <1>6, <1>7 DEF Shared, Channels

\* A reference is taken on the map's entry or on a state that nobody points at.
LEMMA TakeRefKeepsShared ==
  ASSUME TypeOK, Shared, NEW p \in Procs, TakeRef(p)
  PROVE  Shared'
<1> DEFINE i == proc[p].id
<1>0. i \in Ids /\ proc[p] \in Calls /\ ~Refers(p) /\ ~Entered(p) /\ proc[p].state = None
  BY DEF TakeRef, TypeOK, Shared, Pointers, At, Refers, Entered
<1>1. PICK s \in IF locks[i] # None THEN {locks[i]} ELSE States \ Reachable :
        /\ locks' = [locks EXCEPT ![i] = s]
        /\ refs' = [refs EXCEPT ![s] = refs[s] + 1]
        /\ proc' = [proc EXCEPT ![p].pc = "enter", ![p].state = s]
        /\ UNCHANGED full
  BY DEF TakeRef
<1>2. s \in States
  BY <1>0, <1>1 DEF TypeOK
<1>3. /\ \A q \in Procs \ {p} : proc'[q] = proc[q]
      /\ proc'[p].pc = "enter" /\ proc'[p].state = s /\ proc'[p].id = i
  BY <1>0, <1>1 DEF TypeOK, Calls
<1>4. \A k \in Ids \ {i} : locks'[k] = locks[k] /\ locks[k] # s
  BY <1>0, <1>1, <1>2, NoneAssumption DEF TypeOK, Shared, Pointers, Reachable
<1>5. locks'[i] = s
  BY <1>0, <1>1 DEF TypeOK
<1>6. /\ \A q \in Procs \ {p} : (Refers(q)' <=> Refers(q)) /\ (Entered(q)' <=> Entered(q))
      /\ Refers(p)' /\ ~Entered(p)'
  BY <1>3 DEF Refers, Entered
<1>7. \A x \in States \ {s} : Users(x)' = Users(x)
  BY <1>0, <1>3, <1>6 DEF Users
<1>8. Users(s)' = Users(s) \cup {p} /\ p \notin Users(s)
  BY <1>0, <1>3, <1>6 DEF Users
<1>9. RefsCounted'
  <2>1. Cardinality(Users(s)') = Cardinality(Users(s)) + 1
    BY <1>8, FS_AddElement, UsersFinite
  <2>2. ASSUME NEW x \in States PROVE refs'[x] = Cardinality(Users(x)')
    BY <1>1, <1>2, <1>7, <2>1 DEF TypeOK, Shared, RefsCounted
  <2>3. QED
    BY <2>2 DEF RefsCounted
<1>10. Channels'
  <2>1. \A x \in States : full'[x] <=> \E q \in Users(x)' : Entered(q)'
    <3>1. \A q \in Procs : Entered(q)' <=> Entered(q)
      BY <1>0, <1>6
    <3>2. \A x \in States : Users(x) \subseteq Procs
      BY DEF Users
    <3>3. \A x \in States : full[x] <=> \E q \in Users(x) : Entered(q)
      BY DEF Shared, Channels
    <3>4. ~Entered(p) /\ UNCHANGED full
      BY <1>0, <1>1
    <3>5. QED
      BY <1>7, <1>8, <3>1, <3>2, <3>3, <3>4
  <2>2. \A q, r \in Procs :
          Entered(q)' /\ Entered(r)' /\ proc'[q].state = proc'[r].state => q = r
    BY <1>3, <1>6 DEF Shared, Channels
  <2>3. QED
    BY <2>1, <2>2 DEF Channels
<1>11. Pointers'
  <2>1. \A q \in Procs : proc'[q].state = None <=> ~Refers(q)'
    BY <1>2, <1>3, <1>6, NoneAssumption DEF Shared, Pointers
  <2>2. \A q \in Procs : proc'[q].pc # "idle" => proc'[q].id \in Ids
    BY <1>0, <1>3 DEF Shared, Pointers, At
  <2>3. \A k, m \in Ids : locks'[k] = locks'[m] /\ locks'[k] # None => k = m
    BY <1>4, <1>5 DEF Shared, Pointers
  <2>4. QED
    BY <2>1, <2>2, <2>3 DEF Pointers, At
<1>12. OneStatePerId'
  <2>1. \A q \in Procs : Refers(q)' => locks'[proc'[q].id] = proc'[q].state
    <3>1. ASSUME NEW q \in Procs \ {p}, Refers(q), proc[q].id = i PROVE proc[q].state = s
      BY <1>0, <1>1, <3>1, PointerFacts, NoneAssumption DEF TypeOK
    <3>2. QED
      BY <1>3, <1>4, <1>5, <1>6, <3>1, PointerFacts
  <2>2. \A k \in Ids : locks'[k] # None => \E q \in Procs : Refers(q)' /\ proc'[q].id = k
    <3>1. ASSUME NEW k \in Ids \ {i}, locks'[k] # None
          PROVE  \E q \in Procs : Refers(q)' /\ proc'[q].id = k
      <4>1. PICK q \in Procs : Refers(q) /\ proc[q].id = k
        BY <1>4, <3>1 DEF Shared, OneStatePerId
      <4>2. q # p
        BY <1>0, <4>1
      <4>3. QED
        BY <1>3, <1>6, <4>1, <4>2
    <3>2. QED
      BY <1>3, <1>6, <3>1
  <2>3. QED
    BY <2>1, <2>2 DEF OneStatePerId
<1>13. QED
  BY <1>9, <1>10, <1>11, <1>12 DEF Shared

\* A goroutine leaves its state, taking its element along if it had entered.  It
\* deletes the entry of its id if it was the last user, and only then.
LEMMA LeaveKeepsShared ==
  ASSUME TypeOK, Shared, NEW p \in Procs, Refers(p),
         dropRef(proc[p].id, proc[p].state),
         full' = IF Entered(p) THEN [full EXCEPT ![proc[p].state] = FALSE] ELSE full,
         proc' = [proc EXCEPT ![p].pc = "untoken", ![p].state = None]
  PROVE  Shared'
<1> PICK s \in States, i \in Ids : s = proc[p].state /\ i = proc[p].id
  BY PointerFacts
<1>0. /\ proc[p] \in Calls /\ proc[p].state = s /\ proc[p].id = i
      /\ locks[i] = s /\ p \in Users(s)
      /\ dropRef(i, s)
      /\ full' = IF Entered(p) THEN [full EXCEPT ![s] = FALSE] ELSE full
  BY PointerFacts DEF TypeOK
<1>1. /\ \A q \in Procs \ {p} : proc'[q] = proc[q]
      /\ proc'[p].pc = "untoken" /\ proc'[p].state = None /\ proc'[p].id = i
  BY <1>0 DEF TypeOK, Calls
<1>2. /\ \A q \in Procs \ {p} : (Refers(q)' <=> Refers(q)) /\ (Entered(q)' <=> Entered(q))
      /\ ~Refers(p)' /\ ~Entered(p)'
  BY <1>1 DEF Refers, Entered
<1>3. /\ \A x \in States \ {s} : Users(x)' = Users(x)
      /\ Users(s)' = Users(s) \ {p}
  BY <1>0, <1>1, <1>2, NoneAssumption DEF Users
<1>4. RefsCounted'
  <2>1. refs[s] = Cardinality(Users(s)) /\ refs' = [refs EXCEPT ![s] = refs[s] - 1]
    BY <1>0 DEF Shared, RefsCounted, dropRef
  <2>2. Cardinality(Users(s)') = Cardinality(Users(s)) - 1
    BY <1>0, <1>3, FS_RemoveElement, UsersFinite
  <2>3. ASSUME NEW x \in States PROVE refs'[x] = Cardinality(Users(x)')
    BY <1>0, <1>3, <2>1, <2>2 DEF TypeOK, Shared, RefsCounted
  <2>4. QED
    BY <2>3 DEF RefsCounted
<1>5. Channels'
  <2>1. \A x \in States : Users(x) \subseteq Procs
    BY DEF Users
  <2>2. \A x \in States : full[x] <=> \E q \in Users(x) : Entered(q)
    BY DEF Shared, Channels
  <2>3. ASSUME NEW x \in States \ {s} PROVE full'[x] <=> \E q \in Users(x)' : Entered(q)'
    <3>1. full'[x] = full[x] /\ p \notin Users(x)
      BY <1>0, <2>3 DEF TypeOK, Users
    <3>2. QED
      BY <1>2, <1>3, <2>1, <2>2, <3>1
  <2>4. full'[s] <=> \E q \in Users(s)' : Entered(q)'
    <3>1. CASE Entered(p)
      <4>1. ~full'[s]
        BY <1>0, <3>1 DEF TypeOK
      <4>2. \A q \in Users(s) \ {p} : ~Entered(q)
        BY <3>1 DEF Shared, Channels, Users
      <4>3. QED
        BY <1>0, <1>2, <1>3, <2>1, <4>1, <4>2
    <3>2. CASE ~Entered(p)
      BY <1>0, <1>2, <1>3, <2>1, <2>2, <3>2
    <3>3. QED
      BY <3>1, <3>2
  <2>5. \A q, r \in Procs :
          Entered(q)' /\ Entered(r)' /\ proc'[q].state = proc'[r].state => q = r
    BY <1>1, <1>2 DEF Shared, Channels
  <2>6. QED
    BY <2>3, <2>4, <2>5 DEF Channels
\* The entry is deleted exactly when nobody else uses the state.
<1>6. refs[s] = 1 <=> Users(s) = {p}
  <2>1. refs[s] = Cardinality(Users(s))
    BY <1>0 DEF Shared, RefsCounted
  <2>2. Cardinality({p}) = 1
    BY FS_Singleton
  <2>3. Cardinality(Users(s)) = 1 => \E x : Users(s) = {x}
    BY FS_Singleton, UsersFinite
  <2>4. QED
    BY <1>0, <2>1, <2>2, <2>3
<1>7. \A k \in Ids : locks'[k] = IF k = i /\ Users(s) = {p} THEN None ELSE locks[k]
  BY <1>0, <1>6 DEF TypeOK, dropRef
<1>8. Pointers'
  <2>1. \A q \in Procs : proc'[q].state = None <=> ~Refers(q)'
    BY <1>1, <1>2 DEF Shared, Pointers
  <2>2. \A q \in Procs : proc'[q].pc # "idle" => proc'[q].id \in Ids
    BY <1>0, <1>1 DEF Shared, Pointers, At
  <2>3. \A k, m \in Ids : locks'[k] = locks'[m] /\ locks'[k] # None => k = m
    BY <1>7 DEF Shared, Pointers
  <2>4. QED
    BY <2>1, <2>2, <2>3 DEF Pointers, At
<1>9. OneStatePerId'
  <2>1. ASSUME NEW q \in Procs, Refers(q)' PROVE locks'[proc'[q].id] = proc'[q].state
    <3>1. q # p /\ Refers(q) /\ proc'[q] = proc[q]
      BY <1>1, <1>2, <2>1
    <3>2. locks[proc[q].id] = proc[q].state /\ proc[q].id \in Ids /\ q \in Users(proc[q].state)
      BY <3>1, PointerFacts
    <3>3. ~(proc[q].id = i /\ Users(s) = {p})
      BY <1>0, <3>1, <3>2
    <3>4. QED
      BY <1>7, <3>1, <3>2, <3>3
  <2>2. ASSUME NEW k \in Ids, locks'[k] # None
        PROVE  \E q \in Procs : Refers(q)' /\ proc'[q].id = k
    <3>1. CASE k = i
      <4>1. PICK q \in Users(s) : q # p
        BY <1>0, <1>7, <2>2, <3>1
      <4>2. Refers(q) /\ q \in Procs /\ proc[q].state = s
        BY <4>1 DEF Users
      <4>3. proc[q].id = i
        BY <1>0, <4>2, PointerFacts, NoneAssumption DEF Shared, Pointers
      <4>4. QED
        BY <1>1, <1>2, <3>1, <4>1, <4>2, <4>3
    <3>2. CASE k # i
      <4>1. locks[k] # None
        BY <1>7, <2>2, <3>2
      <4>2. PICK q \in Procs : Refers(q) /\ proc[q].id = k
        BY <4>1 DEF Shared, OneStatePerId
      <4>3. QED
        BY <1>1, <1>2, <3>2, <4>2
    <3>3. QED
      BY <3>1, <3>2
  <2>3. QED
    BY <2>1, <2>2 DEF OneStatePerId
<1>10. QED
  BY <1>4, <1>5, <1>8, <1>9 DEF Shared

LEMMA SharedNext == TypeOK /\ Shared /\ [Next]_vars => Shared'
<1> SUFFICES ASSUME TypeOK, Shared, [Next]_vars PROVE Shared'
  OBVIOUS
<1> USE DEF At, Goto
<1>0. Pointers
  BY DEF Shared
<1>1. ASSUME NEW p \in Procs,
             \/ \E i \in Ids, kind \in Kinds, runs \in BOOLEAN : Call(p, i, kind, runs)
             \/ Expire(p) \/ Check(p) \/ TakeToken(p) \/ GiveUpToken(p) \/ Recheck(p)
             \/ Confirm(p) \/ GiveUpEnter(p) \/ DropToken(p) \/ FnReturns(p) \/ RunTimeout(p)
      PROVE  Shared'
  BY <1>0, <1>1, QuietSteps, QuietKeepsShared
<1>2. ASSUME NEW p \in Procs, Enter(p) PROVE Shared'
  <2>1. /\ proc[p].pc = "enter" /\ ~full[proc[p].state]
        /\ full' = [full EXCEPT ![proc[p].state] = TRUE]
        /\ UNCHANGED <<locks, refs>>
    BY <1>2 DEF Enter
  <2>2. /\ \A q \in Procs \ {p} : proc'[q] = proc[q]
        /\ proc'[p].pc \in {"confirm", "holding", "running"}
        /\ proc'[p].state = proc[p].state /\ proc'[p].id = proc[p].id
    BY <1>2 DEF Enter, Begin, TypeOK, Calls
  <2>3. Refers(p) /\ Refers(p)' /\ ~Entered(p) /\ Entered(p)'
    BY <2>1, <2>2 DEF Refers, Entered
  <2>4. full' = [full EXCEPT ![proc[p].state] = ~Entered(p)]
    BY <2>1, <2>3
  <2>5. QED
    BY <2>1, <2>2, <2>3, <2>4, ChannelKeepsShared
<1>3. ASSUME NEW p \in Procs, Undo(p) PROVE Shared'
  <2>1. /\ proc[p].pc = "undo" /\ full[proc[p].state]
        /\ full' = [full EXCEPT ![proc[p].state] = FALSE]
        /\ UNCHANGED <<locks, refs>>
    BY <1>3 DEF Undo
  <2>2. /\ \A q \in Procs \ {p} : proc'[q] = proc[q]
        /\ proc'[p].pc = "unref"
        /\ proc'[p].state = proc[p].state /\ proc'[p].id = proc[p].id
    BY <1>3 DEF Undo, TypeOK, Calls
  <2>3. Refers(p) /\ Refers(p)' /\ Entered(p) /\ ~Entered(p)'
    BY <2>1, <2>2 DEF Refers, Entered
  <2>4. full' = [full EXCEPT ![proc[p].state] = ~Entered(p)]
    BY <2>1, <2>3
  <2>5. QED
    BY <2>1, <2>2, <2>3, <2>4, ChannelKeepsShared
<1>4. ASSUME NEW p \in Procs, TakeRef(p) PROVE Shared'
  BY <1>4, TakeRefKeepsShared
<1>5. ASSUME NEW p \in Procs, DropRef(p) PROVE Shared'
  <2>1. Refers(p) /\ ~Entered(p)
    BY <1>5 DEF DropRef, Refers, Entered
  <2>2. QED
    BY <1>5, <2>1, LeaveKeepsShared DEF DropRef
\* A caller that releases finds its own state under its id, and its element in it.
<1>6. ASSUME NEW p \in Procs, Release(p) PROVE Shared'
  <2>1. Refers(p) /\ Entered(p)
    BY <1>6 DEF Release, MayRelease, Refers, Entered
  <2>2. locks[proc[p].id] = proc[p].state /\ proc[p].state # None /\ full[proc[p].state]
    BY <2>1, PointerFacts, NoneAssumption DEF Shared, Channels
  <2>3. /\ dropRef(proc[p].id, proc[p].state)
        /\ full' = [full EXCEPT ![proc[p].state] = FALSE]
        /\ proc' = [proc EXCEPT ![p].pc = "untoken", ![p].state = None]
    BY <1>6, <2>2 DEF Release
  <2>4. QED
    BY <2>1, <2>3, LeaveKeepsShared
<1>7. CASE UNCHANGED vars
  BY <1>7 DEF vars, Shared, RefsCounted, Pointers, Channels, OneStatePerId, Users, Refers, Entered
<1>8. QED
  BY <1>1, <1>2, <1>3, <1>4, <1>5, <1>6, <1>7 DEF Next, Proceed

-----------------------------------------------------------------------------
(* Tokens.                                                                   *)

TokenHolders == {p \in Procs : HoldsToken(p)}

\* A goroutine that starts or stops holding a token changes their number by one.
LEMMA TokenHoldersCount ==
  ASSUME NEW p \in Procs, \A q \in Procs \ {p} : HoldsToken(q)' <=> HoldsToken(q)
  PROVE  /\ (HoldsToken(p)' <=> HoldsToken(p)) => TokenHolders' = TokenHolders
         /\ HoldsToken(p)' /\ ~HoldsToken(p) =>
              Cardinality(TokenHolders') = Cardinality(TokenHolders) + 1
         /\ ~HoldsToken(p)' /\ HoldsToken(p) =>
              Cardinality(TokenHolders') = Cardinality(TokenHolders) - 1
<1>1. IsFiniteSet(TokenHolders) /\ Cardinality(TokenHolders) \in Nat
  BY FS_Subset, FS_CardinalityType, LockAssumption DEF TokenHolders
<1>2. CASE HoldsToken(p)' <=> HoldsToken(p)
  BY <1>2 DEF TokenHolders
<1>3. CASE HoldsToken(p)' /\ ~HoldsToken(p)
  <2>1. TokenHolders' = TokenHolders \cup {p} /\ p \notin TokenHolders
    BY <1>3 DEF TokenHolders
  <2>2. Cardinality(TokenHolders \cup {p}) = Cardinality(TokenHolders) + 1
    BY <1>1, <2>1, FS_AddElement
  <2>3. QED
    BY <1>3, <2>1, <2>2
<1>4. CASE ~HoldsToken(p)' /\ HoldsToken(p)
  <2>1. TokenHolders' = TokenHolders \ {p} /\ p \in TokenHolders
    BY <1>4 DEF TokenHolders
  <2>2. Cardinality(TokenHolders \ {p}) = Cardinality(TokenHolders) - 1
    BY <1>1, <2>1, FS_RemoveElement
  <2>3. QED
    BY <1>4, <2>1, <2>2
<1>5. QED
  BY <1>2, <1>3, <1>4

LEMMA TokenTaken ==
  ASSUME TokensBalance, NEW p \in Procs, \A q \in Procs \ {p} : HoldsToken(q)' <=> HoldsToken(q),
         \/ (HoldsToken(p)' <=> HoldsToken(p)) /\ tokens' = tokens
         \/ HoldsToken(p)' /\ ~HoldsToken(p) /\ tokens' = tokens + 1
         \/ ~HoldsToken(p)' /\ HoldsToken(p) /\ tokens' = tokens - 1
  PROVE  TokensBalance'
BY TokenHoldersCount DEF TokensBalance, TokenHolders

\* A receive never finds globalTokens empty while its caller's own token is in it.
LEMMA TokenThere ==
  ASSUME TypeOK, TokensBalance, NEW p \in Procs, HoldsToken(p)
  PROVE  tokens > 0
<1>1. IsFiniteSet(TokenHolders) /\ p \in TokenHolders
  BY FS_Subset, LockAssumption DEF TokenHolders
<1>2. Cardinality(TokenHolders) # 0
  BY <1>1, FS_EmptySet
<1>3. QED
  BY <1>2 DEF TokensBalance, TokenHolders, TypeOK

LEMMA TokensBalanceNext ==
  TypeOK /\ Shared /\ TokensBalance /\ [Next]_vars => TokensBalance'
<1> SUFFICES ASSUME TypeOK, Shared, TokensBalance, [Next]_vars PROVE TokensBalance'
  OBVIOUS
<1> USE DEF TypeOK, Calls, At, HoldsToken, Refers
<1>1. ASSUME NEW p \in Procs, UNCHANGED tokens, \A q \in Procs \ {p} : proc'[q] = proc[q],
             HoldsToken(p)' <=> HoldsToken(p)
      PROVE  TokensBalance'
  BY <1>1, TokenTaken
<1>2. ASSUME NEW p \in Procs, NEW i \in Ids, NEW kind \in Kinds, NEW runs \in BOOLEAN,
             Call(p, i, kind, runs)
      PROVE  TokensBalance'
  BY <1>1, <1>2 DEF Call, Idle
<1>3. ASSUME NEW p \in Procs, Expire(p) \/ Check(p) \/ GiveUpToken(p) PROVE TokensBalance'
  BY <1>1, <1>3 DEF Expire, Check, GiveUpToken, Goto, Finish, Idle
<1>4. ASSUME NEW p \in Procs, TakeToken(p) PROVE TokensBalance'
  <2>1. /\ \A q \in Procs \ {p} : proc'[q] = proc[q]
        /\ proc'[p].pc \in {"recheck", "ref"} /\ proc[p].pc = "token"
        /\ tokens' = IF MaxParallel > 0 THEN tokens + 1 ELSE tokens
    BY <1>4 DEF TakeToken, Goto
  <2>2. QED
    BY <2>1, TokenTaken
<1>5. ASSUME NEW p \in Procs, proc[p].pc \in {"recheck", "untoken"},
             IF MaxParallel > 0 THEN releaseGlobalToken ELSE UNCHANGED tokens, Finish(p)
      PROVE  TokensBalance'
  <2>1. /\ \A q \in Procs \ {p} : proc'[q] = proc[q]
        /\ proc'[p].pc = "idle"
    BY <1>5 DEF Finish, Idle
  <2>2. CASE MaxParallel > 0
    <3>1. HoldsToken(p) /\ ~HoldsToken(p)'
      BY <1>5, <2>1, <2>2
    <3>2. tokens > 0
      BY <3>1, TokenThere
    <3>3. tokens' = tokens - 1
      BY <1>5, <2>2, <3>2 DEF releaseGlobalToken
    <3>4. QED
      BY <2>1, <3>1, <3>3, TokenTaken
  <2>3. CASE ~(MaxParallel > 0)
    BY <1>1, <1>5, <2>1, <2>3
  <2>4. QED
    BY <2>2, <2>3
<1>6. ASSUME NEW p \in Procs, Recheck(p) \/ DropToken(p) PROVE TokensBalance'
  <2>1. CASE DropToken(p)
    BY <1>5, <2>1 DEF DropToken
  <2>2. CASE Recheck(p) /\ proc[p].expired
    <3>1. CASE MaxParallel > 0
      BY <1>5, <2>2, <3>1 DEF Recheck
    <3>2. CASE ~(MaxParallel > 0)
      <4>1. TokenHolders = {}
        BY <3>2 DEF TokenHolders
      <4>2. tokens = 0
        BY <4>1, FS_EmptySet DEF TokensBalance, TokenHolders
      <4>3. UNCHANGED tokens
        BY <2>2, <4>2 DEF Recheck, releaseGlobalToken
      <4>4. QED
        BY <1>5, <2>2, <3>2, <4>3 DEF Recheck
    <3>3. QED
      BY <3>1, <3>2
  <2>3. CASE Recheck(p) /\ ~proc[p].expired
    BY <1>1, <2>3 DEF Recheck, Goto
  <2>4. QED
    BY <1>6, <2>1, <2>2, <2>3
<1>7. ASSUME NEW p \in Procs, TakeRef(p) PROVE TokensBalance'
  BY <1>1, <1>7 DEF TakeRef
<1>8. ASSUME NEW p \in Procs, Enter(p) \/ Confirm(p) PROVE TokensBalance'
  BY <1>1, <1>8 DEF Enter, Confirm, Begin, Goto
<1>9. ASSUME NEW p \in Procs, Undo(p) \/ GiveUpEnter(p) \/ DropRef(p) PROVE TokensBalance'
  BY <1>1, <1>9 DEF Undo, GiveUpEnter, DropRef, Goto
<1>10. ASSUME NEW p \in Procs, FnReturns(p) \/ RunTimeout(p) PROVE TokensBalance'
  BY <1>1, <1>10 DEF FnReturns, RunTimeout, Goto
\* A release that finds nothing under its id would leave with the token.
<1>11. ASSUME NEW p \in Procs, Release(p) PROVE TokensBalance'
  <2>1. locks[proc[p].id] # None /\ full[locks[proc[p].id]]
    <3>1. Refers(p) /\ Entered(p)
      BY <1>11 DEF Release, MayRelease, Entered
    <3>2. QED
      BY <3>1, PointerFacts, NoneAssumption DEF Shared, Channels
  <2>2. QED
    BY <1>1, <1>11, <2>1 DEF Release, MayRelease
<1>12. CASE UNCHANGED vars
  BY <1>12 DEF vars, TokensBalance
<1>13. QED
  BY <1>2, <1>3, <1>4, <1>6, <1>7, <1>8, <1>9, <1>10, <1>11, <1>12 DEF Next, Proceed

\* The channel of tokens never holds more than its capacity.
LEMMA TokensBoundedNext == TypeOK /\ TokensBounded /\ [Next]_vars => TokensBounded'
<1> SUFFICES ASSUME TypeOK, TokensBounded, [Next]_vars PROVE TokensBounded'
  OBVIOUS
<1>1. tokens' = tokens \/ (tokens > 0 /\ tokens' = tokens - 1)
        \/ (MaxParallel > 0 /\ tokens < MaxParallel /\ tokens' = tokens + 1)
  BY DEF Next, Proceed, Call, Expire, Check, TakeToken, GiveUpToken, Recheck, TakeRef, Enter,
         Confirm, Undo, GiveUpEnter, DropRef, DropToken, FnReturns, RunTimeout, Release,
         releaseGlobalToken, vars
<1>2. QED
  BY <1>1, LockAssumption DEF TokensBounded, TypeOK

-----------------------------------------------------------------------------
(* The inductive invariant and the theorems.                                 *)

LEMMA InitInductive == Init => Inductive
<1> SUFFICES ASSUME Init PROVE Inductive
  OBVIOUS
<1>1. \A p \in Procs : proc[p] = Idle
  BY DEF Init
<1>2. \A p \in Procs : ~Refers(p) /\ ~Entered(p) /\ ~HoldsToken(p)
  BY <1>1 DEF Idle, Refers, Entered, HoldsToken
<1>3. RefsCounted
  <2>1. \A s \in States : Users(s) = {}
    BY <1>2 DEF Users
  <2>2. QED
    BY <2>1, FS_EmptySet DEF RefsCounted, Init
<1>4. Pointers /\ OneStatePerId
  BY <1>1, <1>2 DEF Pointers, OneStatePerId, Init, Idle, At
<1>5. Channels
  BY <1>2 DEF Channels, Init, Users
<1>6. TokensBalance
  <2>1. {p \in Procs : HoldsToken(p)} = {}
    BY <1>2
  <2>2. QED
    BY <2>1, FS_EmptySet DEF TokensBalance, Init
<1>7. FnMatches /\ TokensBounded
  BY <1>1, LockAssumption DEF FnMatches, TokensBounded, Init, Idle
<1>8. QED
  BY <1>3, <1>4, <1>5, <1>6, <1>7, TypesInit DEF Inductive, Shared

LEMMA NextInductive == Inductive /\ [Next]_vars => Inductive'
<1> SUFFICES ASSUME Inductive, [Next]_vars PROVE Inductive'
  OBVIOUS
<1>1. TypeOK'
  BY TypesNext DEF Inductive
<1>2. Shared'
  BY SharedNext DEF Inductive
<1>3. FnMatches'
  BY FnMatchesNext DEF Inductive
<1>4. TokensBalance' /\ TokensBounded'
  BY TokensBalanceNext, TokensBoundedNext DEF Inductive
<1>5. QED
  BY <1>1, <1>2, <1>3, <1>4 DEF Inductive

\* The inductive invariant holds in every state: what a goroutine took it still
\* has to give back, for any number of goroutines, ids and tokens.
THEOREM AlwaysInductive == Spec => []Inductive
BY InitInductive, NextInductive, PTL DEF Spec

\* Every variable keeps its type; in particular no reference count of idlock
\* goes below zero and no goroutine uses a lock state it has given up.
THEOREM Types == Spec => []TypeOK
BY AlwaysInductive, PTL DEF Inductive

\* Acquire, AcquireContext and Release never let two goroutines hold one id.
THEOREM HoldersExclude == Spec => []MutualExclusion
<1>1. Inductive => MutualExclusion
  <2> SUFFICES ASSUME Inductive, NEW p \in Procs, NEW q \in Procs, Holding(p), Holding(q),
                      proc[p].id = proc[q].id
               PROVE  p = q
    BY DEF MutualExclusion
  <2>1. Refers(p) /\ Entered(p) /\ Refers(q) /\ Entered(q)
    BY DEF Holding, Refers, Entered
  <2>2. proc[p].state = proc[q].state
    BY <2>1, PointerFacts DEF Inductive
  <2>3. QED
    BY <2>1, <2>2 DEF Inductive, Shared, Channels
<1>2. QED
  BY <1>1, AlwaysInductive, PTL

\* dropRef deletes the entry of an id exactly when the last user of it leaves.
THEOREM StatesStayUnique == Spec => []OneStatePerId
BY AlwaysInductive, PTL DEF Inductive, Shared

\* RunWithLockTimeout returns only after the function it has spawned.
THEOREM FunctionsRunUnderLock == Spec => []RunsUnderLock
<1>1. Inductive => RunsUnderLock
  BY DEF Inductive, FnMatches, RunsUnderLock, Holding
<1>2. QED
  BY <1>1, AlwaysInductive, PTL

\* Every way out of the lock returns the token it took, and only that one.
THEOREM TokensReturn == Spec => []TokensBalance
BY AlwaysInductive, PTL DEF Inductive

\* The global limit bounds the holders of all ids together.
THEOREM LimitHolds == Spec => []GlobalLimit
<1>1. Inductive => GlobalLimit
  <2> SUFFICES ASSUME Inductive, MaxParallel > 0
               PROVE  Cardinality({p \in Procs : Holding(p)}) <= MaxParallel
    BY DEF GlobalLimit
  <2>1. {p \in Procs : Holding(p)} \subseteq TokenHolders
    BY DEF Holding, TokenHolders, HoldsToken, Refers
  <2>2. IsFiniteSet(TokenHolders)
    BY FS_Subset, LockAssumption DEF TokenHolders
  <2>3. /\ Cardinality({p \in Procs : Holding(p)}) <= Cardinality(TokenHolders)
        /\ Cardinality({p \in Procs : Holding(p)}) \in Nat
    BY <2>1, <2>2, FS_Subset, FS_CardinalityType
  <2>4. Cardinality(TokenHolders) <= MaxParallel
    BY DEF Inductive, TokensBalance, TokensBounded, TokenHolders
  <2>5. QED
    BY <2>2, <2>3, <2>4, LockAssumption, FS_CardinalityType
<1>2. QED
  BY <1>1, AlwaysInductive, PTL
=============================================================================
