------------------------------- MODULE IdLock -------------------------------
(* The per-id lock of src/idlock: a map from ids to lock states that are     *)
(* created by the first goroutine that needs one and deleted by the last,    *)
(* beside a global limit.  One step is one channel operation or one critical *)
(* section of Lock.mu.                                                       *)
EXTENDS Naturals, FiniteSets

CONSTANTS
  Procs,        \* goroutines that use the lock
  Ids,          \* the ids they lock
  States,       \* idLockState allocations; a free one stands for a fresh one
  Kinds,        \* the ways of acquiring in use, a subset of AllKinds
  MaxParallel   \* capacity of globalTokens, 0 when there is no limit

\* Acquire; AcquireContext, also with a positive timeout; a zero timeout.
AllKinds == {"block", "context", "try"}

ASSUME LockAssumption ==
  /\ IsFiniteSet(Procs)
  /\ Kinds \subseteq AllKinds
  /\ MaxParallel \in Nat

None == "none"

ASSUME NoneAssumption == None \notin States /\ None \notin Ids

VARIABLES
  locks,    \* [Ids -> States \cup {None}], the map
  refs,     \* [States -> Nat], idLockState.refs
  full,     \* [States -> BOOLEAN], whether idLockState.ch holds its element
  tokens,   \* Nat, elements in globalTokens
  proc,     \* [Procs -> the goroutine's call]
  fn        \* [Procs -> the goroutine RunWithLockTimeout spawned]

vars == <<locks, refs, full, tokens, proc, fn>>

Idle == [pc |-> "idle", id |-> None, kind |-> "block", runs |-> FALSE,
         expired |-> FALSE, state |-> None]

Init ==
  /\ locks = [i \in Ids |-> None]
  /\ refs = [s \in States |-> 0]
  /\ full = [s \in States |-> FALSE]
  /\ tokens = 0
  /\ proc = [p \in Procs |-> Idle]
  /\ fn = [p \in Procs |-> "none"]

-----------------------------------------------------------------------------
At(p, pc) == proc[p].pc = pc

\* The goroutine has a pointer to a lock state.
Refers(p) ==
  proc[p].pc \in {"enter", "confirm", "undo", "unref", "holding", "running", "overrun"}

\* The goroutine's element is in the channel of its lock state.
Entered(p) == proc[p].pc \in {"confirm", "undo", "holding", "running", "overrun"}

\* The goroutine's element is in globalTokens.
HoldsToken(p) ==
  MaxParallel > 0 /\ (Refers(p) \/ proc[p].pc \in {"recheck", "ref", "untoken"})

Reachable == {locks[i] : i \in Ids} \cup {proc[p].state : p \in Procs}

Goto(p, pc) == proc' = [proc EXCEPT ![p].pc = pc]

\* The goroutine's call is over.
Finish(p) == proc' = [proc EXCEPT ![p] = Idle]

\* releaseGlobalToken: a receive that gives up when the channel is empty.
releaseGlobalToken == tokens' = IF tokens > 0 THEN tokens - 1 ELSE tokens

\* Mutants of dropRef, not the code: the entry is deleted by whoever leaves, and
\* by nobody.
DropAndDelete(i, s) ==
  /\ refs' = [refs EXCEPT ![s] = refs[s] - 1]
  /\ locks' = [locks EXCEPT ![i] = None]

DropAndKeep(i, s) ==
  /\ refs' = [refs EXCEPT ![s] = refs[s] - 1]
  /\ UNCHANGED locks

\* The end of a use of state s under mu: the last one out deletes the entry.
dropRef(i, s) ==
  /\ refs' = [refs EXCEPT ![s] = refs[s] - 1]
  /\ locks' = IF refs[s] = 1 THEN [locks EXCEPT ![i] = None] ELSE locks

-----------------------------------------------------------------------------
(* Acquiring.                                                                *)

\* A call of Acquire, AcquireContext, AcquireWithTimeout or, when runs is set,
\* of RunWithLockTimeout, which only acquires with a timeout.
Call(p, i, kind, runs) ==
  /\ At(p, "idle")
  /\ runs => kind # "block"
  /\ proc' = [proc EXCEPT ![p] = [Idle EXCEPT !.id = i, !.kind = kind, !.runs = runs,
                                    !.pc = IF kind = "context" THEN "check" ELSE "token"]]
  /\ UNCHANGED <<locks, refs, full, tokens, fn>>

\* A context is cancelled or passes its deadline.
Expire(p) ==
  /\ proc[p].kind = "context"
  /\ proc[p].pc \in {"check", "token", "recheck", "ref", "enter", "confirm"}
  /\ ~proc[p].expired
  /\ proc' = [proc EXCEPT ![p].expired = TRUE]
  /\ UNCHANGED <<locks, refs, full, tokens, fn>>

\* The initial check of AcquireContext.
Check(p) ==
  /\ At(p, "check")
  /\ IF proc[p].expired THEN Finish(p) ELSE Goto(p, "token")
  /\ UNCHANGED <<locks, refs, full, tokens, fn>>

\* Mutant of TakeToken: a try that finds no token goes on without one.
TakeTokenOrNot(p) ==
  /\ At(p, "token")
  /\ MaxParallel > 0 => tokens < MaxParallel \/ proc[p].kind = "try"
  /\ tokens' = IF MaxParallel > 0 /\ tokens < MaxParallel THEN tokens + 1 ELSE tokens
  /\ Goto(p, IF MaxParallel > 0 /\ proc[p].kind = "context" THEN "recheck" ELSE "ref")
  /\ UNCHANGED <<locks, refs, full, fn>>

\* The send to globalTokens; only AcquireContext looks at its context again.
TakeToken(p) ==
  /\ At(p, "token")
  /\ MaxParallel > 0 => tokens < MaxParallel
  /\ tokens' = IF MaxParallel > 0 THEN tokens + 1 ELSE tokens
  /\ Goto(p, IF MaxParallel > 0 /\ proc[p].kind = "context" THEN "recheck" ELSE "ref")
  /\ UNCHANGED <<locks, refs, full, fn>>

\* The other arm of that select: the context is done, or a try finds no token.
GiveUpToken(p) ==
  /\ At(p, "token")
  /\ MaxParallel > 0
  /\ proc[p].expired \/ (proc[p].kind = "try" /\ tokens = MaxParallel)
  /\ Finish(p)
  /\ UNCHANGED <<locks, refs, full, tokens, fn>>

\* Mutant of Recheck: giving up at this point keeps the token.
RecheckKeepsToken(p) ==
  /\ At(p, "recheck")
  /\ IF proc[p].expired THEN Finish(p) ELSE Goto(p, "ref")
  /\ UNCHANGED <<locks, refs, full, tokens, fn>>

Recheck(p) ==
  /\ At(p, "recheck")
  /\ IF proc[p].expired THEN releaseGlobalToken /\ Finish(p)
     ELSE Goto(p, "ref") /\ UNCHANGED tokens
  /\ UNCHANGED <<locks, refs, full, fn>>

\* Get or create the state and count the reference, under mu.
TakeRef(p) ==
  LET i == proc[p].id IN
  /\ At(p, "ref")
  /\ \E s \in IF locks[i] # None THEN {locks[i]} ELSE States \ Reachable :
       /\ locks' = [locks EXCEPT ![i] = s]
       /\ refs' = [refs EXCEPT ![s] = refs[s] + 1]
       /\ proc' = [proc EXCEPT ![p].pc = "enter", ![p].state = s]
  /\ UNCHANGED <<full, tokens, fn>>

\* The lock is held: RunWithLockTimeout spawns the goroutine that runs fn.
Begin(p) ==
  /\ Goto(p, IF proc[p].runs THEN "running" ELSE "holding")
  /\ fn' = IF proc[p].runs THEN [fn EXCEPT ![p] = "running"] ELSE fn

\* The send to the state's channel.
Enter(p) ==
  LET s == proc[p].state IN
  /\ At(p, "enter")
  /\ ~full[s]
  /\ full' = [full EXCEPT ![s] = TRUE]
  /\ IF proc[p].kind = "context" THEN Goto(p, "confirm") /\ UNCHANGED fn ELSE Begin(p)
  /\ UNCHANGED <<locks, refs, tokens>>

\* AcquireContext looks at its context once more after the send.
Confirm(p) ==
  /\ At(p, "confirm")
  /\ IF proc[p].expired THEN Goto(p, "undo") /\ UNCHANGED fn ELSE Begin(p)
  /\ UNCHANGED <<locks, refs, full, tokens>>

\* Mutant of Undo: the element stays in the channel.
UndoNothing(p) ==
  /\ At(p, "undo")
  /\ Goto(p, "unref")
  /\ UNCHANGED <<locks, refs, full, tokens, fn>>

\* It takes the element back before it drops the reference.
Undo(p) ==
  LET s == proc[p].state IN
  /\ At(p, "undo")
  /\ full[s]
  /\ full' = [full EXCEPT ![s] = FALSE]
  /\ Goto(p, "unref")
  /\ UNCHANGED <<locks, refs, tokens, fn>>

\* Mutants of GiveUpEnter: the reference is dropped twice, and never.
GiveUpTwice(p) ==
  /\ At(p, "enter")
  /\ proc[p].expired \/ (proc[p].kind = "try" /\ full[proc[p].state])
  /\ dropRef(proc[p].id, proc[p].state)
  /\ Goto(p, "unref")
  /\ UNCHANGED <<full, tokens, fn>>

GiveUpKeepsRef(p) ==
  /\ At(p, "enter")
  /\ proc[p].expired \/ (proc[p].kind = "try" /\ full[proc[p].state])
  /\ proc' = [proc EXCEPT ![p].pc = "untoken", ![p].state = None]
  /\ UNCHANGED <<locks, refs, full, tokens, fn>>

\* The other arm of the send's select.
GiveUpEnter(p) ==
  /\ At(p, "enter")
  /\ proc[p].expired \/ (proc[p].kind = "try" /\ full[proc[p].state])
  /\ Goto(p, "unref")
  /\ UNCHANGED <<locks, refs, full, tokens, fn>>

DropRef(p) ==
  /\ At(p, "unref")
  /\ dropRef(proc[p].id, proc[p].state)
  /\ proc' = [proc EXCEPT ![p].pc = "untoken", ![p].state = None]
  /\ UNCHANGED <<full, tokens, fn>>

DropToken(p) ==
  /\ At(p, "untoken")
  /\ IF MaxParallel > 0 THEN releaseGlobalToken ELSE UNCHANGED tokens
  /\ Finish(p)
  /\ UNCHANGED <<locks, refs, full, fn>>

-----------------------------------------------------------------------------
(* Holding and releasing.                                                    *)

\* fn returns, or panics and is recovered: either way errChan gets its result.
FnReturns(p) ==
  /\ fn[p] = "running"
  /\ fn' = [fn EXCEPT ![p] = "returned"]
  /\ UNCHANGED <<locks, refs, full, tokens, proc>>

\* Mutant of RunTimeout: the lock is given up although fn may be running.
RunTimeoutGivesUp(p) ==
  /\ At(p, "running")
  /\ Goto(p, "undo")
  /\ UNCHANGED <<locks, refs, full, tokens, fn>>

\* The run timeout: RunWithLockTimeout goes on waiting for fn.
RunTimeout(p) ==
  /\ At(p, "running")
  /\ Goto(p, "overrun")
  /\ UNCHANGED <<locks, refs, full, tokens, fn>>

\* The goroutine gets to its deferred Release.
MayRelease(p) ==
  At(p, "holding") \/ (proc[p].pc \in {"running", "overrun"} /\ fn[p] = "returned")

\* Release looks the state up by id, and only what it finds there counts.
Release(p) ==
  LET i == proc[p].id
      s == locks[i]
  IN
  /\ MayRelease(p)
  /\ fn' = [fn EXCEPT ![p] = "none"]
  /\ IF s # None /\ full[s]
     THEN /\ full' = [full EXCEPT ![s] = FALSE]
          /\ dropRef(i, s)
          /\ proc' = [proc EXCEPT ![p].pc = "untoken", ![p].state = None]
     ELSE /\ Finish(p)
          /\ UNCHANGED <<locks, refs, full>>
  /\ UNCHANGED tokens

-----------------------------------------------------------------------------
\* What a goroutine that uses the lock does once it has called.
Proceed(p) ==
  \/ Check(p) \/ TakeToken(p) \/ GiveUpToken(p) \/ Recheck(p) \/ TakeRef(p)
  \/ Enter(p) \/ Confirm(p) \/ Undo(p) \/ GiveUpEnter(p) \/ DropRef(p) \/ DropToken(p)
  \/ FnReturns(p) \/ Release(p)

Next ==
  \E p \in Procs :
    \/ \E i \in Ids, kind \in Kinds, runs \in BOOLEAN : Call(p, i, kind, runs)
    \/ Expire(p) \/ RunTimeout(p) \/ Proceed(p)

Spec == Init /\ [][Next]_vars

\* Goroutines that can run do, and what holds the lock lets go of it.  Blocked
\* senders of a channel are served in order, so that a goroutine is not passed
\* over for a token, or for its turn, for ever.
Fairness ==
  \A p \in Procs : WF_vars(Proceed(p)) /\ SF_vars(TakeToken(p)) /\ SF_vars(Enter(p))

FairSpec == Spec /\ Fairness

-----------------------------------------------------------------------------
(* Properties.                                                               *)

Pcs == {"idle", "check", "token", "recheck", "ref", "enter", "confirm", "undo",
        "unref", "untoken", "holding", "running", "overrun"}

Calls == [pc : Pcs, id : Ids \cup {None}, kind : AllKinds, runs : BOOLEAN,
          expired : BOOLEAN, state : States \cup {None}]

TypeOK ==
  /\ locks \in [Ids -> States \cup {None}]
  /\ refs \in [States -> Nat]
  /\ full \in [States -> BOOLEAN]
  /\ tokens \in Nat
  /\ proc \in [Procs -> Calls]
  /\ fn \in [Procs -> {"none", "running", "returned"}]

\* The caller believes that it holds the lock.
Holding(p) == proc[p].pc \in {"holding", "running", "overrun"}

\* Two goroutines never hold the lock of one id, however many have waited for
\* it, given up on it and had its state deleted and created again meanwhile.
MutualExclusion ==
  \A p, q \in Procs : Holding(p) /\ Holding(q) /\ proc[p].id = proc[q].id => p = q

\* Whoever waits for an id or holds it does so on the state the map has for it,
\* so a deletion never splits an id over two states; and the map keeps no state
\* that nobody uses.
OneStatePerId ==
  /\ \A p \in Procs : Refers(p) => locks[proc[p].id] = proc[p].state
  /\ \A i \in Ids : locks[i] # None => \E p \in Procs : Refers(p) /\ proc[p].id = i

\* The function that RunWithLockTimeout runs is never running without the lock,
\* although the call that started it may have timed out.
RunsUnderLock == \A p \in Procs : fn[p] = "running" => Holding(p)

\* There are as many tokens out as goroutines that will return one: none leaks
\* on a way out, and no receive of releaseGlobalToken takes another's token.
TokensBalance == tokens = Cardinality({p \in Procs : HoldsToken(p)})

\* No more goroutines hold a lock at the same time than the global limit allows.
GlobalLimit == MaxParallel > 0 => Cardinality({p \in Procs : Holding(p)}) <= MaxParallel

\* The goroutines that use state s, and what the proofs of IdLockProofs need of
\* them: they are counted; they point at the map's entry for their id, and no two
\* ids share one; one of them at most is in the channel; and fn belongs to a call
\* of RunWithLockTimeout that is under way.
Users(s) == {p \in Procs : Refers(p) /\ proc[p].state = s}

RefsCounted == \A s \in States : refs[s] = Cardinality(Users(s))

Pointers ==
  /\ \A p \in Procs : proc[p].state = None <=> ~Refers(p)
  /\ \A p \in Procs : ~At(p, "idle") => proc[p].id \in Ids
  /\ \A i, k \in Ids : locks[i] = locks[k] /\ locks[i] # None => i = k

Channels ==
  /\ \A s \in States : full[s] <=> \E p \in Users(s) : Entered(p)
  /\ \A p, q \in Procs : Entered(p) /\ Entered(q) /\ proc[p].state = proc[q].state => p = q

FnMatches == \A p \in Procs : fn[p] # "none" <=> proc[p].pc \in {"running", "overrun"}

Shared == RefsCounted /\ Pointers /\ Channels /\ OneStatePerId

TokensBounded == MaxParallel > 0 => tokens <= MaxParallel

\* The inductive invariant: every reference, pointer, element and token has the one
\* owner that will take it back, on whichever way the call ends.
Inductive == TypeOK /\ Shared /\ FnMatches /\ TokensBalance /\ TokensBounded

\* A call ends: it gets the lock and returns it, or it gives up.
EveryCallEnds == \A p \in Procs : ~At(p, "idle") ~> At(p, "idle")
=============================================================================
