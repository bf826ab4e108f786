---------------------------- MODULE StorageProofs ----------------------------
(* What the two writers of stored files keep, for any resources, contents and  *)
(* clients, and for all archives, decisions, handlers and attempts.            *)
EXTENDS GroupImport, ResourceStore, FiniteSetTheorems, TLAPS

(* Part one: requests on resources, under KeptApart.                           *)

LEMMA FiniteMax ==
  ASSUME NEW S \in SUBSET Nat, IsFiniteSet(S), S # {}
  PROVE  Max(S) \in S /\ \A y \in S : Max(S) >= y
<1> DEFINE Topless == {T \in FiniteSubsetsOf(Nat) : T # {} /\ \A x \in T : \E y \in T : ~(x >= y)}
<1>1. Topless = {}
  <2> SUFFICES ASSUME Topless # {} PROVE FALSE
    OBVIOUS
  <2>1. IsWellFoundedOn(StrictSubsetOrdering(Nat), FiniteSubsetsOf(Nat))
    BY FS_StrictSubsetOrderingWellFounded
  <2>2. PICK T \in Topless : \A U \in Topless : <<U, T>> \notin StrictSubsetOrdering(Nat)
    <3>1. Topless \subseteq FiniteSubsetsOf(Nat)
      OBVIOUS
    <3> HIDE DEF Topless
    <3>2. QED
      BY <2>1, <3>1, WFMin
  <2>3. PICK x \in T : TRUE
    OBVIOUS
  <2> DEFINE U == T \ {x}
  <2>4. T \in SUBSET Nat /\ IsFiniteSet(T)
    BY DEF FiniteSubsetsOf
  <2>5. U \in FiniteSubsetsOf(Nat)
    BY <2>4, FS_RemoveElement DEF FiniteSubsetsOf
  <2>6. <<U, T>> \in StrictSubsetOrdering(Nat)
    BY <2>3, <2>4 DEF StrictSubsetOrdering
  <2>7. U \notin Topless
    BY <2>2, <2>6
  <2>8. U = {} \/ \E m \in U : \A y \in U : m >= y
    BY <2>5, <2>7
  <2>9. \E m \in T : \A y \in T : m >= y
    <3>1. CASE U = {}
      BY <2>3, <2>4, <3>1
    <3>2. CASE U # {}
      <4>1. PICK m \in U : \A y \in U : m >= y
        BY <2>8, <3>2
      <4>2. m \in Nat /\ x \in Nat /\ \A y \in T : y \in Nat /\ (y \in U \/ y = x)
        BY <2>3, <2>4, <4>1
      <4>3. CASE m >= x
        BY <4>1, <4>2, <4>3
      <4>4. CASE ~(m >= x)
        BY <4>1, <4>2, <4>4
      <4>5. QED
        BY <4>3, <4>4
    <3>3. QED
      BY <3>1, <3>2
  <2>10. QED
    BY <2>9
<1>2. S \in FiniteSubsetsOf(Nat)
  BY DEF FiniteSubsetsOf
<1>3. \E x \in S : \A y \in S : x >= y
  BY <1>1, <1>2
<1>4. QED
  BY <1>3 DEF Max

\* The rows and the files.
Tables ==
  /\ TypeOK /\ RowsHaveFiles /\ NoTwins /\ NumbersUnique /\ CurrentAgrees /\ PreviewsCurrent
  /\ TablesFit

MigrationShaped == {"pc", "todo", "r", "h"} \subseteq DOMAIN migration

Requests ==
  /\ client \in [Clients -> Request]
  /\ \A c \in Clients : Fits(client[c])
  /\ RequestsApart

StoreInv == faults \in Nat /\ MigrationShaped /\ Tables /\ Requests /\ Truncated /\ MigrationFits

-----------------------------------------------------------------------------
LEMMA TablesKept ==
  ASSUME Tables, TablesStay, files' = files
  PROVE  Tables'
<1> USE DEF TablesStay
<1>1. TypeOK' /\ TablesFit'
  BY DEF Tables, TypeOK, TablesFit, Live, VersionsOf
<1>2. RowsHaveFiles'
  BY DEF Tables, RowsHaveFiles, Referenced, Unreferenced
<1>3. NoTwins' /\ NumbersUnique' /\ CurrentAgrees' /\ PreviewsCurrent'
  BY DEF Tables, NoTwins, NumbersUnique, CurrentAgrees, PreviewsCurrent, First, Live, VersionsOf
<1>4. QED
  BY <1>1, <1>2, <1>3 DEF Tables

\* What a request may become beside the others.
Joins(c, q) ==
  /\ q.op \in Stores =>
       client[c].op \in Stores \/ \A d \in Clients : client[d].op \in Stores \cup {"none"}
  /\ q.op \notin Stores \cup {"none"} =>
       client[c].op \notin Stores \cup {"none"} \/ \A d \in Clients : client[d].op \notin Stores
  /\ q.op = "add" /\ q.pc \notin Waiting =>
       ~HashHeld(q.h) \/ (client[c].op = "add" /\ client[c].pc \notin Waiting /\ client[c].h = q.h)
  /\ q.op \in Changes /\ q.pc \notin Waiting =>
       ~VersionHeld(q.r)
       \/ (client[c].op \in Changes /\ client[c].pc \notin Waiting /\ client[c].r = q.r)

LEMMA ApartKept ==
  ASSUME Requests, NEW c \in Clients, NEW q, client' = [client EXCEPT ![c] = q], Joins(c, q)
  PROVE  RequestsApart'
<1>1. client'[c] = q /\ \A d \in Clients \ {c} : client'[d] = client[d]
  BY DEF Requests
<1> SUFFICES ASSUME NEW d \in Clients, NEW e \in Clients
             PROVE  /\ client'[d].op \in Stores => client'[e].op \in Stores \cup {"none"}
                    /\ client'[d].pc \notin Waiting /\ client'[e].pc \notin Waiting =>
                         /\ client'[d].op = "add" /\ client'[e].op = "add" /\ client'[d].h = client'[e].h
                              => d = e
                         /\ client'[d].op \in Changes /\ client'[e].op \in Changes
                            /\ client'[d].r = client'[e].r => d = e
  BY DEF RequestsApart
<1> USE DEF Requests, RequestsApart, Joins, HashHeld, VersionHeld
<1>2. CASE d = c /\ e = c
  BY <1>2, <1>1
<1>3. CASE d = c /\ e # c
  BY <1>3, <1>1
<1>4. CASE d # c /\ e = c
  BY <1>4, <1>1
<1>5. CASE d # c /\ e # c
  BY <1>5, <1>1
<1>6. QED
  BY <1>2, <1>3, <1>4, <1>5

LEMMA Serving ==
  ASSUME StoreInv, NEW c \in Clients, client[c] # NoRequest
  PROVE  migration.pc = "done"
BY DEF StoreInv, MigrationFits

LEMMA MigrationStays ==
  ASSUME StoreInv, migration' = migration, migration.pc = "done"
  PROVE  MigrationFits' /\ MigrationShaped'
BY DEF StoreInv, MigrationFits, MigrationShaped

\* A request that reads goes on; what the others have read stays as it was.
LEMMA OthersFitQuietly ==
  ASSUME StoreInv, NEW d \in Clients, client'[d] = client[d], TablesStay, files' = files
  PROVE  Fits(client[d])'
<1>1. Fits(client[d])
  BY DEF StoreInv, Requests
<1>2. QED
  BY <1>1 DEF Fits, TablesStay, VersionsOf, First, Live, Unreferenced, Numbered, Unmatched

LEMMA TruncatedStays ==
  ASSUME StoreInv, NEW c \in Clients, NEW q, client' = [client EXCEPT ![c] = q], files' = files,
         faults' = 0 => faults = 0 /\ (client[c].pc = "write" => q.pc = "write" /\ q.h = client[c].h)
  PROVE  Truncated'
BY DEF StoreInv, Truncated, Requests

LEMMA QuietStep ==
  ASSUME StoreInv, NEW c \in Clients, NEW q \in Request, client' = [client EXCEPT ![c] = q],
         TablesStay, files' = files, migration' = migration, migration.pc = "done", Joins(c, q),
         Fits(client[c])', faults' \in Nat,
         faults' = 0 => faults = 0 /\ client[c].pc # "write"
  PROVE  StoreInv'
<1>1. client' \in [Clients -> Request] /\ client'[c] = q /\ \A d \in Clients \ {c} : client'[d] = client[d]
  BY DEF StoreInv, Requests
<1>2. \A d \in Clients : Fits(client[d])'
  BY <1>1, OthersFitQuietly
<1>3. Requests'
  BY <1>1, <1>2, ApartKept DEF Requests, StoreInv
<1>4. QED
  BY <1>3, TablesKept, MigrationStays, TruncatedStays DEF StoreInv

-----------------------------------------------------------------------------
(* Requests that read, wait or give up.                                      *)

Quiet(c) == TablesStay /\ files' = files /\ migration' = migration /\ faults' = faults

LEMMA Finishes ==
  ASSUME StoreInv, NEW c \in Clients, Finish(c), client[c] # NoRequest, TablesStay, files' = files,
         migration' = migration, faults' \in Nat,
         faults' = 0 => faults = 0 /\ client[c].pc # "write"
  PROVE  StoreInv'
<1>1. NoRequest \in Request
  BY DEF NoRequest, Request
<1>2. Joins(c, NoRequest)
  BY DEF Joins, NoRequest, Stores, Changes
<1>3. client'[c] = NoRequest
  BY DEF Finish, StoreInv, Requests
<1>4. Fits(client[c])'
  BY <1>3 DEF Fits, NoRequest, Stages, Changes, Stores, Numbered, Unmatched
<1>5. QED
  BY <1>1, <1>2, <1>4, QuietStep, Serving DEF Finish

\* What a request that only moves on has to show.
LEMMA MovesOn ==
  ASSUME StoreInv, NEW c \in Clients, NEW pc, Goto(c, pc), <<client[c].op, pc>> \in Stages,
         client[c].pc # "write", client[c].op # "none", Quiet(c),
         Joins(c, [client[c] EXCEPT !.pc = pc]), Fits(client[c])'
  PROVE  StoreInv'
<1> DEFINE q == [client[c] EXCEPT !.pc = pc]
<1>1. client[c] \in Request
  BY DEF StoreInv, Requests
<1>2. pc \in {"idle", "queued", "probing", "checking", "reading", "stat", "create", "write",
              "saving", "deleting", "counting", "removing", "making"}
  BY DEF Stages
<1>3. q \in Request
  BY <1>1, <1>2 DEF Request
<1>4. client' = [client EXCEPT ![c] = q]
  BY DEF Goto, StoreInv, Requests
<1>5. migration.pc = "done"
  BY Serving DEF NoRequest
<1> HIDE DEF q
<1>6. TablesStay /\ files' = files /\ migration' = migration /\ faults' = faults /\ faults \in Nat
  BY DEF Quiet, StoreInv
<1>7. Joins(c, q)
  BY DEF q
<1>8. QED
  BY <1>3, <1>4, <1>5, <1>6, <1>7, QuietStep

LEMMA Moved ==
  ASSUME StoreInv, NEW c \in Clients, NEW pc, Goto(c, pc)
  PROVE  /\ client'[c].pc = pc /\ client'[c].op = client[c].op /\ client'[c].r = client[c].r
         /\ client'[c].h = client[c].h /\ client'[c].v = client[c].v /\ client'[c].n = client[c].n
         /\ client'[c].others = client[c].others /\ client'[c].removes = client[c].removes
         /\ Fits(client[c])
BY DEF StoreInv, Requests, Goto, Request

\* Within a request that holds its lock, or waits for it on.
LEMMA JoinsOn ==
  ASSUME StoreInv, NEW c \in Clients, NEW pc,
         pc \in Waiting \/ client[c].pc \notin Waiting
  PROVE  Joins(c, [client[c] EXCEPT !.pc = pc])
BY DEF StoreInv, Requests, Request, Joins, Stores, Changes

LEMMA StatFileStep == ASSUME StoreInv, NEW c \in Clients, StatFile(c) PROVE StoreInv'
<1> DEFINE pc == IF files[client[c].h] = "none" THEN "create" ELSE "saving"
<1>1. Goto(c, pc) /\ client[c].pc = "stat" /\ client[c].op \in Stores /\ Quiet(c)
  BY DEF StatFile, At, Elsewhere, Quiet
<1>2. Fits(client[c]) /\ client[c].op \in {"add", "upload", "transform"}
  BY <1>1, Moved DEF Fits, Stages, Stores, Changes
<1>3. <<client[c].op, pc>> \in Stages /\ client[c].h \in Contents
  BY <1>1, <1>2 DEF Stages, Fits, Stores, Changes
<1>4. files' = files /\ versions' = versions /\ resources' = resources
  BY <1>1 DEF Quiet, TablesStay
<1>5. Fits(client[c])'
  BY <1>1, <1>2, <1>3, <1>4, Moved
     DEF Fits, Live, First, VersionsOf, Numbered, Unmatched, Waiting
<1>6. Joins(c, [client[c] EXCEPT !.pc = pc])
  BY <1>1, JoinsOn DEF Waiting
<1> HIDE DEF pc
<1>7. QED
  BY <1>1, <1>2, <1>3, <1>5, <1>6, MovesOn

LEMMA WriteFailsStep == ASSUME StoreInv, NEW c \in Clients, WriteFails(c) PROVE StoreInv'
BY Finishes DEF WriteFails, At, NoRequest, StoreInv

LEMMA AddLocksStep == ASSUME StoreInv, NEW c \in Clients, AddLocks(c) PROVE StoreInv'
<1>1. Goto(c, "checking") /\ client[c].pc = "queued" /\ client[c].op = "add" /\ Quiet(c)
      /\ ~HashHeld(client[c].h)
  BY DEF AddLocks, At, Elsewhere, Quiet
<1>2. <<client[c].op, "checking">> \in Stages
  BY <1>1 DEF Stages
<1>9. client'[c].pc = "checking" /\ client'[c].op = client[c].op /\ client'[c].r = client[c].r
      /\ client'[c].h = client[c].h /\ Fits(client[c])
  BY <1>1, Moved
<1>3. Fits(client[c])'
  BY <1>1, <1>2, <1>9 DEF Fits, Numbered, Unmatched, Waiting, Changes, Stores
<1>4. Joins(c, [client[c] EXCEPT !.pc = "checking"])
  BY <1>1 DEF Joins, StoreInv, Requests, Request, Stores, Changes
<1>5. QED
  BY <1>1, <1>2, <1>3, <1>4, MovesOn

LEMMA AddChecksStep == ASSUME StoreInv, NEW c \in Clients, AddChecks(c) PROVE StoreInv'
<1>1. client[c].pc = "checking" /\ client[c].op = "add" /\ Quiet(c)
  BY DEF AddChecks, At, Elsewhere, Quiet
<1>2. CASE Finish(c)
  BY <1>1, <1>2, Finishes DEF Quiet, NoRequest, StoreInv
<1>3. CASE Goto(c, "stat") /\ \A r \in Resources : Live(r) => resources[r].hash # client[c].h
  <2>1. <<client[c].op, "stat">> \in Stages
    BY <1>1 DEF Stages
  <2>2. resources' = resources /\ versions' = versions
    BY <1>1 DEF Quiet, TablesStay
  <2>9. client'[c].pc = "stat" /\ client'[c].op = client[c].op /\ client'[c].r = client[c].r
        /\ client'[c].h = client[c].h /\ Fits(client[c])
    BY <1>3, Moved
  <2>3. Fits(client[c])'
    BY <1>1, <1>3, <2>1, <2>2, <2>9 DEF Fits, Numbered, Unmatched, Waiting, Changes, Stores, First, Live
  <2>4. Joins(c, [client[c] EXCEPT !.pc = "stat"])
    BY <1>1, JoinsOn DEF Waiting
  <2>5. QED
    BY <1>1, <1>3, <2>1, <2>3, <2>4, MovesOn
<1>4. QED
  BY <1>2, <1>3 DEF AddChecks

LEMMA AddRefusedStep == ASSUME StoreInv, NEW c \in Clients, AddRefused(c) PROVE StoreInv'
BY Finishes DEF AddRefused, At, NoRequest, StoreInv, Elsewhere

LEMMA LockVersionStep == ASSUME StoreInv, NEW c \in Clients, LockVersion(c) PROVE StoreInv'
<1>1. Goto(c, "reading") /\ client[c].pc = "queued" /\ client[c].op \in Changes /\ Quiet(c)
      /\ ~VersionHeld(client[c].r)
  BY DEF LockVersion, At, Elsewhere, Quiet
<1>2. <<client[c].op, "reading">> \in Stages
  BY <1>1 DEF Stages, Changes
<1>9. client'[c].pc = "reading" /\ client'[c].op = client[c].op /\ client'[c].r = client[c].r
      /\ client'[c].h = client[c].h /\ Fits(client[c])
  BY <1>1, Moved
<1>3. Fits(client[c])'
  BY <1>1, <1>2, <1>9 DEF Fits, Numbered, Unmatched, Waiting, Changes, Stores
<1>4. Joins(c, [client[c] EXCEPT !.pc = "reading"])
  BY <1>1 DEF Joins, StoreInv, Requests, Request, Stores, Changes
<1>5. QED
  BY <1>1, <1>2, <1>3, <1>4, MovesOn DEF Changes

LEMMA NotThereStep == ASSUME StoreInv, NEW c \in Clients, NotThere(c) PROVE StoreInv'
BY Finishes DEF NotThere, At, NoRequest, StoreInv, Elsewhere

LEMMA CropProbesStep == ASSUME StoreInv, NEW c \in Clients, CropProbes(c) PROVE StoreInv'
<1>1. client[c].pc = "probing" /\ client[c].op = "add" /\ Quiet(c)
  BY DEF CropProbes, At, Elsewhere, Quiet
<1>2. CASE Finish(c)
  BY <1>1, <1>2, Finishes DEF Quiet, NoRequest, StoreInv
<1>3. CASE Goto(c, "queued")
  <2>1. <<client[c].op, "queued">> \in Stages
    BY <1>1 DEF Stages
  <2>9. client'[c].pc = "queued" /\ client'[c].op = client[c].op /\ client'[c].r = client[c].r
        /\ client'[c].h = client[c].h /\ Fits(client[c])
    BY <1>3, Moved
  <2>2. Fits(client[c])'
    BY <1>1, <1>3, <2>1, <2>9 DEF Fits, Numbered, Unmatched, Waiting, Changes, Stores
  <2>3. Joins(c, [client[c] EXCEPT !.pc = "queued"])
    BY <1>1, JoinsOn DEF Waiting
  <2>4. QED
    BY <1>1, <1>3, <2>1, <2>2, <2>3, MovesOn
<1>4. QED
  BY <1>2, <1>3 DEF CropProbes

LEMMA TransformReadsStep == ASSUME StoreInv, NEW c \in Clients, TransformReads(c) PROVE StoreInv'
<1>1. client[c].pc = "reading" /\ client[c].op = "transform" /\ Quiet(c)
  BY DEF TransformReads, At, Elsewhere, Quiet
<1>2. CASE Finish(c)
  BY <1>1, <1>2, Finishes DEF Quiet, NoRequest, StoreInv
<1>3. CASE Goto(c, "stat")
  <2>1. <<client[c].op, "stat">> \in Stages
    BY <1>1 DEF Stages
  <2>9. client'[c].pc = "stat" /\ client'[c].op = client[c].op /\ client'[c].r = client[c].r
        /\ client'[c].h = client[c].h /\ Fits(client[c])
    BY <1>3, Moved
  <2>2. Fits(client[c])'
    BY <1>1, <1>3, <2>1, <2>9 DEF Fits, Numbered, Unmatched, Waiting, Changes, Stores
  <2>3. Joins(c, [client[c] EXCEPT !.pc = "stat"])
    BY <1>1, JoinsOn DEF Waiting
  <2>4. QED
    BY <1>1, <1>3, <2>1, <2>2, <2>3, MovesOn
<1>4. QED
  BY <1>2, <1>3 DEF TransformReads

-----------------------------------------------------------------------------
(* The numbers of versions.                                                  *)

LEMMA AtMostOne ==
  ASSUME NEW S, S = {} \/ \E x : S = {x}
  PROVE  IsFiniteSet(S) /\ Cardinality(S) = IF S = {} THEN 0 ELSE 1
<1>1. CASE S = {}
  BY <1>1, FS_EmptySet
<1>2. CASE \E x : S = {x}
  <2>1. PICK x : S = {x}
    BY <1>2
  <2>2. IsFiniteSet({x}) /\ Cardinality({x}) = 1 /\ {x} # {}
    BY FS_Singleton
  <2>3. QED
    BY <2>1, <2>2
<1>3. QED
  BY <1>1, <1>2

LEMMA MaxNumberIsMax ==
  ASSUME NEW vs, IsFiniteSet(vs), \A v \in vs : v.number \in Nat
  PROVE  /\ MaxNumber(vs) \in Nat /\ \A v \in vs : v.number <= MaxNumber(vs)
         /\ vs # {} => \E v \in vs : v.number = MaxNumber(vs)
<1> DEFINE T == {v.number : v \in vs}
           f == [v \in vs |-> v.number]
<1>1. f \in Surjection(vs, T)
  BY DEF Surjection
<1>2. IsFiniteSet(T)
  <2> HIDE DEF T, f
  <2> QED
    BY <1>1, FS_Surjection
<1>3. IsFiniteSet(T \cup {0})
  BY <1>2, FS_AddElement
<1>4. T \cup {0} \in SUBSET Nat /\ T \cup {0} # {}
  OBVIOUS
<1>5. Max(T \cup {0}) \in T \cup {0} /\ \A y \in T \cup {0} : Max(T \cup {0}) >= y
  BY <1>3, <1>4, FiniteMax
<1>6. MaxNumber(vs) = Max(T \cup {0})
  BY DEF MaxNumber
<1> DEFINE m == MaxNumber(vs)
<1>7. m \in T \cup {0} /\ \A y \in T \cup {0} : m >= y
  BY <1>5, <1>6
<1>8. m \in Nat /\ \A v \in vs : v.number <= m
  <2>1. m \in Nat
    BY <1>4, <1>7
  <2>2. \A v \in vs : v.number \in T \cup {0}
    OBVIOUS
  <2> HIDE DEF m, T
  <2>3. QED
    BY <1>7, <2>1, <2>2
<1>9. ASSUME vs # {} PROVE \E v \in vs : v.number = m
  <2>1. CASE m \in T
    BY <2>1
  <2>2. CASE m = 0
    <3>1. PICK v \in vs : TRUE
      BY <1>9
    <3>2. v.number \in Nat /\ v.number <= m
      BY <1>8, <3>1
    <3>3. v.number = m
      BY <2>2, <3>2
    <3>4. QED
      BY <3>3
  <2>3. QED
    BY <1>7, <2>1, <2>2
<1>10. QED
  BY <1>8, <1>9

\* The versions of a resource are finitely many, and numbered from 1.
LEMMA VersionsOfAre ==
  ASSUME Tables, NEW r
  PROVE  /\ IsFiniteSet(VersionsOf(r)) /\ VersionsOf(r) \subseteq versions
         /\ \A v \in VersionsOf(r) : v.number \in Nat /\ v.number >= 1 /\ v.hash \in Contents
                                     /\ v.id \in Nat /\ v.id >= 1 /\ v.id <= lastVersion
         /\ MaxNumber(VersionsOf(r)) \in Nat
         /\ \A v \in VersionsOf(r) : v.number <= MaxNumber(VersionsOf(r))
         /\ VersionsOf(r) # {} => MaxNumber(VersionsOf(r)) >= 1
<1>1. IsFiniteSet(versions) /\ VersionsOf(r) \in SUBSET versions /\ lastVersion \in Nat
  BY DEF Tables, TablesFit, VersionsOf
<1>2. IsFiniteSet(VersionsOf(r))
  BY <1>1, FS_Subset
<1>3. \A v \in versions : v.number \in Nat /\ v.number >= 1 /\ v.hash \in Contents /\ v.id \in Nat
                          /\ v.id \in 1 .. lastVersion
  BY DEF Tables, TablesFit, TypeOK
<1>4. /\ MaxNumber(VersionsOf(r)) \in Nat /\ \A v \in VersionsOf(r) : v.number <= MaxNumber(VersionsOf(r))
      /\ VersionsOf(r) # {} => \E v \in VersionsOf(r) : v.number = MaxNumber(VersionsOf(r))
  BY <1>1, <1>2, <1>3, MaxNumberIsMax
<1>5. QED
  BY <1>1, <1>2, <1>3, <1>4

-----------------------------------------------------------------------------
(* Requests that begin.                                                      *)

LEMMA Begins ==
  ASSUME KeptApart, StoreInv, NEW c \in Clients, NEW q \in Request, Begin(c, q), Fits(client[c])',
         q.op # "none", q.op \in Stores => q.pc = "queued"
  PROVE  StoreInv'
<1>1. client[c] = NoRequest /\ MayStart(q.op) /\ client' = [client EXCEPT ![c] = q]
      /\ TablesStay /\ files' = files /\ migration' = migration /\ faults' = faults
  BY DEF Begin
<1>2. Joins(c, q) /\ migration.pc = "done"
  BY <1>1 DEF MayStart, Joins, Waiting, Stores, Changes
<1>3. client[c].pc # "write" /\ faults \in Nat
  BY <1>1 DEF NoRequest, StoreInv
<1>4. QED
  BY <1>1, <1>2, <1>3, QuietStep

LEMMA BeginIs ==
  ASSUME StoreInv, NEW c \in Clients, NEW q, Begin(c, q)
  PROVE  client'[c] = q /\ resources' = resources
BY DEF StoreInv, Requests, Begin, TablesStay

LEMMA StartAddStep ==
  ASSUME KeptApart, StoreInv, NEW c \in Clients, NEW h \in Contents, StartAdd(c, h)
  PROVE  StoreInv'
<1> DEFINE q == [NoRequest EXCEPT !.op = "add", !.pc = "queued", !.h = h]
<1>1. Begin(c, q)
  BY DEF StartAdd
<1>2. q \in Request
  BY DEF NoRequest, Request, Stores
<1>3. client'[c] = q
  BY <1>1, BeginIs
<1>4. Fits(client[c])'
  BY <1>3 DEF NoRequest, Fits, Numbered, Unmatched, Waiting, Stages, Changes, Stores
<1>5. QED
  BY <1>1, <1>2, <1>4, Begins DEF NoRequest, Stores

LEMMA StartChangeStep ==
  ASSUME KeptApart, StoreInv, NEW c \in Clients, NEW op \in Changes \ {"restore"}, NEW r \in Resources,
         NEW h \in Contents, StartChange(c, op, r, h)
  PROVE  StoreInv'
<1> DEFINE q == [NoRequest EXCEPT !.op = op, !.pc = "queued", !.r = r, !.h = h]
<1>1. Begin(c, q)
  BY DEF StartChange
<1>2. q \in Request
  BY DEF NoRequest, Request, Stores
<1>3. client'[c] = q
  BY <1>1, BeginIs
<1>4. Fits(client[c])'
  BY <1>3 DEF NoRequest, Fits, Numbered, Unmatched, Waiting, Stages, Changes, Stores
<1>5. QED
  BY <1>1, <1>2, <1>4, Begins DEF NoRequest, Changes

LEMMA StartRestoreStep ==
  ASSUME KeptApart, StoreInv, NEW c \in Clients, NEW r \in Resources, NEW v \in Nat, StartRestore(c, r, v)
  PROVE  StoreInv'
<1> DEFINE q == [NoRequest EXCEPT !.op = "restore", !.pc = "queued", !.r = r, !.v = v]
<1>1. Begin(c, q)
  BY DEF StartRestore
<1>2. q \in Request
  BY DEF NoRequest, Request, Stores, Changes
<1>3. client'[c] = q
  BY <1>1, BeginIs
<1>4. Fits(client[c])'
  BY <1>3 DEF NoRequest, Fits, Numbered, Unmatched, Waiting, Stages, Changes, Stores
<1>5. QED
  BY <1>1, <1>2, <1>4, Begins DEF NoRequest

LEMMA StartDeleteVersionStep ==
  ASSUME KeptApart, StoreInv, NEW c \in Clients, NEW r \in Resources, NEW v \in Nat,
         StartDeleteVersion(c, r, v)
  PROVE  StoreInv'
<1> DEFINE q == [NoRequest EXCEPT !.op = "deleteVersion", !.pc = "reading", !.r = r, !.v = v]
<1>1. Begin(c, q)
  BY DEF StartDeleteVersion
<1>2. q \in Request
  BY DEF NoRequest, Request, Destroys
<1>3. client'[c] = q
  BY <1>1, BeginIs
<1>4. Fits(client[c])'
  BY <1>3 DEF NoRequest, Fits, Numbered, Unmatched, Waiting, Stages, Changes, Stores
<1>5. QED
  BY <1>1, <1>2, <1>4, Begins DEF NoRequest, Stores, Changes

LEMMA StartDeleteStep ==
  ASSUME KeptApart, StoreInv, NEW c \in Clients, NEW r \in Resources, StartDelete(c, r)
  PROVE  StoreInv'
<1> DEFINE q == [NoRequest EXCEPT !.op = "delete", !.pc = "reading", !.r = r]
<1>1. Begin(c, q)
  BY DEF StartDelete
<1>2. q \in Request
  BY DEF NoRequest, Request, Destroys
<1>3. client'[c] = q
  BY <1>1, BeginIs
<1>4. Fits(client[c])'
  BY <1>3 DEF NoRequest, Fits, Numbered, Unmatched, Waiting, Stages, Changes, Stores
<1>5. QED
  BY <1>1, <1>2, <1>4, Begins DEF NoRequest, Stores, Changes

LEMMA StartThumbnailStep ==
  ASSUME KeptApart, StoreInv, NEW c \in Clients, NEW r \in Resources, StartThumbnail(c, r)
  PROVE  StoreInv'
<1> DEFINE q == [NoRequest EXCEPT !.op = "thumbnail", !.pc = "reading", !.r = r]
<1>1. Begin(c, q)
  BY DEF StartThumbnail
<1>2. q \in Request
  BY DEF NoRequest, Request
<1>3. client'[c] = q
  BY <1>1, BeginIs
<1>4. Fits(client[c])'
  BY <1>3 DEF NoRequest, Fits, Numbered, Unmatched, Waiting, Stages, Changes, Stores
<1>5. QED
  BY <1>1, <1>2, <1>4, Begins DEF NoRequest, Stores, Changes

LEMMA StartBulkDeleteStep ==
  ASSUME KeptApart, StoreInv, NEW c \in Clients, NEW r \in Resources, NEW s \in Resources,
         StartBulkDelete(c, r, s)
  PROVE  StoreInv'
<1> DEFINE q == [NoRequest EXCEPT !.op = "bulkDelete", !.pc = "deleting", !.others = <<r, s>>]
<1>1. Begin(c, q)
  BY DEF StartBulkDelete
<1>2. q \in Request
  BY DEF NoRequest, Request, Destroys
<1>3. client'[c] = q
  BY <1>1, BeginIs
<1>4. Fits(client[c])'
  BY <1>3 DEF NoRequest, Fits, Numbered, Unmatched, Waiting, Stages, Changes, Stores
<1>5. QED
  BY <1>1, <1>2, <1>4, Begins DEF NoRequest, Stores, Changes

LEMMA StartMergeStep ==
  ASSUME KeptApart, StoreInv, NEW c \in Clients, NEW r \in Resources, NEW s \in Resources,
         NEW keep \in {0, 1}, StartMerge(c, r, s, keep)
  PROVE  StoreInv'
<1> DEFINE q == [NoRequest EXCEPT !.op = "merge", !.pc = "deleting", !.r = r, !.n = keep, !.others = <<s>>]
<1>1. Begin(c, q) /\ r # s /\ resources[r].current # 0
  BY DEF StartMerge
<1>2. q \in Request
  <2>1. <<s>> \in {<<t>> : t \in Resources} /\ keep \in Nat
    OBVIOUS
  <2>2. QED
    BY <2>1 DEF NoRequest, Request, Destroys
<1>3. client'[c] = q /\ resources' = resources
  BY <1>1, BeginIs
<1>4. Fits(client[c])'
  BY <1>1, <1>3 DEF NoRequest, Fits, Numbered, Unmatched, Waiting, Stages, Changes, Stores
<1>5. QED
  BY <1>1, <1>2, <1>4, Begins DEF NoRequest, Stores, Changes

LEMMA StartStep == ASSUME KeptApart, StoreInv, NEW c \in Clients, Start(c) PROVE StoreInv'
<1>1. \A v \in versions : v.id \in Nat
  BY DEF StoreInv, Tables, TablesFit
<1>2. QED
  BY <1>1, StartAddStep, StartChangeStep, StartRestoreStep, StartDeleteVersionStep, StartDeleteStep,
     StartThumbnailStep, StartBulkDeleteStep, StartMergeStep DEF Start

-----------------------------------------------------------------------------
(* Requests that read what they will act on.                                 *)

\* A request that goes on with what it has read.
LEMMA Reads ==
  ASSUME StoreInv, NEW c \in Clients, NEW q \in Request, client' = [client EXCEPT ![c] = q],
         Quiet(c), client[c].op # "none", client[c].pc \notin {"write"} \cup Waiting,
         q.op \in {client[c].op} \/ (client[c].op = "crop" /\ q.op = "add" /\ q.pc \in Waiting),
         q.op = "add" /\ q.pc \notin Waiting => q.h = client[c].h,
         q.op \in Changes => q.r = client[c].r,
         Fits(client[c])'
  PROVE  StoreInv'
<1>1. Joins(c, q)
  BY DEF Joins, Stores, Changes
<1>2. TablesStay /\ files' = files /\ migration' = migration /\ faults' = faults /\ faults \in Nat
  BY DEF Quiet, StoreInv
<1>3. migration.pc = "done"
  BY Serving DEF NoRequest
<1>4. QED
  BY <1>1, <1>2, <1>3, QuietStep

LEMMA RestoreReadsStep == ASSUME StoreInv, NEW c \in Clients, RestoreReads(c) PROVE StoreInv'
<1> DEFINE r == client[c].r
<1>1. client[c].pc = "reading" /\ client[c].op = "restore" /\ Quiet(c) /\ client[c] \in Request
      /\ Fits(client[c])
  BY DEF RestoreReads, At, Elsewhere, Quiet, StoreInv, Requests
<1>2. CASE Finish(c)
  BY <1>1, <1>2, Finishes DEF Quiet, NoRequest, StoreInv
<1>3. CASE \E v \in VersionsOf(r) :
             client' = [client EXCEPT ![c].pc = "saving", ![c].h = v.hash,
                                      ![c].n = MaxNumber(VersionsOf(r)) + 1]
  <2>1. PICK v \in VersionsOf(r) :
          client' = [client EXCEPT ![c].pc = "saving", ![c].h = v.hash,
                                   ![c].n = MaxNumber(VersionsOf(r)) + 1]
    BY <1>3
  <2> DEFINE n == MaxNumber(VersionsOf(r)) + 1
             q == [client[c] EXCEPT !.pc = "saving", !.h = v.hash, !.n = n]
  <2>2. /\ n \in Nat /\ n >= 2 /\ v.hash \in Contents /\ v \in versions
        /\ \A u \in VersionsOf(r) : u.number < n
    BY VersionsOfAre DEF StoreInv
  <2>3. files[v.hash] # "none"
    BY <2>2 DEF StoreInv, Tables, RowsHaveFiles, Referenced, Unreferenced
  <2> HIDE DEF n
  <2>4. q \in Request
    BY <1>1, <2>2 DEF Request
  <2>5. client' = [client EXCEPT ![c] = q]
    BY <2>1 DEF StoreInv, Requests, n
  <2>6. client'[c] = q /\ files' = files /\ versions' = versions /\ r \in Resources
    BY <1>1, <2>5 DEF StoreInv, Requests, Quiet, TablesStay, Fits, Changes
  <2>7. PICK s \in Resources : s = r
    BY <2>6
  <2>8. /\ client'[c].op = "restore" /\ client'[c].pc = "saving" /\ client'[c].r = s
        /\ client'[c].h = v.hash /\ client'[c].n = n
    BY <1>1, <2>6, <2>7 DEF Request
  <2>9. \A u \in VersionsOf(s)' : u.number < n
    BY <2>2, <2>6, <2>7 DEF VersionsOf
  <2>10. VersionsOf(s)' # {}
    BY <2>6, <2>7 DEF VersionsOf
  <2>11. Fits(client[c])'
    BY <2>2, <2>3, <2>6, <2>8, <2>9, <2>10
       DEF Fits, Numbered, Unmatched, Waiting, Stages, Changes, Stores, VersionsOf
  <2>12. QED
    BY <1>1, <2>4, <2>5, <2>11, Reads DEF Request, Waiting
<1>4. QED
  BY <1>2, <1>3 DEF RestoreReads

LEMMA CropReadsStep == ASSUME StoreInv, NEW c \in Clients, CropReads(c) PROVE StoreInv'
<1>1. client[c].pc = "reading" /\ client[c].op = "crop" /\ Quiet(c) /\ client[c] \in Request
      /\ Fits(client[c])
  BY DEF CropReads, At, Elsewhere, Quiet, StoreInv, Requests
<1>2. CASE Finish(c)
  BY <1>1, <1>2, Finishes DEF Quiet, NoRequest, StoreInv
<1>3. CASE client' = [client EXCEPT ![c].op = "add", ![c].pc = "probing", ![c].r = "none"]
  <2> DEFINE q == [client[c] EXCEPT !.op = "add", !.pc = "probing", !.r = "none"]
  <2>1. q \in Request
    BY <1>1 DEF Request, Stores
  <2>2. client' = [client EXCEPT ![c] = q]
    BY <1>3 DEF StoreInv, Requests
  <2>3. client'[c] = q
    BY <2>2 DEF StoreInv, Requests
  <2>4. Fits(client[c])'
    BY <1>1, <2>3 DEF Request, Fits, Numbered, Unmatched, Waiting, Stages, Changes, Stores
  <2>5. QED
    BY <1>1, <2>1, <2>2, <2>4, Reads DEF Request, Waiting, Changes
<1>4. QED
  BY <1>2, <1>3 DEF CropReads

LEMMA DeleteVersionReadsStep ==
  ASSUME StoreInv, NEW c \in Clients, DeleteVersionReads(c) PROVE StoreInv'
<1>1. client[c].pc = "reading" /\ client[c].op = "deleteVersion" /\ Quiet(c) /\ client[c] \in Request
      /\ Fits(client[c])
  BY DEF DeleteVersionReads, At, Elsewhere, Quiet, StoreInv, Requests
<1>2. CASE Finish(c)
  BY <1>1, <1>2, Finishes DEF Quiet, NoRequest, StoreInv
<1>3. CASE \E v \in versions : /\ v.id = client[c].v /\ MayDelete(client[c].r, v)
                               /\ client' = [client EXCEPT ![c].pc = "deleting", ![c].h = v.hash]
  <2>1. PICK v \in versions : /\ v.id = client[c].v /\ MayDelete(client[c].r, v)
                              /\ client' = [client EXCEPT ![c].pc = "deleting", ![c].h = v.hash]
    BY <1>3
  <2> DEFINE q == [client[c] EXCEPT !.pc = "deleting", !.h = v.hash]
  <2>2. v.hash \in Contents
    BY <2>1 DEF StoreInv, Tables, TypeOK
  <2>3. q \in Request
    BY <1>1, <2>2 DEF Request
  <2>4. client' = [client EXCEPT ![c] = q]
    BY <2>1 DEF StoreInv, Requests
  <2>5. client'[c] = q /\ resources' = resources
    BY <1>1, <2>4 DEF StoreInv, Requests, Quiet, TablesStay
  <2>6. \A r \in Resources : Live(r) => resources[r].current # v.id
    <3> SUFFICES ASSUME NEW r \in Resources, Live(r), resources[r].current = v.id PROVE FALSE
      OBVIOUS
    <3>1. v.id # 0
      BY DEF StoreInv, Tables, TypeOK, TablesFit
    <3>2. PICK u \in VersionsOf(r) : u.id = v.id
      BY <3>1 DEF StoreInv, Tables, CurrentAgrees
    <3>3. u = v /\ u.resource = r
      BY <3>2 DEF StoreInv, Tables, TablesFit, VersionsOf
    <3>4. QED
      BY <2>1, <3>3 DEF MayDelete, VersionsOf
  <2>7. /\ client'[c].op = "deleteVersion" /\ client'[c].pc = "deleting" /\ client'[c].h = v.hash
        /\ client'[c].r = client[c].r /\ client'[c].v = v.id /\ client[c].r \in Resources
    <3>1. client[c].v = v.id /\ client[c].r \in Resources
      BY <1>1, <2>1 DEF Fits
    <3>2. QED
      BY <1>1, <2>5, <3>1 DEF Request
  <2>8. Fits(client[c])'
    BY <2>2, <2>5, <2>6, <2>7 DEF Fits, Numbered, Unmatched, Waiting, Stages, Changes, Stores, Live
  <2>9. QED
    BY <1>1, <2>3, <2>4, <2>8, Reads DEF Request, Waiting
<1>4. QED
  BY <1>2, <1>3 DEF DeleteVersionReads

LEMMA DeleteVersionCountsStep ==
  ASSUME StoreInv, NEW c \in Clients, DeleteVersionCounts(c) PROVE StoreInv'
<1> DEFINE gone == IF Unreferenced(client[c].h, resources, versions) THEN {client[c].h} ELSE {}
           q == [client[c] EXCEPT !.pc = "removing", !.removes = gone]
<1>1. client[c].pc = "counting" /\ client[c].op = "deleteVersion" /\ Quiet(c) /\ client[c] \in Request
      /\ Fits(client[c])
  BY DEF DeleteVersionCounts, At, Elsewhere, Quiet, StoreInv, Requests
<1>2. gone \in SUBSET Contents /\ \A h \in gone : Unreferenced(h, resources, versions)
  BY <1>1 DEF Fits
<1>3. q \in Request
  BY <1>1, <1>2 DEF Request
<1>4. client' = [client EXCEPT ![c] = q]
  BY DEF DeleteVersionCounts, StoreInv, Requests
<1> HIDE DEF gone
<1>5. client'[c] = q /\ resources' = resources /\ versions' = versions
  BY <1>1, <1>4 DEF StoreInv, Requests, Quiet, TablesStay
<1>6. Fits(client[c])'
  BY <1>1, <1>2, <1>5 DEF Request, Fits, Numbered, Unmatched, Waiting, Stages, Changes, Stores, Unreferenced
<1>7. QED
  BY <1>1, <1>3, <1>4, <1>6, Reads DEF Request, Waiting

LEMMA DeleteReadsStep == ASSUME StoreInv, NEW c \in Clients, DeleteReads(c) PROVE StoreInv'
<1> DEFINE q == [client[c] EXCEPT !.pc = "deleting", !.h = resources[client[c].r].hash]
<1>1. client[c].pc = "reading" /\ client[c].op = "delete" /\ Quiet(c) /\ client[c] \in Request
      /\ Fits(client[c])
  BY DEF DeleteReads, At, Elsewhere, Quiet, StoreInv, Requests
<1>2. resources[client[c].r].hash \in Contents
  BY <1>1 DEF Fits, DeleteReads, StoreInv, Tables, TypeOK
<1>3. q \in Request
  BY <1>1, <1>2 DEF Request
<1>4. client' = [client EXCEPT ![c] = q]
  BY DEF DeleteReads, StoreInv, Requests
<1>5. client'[c] = q
  BY <1>4 DEF StoreInv, Requests
<1>6. Fits(client[c])'
  BY <1>1, <1>2, <1>5 DEF Request, Fits, Numbered, Unmatched, Waiting, Stages, Changes, Stores
<1>7. QED
  BY <1>1, <1>3, <1>4, <1>6, Reads DEF Request, Waiting

LEMMA ThumbnailReadsStep == ASSUME StoreInv, NEW c \in Clients, ThumbnailReads(c) PROVE StoreInv'
<1>1. client[c].pc = "reading" /\ client[c].op = "thumbnail" /\ Quiet(c) /\ client[c] \in Request
      /\ Fits(client[c])
  BY DEF ThumbnailReads, At, Elsewhere, Quiet, StoreInv, Requests
<1>2. CASE Finish(c)
  BY <1>1, <1>2, Finishes DEF Quiet, NoRequest, StoreInv
<1>3. CASE client' = [client EXCEPT ![c].pc = "making", ![c].h = resources[client[c].r].hash]
  <2> DEFINE q == [client[c] EXCEPT !.pc = "making", !.h = resources[client[c].r].hash]
  <2>1. resources[client[c].r].hash \in Contents
    BY <1>1 DEF Fits, ThumbnailReads, StoreInv, Tables, TypeOK
  <2>2. q \in Request
    BY <1>1, <2>1 DEF Request
  <2>3. client' = [client EXCEPT ![c] = q]
    BY <1>3 DEF StoreInv, Requests
  <2>4. client'[c] = q /\ resources' = resources
    BY <1>1, <2>3 DEF StoreInv, Requests, Quiet, TablesStay
  <2>5. Fits(client[c])'
    BY <1>1, <2>1, <2>4 DEF Request, Fits, Numbered, Unmatched, Waiting, Stages, Changes, Stores, Live
  <2>6. QED
    BY <1>1, <2>2, <2>3, <2>5, Reads DEF Request, Waiting
<1>4. QED
  BY <1>2, <1>3 DEF ThumbnailReads

-----------------------------------------------------------------------------
(* Files.                                                                    *)

LEMMA OthersFitFiles ==
  ASSUME StoreInv, NEW d \in Clients, client'[d] = client[d], TablesStay,
         client[d].op \in Stores => \A h \in Contents : files[h] # "none" => files'[h] # "none"
  PROVE  Fits(client[d])'
<1>1. Fits(client[d])
  BY DEF StoreInv, Requests
<1>2. client[d].pc \in {"write", "saving"} => files'[client[d].h] # "none"
  BY <1>1 DEF Fits, Stages, Stores, Changes
<1>3. QED
  BY <1>1, <1>2 DEF Fits, TablesStay, VersionsOf, First, Live, Unreferenced, Numbered, Unmatched

LEMMA TablesAndFiles ==
  ASSUME Tables, TablesStay, NEW h \in Contents, NEW kind \in {"none", "partial", "whole"},
         files' = [files EXCEPT ![h] = kind], kind = "none" => Unreferenced(h, resources, versions)
  PROVE  Tables'
<1> USE DEF TablesStay
<1>1. TypeOK' /\ TablesFit'
  BY DEF Tables, TypeOK, TablesFit, Live, VersionsOf
<1>2. RowsHaveFiles'
  <2> SUFFICES ASSUME NEW g \in Contents, ~Unreferenced(g, resources, versions) PROVE files'[g] # "none"
    BY DEF RowsHaveFiles, Referenced, Unreferenced
  <2> QED
    BY DEF Tables, TypeOK, RowsHaveFiles, Referenced
<1>3. NoTwins' /\ NumbersUnique' /\ CurrentAgrees' /\ PreviewsCurrent'
  BY DEF Tables, NoTwins, NumbersUnique, CurrentAgrees, PreviewsCurrent, First, Live, VersionsOf
<1>4. QED
  BY <1>1, <1>2, <1>3 DEF Tables

\* What a step on a file has to show.
LEMMA FileStep ==
  ASSUME StoreInv, NEW c \in Clients, NEW q \in Request, client' = [client EXCEPT ![c] = q],
         client[c].op # "none", TablesStay, Elsewhere,
         NEW h \in Contents, NEW kind \in {"none", "partial", "whole"},
         files' = [files EXCEPT ![h] = kind],
         kind = "none" => Unreferenced(h, resources, versions) /\ client[c].op \notin Stores,
         kind = "partial" => q.pc = "write" /\ q.h = h,
         client[c].pc = "write" => client[c].h = h,
         q.op = client[c].op, q.h = client[c].h, q.r = client[c].r, client[c].pc \notin Waiting,
         Fits(client[c])'
  PROVE  StoreInv'
<1>1. client' \in [Clients -> Request] /\ client'[c] = q /\ \A d \in Clients \ {c} : client'[d] = client[d]
  BY DEF StoreInv, Requests
<1>2. Joins(c, q)
  BY DEF Joins
<1>3. files \in [Contents -> {"none", "partial", "whole"}]
  BY DEF StoreInv, Tables, TypeOK
<1>4. \A d \in Clients : client[d].op \in Stores => \A g \in Contents : files[g] # "none" => files'[g] # "none"
  BY <1>3 DEF StoreInv, Requests, RequestsApart
<1>5. \A d \in Clients : Fits(client[d])'
  BY <1>1, <1>4, OthersFitFiles
<1>6. Requests'
  BY <1>1, <1>2, <1>5, ApartKept DEF Requests, StoreInv
<1>7. Tables'
  BY TablesAndFiles DEF StoreInv
<1>8. Truncated'
  BY <1>1, <1>3 DEF Truncated, StoreInv, Elsewhere
<1>9. migration.pc = "done" /\ migration' = migration /\ faults' = faults
  BY Serving DEF NoRequest, Elsewhere
<1>10. QED
  BY <1>6, <1>7, <1>8, <1>9, MigrationStays DEF StoreInv

\* A store that goes on with its file fits as before when the file is there.
LEMMA StoreGoesOn ==
  ASSUME NEW c \in Clients, Fits(client[c]), client[c].op \in {"add", "upload", "transform"},
         client[c].pc \in {"create", "write"}, client'[c].pc \in {"write", "saving"},
         client'[c].op = client[c].op, client'[c].h = client[c].h, client'[c].r = client[c].r,
         client'[c].n = client[c].n, client[c].h \in Contents, files'[client[c].h] # "none",
         resources' = resources, versions' = versions
  PROVE  Fits(client[c])'
<1> PICK r, h : r = client[c].r /\ h = client[c].h
  OBVIOUS
<1>1. VersionsOf(r)' = VersionsOf(r) /\ \A s \in Resources : First(s)' <=> First(s)
  BY DEF VersionsOf, First, Live
<1>2. Numbered(client[c])' => Numbered(client[c])
  BY DEF Numbered
<1>3. Unmatched(client[c])' => Unmatched(client[c])
  BY DEF Unmatched, Waiting
<1>4. Numbered(client[c])' => /\ VersionsOf(r)' # {} /\ client'[c].n >= 2
                             /\ \A v \in VersionsOf(r)' : v.number < client'[c].n
  BY <1>1, <1>2 DEF Fits
<1>5. Unmatched(client[c])' => \A s \in Resources : First(s)' => resources'[s].hash # h
  BY <1>1, <1>3 DEF Fits
<1>6. <<client'[c].op, client'[c].pc>> \in Stages
  BY DEF Stages
<1>7. QED
  BY <1>4, <1>5, <1>6 DEF Fits, Changes, Stores, VersionsOf, First, Live

LEMMA CreateFileStep == ASSUME StoreInv, NEW c \in Clients, CreateFile(c) PROVE StoreInv'
<1> DEFINE q == [client[c] EXCEPT !.pc = "write"]
<1>1. client[c].pc = "create" /\ client[c].op \in Stores /\ client[c] \in Request /\ Fits(client[c])
      /\ Goto(c, "write") /\ TablesStay /\ Elsewhere
  BY DEF CreateFile, At, StoreInv, Requests
<1>2. PICK h : h = client[c].h
  OBVIOUS
<1>3. client[c].op \in {"add", "upload", "transform"} /\ h \in Contents
  BY <1>1, <1>2 DEF Fits, Stages, Stores, Changes
<1>4. q \in Request /\ client' = [client EXCEPT ![c] = q] /\ client'[c] = q
  BY <1>1 DEF Request, Goto, StoreInv, Requests
<1>5. files' = [files EXCEPT ![h] = "partial"] /\ files'[h] # "none"
  BY <1>2, <1>3 DEF CreateFile, StoreInv, Tables, TypeOK
<1>6. client'[c].pc = "write" /\ client'[c].h = h /\ client'[c].op = client[c].op
      /\ client'[c].r = client[c].r /\ client'[c].n = client[c].n
  BY <1>1, <1>2, <1>4 DEF Request
<1>7. Fits(client[c])'
  BY <1>1, <1>2, <1>3, <1>5, <1>6, StoreGoesOn DEF TablesStay
<1>8. q.pc = "write" /\ q.h = h /\ q.op = client[c].op /\ q.r = client[c].r
  BY <1>4, <1>6
<1> HIDE DEF q
<1>9. QED
  BY <1>1, <1>2, <1>3, <1>4, <1>5, <1>7, <1>8, FileStep DEF Waiting

LEMMA WriteFileStep == ASSUME StoreInv, NEW c \in Clients, WriteFile(c) PROVE StoreInv'
<1> DEFINE q == [client[c] EXCEPT !.pc = "saving"]
<1>1. client[c].pc = "write" /\ client[c].op \in Stores /\ client[c] \in Request /\ Fits(client[c])
      /\ Goto(c, "saving") /\ TablesStay /\ Elsewhere
  BY DEF WriteFile, At, StoreInv, Requests
<1>2. PICK h : h = client[c].h
  OBVIOUS
<1>3. client[c].op \in {"add", "upload", "transform"} /\ h \in Contents
  BY <1>1, <1>2 DEF Fits, Stages, Stores, Changes
<1>4. q \in Request /\ client' = [client EXCEPT ![c] = q] /\ client'[c] = q
  BY <1>1 DEF Request, Goto, StoreInv, Requests
<1>5. files' = [files EXCEPT ![h] = "whole"] /\ files'[h] # "none"
  BY <1>2, <1>3 DEF WriteFile, StoreInv, Tables, TypeOK
<1>6. client'[c].pc = "saving" /\ client'[c].h = h /\ client'[c].op = client[c].op
      /\ client'[c].r = client[c].r /\ client'[c].n = client[c].n
  BY <1>1, <1>2, <1>4 DEF Request
<1>7. Fits(client[c])'
  BY <1>1, <1>2, <1>3, <1>5, <1>6, StoreGoesOn DEF TablesStay
<1>8. q.pc = "saving" /\ q.h = h /\ q.op = client[c].op /\ q.r = client[c].r
  BY <1>4, <1>6
<1> HIDE DEF q
<1>9. QED
  BY <1>1, <1>2, <1>3, <1>4, <1>5, <1>7, <1>8, FileStep DEF Waiting

LEMMA RemoveFileStep == ASSUME StoreInv, NEW c \in Clients, RemoveFile(c) PROVE StoreInv'
<1>1. client[c].pc = "removing" /\ client[c] \in Request /\ Fits(client[c]) /\ TablesStay /\ Elsewhere
  BY DEF RemoveFile, StoreInv, Requests
<1>2. client[c].op \in Destroys
  BY <1>1 DEF Fits, Stages, Destroys
<1>3. CASE Finish(c) /\ files' = files
  BY <1>1, <1>3, Finishes DEF Elsewhere, NoRequest, StoreInv
<1>4. CASE \E h \in client[c].removes : /\ files' = [files EXCEPT ![h] = "none"]
                                        /\ client' = [client EXCEPT ![c].removes = @ \ {h}]
  <2>1. PICK h \in client[c].removes : /\ files' = [files EXCEPT ![h] = "none"]
                                       /\ client' = [client EXCEPT ![c].removes = @ \ {h}]
    BY <1>4
  <2> DEFINE q == [client[c] EXCEPT !.removes = client[c].removes \ {h}]
  <2>2. h \in Contents /\ Unreferenced(h, resources, versions)
    BY <1>1 DEF Fits, Request
  <2>3. q \in Request /\ client' = [client EXCEPT ![c] = q] /\ client'[c] = q
    BY <1>1, <2>1 DEF Request, StoreInv, Requests
  <2>4. /\ q.pc = "removing" /\ q.h = client[c].h /\ q.op = client[c].op /\ q.r = client[c].r
        /\ q.others = client[c].others /\ q.n = client[c].n /\ q.removes = client[c].removes \ {h}
    BY <1>1 DEF Request
  <2> HIDE DEF q
  <2>5. \A g \in client'[c].removes : Unreferenced(g, resources', versions')
    BY <1>1, <2>3, <2>4 DEF Fits, TablesStay, Unreferenced
  <2>6. Fits(client[c])'
    BY <1>1, <1>2, <2>3, <2>4, <2>5
       DEF Fits, Numbered, Unmatched, Waiting, Stages, Changes, Stores, Destroys, TablesStay
  <2>7. client[c].op \notin Stores /\ client[c].op # "none"
    BY <1>2 DEF Destroys, Stores, Changes
  <2>8. QED
    BY <1>1, <2>1, <2>2, <2>3, <2>4, <2>6, <2>7, FileStep DEF Waiting
<1>5. QED
  BY <1>3, <1>4 DEF RemoveFile

-----------------------------------------------------------------------------
(* Stores that commit.                                                       *)

\* Another store keeps its number while its resource keeps its versions, and its
\* content while no resource comes to show it as its first.
LEMMA OthersFitStores ==
  ASSUME StoreInv, NEW d \in Clients, client'[d] = client[d], client[d].op \in Stores \cup {"none"},
         files' = files, NEW r,
         \A s \in Resources \ {r} : VersionsOf(s) # {} => VersionsOf(s)' = VersionsOf(s),
         Numbered(client[d]) => client[d].r # r,
         Unmatched(client[d]) => \A s \in Resources : First(s)' => resources'[s].hash # client[d].h
  PROVE  Fits(client[d])'
<1> PICK s, h : s = client[d].r /\ h = client[d].h
  OBVIOUS
<1>1. Fits(client[d]) /\ client[d].op \notin Destroys \cup {"thumbnail"}
      /\ client[d].pc \notin {"deleting", "counting", "removing", "making"}
  BY DEF StoreInv, Requests, Stores, Changes, Destroys, Fits, Stages
<1>2. (Numbered(client[d])' <=> Numbered(client[d])) /\ (Unmatched(client[d])' <=> Unmatched(client[d]))
  BY DEF Numbered, Unmatched
<1>3. ASSUME Numbered(client[d])
      PROVE  /\ VersionsOf(s)' # {} /\ client'[d].n >= 2
             /\ \A v \in VersionsOf(s)' : v.number < client'[d].n
  <2>1. s \in Resources \ {r} /\ VersionsOf(s) # {}
    BY <1>1, <1>3 DEF Fits, Numbered, Changes
  <2>2. QED
    BY <1>1, <1>3, <2>1 DEF Fits
<1>4. Unmatched(client[d])' => \A t \in Resources : First(t)' => resources'[t].hash # h
  BY <1>2
<1>5. QED
  BY <1>1, <1>2, <1>3, <1>4 DEF Fits, Changes, Stores, Destroys, VersionsOf, First, Live

\* What a step of a store that writes rows has to show.
LEMMA StoreStep ==
  ASSUME StoreInv, NEW c \in Clients, NEW q \in Request, client' = [client EXCEPT ![c] = q],
         client[c].op \in Stores, client[c].pc # "write", files' = files, Elsewhere, Joins(c, q),
         Fits(client[c])', Tables', NEW r,
         \A s \in Resources \ {r} : VersionsOf(s) # {} => VersionsOf(s)' = VersionsOf(s),
         \A d \in Clients \ {c} :
           /\ Numbered(client[d]) => client[d].r # r
           /\ Unmatched(client[d]) => \A s \in Resources : First(s)' => resources'[s].hash # client[d].h
  PROVE  StoreInv'
<1>1. client' \in [Clients -> Request] /\ client'[c] = q /\ \A d \in Clients \ {c} : client'[d] = client[d]
  BY DEF StoreInv, Requests
<1>2. \A d \in Clients : client[d].op \in Stores \cup {"none"}
  BY DEF StoreInv, Requests, RequestsApart
<1>3. \A d \in Clients \ {c} : Fits(client[d])'
  BY <1>1, <1>2, OthersFitStores
<1>4. Requests'
  BY <1>1, <1>3, ApartKept DEF Requests, StoreInv
<1>5. Truncated'
  BY TruncatedStays DEF Elsewhere, StoreInv
<1>6. client[c] # NoRequest /\ migration' = migration /\ faults' = faults
  BY DEF NoRequest, Elsewhere, Stores, Changes
<1>7. QED
  BY <1>4, <1>5, <1>6, Serving, MigrationStays DEF StoreInv

LEMMA StoreFinishes ==
  ASSUME StoreInv, NEW c \in Clients, Finish(c),
         client[c].op \in Stores, client[c].pc # "write", files' = files, Elsewhere, Tables', NEW r,
         \A s \in Resources \ {r} : VersionsOf(s) # {} => VersionsOf(s)' = VersionsOf(s),
         \A d \in Clients \ {c} :
           /\ Numbered(client[d]) => client[d].r # r
           /\ Unmatched(client[d]) => \A s \in Resources : First(s)' => resources'[s].hash # client[d].h
  PROVE  StoreInv'
<1>1. NoRequest \in Request
  BY DEF NoRequest, Request
<1>2. Joins(c, NoRequest)
  BY DEF Joins, NoRequest, Stores, Changes
<1>3. client'[c] = NoRequest
  BY DEF Finish, StoreInv, Requests
<1>4. Fits(client[c])'
  BY <1>3 DEF Fits, NoRequest, Stages, Changes, Stores, Numbered, Unmatched
<1>5. QED
  BY <1>1, <1>2, <1>4, StoreStep DEF Finish

\* A resource is added with its version 1.
LEMMA TablesAdd ==
  ASSUME Tables, NEW r \in Resources, resources[r] = Unborn, NEW h \in Contents, files[h] # "none",
         \A s \in Resources : First(s) => resources[s].hash # h,
         resources' = [resources EXCEPT ![r] = [state |-> "live", hash |-> h, current |-> lastVersion + 1]],
         versions' = versions \cup {Version(lastVersion + 1, r, 1, h)},
         lastVersion' = lastVersion + 1, previews' = previews, files' = files
  PROVE  /\ Tables' /\ \A s \in Resources \ {r} : VersionsOf(s)' = VersionsOf(s) /\ (First(s)' <=> First(s))
         /\ resources'[r].hash = h /\ \A s \in Resources \ {r} : resources'[s] = resources[s]
<1> PICK e : e = Version(lastVersion + 1, r, 1, h)
  OBVIOUS
<1> PICK k : k = lastVersion + 1
  OBVIOUS
<1>1. e.id = k /\ e.resource = r /\ e.number = 1 /\ e.hash = h /\ versions' = versions \cup {e}
      /\ e = [id |-> k, resource |-> r, number |-> 1, hash |-> h]
  BY DEF Version
<1>2. /\ lastVersion \in Nat /\ k \in Nat /\ k > lastVersion /\ lastVersion' = k
      /\ \A v \in versions : v.id \in Nat /\ v.id >= 1 /\ v.id <= lastVersion /\ v.resource \in Resources
      /\ \A v \in versions : resources[v.resource].state = "live" /\ v.resource # r
  BY DEF Tables, TypeOK, TablesFit, Live, Unborn
<1>3. /\ resources'[r] = [state |-> "live", hash |-> h, current |-> k]
      /\ \A s \in Resources \ {r} : resources'[s] = resources[s]
  BY DEF Tables, TablesFit
<1>4. VersionsOf(r) = {} /\ VersionsOf(r)' = {e} /\ \A s \in Resources \ {r} : VersionsOf(s)' = VersionsOf(s)
  BY <1>1, <1>2 DEF VersionsOf
<1>5. \A s \in Resources \ {r} : First(s)' <=> First(s)
  BY <1>3, <1>4 DEF First, Live
<1>6. ~Live(r) /\ Live(r)' /\ \A s \in Resources \ {r} : Live(s)' <=> Live(s)
  BY <1>3 DEF Live, Unborn
<1>7. TypeOK'
  <2>1. files' \in [Contents -> {"none", "partial", "whole"}]
    BY DEF Tables, TypeOK
  <2>2. \A s \in Resources : /\ resources'[s].state \in {"unborn", "live", "deleted"}
                             /\ Live(s)' => resources'[s].hash \in Contents
                             /\ previews'[s] \subseteq Contents
    BY <1>3, <1>6 DEF Tables, TypeOK
  <2>3. \A v \in versions' : resources'[v.resource].state = "live" /\ v.hash \in Contents /\ v.id \in 1 .. lastVersion'
    BY <1>1, <1>2, <1>3 DEF Tables, TypeOK
  <2>4. QED
    BY <2>1, <2>2, <2>3 DEF TypeOK, Live
<1>8. TablesFit'
  <2>1. resources' \in [Resources -> [state : {"unborn", "live", "deleted"},
                                      hash : Contents \cup {"none"}, current : Nat]]
    BY <1>2 DEF Tables, TablesFit
  <2>2. IsFiniteSet(versions')
    BY <1>1, FS_AddElement DEF Tables, TablesFit
  <2>3. \A v \in versions' :
          v \in [id : Nat, resource : Resources, number : Nat, hash : Contents] /\ v.number >= 1
    BY <1>1, <1>2 DEF Tables, TablesFit
  <2>4. \A u, v \in versions' : u.id = v.id => u = v
    BY <1>1, <1>2 DEF Tables, TablesFit
  <2>5. \A s \in Resources :
       /\ Live(s)' /\ resources'[s].current = 0 =>
            \A v \in VersionsOf(s)' : v.number = 1 /\ v.hash = resources'[s].hash
       /\ ~Live(s)' => previews'[s] = {}
    <3>1. \A s \in Resources \ {r} :
            /\ Live(s)' /\ resources'[s].current = 0 =>
                 \A v \in VersionsOf(s)' : v.number = 1 /\ v.hash = resources'[s].hash
            /\ ~Live(s)' => previews'[s] = {}
      BY <1>3, <1>4, <1>6 DEF Tables, TablesFit
    <3>2. QED
      BY <1>1, <1>3, <1>4, <1>6, <3>1
  <2>6. previews' \in [Resources -> SUBSET Contents] /\ lastVersion' \in Nat
    BY <1>2 DEF Tables, TablesFit
  <2>7. QED
    BY <2>1, <2>2, <2>3, <2>4, <2>5, <2>6 DEF TablesFit
<1>9. RowsHaveFiles'
  <2> SUFFICES ASSUME NEW g \in Contents, ~Unreferenced(g, resources', versions') PROVE files[g] # "none"
    BY DEF RowsHaveFiles, Referenced
  <2>1. g = h \/ ~Unreferenced(g, resources, versions)
    BY <1>1, <1>3 DEF Unreferenced
  <2>2. QED
    BY <2>1 DEF Tables, RowsHaveFiles, Referenced
<1>10. NoTwins'
  <2> SUFFICES ASSUME NEW s \in Resources, NEW t \in Resources, First(s)', First(t)',
                      resources'[s].hash = resources'[t].hash
               PROVE  s = t
    BY DEF NoTwins
  <2>1. CASE s # r /\ t # r
    BY <1>3, <1>5, <2>1 DEF Tables, NoTwins
  <2>2. CASE s = r \/ t = r
    BY <1>3, <1>5, <2>2
  <2>3. QED
    BY <2>1, <2>2
<1>11. NumbersUnique'
  BY <1>1, <1>2 DEF Tables, NumbersUnique
<1>12. CurrentAgrees'
  <2> SUFFICES ASSUME NEW s \in Resources, Live(s)', resources'[s].current # 0
               PROVE  \E v \in VersionsOf(s)' : v.id = resources'[s].current /\ v.hash = resources'[s].hash
    BY DEF CurrentAgrees
  <2>1. CASE s = r
    BY <1>1, <1>3, <1>4, <2>1
  <2>2. CASE s # r
    BY <1>3, <1>4, <1>6, <2>2 DEF Tables, CurrentAgrees
  <2>3. QED
    BY <2>1, <2>2
<1>13. PreviewsCurrent'
  BY <1>3, <1>6 DEF Tables, TablesFit, PreviewsCurrent
<1>14. QED
  BY <1>3, <1>4, <1>5, <1>7, <1>8, <1>9, <1>10, <1>11, <1>12, <1>13 DEF Tables

LEMMA AddCommitsStep == ASSUME StoreInv, NEW c \in Clients, AddCommits(c) PROVE StoreInv'
<1>1. PICK r \in Resources :
       /\ resources[r] = Unborn
       /\ resources' = [resources EXCEPT ![r] =
                          [state |-> "live", hash |-> client[c].h, current |-> lastVersion + 1]]
       /\ versions' = versions \cup {Version(lastVersion + 1, r, 1, client[c].h)}
  BY DEF AddCommits
<1>2. client[c].op = "add" /\ client[c].pc = "saving" /\ Fits(client[c]) /\ Finish(c) /\ Elsewhere
      /\ files' = files /\ previews' = previews /\ lastVersion' = lastVersion + 1 /\ Tables
  BY DEF AddCommits, At, StoreInv, Requests
<1>3. PICK h : h = client[c].h
  OBVIOUS
<1>4. h \in Contents /\ files[h] # "none" /\ \A s \in Resources : First(s) => resources[s].hash # h
  BY <1>2, <1>3 DEF Fits, Unmatched, Waiting
<1>5. /\ Tables' /\ \A s \in Resources \ {r} : VersionsOf(s)' = VersionsOf(s) /\ (First(s)' <=> First(s))
      /\ resources'[r].hash = h /\ \A s \in Resources \ {r} : resources'[s] = resources[s]
  BY <1>1, <1>2, <1>3, <1>4, TablesAdd
<1>6. VersionsOf(r) = {}
  BY <1>1, <1>2 DEF Tables, TypeOK, VersionsOf, Live, Unborn
<1>7. ASSUME NEW d \in Clients \ {c}
      PROVE  /\ Numbered(client[d]) => client[d].r # r
             /\ Unmatched(client[d]) => \A s \in Resources : First(s)' => resources'[s].hash # client[d].h
  <2>1. Fits(client[d])
    BY DEF StoreInv, Requests
  <2>2. Numbered(client[d]) => client[d].r # r
    BY <1>6, <2>1 DEF Fits
  <2>3. Unmatched(client[d]) => client[d].h # h
    BY <1>2, <1>3 DEF Unmatched, Waiting, StoreInv, Requests, RequestsApart
  <2>4. QED
    BY <1>5, <2>1, <2>2, <2>3 DEF Fits
<1>8. client[c].op \in Stores /\ client[c].pc # "write"
  BY <1>2 DEF Stores
<1>9. QED
  BY <1>2, <1>5, <1>7, <1>8, StoreFinishes

\* A resource with no version gets the version 1 of what it shows.
LEMMA TablesFirst ==
  ASSUME Tables, NEW r \in Resources, Live(r), VersionsOf(r) = {},
         versions' = versions \cup {Version(lastVersion + 1, r, 1, resources[r].hash)},
         lastVersion' = lastVersion + 1, resources' = resources, previews' = previews, files' = files
  PROVE  /\ Tables' /\ \A s \in Resources \ {r} : VersionsOf(s)' = VersionsOf(s)
         /\ VersionsOf(r)' = {Version(lastVersion + 1, r, 1, resources[r].hash)}
         /\ \A s \in Resources : First(s)' <=> First(s)
<1> PICK h : h = resources[r].hash
  OBVIOUS
<1> PICK e : e = Version(lastVersion + 1, r, 1, h)
  OBVIOUS
<1> PICK k : k = lastVersion + 1
  OBVIOUS
<1>1. e.id = k /\ e.resource = r /\ e.number = 1 /\ e.hash = h /\ versions' = versions \cup {e}
      /\ e = [id |-> k, resource |-> r, number |-> 1, hash |-> h]
  BY DEF Version
<1>2. /\ lastVersion \in Nat /\ k \in Nat /\ k > lastVersion /\ lastVersion' = k
      /\ \A v \in versions : v.id \in Nat /\ v.id >= 1 /\ v.id <= lastVersion /\ v.resource \in Resources
      /\ \A v \in versions : resources[v.resource].state = "live" /\ v.resource # r
      /\ h \in Contents /\ resources[r].state = "live"
  BY DEF Tables, TypeOK, TablesFit, Live, VersionsOf
<1>3. resources[r].current = 0
  BY DEF Tables, CurrentAgrees
<1>4. VersionsOf(r)' = {e} /\ \A s \in Resources \ {r} : VersionsOf(s)' = VersionsOf(s)
  BY <1>1, <1>2 DEF VersionsOf
<1>5. \A s \in Resources : Live(s)' <=> Live(s)
  BY DEF Live
<1>6. \A s \in Resources : First(s)' <=> First(s)
  <2>1. First(r)' /\ First(r)
    BY <1>3, <1>5 DEF First
  <2>2. QED
    BY <2>1, <1>4, <1>5 DEF First
<1>7. TypeOK'
  <2>1. \A v \in versions' : resources[v.resource].state = "live" /\ v.hash \in Contents /\ v.id \in 1 .. lastVersion'
    BY <1>1, <1>2 DEF Tables, TypeOK
  <2>2. QED
    BY <2>1 DEF Tables, TypeOK, Live
<1>8. TablesFit'
  <2>1. IsFiniteSet(versions')
    BY <1>1, FS_AddElement DEF Tables, TablesFit
  <2>2. \A v \in versions' :
          v \in [id : Nat, resource : Resources, number : Nat, hash : Contents] /\ v.number >= 1
    BY <1>1, <1>2 DEF Tables, TablesFit
  <2>3. \A u, v \in versions' : u.id = v.id => u = v
    BY <1>1, <1>2 DEF Tables, TablesFit
  <2>4. \A s \in Resources :
       /\ Live(s)' /\ resources[s].current = 0 => \A v \in VersionsOf(s)' : v.number = 1 /\ v.hash = resources[s].hash
       /\ ~Live(s)' => previews[s] = {}
    BY <1>1, <1>4, <1>5 DEF Tables, TablesFit
  <2>5. QED
    BY <1>2, <2>1, <2>2, <2>3, <2>4 DEF TablesFit, Tables
<1>9. RowsHaveFiles'
  <2> SUFFICES ASSUME NEW g \in Contents, ~Unreferenced(g, resources, versions') PROVE files[g] # "none"
    BY DEF RowsHaveFiles, Referenced
  <2>1. ~Unreferenced(g, resources, versions)
    BY <1>1, <1>2 DEF Unreferenced
  <2>2. QED
    BY <2>1 DEF Tables, RowsHaveFiles, Referenced
<1>10. NoTwins'
  BY <1>6 DEF Tables, NoTwins
<1>11. NumbersUnique'
  BY <1>1, <1>2 DEF Tables, NumbersUnique
<1>12. CurrentAgrees'
  BY <1>3, <1>4, <1>5 DEF Tables, CurrentAgrees
<1>13. PreviewsCurrent'
  BY <1>5 DEF Tables, PreviewsCurrent
<1>14. QED
  BY <1>4, <1>6, <1>7, <1>8, <1>9, <1>10, <1>11, <1>12, <1>13 DEF Tables

\* A resource gets a version that becomes its current one, after the version 1 of what
\* it showed when it had none.
LEMMA TablesVersion ==
  ASSUME Tables, NEW r \in Resources, Live(r), NEW old,
         (VersionsOf(r) # {} /\ old = {})
         \/ (VersionsOf(r) = {} /\ old = {Version(lastVersion + 1, r, 1, resources[r].hash)}),
         NEW k \in Nat, k > lastVersion, old # {} => k > lastVersion + 1,
         NEW n \in Nat, n >= 2, \A v \in VersionsOf(r) : v.number < n,
         NEW h \in Contents, files[h] # "none",
         versions' = versions \cup old \cup {Version(k, r, n, h)}, lastVersion' = k,
         MakeCurrent(r, k, h), ClearPreviews(r), files' = files
  PROVE  /\ Tables' /\ \A s \in Resources \ {r} : VersionsOf(s)' = VersionsOf(s)
         /\ ~First(r)'
         /\ \A s \in Resources \ {r} : resources'[s] = resources[s] /\ (First(s)' <=> First(s))
<1> PICK g : g = resources[r].hash
  OBVIOUS
<1> PICK e : e = Version(k, r, n, h)
  OBVIOUS
<1>1. /\ e.id = k /\ e.resource = r /\ e.number = n /\ e.hash = h
      /\ e = [id |-> k, resource |-> r, number |-> n, hash |-> h]
      /\ versions' = versions \cup old \cup {e}
  BY DEF Version
<1>2. \A v \in old : /\ v.id = lastVersion + 1 /\ v.resource = r /\ v.number = 1 /\ v.hash = g
                     /\ v = [id |-> lastVersion + 1, resource |-> r, number |-> 1, hash |-> g]
  BY DEF Version
<1>3. \A u, v \in old : u = v
  OBVIOUS
<1>4. /\ lastVersion \in Nat /\ lastVersion' = k /\ g \in Contents /\ resources[r].state = "live"
      /\ \A v \in versions : /\ v.id \in Nat /\ v.id >= 1 /\ v.id <= lastVersion
                             /\ v.resource \in Resources /\ resources[v.resource].state = "live"
                             /\ v.hash \in Contents
  BY DEF Tables, TypeOK, TablesFit, Live
<1>5. \A v \in old : v.id \in Nat /\ v.id > lastVersion /\ v.id < k /\ v.number < n
  BY <1>2, <1>4
<1>6. /\ resources'[r].hash = h /\ resources'[r].current = k /\ resources'[r].state = "live"
      /\ \A s \in Resources \ {r} : resources'[s] = resources[s]
      /\ previews'[r] = {} /\ \A s \in Resources \ {r} : previews'[s] = previews[s]
  BY <1>4 DEF Tables, TablesFit, MakeCurrent, ClearPreviews
<1>7. /\ VersionsOf(r)' = VersionsOf(r) \cup old \cup {e}
      /\ \A s \in Resources \ {r} : VersionsOf(s)' = VersionsOf(s)
  BY <1>1, <1>2 DEF VersionsOf
<1>8. \A s \in Resources : Live(s)' <=> Live(s)
  BY <1>4, <1>6 DEF Live
<1>9. \A v \in VersionsOf(r)' : v.id = k => v = e
  BY <1>1, <1>4, <1>5, <1>7 DEF VersionsOf
<1>10. ~First(r)'
  BY <1>1, <1>4, <1>6, <1>9 DEF First
<1>11. \A s \in Resources \ {r} : First(s)' <=> First(s)
  BY <1>6, <1>7, <1>8 DEF First
<1>12. TypeOK'
  <2>1. \A v \in versions' : resources'[v.resource].state = "live" /\ v.hash \in Contents /\ v.id \in 1 .. lastVersion'
    BY <1>1, <1>2, <1>4, <1>5, <1>6 DEF Tables, TypeOK
  <2>2. \A s \in Resources : /\ resources'[s].state \in {"unborn", "live", "deleted"}
                             /\ Live(s)' => resources'[s].hash \in Contents
                             /\ previews'[s] \subseteq Contents
    BY <1>6, <1>8 DEF Tables, TypeOK
  <2>3. QED
    BY <2>1, <2>2 DEF Tables, TypeOK, Live
<1>13. TablesFit'
  <2>1. IsFiniteSet(versions')
    <3>1. old = {} \/ \E x : old = {x}
      OBVIOUS
    <3>2. IsFiniteSet(old)
      BY <3>1, AtMostOne
    <3>3. IsFiniteSet(versions \cup old)
      BY <3>2, FS_Union DEF Tables, TablesFit
    <3>4. IsFiniteSet((versions \cup old) \cup {e})
      BY <3>3, FS_AddElement
    <3>5. QED
      BY <1>1, <3>4
  <2>2. \A v \in versions' :
          v \in [id : Nat, resource : Resources, number : Nat, hash : Contents] /\ v.number >= 1
    BY <1>1, <1>2, <1>4 DEF Tables, TablesFit
  <2>3. \A u, v \in versions' : u.id = v.id => u = v
    BY <1>1, <1>3, <1>4, <1>5 DEF Tables, TablesFit
  <2>4. \A s \in Resources :
       /\ Live(s)' /\ resources'[s].current = 0 => \A v \in VersionsOf(s)' : v.number = 1 /\ v.hash = resources'[s].hash
       /\ ~Live(s)' => previews'[s] = {}
    <3>1. resources'[r].current # 0 /\ Live(r)
      BY <1>4, <1>6
    <3>2. QED
      BY <1>6, <1>7, <1>8, <3>1 DEF Tables, TablesFit
  <2>5. resources' \in [Resources -> [state : {"unborn", "live", "deleted"},
                                      hash : Contents \cup {"none"}, current : Nat]]
    <3> DEFINE RowType == [state : {"unborn", "live", "deleted"}, hash : Contents \cup {"none"}, current : Nat]
               row == [resources[r] EXCEPT !.hash = h, !.current = k]
    <3>1. resources \in [Resources -> RowType]
      BY DEF Tables, TablesFit
    <3>2. row \in RowType
      BY <3>1
    <3>3. resources' = [resources EXCEPT ![r] = row]
      BY <3>1 DEF MakeCurrent
    <3> HIDE DEF RowType, row
    <3>4. resources' \in [Resources -> RowType]
      BY <3>1, <3>2, <3>3
    <3>5. QED
      BY <3>4 DEF RowType
  <2>6. previews' \in [Resources -> SUBSET Contents]
    BY DEF Tables, TablesFit, ClearPreviews
  <2>7. QED
    BY <1>4, <2>1, <2>2, <2>3, <2>4, <2>5, <2>6 DEF TablesFit
<1>14. RowsHaveFiles'
  <2> SUFFICES ASSUME NEW f \in Contents, ~Unreferenced(f, resources', versions') PROVE files[f] # "none"
    BY DEF RowsHaveFiles, Referenced
  <2>1. f = h \/ ~Unreferenced(f, resources, versions)
    BY <1>1, <1>2, <1>4, <1>6 DEF Unreferenced
  <2>2. QED
    BY <2>1 DEF Tables, RowsHaveFiles, Referenced
<1>15. NoTwins'
  <2> SUFFICES ASSUME NEW s \in Resources, NEW t \in Resources, First(s)', First(t)',
                      resources'[s].hash = resources'[t].hash
               PROVE  s = t
    BY DEF NoTwins
  <2>1. s # r /\ t # r
    BY <1>10
  <2>2. QED
    BY <1>6, <1>11, <2>1 DEF Tables, NoTwins
<1>16. NumbersUnique'
  <2> SUFFICES ASSUME NEW u \in versions', NEW v \in versions', u.resource = v.resource, u.number = v.number
               PROVE  u = v
    BY DEF NumbersUnique
  <2>1. CASE u \in versions /\ v \in versions
    BY <2>1 DEF Tables, NumbersUnique
  <2>2. CASE u.resource = r
    <3>1. u \in VersionsOf(r) \cup old \cup {e} /\ v \in VersionsOf(r) \cup old \cup {e}
      BY <1>1, <2>2 DEF VersionsOf
    <3>2. \A w \in VersionsOf(r) \cup old : w.number < n /\ w.number \in Nat
      BY <1>2, <1>5, VersionsOfAre
    <3>3. CASE u = e \/ v = e
      BY <1>1, <3>1, <3>2, <3>3
    <3>4. CASE u \in VersionsOf(r) \cup old /\ v \in VersionsOf(r) \cup old
      BY <1>3, <3>4, <2>1 DEF VersionsOf
    <3>5. QED
      BY <3>1, <3>3, <3>4
  <2>3. CASE u.resource # r
    <3>1. u \in versions /\ v \in versions
      BY <1>1, <1>2, <2>3
    <3>2. QED
      BY <2>1, <3>1
  <2>4. QED
    BY <2>2, <2>3
<1>17. CurrentAgrees'
  <2> SUFFICES ASSUME NEW s \in Resources, Live(s)', resources'[s].current # 0
               PROVE  \E v \in VersionsOf(s)' : v.id = resources'[s].current /\ v.hash = resources'[s].hash
    BY DEF CurrentAgrees
  <2>1. CASE s = r
    BY <1>1, <1>6, <1>7, <2>1
  <2>2. CASE s # r
    BY <1>6, <1>7, <1>8, <2>2 DEF Tables, CurrentAgrees
  <2>3. QED
    BY <2>1, <2>2
<1>18. PreviewsCurrent'
  BY <1>6, <1>8 DEF Tables, PreviewsCurrent
<1>19. QED
  BY <1>6, <1>7, <1>10, <1>11, <1>12, <1>13, <1>14, <1>15, <1>16, <1>17, <1>18 DEF Tables

LEMMA VersionCommitsStep == ASSUME StoreInv, NEW c \in Clients, VersionCommits(c) PROVE StoreInv'
<1>1. /\ client[c].op \in {"upload", "restore"} /\ client[c].pc = "saving" /\ Fits(client[c])
      /\ client[c] \in Request /\ Finish(c) /\ Elsewhere /\ files' = files /\ Tables
  BY DEF VersionCommits, At, StoreInv, Requests
<1>2. PICK r, h, n : r = client[c].r /\ h = client[c].h /\ n = client[c].n
  OBVIOUS
<1>3. /\ r \in Resources /\ h \in Contents /\ files[h] # "none" /\ n \in Nat /\ n >= 2
      /\ VersionsOf(r) # {} /\ \A v \in VersionsOf(r) : v.number < n
  BY <1>1, <1>2 DEF Fits, Changes, Numbered, Request
<1>4. Live(r)
  BY <1>1, <1>3 DEF Tables, TypeOK, VersionsOf
<1>5. /\ versions' = versions \cup {Version(lastVersion + 1, r, n, h)}
      /\ lastVersion' = lastVersion + 1
      /\ MakeCurrent(r, lastVersion + 1, h) /\ ClearPreviews(r)
  BY <1>2, <1>4 DEF VersionCommits
<1>6. /\ Tables' /\ \A s \in Resources \ {r} : VersionsOf(s)' = VersionsOf(s)
      /\ ~First(r)'
      /\ \A s \in Resources \ {r} : resources'[s] = resources[s] /\ (First(s)' <=> First(s))
  <2>1. versions' = versions \cup {} \cup {Version(lastVersion + 1, r, n, h)}
    BY <1>5
  <2>2. lastVersion \in Nat /\ lastVersion + 1 \in Nat /\ lastVersion + 1 > lastVersion
    BY <1>1 DEF Tables, TablesFit
  <2>3. QED
    BY <1>1, <1>3, <1>4, <1>5, <2>1, <2>2, TablesVersion
<1>7. ASSUME NEW d \in Clients \ {c}
      PROVE  /\ Numbered(client[d]) => client[d].r # r
             /\ Unmatched(client[d]) => \A s \in Resources : First(s)' => resources'[s].hash # client[d].h
  <2>1. Fits(client[d])
    BY DEF StoreInv, Requests
  <2>2. Numbered(client[d]) => client[d].r # r
    BY <1>1, <1>2, <2>1 DEF Numbered, Waiting, Changes, StoreInv, Requests, RequestsApart, Fits, Stages
  <2>3. QED
    BY <1>6, <2>1, <2>2 DEF Fits
<1>8. client[c].op \in Stores /\ client[c].pc # "write"
  BY <1>1 DEF Stores, Changes
<1>9. QED
  BY <1>1, <1>6, <1>7, <1>8, StoreFinishes

LEMMA TransformCommitsStep == ASSUME StoreInv, NEW c \in Clients, TransformCommits(c) PROVE StoreInv'
<1>1. /\ client[c].op = "transform" /\ client[c].pc = "saving" /\ Fits(client[c])
      /\ client[c] \in Request /\ Finish(c) /\ Elsewhere /\ files' = files /\ Tables
  BY DEF TransformCommits, At, StoreInv, Requests
<1>2. PICK r, h : r = client[c].r /\ h = client[c].h
  OBVIOUS
<1>3. r \in Resources /\ h \in Contents /\ files[h] # "none"
  BY <1>1, <1>2 DEF Fits, Changes
<1>4. CASE ~Live(r)
  <2>1. TablesStay
    BY <1>2, <1>4 DEF TransformCommits
  <2>2. QED
    BY <1>1, <2>1, Finishes DEF Elsewhere, NoRequest, StoreInv
<1>5. CASE Live(r)
  <2>1. PICK old, n, k : /\ old = Original(r) /\ n = MaxNumber(VersionsOf(r) \cup old) + 1
                         /\ k = lastVersion + Cardinality(old) + 1
    OBVIOUS
  <2>2. /\ versions' = versions \cup old \cup {Version(k, r, n, h)} /\ lastVersion' = k
        /\ MakeCurrent(r, k, h) /\ ClearPreviews(r)
    BY <1>2, <1>5, <2>1 DEF TransformCommits
  <2>3. (VersionsOf(r) # {} /\ old = {})
        \/ (VersionsOf(r) = {} /\ old = {Version(lastVersion + 1, r, 1, resources[r].hash)})
    BY <2>1 DEF Original
  <2>4. lastVersion \in Nat /\ IsFiniteSet(old)
        /\ Cardinality(old) = (IF old = {} THEN 0 ELSE 1)
    <3>1. old = {} \/ \E x : old = {x}
      BY <2>3
    <3>2. QED
      BY <1>1, <3>1, AtMostOne DEF Tables, TablesFit
  <2>5. k \in Nat /\ k > lastVersion /\ (old # {} => k > lastVersion + 1)
    BY <2>1, <2>4
  <2>6. n \in Nat /\ n >= 2 /\ \A v \in VersionsOf(r) : v.number < n
    <3>1. IsFiniteSet(VersionsOf(r) \cup old)
      BY <1>1, <2>4, VersionsOfAre, FS_Union
    <3>2. \A v \in VersionsOf(r) \cup old : v.number \in Nat /\ v.number >= 1
      BY <1>1, <2>3, VersionsOfAre DEF Version
    <3>3. VersionsOf(r) \cup old # {}
      BY <2>3
    <3> DEFINE m == MaxNumber(VersionsOf(r) \cup old)
    <3>4. m \in Nat /\ \A v \in VersionsOf(r) \cup old : v.number <= m
      BY <3>1, <3>2, MaxNumberIsMax
    <3>5. n = m + 1
      BY <2>1
    <3> HIDE DEF m
    <3>6. QED
      BY <3>2, <3>3, <3>4, <3>5
  <2>7. /\ Tables' /\ \A s \in Resources \ {r} : VersionsOf(s)' = VersionsOf(s)
        /\ ~First(r)'
        /\ \A s \in Resources \ {r} : resources'[s] = resources[s] /\ (First(s)' <=> First(s))
    BY <1>1, <1>3, <1>5, <2>2, <2>3, <2>5, <2>6, TablesVersion
  <2>8. ASSUME NEW d \in Clients \ {c}
        PROVE  /\ Numbered(client[d]) => client[d].r # r
               /\ Unmatched(client[d]) => \A s \in Resources : First(s)' => resources'[s].hash # client[d].h
    <3>1. Fits(client[d])
      BY DEF StoreInv, Requests
    <3>2. Numbered(client[d]) => client[d].r # r
      BY <1>1, <1>2, <3>1 DEF Numbered, Waiting, Changes, StoreInv, Requests, RequestsApart, Fits, Stages
    <3>3. QED
      BY <2>7, <3>1, <3>2 DEF Fits
  <2>9. client[c].op \in Stores /\ client[c].pc # "write"
    BY <1>1 DEF Stores, Changes
  <2>10. QED
    BY <1>1, <2>7, <2>8, <2>9, StoreFinishes
<1>6. QED
  BY <1>4, <1>5

LEMMA UploadReadsStep == ASSUME StoreInv, NEW c \in Clients, UploadReads(c) PROVE StoreInv'
<1>1. /\ client[c].op = "upload" /\ client[c].pc = "reading" /\ Fits(client[c])
      /\ client[c] \in Request /\ Elsewhere /\ files' = files /\ resources' = resources
      /\ previews' = previews /\ Tables
  BY DEF UploadReads, At, StoreInv, Requests
<1>2. PICK r, h, n : /\ r = client[c].r /\ h = client[c].h
                     /\ n = MaxNumber(VersionsOf(r) \cup
                                       (IF VersionsOf(r) = {} THEN {[number |-> 1]} ELSE {})) + 1
  OBVIOUS
<1>3. r \in Resources /\ h \in Contents /\ Live(r)
  BY <1>1, <1>2 DEF Fits, Changes, Stores, UploadReads
<1> DEFINE q == [client[c] EXCEPT !.pc = "stat", !.n = n]
<1>4. client' = [client EXCEPT ![c] = q]
  BY <1>2 DEF UploadReads, StoreInv, Requests
<1>5. n \in Nat /\ n >= 2 /\ \A v \in VersionsOf(r) : v.number < n
  <2> DEFINE vs == VersionsOf(r) \cup (IF VersionsOf(r) = {} THEN {[number |-> 1]} ELSE {})
             m == MaxNumber(vs)
  <2>1. IsFiniteSet(vs)
    <3> DEFINE one == IF VersionsOf(r) = {} THEN {[number |-> 1]} ELSE {}
    <3>1. one = {} \/ \E x : one = {x}
      OBVIOUS
    <3>2. vs = VersionsOf(r) \cup one
      OBVIOUS
    <3> HIDE DEF one, vs
    <3>3. IsFiniteSet(one) /\ IsFiniteSet(VersionsOf(r))
      BY <1>1, <3>1, AtMostOne, VersionsOfAre
    <3>4. QED
      BY <3>2, <3>3, FS_Union
  <2>2. vs # {} /\ \A v \in vs : v.number \in Nat /\ v.number >= 1
    <3>1. \A v \in VersionsOf(r) : v.number \in Nat /\ v.number >= 1
      BY <1>1, VersionsOfAre
    <3>2. CASE VersionsOf(r) = {}
      <4>1. vs = {[number |-> 1]}
        BY <3>2
      <4>2. \A v \in {[number |-> 1]} : v.number = 1
        OBVIOUS
      <4> HIDE DEF vs
      <4>3. QED
        BY <4>1, <4>2
    <3>3. CASE VersionsOf(r) # {}
      <4>1. vs = VersionsOf(r)
        BY <3>3
      <4>2. QED
        BY <3>1, <3>3, <4>1
    <3>4. QED
      BY <3>2, <3>3
  <2>3. m \in Nat /\ \A v \in vs : v.number <= m
    <3> HIDE DEF vs
    <3> QED
      BY <2>1, <2>2, MaxNumberIsMax
  <2>4. n = m + 1 /\ VersionsOf(r) \subseteq vs
    BY <1>2
  <2> HIDE DEF m, vs
  <2>5. QED
    BY <2>2, <2>3, <2>4
<1>6. q \in Request
  BY <1>1, <1>5 DEF Request
<1>7. /\ Tables' /\ \A s \in Resources \ {r} : VersionsOf(s)' = VersionsOf(s)
      /\ VersionsOf(r)' # {} /\ \A v \in VersionsOf(r)' : v.number < n
      /\ \A s \in Resources : First(s)' <=> First(s)
  <2>1. CASE VersionsOf(r) = {}
    <3>1. /\ versions' = versions \cup {Version(lastVersion + 1, r, 1, resources[r].hash)}
          /\ lastVersion' = lastVersion + 1
      BY <1>2, <2>1 DEF UploadReads
    <3>2. /\ Tables' /\ \A s \in Resources \ {r} : VersionsOf(s)' = VersionsOf(s)
          /\ VersionsOf(r)' = {Version(lastVersion + 1, r, 1, resources[r].hash)}
          /\ \A s \in Resources : First(s)' <=> First(s)
      BY <1>1, <1>3, <2>1, <3>1, TablesFirst
    <3>3. QED
      BY <1>5, <3>2 DEF Version
  <2>2. CASE VersionsOf(r) # {}
    <3>1. TablesStay
      BY <1>1, <1>2, <2>2 DEF UploadReads, TablesStay
    <3>2. Tables'
      BY <1>1, <3>1, TablesKept
    <3>3. \A s \in Resources : VersionsOf(s)' = VersionsOf(s) /\ (First(s)' <=> First(s))
      BY <3>1 DEF TablesStay, VersionsOf, First, Live
    <3>4. QED
      BY <1>3, <1>5, <2>2, <3>2, <3>3
  <2>3. QED
    BY <2>1, <2>2
<1>8. client'[c] = q
  BY <1>4 DEF StoreInv, Requests
<1>9. /\ client'[c].op = "upload" /\ client'[c].pc = "stat" /\ client'[c].r = r /\ client'[c].h = h
      /\ client'[c].n = n
  BY <1>1, <1>2, <1>8 DEF Request
<1>10. Fits(client[c])'
  BY <1>3, <1>5, <1>7, <1>9 DEF Fits, Stages, Numbered, Unmatched, Changes, Stores, VersionsOf
<1>11. Joins(c, q)
  BY <1>1 DEF Joins, Request, Stores, Changes, Waiting
<1> HIDE DEF q
<1>12. ASSUME NEW d \in Clients \ {c}
       PROVE  /\ Numbered(client[d]) => client[d].r # r
              /\ Unmatched(client[d]) => \A s \in Resources : First(s)' => resources'[s].hash # client[d].h
  <2>1. Fits(client[d])
    BY DEF StoreInv, Requests
  <2>2. Numbered(client[d]) => client[d].r # r
    BY <1>1, <1>2, <2>1 DEF Numbered, Waiting, Changes, StoreInv, Requests, RequestsApart, Fits, Stages
  <2>3. QED
    BY <1>1, <1>7, <2>1, <2>2 DEF Fits
<1>13. client[c].op \in Stores /\ client[c].pc # "write"
  BY <1>1 DEF Stores, Changes
<1>14. QED
  BY <1>1, <1>4, <1>6, <1>7, <1>10, <1>11, <1>12, <1>13, StoreStep

-----------------------------------------------------------------------------
(* Requests that delete.                                                     *)

\* What a deletion or a preview has read stays so while rows only go away.
LEMMA OthersFitDeletes ==
  ASSUME StoreInv, NEW d \in Clients, client'[d] = client[d], client[d].op \notin Stores, files' = files,
         \A s \in Resources : Live(s)' => Live(s) /\ resources'[s] = resources[s],
         \A h \in Contents : Unreferenced(h, resources, versions) => Unreferenced(h, resources', versions')
  PROVE  Fits(client[d])'
<1>1. Fits(client[d]) /\ client[d] \in Request
  BY DEF StoreInv, Requests
<1>2. client[d].pc \notin {"write", "saving"} /\ ~Numbered(client[d]) /\ ~Unmatched(client[d])
  BY <1>1 DEF Fits, Stages, Stores, Changes, Numbered, Unmatched
<1>3. ~Numbered(client[d])' /\ ~Unmatched(client[d])'
  BY <1>2 DEF Numbered, Unmatched
<1>4. \A h \in client[d].removes : h \in Contents
  BY <1>1 DEF Request
<1>5. client[d].pc = "making" => client[d].r \in Resources
  BY <1>1 DEF Fits, Stages
<1>6. QED
  BY <1>1, <1>2, <1>3, <1>4, <1>5 DEF Fits, Live

\* What a step of a request that is no store has to show when it changes rows.
LEMMA DestroyStep ==
  ASSUME StoreInv, NEW c \in Clients, NEW q \in Request, client' = [client EXCEPT ![c] = q],
         client[c].op \notin Stores \cup {"none"}, q.op \in {client[c].op, "none"}, files' = files, Elsewhere,
         Tables', Fits(client[c])',
         \A s \in Resources : Live(s)' => Live(s) /\ resources'[s] = resources[s],
         \A h \in Contents : Unreferenced(h, resources, versions) => Unreferenced(h, resources', versions')
  PROVE  StoreInv'
<1>1. client' \in [Clients -> Request] /\ client'[c] = q /\ \A d \in Clients \ {c} : client'[d] = client[d]
  BY DEF StoreInv, Requests
<1>2. \A d \in Clients : client[d].op \notin Stores
  BY DEF StoreInv, Requests, RequestsApart
<1>3. \A d \in Clients \ {c} : Fits(client[d])'
  BY <1>1, <1>2, OthersFitDeletes
<1>4. Joins(c, q)
  BY DEF Joins, Stores, Changes
<1>5. Requests'
  BY <1>1, <1>3, <1>4, ApartKept DEF Requests, StoreInv
<1>6. client[c].pc # "write"
  BY DEF StoreInv, Requests, Fits, Stages, Stores, Changes
<1>7. Truncated'
  BY <1>6, TruncatedStays DEF Elsewhere, StoreInv
<1>8. client[c] # NoRequest /\ migration' = migration /\ faults' = faults
  BY DEF NoRequest, Elsewhere
<1>9. QED
  BY <1>5, <1>7, <1>8, Serving, MigrationStays DEF StoreInv

Gone == [Unborn EXCEPT !.state = "deleted"]

\* Resources go with their versions, and versions that are not current.
LEMMA TablesLess ==
  ASSUME Tables, NEW gone \in SUBSET Resources, resources' = Without(gone), files' = files,
         lastVersion' = lastVersion, versions' \subseteq versions,
         \A v \in versions' : v.resource \notin gone,
         \A s \in Resources \ gone : Live(s) /\ resources[s].current # 0 =>
           \A v \in VersionsOf(s) : v.id = resources[s].current => v \in versions',
         previews' = [r \in Resources |-> IF r \in gone THEN {} ELSE previews[r]]
  PROVE  /\ Tables'
         /\ \A s \in Resources : Live(s)' => Live(s) /\ resources'[s] = resources[s]
         /\ \A h \in Contents : Unreferenced(h, resources, versions) => Unreferenced(h, resources', versions')
<1>1. /\ \A s \in Resources \ gone : resources'[s] = resources[s] /\ previews'[s] = previews[s]
      /\ \A s \in gone : resources'[s] = Gone /\ previews'[s] = {} /\ resources'[s].state = "deleted"
  BY DEF Without, Gone, Unborn
<1>2. \A s \in Resources : (Live(s)' => Live(s) /\ s \notin gone) /\ (s \notin gone => (Live(s) <=> Live(s)'))
  BY <1>1 DEF Live
<1>3. \A s \in Resources : VersionsOf(s)' \subseteq VersionsOf(s)
  BY DEF VersionsOf
<1>4. \A s \in Resources : First(s)' => First(s) /\ s \notin gone
  BY <1>1, <1>2, <1>3 DEF First
<1>5. \A h \in Contents : Unreferenced(h, resources, versions) => Unreferenced(h, resources', versions')
  BY <1>1, <1>2 DEF Unreferenced, Live
<1>6. TypeOK'
  <2>1. \A v \in versions' : resources'[v.resource].state = "live"
    <3>1. \A v \in versions' : v.resource \in Resources \ gone /\ resources[v.resource].state = "live"
      BY DEF Tables, TypeOK, TablesFit, Live
    <3>2. QED
      BY <1>1, <3>1
  <2>2. \A v \in versions' : v.hash \in Contents /\ v.id \in 1 .. lastVersion'
    BY DEF Tables, TypeOK
  <2>3. \A s \in Resources : /\ resources'[s].state \in {"unborn", "live", "deleted"}
                             /\ Live(s)' => resources'[s].hash \in Contents
                             /\ previews'[s] \subseteq Contents
    BY <1>1, <1>2 DEF Tables, TypeOK
  <2>4. QED
    BY <2>1, <2>2, <2>3 DEF Tables, TypeOK, Live
<1>7. TablesFit'
  <2>1. resources' \in [Resources -> [state : {"unborn", "live", "deleted"},
                                      hash : Contents \cup {"none"}, current : Nat]]
    BY DEF Tables, TablesFit, Without, Unborn
  <2>2. previews' \in [Resources -> SUBSET Contents]
    BY DEF Tables, TablesFit
  <2>3. IsFiniteSet(versions')
    BY FS_Subset DEF Tables, TablesFit
  <2>4. /\ \A v \in versions' :
             v \in [id : Nat, resource : Resources, number : Nat, hash : Contents] /\ v.number >= 1
        /\ \A u, v \in versions' : u.id = v.id => u = v
    BY DEF Tables, TablesFit
  <2>5. \A s \in Resources :
       /\ Live(s)' /\ resources'[s].current = 0 => \A v \in VersionsOf(s)' : v.number = 1 /\ v.hash = resources'[s].hash
       /\ ~Live(s)' => previews'[s] = {}
    BY <1>1, <1>2, <1>3 DEF Tables, TablesFit
  <2>6. QED
    BY <2>1, <2>2, <2>3, <2>4, <2>5 DEF TablesFit, Tables
<1>8. RowsHaveFiles'
  BY <1>5 DEF Tables, RowsHaveFiles, Referenced
<1>9. NoTwins'
  BY <1>1, <1>4 DEF Tables, NoTwins
<1>10. NumbersUnique'
  BY DEF Tables, NumbersUnique
<1>11. CurrentAgrees'
  <2> SUFFICES ASSUME NEW s \in Resources, Live(s)', resources'[s].current # 0
               PROVE  \E v \in VersionsOf(s)' : v.id = resources'[s].current /\ v.hash = resources'[s].hash
    BY DEF CurrentAgrees
  <2>1. Live(s) /\ s \notin gone /\ resources'[s] = resources[s]
    BY <1>1, <1>2
  <2>2. PICK v \in VersionsOf(s) : v.id = resources[s].current /\ v.hash = resources[s].hash
    BY <2>1 DEF Tables, CurrentAgrees
  <2>3. v \in VersionsOf(s)'
    BY <2>1, <2>2 DEF VersionsOf
  <2>4. QED
    BY <2>1, <2>2, <2>3
<1>12. PreviewsCurrent'
  BY <1>1, <1>2 DEF Tables, PreviewsCurrent
<1>13. QED
  BY <1>1, <1>2, <1>5, <1>6, <1>7, <1>8, <1>9, <1>10, <1>11, <1>12 DEF Tables

LEMMA DeleteVersionRowStep == ASSUME StoreInv, NEW c \in Clients, DeleteVersionRow(c) PROVE StoreInv'
<1>1. /\ client[c].op = "deleteVersion" /\ client[c].pc = "deleting" /\ Fits(client[c])
      /\ client[c] \in Request /\ Elsewhere /\ files' = files /\ resources' = resources
      /\ lastVersion' = lastVersion /\ previews' = previews /\ Tables /\ Goto(c, "counting")
  BY DEF DeleteVersionRow, At, StoreInv, Requests
<1>2. resources' = Without({}) /\ previews' = [r \in Resources |-> IF r \in {} THEN {} ELSE previews[r]]
  BY <1>1 DEF Without, Tables, TablesFit
<1>3. versions' = {v \in versions : v.id # client[c].v}
  BY DEF DeleteVersionRow
<1>4. \A s \in Resources : Live(s) => resources[s].current # client[c].v
  BY <1>1 DEF Fits
<1>5. \A s \in Resources \ {} : Live(s) /\ resources[s].current # 0 =>
           \A v \in VersionsOf(s) : v.id = resources[s].current => v \in versions'
  BY <1>3, <1>4 DEF VersionsOf
<1>6. /\ Tables'
      /\ \A s \in Resources : Live(s)' => Live(s) /\ resources'[s] = resources[s]
      /\ \A h \in Contents : Unreferenced(h, resources, versions) => Unreferenced(h, resources', versions')
  <2>1. {} \in SUBSET Resources /\ versions' \subseteq versions /\ \A v \in versions' : v.resource \notin {}
    BY <1>3
  <2>2. QED
    BY <1>1, <1>2, <1>5, <2>1, TablesLess
<1> DEFINE q == [client[c] EXCEPT !.pc = "counting"]
<1>7. q \in Request /\ client' = [client EXCEPT ![c] = q] /\ client'[c] = q
  BY <1>1 DEF Request, Goto, StoreInv, Requests
<1>8. /\ q.op = "deleteVersion" /\ q.pc = "counting" /\ q.r = client[c].r /\ q.h = client[c].h
      /\ q.h \in Contents /\ q.r \in Resources
  BY <1>1 DEF Request, Fits
<1> HIDE DEF q
<1>9. Fits(client[c])'
  BY <1>7, <1>8 DEF Fits, Numbered, Unmatched, Waiting, Stages, Changes, Stores
<1>10. client[c].op \notin Stores \cup {"none"}
  BY <1>1 DEF Stores, Changes
<1>11. QED
  BY <1>1, <1>6, <1>7, <1>8, <1>9, <1>10, DestroyStep

LEMMA DeleteCommitsStep == ASSUME StoreInv, NEW c \in Clients, DeleteCommits(c) PROVE StoreInv'
<1>1. PICK r, h, gone, free :
        /\ r = client[c].r /\ h = client[c].h /\ gone = {r}
        /\ free = IF Unreferenced(h, Without(gone), VersionsWithout(gone)) THEN {h} ELSE {}
  OBVIOUS
<1>2. /\ client[c].op = "delete" /\ client[c].pc = "deleting" /\ Fits(client[c])
      /\ client[c] \in Request /\ Elsewhere /\ files' = files /\ lastVersion' = lastVersion /\ Tables
  BY DEF DeleteCommits, At, StoreInv, Requests
<1>3. /\ resources' = Without(gone) /\ versions' = VersionsWithout(gone)
      /\ previews' = [previews EXCEPT ![r] = {}]
      /\ client' = [client EXCEPT ![c].pc = "removing", ![c].removes = free]
  BY <1>1 DEF DeleteCommits
<1>4. r \in Resources /\ h \in Contents /\ gone \in SUBSET Resources
  BY <1>1, <1>2 DEF Fits
<1>5. previews' = [s \in Resources |-> IF s \in gone THEN {} ELSE previews[s]]
  BY <1>1, <1>2, <1>3 DEF Tables, TablesFit
<1>6. /\ versions' \subseteq versions /\ \A v \in versions' : v.resource \notin gone
      /\ \A s \in Resources \ gone : \A v \in VersionsOf(s) : v \in versions'
  BY <1>3 DEF VersionsWithout, VersionsOf
<1>7. /\ Tables'
      /\ \A s \in Resources : Live(s)' => Live(s) /\ resources'[s] = resources[s]
      /\ \A g \in Contents : Unreferenced(g, resources, versions) => Unreferenced(g, resources', versions')
  BY <1>2, <1>3, <1>4, <1>5, <1>6, TablesLess
<1> DEFINE q == [client[c] EXCEPT !.pc = "removing", !.removes = free]
<1>8. free \in SUBSET Contents /\ \A g \in free : Unreferenced(g, resources', versions')
  BY <1>1, <1>3, <1>4
<1>9. q \in Request /\ client' = [client EXCEPT ![c] = q] /\ client'[c] = q
  BY <1>2, <1>3, <1>8 DEF Request, StoreInv, Requests
<1>10. q.op = "delete" /\ q.pc = "removing" /\ q.r \in Resources /\ q.removes = free
  BY <1>1, <1>2, <1>4 DEF Request
<1> HIDE DEF q
<1>11. Fits(client[c])'
  BY <1>8, <1>9, <1>10 DEF Fits, Numbered, Unmatched, Waiting, Stages, Changes, Stores
<1>12. client[c].op \notin Stores \cup {"none"}
  BY <1>2 DEF Stores, Changes
<1>13. QED
  BY <1>2, <1>7, <1>9, <1>10, <1>11, <1>12, DestroyStep

\* What is removed with several resources is referred to by none that stays.
LEMMA RemovableIsFree ==
  ASSUME Tables, NEW seq, NEW vers, NEW gone, gone = {seq[i] : i \in DOMAIN seq},
         \A j \in DOMAIN seq : 1 .. j \subseteq DOMAIN seq,
         \A i \in DOMAIN seq : seq[i] \in Resources /\ Live(seq[i])
  PROVE  /\ Removable(seq, vers) \in SUBSET Contents
         /\ \A h \in Removable(seq, vers) :
              Unreferenced(h, Without(gone), {v \in vers : v.resource \notin gone})
<1> SUFFICES ASSUME NEW h \in Removable(seq, vers)
             PROVE  h \in Contents /\ Unreferenced(h, Without(gone), {v \in vers : v.resource \notin gone})
  OBVIOUS
<1>1. PICK j \in DOMAIN seq :
        /\ h = resources[seq[j]].hash
        /\ Unreferenced(h, Without({seq[k] : k \in 1 .. j}),
                        {v \in vers : v.resource \notin {seq[k] : k \in 1 .. j}})
  BY DEF Removable
<1>2. PICK part : part = {seq[k] : k \in 1 .. j}
  OBVIOUS
<1>3. part \subseteq gone
  BY <1>1, <1>2
<1>4. Unreferenced(h, Without(part), {v \in vers : v.resource \notin part})
  BY <1>1, <1>2
<1>5. \A r \in Resources : Without(gone)[r].state = "live" =>
        Without(part)[r] = Without(gone)[r] /\ Without(part)[r].state = "live"
  BY <1>3 DEF Without, Unborn
<1>6. Unreferenced(h, Without(gone), {v \in vers : v.resource \notin gone})
  BY <1>3, <1>4, <1>5 DEF Unreferenced
<1>7. h \in Contents
  BY <1>1 DEF Tables, TypeOK
<1>8. QED
  BY <1>6, <1>7

LEMMA BulkDeleteCommitsStep == ASSUME StoreInv, NEW c \in Clients, BulkDeleteCommits(c) PROVE StoreInv'
<1>1. /\ client[c].op = "bulkDelete" /\ client[c].pc = "deleting" /\ Fits(client[c])
      /\ client[c] \in Request /\ Elsewhere /\ files' = files /\ Tables
  BY DEF BulkDeleteCommits, At, StoreInv, Requests
<1>2. CASE Finish(c) /\ TablesStay
  BY <1>1, <1>2, Finishes DEF Elsewhere, NoRequest, StoreInv
<1>3. CASE /\ \A i \in DOMAIN client[c].others : Live(client[c].others[i])
           /\ DeleteRows(c, versions, Removable(client[c].others, versions)) /\ lastVersion' = lastVersion
  <2>1. PICK seq, gone, free :
          /\ seq = client[c].others /\ gone = {seq[i] : i \in DOMAIN seq}
          /\ free = Removable(seq, versions)
    OBVIOUS
  <2>2. /\ resources' = Without(gone)
        /\ versions' = {v \in versions : v.resource \notin gone}
        /\ previews' = [r \in Resources |-> IF r \in gone THEN {} ELSE previews[r]]
        /\ client' = [client EXCEPT ![c].pc = "removing", ![c].removes = free]
    BY <1>3, <2>1 DEF DeleteRows
  <2>3. seq \in Resources \X Resources
    BY <1>1, <2>1 DEF Fits
  <2>4. DOMAIN seq = 1 .. 2 /\ \A i \in DOMAIN seq : seq[i] \in Resources
    BY <2>3
  <2>5. \A j \in DOMAIN seq : 1 .. j \subseteq DOMAIN seq
    BY <2>4
  <2>6. gone \in SUBSET Resources
    BY <2>1, <2>4
  <2>7. free \in SUBSET Contents /\ \A g \in free : Unreferenced(g, resources', versions')
    BY <1>1, <1>3, <2>1, <2>2, <2>4, <2>5, RemovableIsFree
  <2>8. /\ versions' \subseteq versions /\ \A v \in versions' : v.resource \notin gone
        /\ \A s \in Resources \ gone : \A v \in VersionsOf(s) : v \in versions'
    BY <2>2 DEF VersionsOf
  <2>9. /\ Tables'
        /\ \A s \in Resources : Live(s)' => Live(s) /\ resources'[s] = resources[s]
        /\ \A g \in Contents : Unreferenced(g, resources, versions) => Unreferenced(g, resources', versions')
    BY <1>1, <1>3, <2>2, <2>6, <2>8, TablesLess
  <2> DEFINE q == [client[c] EXCEPT !.pc = "removing", !.removes = free]
  <2>10. q \in Request /\ client' = [client EXCEPT ![c] = q] /\ client'[c] = q
    BY <1>1, <2>2, <2>7 DEF Request, StoreInv, Requests
  <2>11. q.op = "bulkDelete" /\ q.pc = "removing" /\ q.others = seq /\ q.removes = free
    BY <1>1, <2>1 DEF Request
  <2> HIDE DEF q
  <2>12. Fits(client[c])'
    BY <2>3, <2>7, <2>10, <2>11 DEF Fits, Numbered, Unmatched, Waiting, Stages, Changes, Stores
  <2>13. client[c].op \notin Stores \cup {"none"}
    BY <1>1 DEF Stores, Changes
  <2>14. QED
    BY <1>1, <2>9, <2>10, <2>11, <2>12, <2>13, DestroyStep
<1>4. QED
  BY <1>2, <1>3 DEF BulkDeleteCommits

LEMMA ThumbnailSavesStep == ASSUME StoreInv, NEW c \in Clients, ThumbnailSaves(c) PROVE StoreInv'
<1>1. /\ client[c].op = "thumbnail" /\ client[c].pc = "making" /\ Fits(client[c])
      /\ client[c] \in Request /\ Elsewhere /\ files' = files /\ resources' = resources
      /\ lastVersion' = lastVersion /\ versions' = versions /\ Tables /\ Finish(c)
  BY DEF ThumbnailSaves, At, StoreInv, Requests
<1>2. PICK r, h : r = client[c].r /\ h = client[c].h
  OBVIOUS
<1>3. r \in Resources /\ h \in Contents /\ (Live(r) => resources[r].hash = h)
  BY <1>1, <1>2 DEF Fits
<1>4. /\ previews' \in [Resources -> SUBSET Contents]
      /\ \A s \in Resources : (Live(s) => previews'[s] \subseteq {resources[s].hash})
                              /\ (~Live(s) => previews'[s] = {})
  <2>1. previews' = IF Live(r) THEN [previews EXCEPT ![r] = previews[r] \cup {h}] ELSE previews
    BY <1>2 DEF ThumbnailSaves
  <2>2. /\ previews \in [Resources -> SUBSET Contents]
        /\ \A s \in Resources : (Live(s) => previews[s] \subseteq {resources[s].hash})
                                /\ (~Live(s) => previews[s] = {})
    BY <1>1 DEF Tables, TablesFit, PreviewsCurrent
  <2>3. QED
    BY <1>3, <2>1, <2>2
<1>5. Tables'
  <2>1. TypeOK' /\ TablesFit'
    BY <1>1, <1>4 DEF Tables, TypeOK, TablesFit, Live, VersionsOf
  <2>2. RowsHaveFiles'
    BY <1>1 DEF Tables, RowsHaveFiles, Referenced, Unreferenced
  <2>3. NoTwins' /\ NumbersUnique' /\ CurrentAgrees'
    BY <1>1 DEF Tables, NoTwins, NumbersUnique, CurrentAgrees, First, Live, VersionsOf
  <2>4. PreviewsCurrent'
    BY <1>1, <1>4 DEF PreviewsCurrent, Live
  <2>5. QED
    BY <2>1, <2>2, <2>3, <2>4 DEF Tables
<1>6. NoRequest \in Request /\ NoRequest.op = "none"
  BY DEF NoRequest, Request
<1>7. client'[c] = NoRequest
  BY <1>1 DEF Finish, StoreInv, Requests
<1>8. Fits(client[c])'
  BY <1>7 DEF Fits, NoRequest, Stages, Changes, Stores, Numbered, Unmatched
<1>9. client[c].op \notin Stores \cup {"none"}
  BY <1>1 DEF Stores, Changes
<1>10. /\ \A s \in Resources : Live(s)' => Live(s) /\ resources'[s] = resources[s]
       /\ \A g \in Contents : Unreferenced(g, resources, versions) => Unreferenced(g, resources', versions')
  BY <1>1 DEF Live
<1>11. QED
  BY <1>1, <1>5, <1>6, <1>8, <1>9, <1>10, DestroyStep DEF Finish

-----------------------------------------------------------------------------
(* Merges.                                                                   *)

\* Versions are ranked by their ids, from 1 and without ties.
LEMMA Ranked ==
  ASSUME NEW vs, IsFiniteSet(vs), \A v \in vs : v.id \in Nat, \A u, v \in vs : u.id = v.id => u = v,
         NEW rank, \A v \in vs : rank[v] = Cardinality({u \in vs : u.id <= v.id})
  PROVE  /\ \A v \in vs : rank[v] \in Nat /\ rank[v] >= 1
         /\ \A u, v \in vs : rank[u] = rank[v] => u = v
<1> DEFINE upto(v) == {u \in vs : u.id <= v.id}
<1>1. \A v \in vs : IsFiniteSet(upto(v)) /\ v \in upto(v) /\ rank[v] = Cardinality(upto(v))
  <2>1. \A v \in vs : upto(v) \in SUBSET vs /\ v \in upto(v)
    OBVIOUS
  <2>2. \A T \in SUBSET vs : IsFiniteSet(T)
    BY FS_Subset
  <2>3. QED
    BY <2>1, <2>2
<1>2. \A v \in vs : rank[v] \in Nat /\ rank[v] >= 1
  <2> SUFFICES ASSUME NEW v \in vs PROVE rank[v] \in Nat /\ rank[v] >= 1
    OBVIOUS
  <2>1. PICK T : T = upto(v)
    OBVIOUS
  <2>2. IsFiniteSet(T) /\ T # {} /\ rank[v] = Cardinality(T)
    BY <1>1, <2>1
  <2> HIDE DEF upto
  <2>3. Cardinality(T) \in Nat /\ Cardinality(T) # 0
    BY <2>2, FS_CardinalityType, FS_EmptySet
  <2>4. QED
    BY <2>2, <2>3
<1>3. ASSUME NEW u \in vs, NEW v \in vs, u.id < v.id PROVE rank[u] # rank[v]
  <2>1. PICK S, T : S = upto(u) /\ T = upto(v)
    OBVIOUS
  <2>2. S \subseteq T /\ v \in T /\ v \notin S
    BY <1>3, <2>1
  <2>3. IsFiniteSet(T) /\ rank[u] = Cardinality(S) /\ rank[v] = Cardinality(T)
    BY <1>1, <2>1
  <2> HIDE DEF upto
  <2>4. Cardinality(S) # Cardinality(T)
    BY <2>2, <2>3, FS_Subset
  <2>5. QED
    BY <2>3, <2>4
<1>4. ASSUME NEW u \in vs, NEW v \in vs, rank[u] = rank[v] PROVE u = v
  <2>1. ~(u.id < v.id) /\ ~(v.id < u.id)
    BY <1>3, <1>4
  <2>2. u.id = v.id
    BY <2>1
  <2>3. QED
    BY <2>2
<1>5. QED
  BY <1>2, <1>4

\* The winner of a merge keeps its versions, and gets after them, numbered above them
\* and apart from each other, those of the loser and what the loser showed.
LEMMA TablesMerge ==
  ASSUME Tables, NEW w \in Resources, NEW l \in Resources, w # l, Live(w), Live(l),
         resources[w].current # 0, NEW keep \in {0, 1}, NEW vers, vers = Handed(w, l, keep),
         resources' = Without({l}), files' = files, lastVersion' = lastVersion + keep,
         versions' = {v \in vers : v.resource \notin {l}},
         previews' = [r \in Resources |-> IF r \in {l} THEN {} ELSE previews[r]]
  PROVE  /\ Tables'
         /\ \A s \in Resources : Live(s)' => Live(s) /\ resources'[s] = resources[s]
         /\ \A h \in Contents : Unreferenced(h, resources, versions) => Unreferenced(h, resources', versions')
<1> DEFINE ver == Version(lastVersion + 1, w, MaxNumber(VersionsOf(w)) + 1, resources[l].hash)
           vs == VersionsOf(l)
<1>1. PICK kept, base, rank, moved :
        /\ kept = IF keep = 1 THEN {ver} ELSE {}
        /\ base = MaxNumber(VersionsOf(w) \cup kept)
        /\ rank = [v \in vs |-> Cardinality({u \in vs : u.id <= v.id})]
        /\ moved = [v \in vs |-> [v EXCEPT !.resource = w, !.number = base + rank[v]]]
  OBVIOUS
<1>2. vers = VersionsWithout({l}) \cup kept \cup {moved[v] : v \in vs}
  <2>1. {[v EXCEPT !.resource = w, !.number = base + Cardinality({u \in vs : u.id <= v.id})] : v \in vs}
          = {moved[v] : v \in vs}
    BY <1>1
  <2>2. QED
    BY <1>1, <2>1 DEF Handed
<1>3. /\ lastVersion \in Nat /\ lastVersion' \in Nat /\ lastVersion <= lastVersion'
      /\ resources[l].hash \in Contents
      /\ \A v \in versions : /\ v \in [id : Nat, resource : Resources, number : Nat, hash : Contents]
                             /\ v.number >= 1 /\ v.id >= 1 /\ v.id <= lastVersion
                             /\ resources[v.resource].state = "live"
      /\ \A u, v \in versions : u.id = v.id => u = v
      /\ IsFiniteSet(versions) /\ vs \subseteq versions /\ VersionsOf(w) \subseteq versions
  BY DEF Tables, TypeOK, TablesFit, Live, VersionsOf
<1>4. /\ ver = [id |-> lastVersion + 1, resource |-> w, number |-> MaxNumber(VersionsOf(w)) + 1,
                hash |-> resources[l].hash]
      /\ ver.id = lastVersion + 1 /\ ver.resource = w /\ ver.number = MaxNumber(VersionsOf(w)) + 1
      /\ ver.hash = resources[l].hash
  BY DEF Version
<1> HIDE DEF ver
<1>5. /\ MaxNumber(VersionsOf(w)) \in Nat
      /\ \A v \in VersionsOf(w) : v.number <= MaxNumber(VersionsOf(w)) /\ v.number \in Nat
      /\ IsFiniteSet(VersionsOf(w)) /\ IsFiniteSet(vs)
  BY VersionsOfAre
<1>6. \A v \in kept : /\ v = ver /\ keep = 1 /\ v.id = lastVersion + 1 /\ v.resource = w
                      /\ v.number = MaxNumber(VersionsOf(w)) + 1 /\ v.hash = resources[l].hash
                      /\ v.id <= lastVersion'
  <2>1. \A v \in kept : v = ver /\ keep = 1
    BY <1>1
  <2>2. keep = 1 => lastVersion + 1 <= lastVersion'
    BY <1>3
  <2>3. QED
    BY <1>4, <2>1, <2>2
<1>7. kept = {} \/ \E x : kept = {x}
  BY <1>1
<1>8. IsFiniteSet(kept)
  BY <1>7, AtMostOne
<1>9. base \in Nat /\ \A v \in VersionsOf(w) \cup kept : v.number <= base /\ v.number \in Nat
  <2>1. IsFiniteSet(VersionsOf(w) \cup kept)
    BY <1>5, <1>8, FS_Union
  <2>2. \A v \in VersionsOf(w) \cup kept : v.number \in Nat
    BY <1>5, <1>6
  <2>3. QED
    BY <1>1, <2>1, <2>2, MaxNumberIsMax
<1>10. /\ \A v \in vs : rank[v] \in Nat /\ rank[v] >= 1
       /\ \A u, v \in vs : rank[u] = rank[v] => u = v
  <2>1. (\A v \in vs : v.id \in Nat) /\ \A u, v \in vs : u.id = v.id => u = v
    BY <1>3
  <2>2. \A v \in vs : rank[v] = Cardinality({u \in vs : u.id <= v.id})
    BY <1>1
  <2> HIDE DEF vs
  <2>3. QED
    BY <1>5, <2>1, <2>2, Ranked
<1>11. \A v \in vs : /\ moved[v].id = v.id /\ moved[v].resource = w /\ moved[v].hash = v.hash
                     /\ moved[v].number = base + rank[v] /\ moved[v].number > base
                     /\ moved[v] \in [id : Nat, resource : Resources, number : Nat, hash : Contents]
  <2> SUFFICES ASSUME NEW v \in vs
               PROVE  /\ moved[v].id = v.id /\ moved[v].resource = w /\ moved[v].hash = v.hash
                      /\ moved[v].number = base + rank[v] /\ moved[v].number > base
                      /\ moved[v] \in [id : Nat, resource : Resources, number : Nat, hash : Contents]
    OBVIOUS
  <2>1. PICK n : n = base + rank[v]
    OBVIOUS
  <2>2. n \in Nat /\ n > base
    BY <1>9, <1>10, <2>1
  <2>3. moved[v] = [v EXCEPT !.resource = w, !.number = n]
    BY <1>1, <2>1
  <2>4. v \in [id : Nat, resource : Resources, number : Nat, hash : Contents]
    BY <1>3
  <2>5. QED
    BY <2>1, <2>2, <2>3, <2>4
<1>12. vs = {v \in versions : v.resource = l}
  BY DEF VersionsOf
<1> HIDE DEF vs
<1> DEFINE stay == {v \in versions : v.resource # l}
<1>13. versions' = stay \cup kept \cup {moved[v] : v \in vs}
  <2>1. VersionsWithout({l}) = stay
    BY DEF VersionsWithout
  <2>2. \A v \in stay \cup kept \cup {moved[x] : x \in vs} : v.resource # l
    BY <1>6, <1>11
  <2>3. QED
    BY <1>2, <2>1, <2>2
<1>14. \A v \in versions' : \/ v \in versions /\ v.resource # l
                            \/ v \in kept
                            \/ \E x \in vs : v = moved[x]
  BY <1>13
<1>15. /\ \A s \in Resources \ {l} : resources'[s] = resources[s] /\ previews'[s] = previews[s]
       /\ resources'[l].state = "deleted" /\ previews'[l] = {}
  BY DEF Without, Unborn
<1>16. \A s \in Resources : (Live(s)' => Live(s) /\ s # l) /\ (s # l => (Live(s) <=> Live(s)'))
  BY <1>15 DEF Live
<1>17. \A s \in Resources \ {l, w} : VersionsOf(s)' = VersionsOf(s)
  <2> SUFFICES ASSUME NEW s \in Resources \ {l, w}, NEW v
               PROVE  v \in versions' /\ v.resource = s <=> v \in versions /\ v.resource = s
    BY DEF VersionsOf
  <2>1. ASSUME v \in versions', v.resource = s PROVE v \in versions
    BY <1>6, <1>11, <1>14, <2>1
  <2>2. ASSUME v \in versions, v.resource = s PROVE v \in versions'
    BY <1>13, <2>2
  <2>3. QED
    BY <2>1, <2>2
<1>18. \A v \in VersionsOf(w)' : v \in VersionsOf(w) \/ v \in kept \/ \E x \in vs : v = moved[x]
  BY <1>14 DEF VersionsOf
<1>19. \A v \in VersionsOf(w) : v \in VersionsOf(w)'
  BY <1>13 DEF VersionsOf
<1>20. \A u, v \in versions' : u.id = v.id => u = v
  <2> SUFFICES ASSUME NEW u \in versions', NEW v \in versions', u.id = v.id PROVE u = v
    OBVIOUS
  <2>1. CASE u \in kept \/ v \in kept
    BY <1>3, <1>6, <1>11, <1>12, <1>14, <2>1
  <2>2. CASE u \notin kept /\ v \notin kept
    <3>1. PICK x \in versions : (u = x /\ x.resource # l) \/ (x \in vs /\ u = moved[x])
      BY <1>12, <1>14, <2>2
    <3>2. PICK y \in versions : (v = y /\ y.resource # l) \/ (y \in vs /\ v = moved[y])
      BY <1>12, <1>14, <2>2
    <3>3. x.id = u.id /\ y.id = v.id
      BY <1>11, <3>1, <3>2
    <3>4. x = y
      BY <1>3, <3>3
    <3>5. QED
      BY <1>12, <3>1, <3>2, <3>4
  <2>3. QED
    BY <2>1, <2>2
<1>21. PICK cur \in VersionsOf(w) : cur.id = resources[w].current /\ cur.hash = resources[w].hash
  BY DEF Tables, CurrentAgrees
<1>22. \A s \in Resources : First(s)' => First(s) /\ s # l
  <2>1. First(w)' => First(w)
    <3> SUFFICES ASSUME First(w)' PROVE First(w)
      OBVIOUS
    <3>1. PICK v \in VersionsOf(w)' : v.id = resources[w].current /\ v.number = 1
      BY <1>15 DEF First
    <3>2. v = cur
      BY <1>19, <1>20, <1>21, <3>1 DEF VersionsOf
    <3>3. QED
      BY <1>21, <3>1, <3>2 DEF First
  <2>2. \A s \in Resources \ {l, w} : First(s)' => First(s)
    BY <1>15, <1>16, <1>17 DEF First
  <2>3. ~First(l)'
    BY <1>16 DEF First
  <2>4. QED
    BY <2>1, <2>2, <2>3
<1>23. \A h \in Contents : Unreferenced(h, resources, versions) => Unreferenced(h, resources', versions')
  <2> SUFFICES ASSUME NEW h \in Contents, Unreferenced(h, resources, versions)
               PROVE  Unreferenced(h, resources', versions')
    OBVIOUS
  <2>1. \A v \in versions' : v.hash # h
    <3>1. resources[l].hash # h /\ \A v \in versions : v.hash # h
      BY DEF Unreferenced, Live
    <3>2. QED
      BY <1>3, <1>6, <1>11, <1>12, <1>14, <3>1
  <2>2. \A r \in Resources : resources'[r].state = "live" => resources'[r].hash # h
    BY <1>15, <1>16 DEF Unreferenced, Live
  <2>3. QED
    BY <2>1, <2>2 DEF Unreferenced
<1>24. \A v \in versions' : /\ v \in [id : Nat, resource : Resources, number : Nat, hash : Contents]
                            /\ v.number >= 1 /\ v.id >= 1 /\ v.id <= lastVersion'
                            /\ resources'[v.resource].state = "live"
  <2> SUFFICES ASSUME NEW v \in versions'
               PROVE  /\ v \in [id : Nat, resource : Resources, number : Nat, hash : Contents]
                      /\ v.number >= 1 /\ v.id >= 1 /\ v.id <= lastVersion'
                      /\ resources'[v.resource].state = "live"
    OBVIOUS
  <2>1. CASE v \in versions /\ v.resource # l
    <3>1. /\ v \in [id : Nat, resource : Resources, number : Nat, hash : Contents]
          /\ v.number >= 1 /\ v.id >= 1 /\ v.id <= lastVersion /\ resources[v.resource].state = "live"
      BY <1>3, <2>1
    <3>2. v.resource \in Resources \ {l} /\ v.id \in Nat
      BY <2>1, <3>1
    <3>3. resources'[v.resource].state = "live"
      BY <1>15, <3>1, <3>2
    <3>4. v.id <= lastVersion'
      BY <1>3, <3>1, <3>2
    <3>5. QED
      BY <3>1, <3>3, <3>4
  <2>2. resources'[w].state = "live"
    BY <1>15 DEF Live
  <2>3. CASE v \in kept
    <3>1. v \in [id : Nat, resource : Resources, number : Nat, hash : Contents]
      BY <1>3, <1>4, <1>5, <1>6, <2>3
    <3>2. QED
      BY <1>3, <1>5, <1>6, <2>2, <2>3, <3>1
  <2>4. CASE \E x \in vs : v = moved[x]
    BY <1>3, <1>9, <1>11, <1>12, <2>2, <2>4
  <2>5. QED
    BY <1>14, <2>1, <2>3, <2>4
<1>25. TypeOK'
  <2>1. \A s \in Resources : /\ resources'[s].state \in {"unborn", "live", "deleted"}
                             /\ Live(s)' => resources'[s].hash \in Contents
                             /\ previews'[s] \subseteq Contents
    BY <1>15, <1>16 DEF Tables, TypeOK
  <2>2. \A v \in versions' :
          resources'[v.resource].state = "live" /\ v.hash \in Contents /\ v.id \in 1 .. lastVersion'
    <3> SUFFICES ASSUME NEW v \in versions'
                 PROVE  /\ resources'[v.resource].state = "live" /\ v.hash \in Contents
                        /\ v.id \in 1 .. lastVersion'
      OBVIOUS
    <3>1. /\ v \in [id : Nat, resource : Resources, number : Nat, hash : Contents]
          /\ v.id >= 1 /\ v.id <= lastVersion' /\ resources'[v.resource].state = "live"
      BY <1>24
    <3>2. v.id \in Nat /\ v.hash \in Contents
      BY <3>1
    <3>3. QED
      BY <1>3, <3>1, <3>2
  <2>3. QED
    BY <2>1, <2>2 DEF Tables, TypeOK, Live
<1>26. TablesFit'
  <2>1. resources' \in [Resources -> [state : {"unborn", "live", "deleted"},
                                      hash : Contents \cup {"none"}, current : Nat]]
    BY DEF Tables, TablesFit, Without, Unborn
  <2>2. previews' \in [Resources -> SUBSET Contents]
    BY DEF Tables, TablesFit
  <2>3. IsFiniteSet(versions')
    <3> DEFINE image == {moved[v] : v \in vs}
    <3>1. moved \in Surjection(vs, image)
      BY <1>1 DEF Surjection
    <3>2. image = {moved[v] : v \in vs}
      OBVIOUS
    <3> HIDE DEF image
    <3>3. IsFiniteSet(image)
      BY <1>5, <3>1, FS_Surjection
    <3>4. IsFiniteSet(stay)
      BY <1>3, FS_Subset
    <3> HIDE DEF stay
    <3>5. IsFiniteSet(stay \cup kept)
      BY <1>8, <3>4, FS_Union
    <3>6. IsFiniteSet((stay \cup kept) \cup image)
      BY <3>3, <3>5, FS_Union
    <3>7. QED
      BY <1>13, <3>2, <3>6
  <2>4. \A s \in Resources :
       /\ Live(s)' /\ resources'[s].current = 0 => \A v \in VersionsOf(s)' : v.number = 1 /\ v.hash = resources'[s].hash
       /\ ~Live(s)' => previews'[s] = {}
    <3>1. \A s \in Resources \ {l, w} :
            /\ Live(s)' /\ resources'[s].current = 0 =>
                 \A v \in VersionsOf(s)' : v.number = 1 /\ v.hash = resources'[s].hash
            /\ ~Live(s)' => previews'[s] = {}
      <4> SUFFICES ASSUME NEW s \in Resources \ {l, w}
                   PROVE  /\ Live(s)' /\ resources'[s].current = 0 =>
                               \A v \in VersionsOf(s)' : v.number = 1 /\ v.hash = resources'[s].hash
                          /\ ~Live(s)' => previews'[s] = {}
        OBVIOUS
      <4>1. /\ resources'[s] = resources[s] /\ previews'[s] = previews[s]
            /\ (Live(s) <=> Live(s)') /\ VersionsOf(s)' = VersionsOf(s)
        BY <1>15, <1>16, <1>17
      <4>2. /\ Live(s) /\ resources[s].current = 0 =>
                 \A v \in VersionsOf(s) : v.number = 1 /\ v.hash = resources[s].hash
            /\ ~Live(s) => previews[s] = {}
        BY DEF Tables, TablesFit
      <4>3. QED
        BY <4>1, <4>2
    <3>2. resources'[w].current # 0 /\ Live(w)'
      BY <1>15, <1>16
    <3>3. ~Live(l)' /\ previews'[l] = {}
      BY <1>15, <1>16
    <3>4. QED
      BY <3>1, <3>2, <3>3
  <2>5. QED
    BY <1>3, <1>20, <1>24, <2>1, <2>2, <2>3, <2>4 DEF TablesFit
<1>27. RowsHaveFiles'
  BY <1>23 DEF Tables, RowsHaveFiles, Referenced
<1>28. NoTwins'
  BY <1>15, <1>22 DEF Tables, NoTwins
<1>29. NumbersUnique'
  <2> SUFFICES ASSUME NEW u \in versions', NEW v \in versions', u.resource = v.resource, u.number = v.number
               PROVE  u = v
    BY DEF NumbersUnique
  <2>1. CASE u \in versions /\ v \in versions
    BY <2>1 DEF Tables, NumbersUnique
  <2>2. CASE u.resource = w
    <3>1. /\ u \in VersionsOf(w) \/ u \in kept \/ \E x \in vs : u = moved[x]
          /\ v \in VersionsOf(w) \/ v \in kept \/ \E x \in vs : v = moved[x]
      BY <1>18, <2>2 DEF VersionsOf
    <3>2. CASE u \in kept \/ v \in kept
      BY <1>5, <1>6, <1>9, <1>11, <3>1, <3>2
    <3>3. CASE u \in VersionsOf(w) /\ v \in VersionsOf(w)
      BY <1>3, <2>1, <3>3
    <3>4. CASE (\E x \in vs : u = moved[x]) /\ \E x \in vs : v = moved[x]
      <4>1. PICK x \in vs, y \in vs : u = moved[x] /\ v = moved[y]
        BY <3>4
      <4>2. base + rank[x] = base + rank[y]
        BY <1>11, <4>1
      <4>3. x = y
        BY <1>9, <1>10, <4>2
      <4>4. QED
        BY <4>1, <4>3
    <3>5. CASE (u \in VersionsOf(w) /\ \E x \in vs : v = moved[x])
               \/ (v \in VersionsOf(w) /\ \E x \in vs : u = moved[x])
      BY <1>9, <1>11, <3>5
    <3>6. QED
      BY <3>1, <3>2, <3>3, <3>4, <3>5
  <2>3. CASE u.resource # w
    <3>1. u \in versions /\ v \in versions
      BY <1>6, <1>11, <1>14, <2>3
    <3>2. QED
      BY <2>1, <3>1
  <2>4. QED
    BY <2>2, <2>3
<1>30. CurrentAgrees'
  <2> SUFFICES ASSUME NEW s \in Resources, Live(s)', resources'[s].current # 0
               PROVE  \E v \in VersionsOf(s)' : v.id = resources'[s].current /\ v.hash = resources'[s].hash
    BY DEF CurrentAgrees
  <2>1. CASE s = w
    BY <1>15, <1>19, <1>21, <2>1
  <2>2. CASE s # w
    <3>1. s \in Resources \ {l, w} /\ Live(s) /\ resources'[s] = resources[s]
      BY <1>15, <1>16, <2>2
    <3>2. \E v \in VersionsOf(s) : v.id = resources[s].current /\ v.hash = resources[s].hash
      BY <3>1 DEF Tables, CurrentAgrees
    <3>3. QED
      BY <1>17, <3>1, <3>2
  <2>3. QED
    BY <2>1, <2>2
<1>31. PreviewsCurrent'
  BY <1>15, <1>16 DEF Tables, PreviewsCurrent
<1>32. \A s \in Resources : Live(s)' => Live(s) /\ resources'[s] = resources[s]
  BY <1>15, <1>16
<1>33. QED
  BY <1>23, <1>25, <1>26, <1>27, <1>28, <1>29, <1>30, <1>31, <1>32 DEF Tables

LEMMA MergeCommitsStep == ASSUME StoreInv, NEW c \in Clients, MergeCommits(c) PROVE StoreInv'
<1>1. /\ client[c].op = "merge" /\ client[c].pc = "deleting" /\ Fits(client[c])
      /\ client[c] \in Request /\ Elsewhere /\ files' = files /\ Tables
  BY DEF MergeCommits, At, StoreInv, Requests
<1>2. PICK w, l, keep : w = client[c].r /\ l = client[c].others[1] /\ keep = client[c].n
  OBVIOUS
<1>3. /\ w \in Resources /\ l \in Resources /\ l # w /\ client[c].others = <<l>> /\ keep \in {0, 1}
      /\ (Live(w) => resources[w].current # 0)
  BY <1>1, <1>2 DEF Fits
<1>4. CASE Finish(c) /\ TablesStay
  BY <1>1, <1>4, Finishes DEF Elsewhere, NoRequest, StoreInv
<1>5. CASE /\ Live(w) /\ Live(l) /\ lastVersion' = lastVersion + keep
           /\ DeleteRows(c, Handed(w, l, keep), Removable(<<l>>, Handed(w, l, keep)))
  <2>1. PICK vers, gone, free : /\ vers = Handed(w, l, keep) /\ gone = {l}
                                /\ free = Removable(<<l>>, vers)
    OBVIOUS
  <2>2. {<<l>>[i] : i \in DOMAIN <<l>>} = gone /\ DOMAIN <<l>> = 1 .. 1 /\ <<l>>[1] = l
    BY <2>1
  <2>3. /\ resources' = Without(gone)
        /\ versions' = {v \in vers : v.resource \notin gone}
        /\ previews' = [r \in Resources |-> IF r \in gone THEN {} ELSE previews[r]]
        /\ client' = [client EXCEPT ![c].pc = "removing", ![c].removes = free]
    BY <1>3, <1>5, <2>1, <2>2 DEF DeleteRows
  <2>4. free \in SUBSET Contents /\ \A g \in free : Unreferenced(g, resources', versions')
    <3>1. PICK seq : seq = <<l>>
      OBVIOUS
    <3>2. /\ gone = {seq[i] : i \in DOMAIN seq} /\ \A j \in DOMAIN seq : 1 .. j \subseteq DOMAIN seq
          /\ \A i \in DOMAIN seq : seq[i] \in Resources /\ Live(seq[i])
      BY <1>3, <1>5, <2>2, <3>1
    <3>3. QED
      BY <1>1, <2>1, <2>3, <3>1, <3>2, RemovableIsFree
  <2>5. /\ Tables'
        /\ \A s \in Resources : Live(s)' => Live(s) /\ resources'[s] = resources[s]
        /\ \A g \in Contents : Unreferenced(g, resources, versions) => Unreferenced(g, resources', versions')
    BY <1>1, <1>3, <1>5, <2>1, <2>3, TablesMerge
  <2> DEFINE q == [client[c] EXCEPT !.pc = "removing", !.removes = free]
  <2>6. q \in Request /\ client' = [client EXCEPT ![c] = q] /\ client'[c] = q
    BY <1>1, <2>3, <2>4 DEF Request, StoreInv, Requests
  <2>7. /\ q.op = "merge" /\ q.pc = "removing" /\ q.others = <<l>> /\ q.r = w /\ q.n = keep
        /\ q.removes = free
    BY <1>1, <1>2, <1>3 DEF Request
  <2> HIDE DEF q
  <2>8. Fits(client[c])'
    BY <1>3, <2>4, <2>6, <2>7 DEF Fits, Numbered, Unmatched, Waiting, Stages, Changes, Stores
  <2>9. client[c].op \notin Stores \cup {"none"}
    BY <1>1 DEF Stores, Changes
  <2>10. QED
    BY <1>1, <2>5, <2>6, <2>7, <2>8, <2>9, DestroyStep
<1>6. QED
  BY <1>2, <1>3, <1>4, <1>5 DEF MergeCommits

-----------------------------------------------------------------------------
(* The migration at start-up, which has the tables to itself.                *)

LEMMA MigrationAlone ==
  ASSUME StoreInv, migration.pc # "done", Requesting, Tables', files' = files,
         MigrationShaped',
         (\A c \in Clients : client[c] = NoRequest) => MigrationFits'
  PROVE  StoreInv'
<1>1. \A c \in Clients : client[c] = NoRequest
  BY DEF StoreInv, MigrationFits
<1>2. client' = client /\ faults' = faults
  BY DEF Requesting
<1>3. \A c \in Clients : Fits(client[c])'
  BY <1>1, <1>2 DEF Fits, NoRequest, Stages, Changes, Stores, Numbered, Unmatched
<1>4. Requests'
  BY <1>2, <1>3 DEF StoreInv, Requests, RequestsApart
<1>5. Truncated' /\ faults' \in Nat
  BY <1>2 DEF StoreInv, Truncated
<1>6. QED
  BY <1>1, <1>4, <1>5 DEF StoreInv

LEMMA MigrateListsStep == ASSUME StoreInv, MigrateLists PROVE StoreInv'
<1>1. /\ TablesStay /\ Requesting /\ files' = files /\ migration.pc = "listing"
      /\ MigrationShaped /\ client' = client /\ resources' = resources
  BY DEF MigrateLists, StoreInv, TablesStay, Requesting
<1>2. /\ migration'.pc = "next" /\ MigrationShaped'
      /\ migration'.todo = {[r |-> r, h |-> resources[r].hash] :
                              r \in {s \in Resources : Live(s) /\ resources[s].current = 0}}
  BY <1>1 DEF MigrateLists, MigrationShaped
<1>3. \A t \in migration'.todo : Pending(t.r) /\ t = [r |-> t.r, h |-> resources[t.r].hash]
  BY <1>2 DEF Pending
<1>4. \A t \in migration'.todo : Pending(t.r)' /\ t = [r |-> t.r, h |-> resources'[t.r].hash]
  BY <1>1, <1>3 DEF Pending, Live
<1>5. Tables'
  BY <1>1, TablesKept DEF StoreInv
<1>6. (\A c \in Clients : client[c] = NoRequest) => MigrationFits'
  BY <1>1, <1>2, <1>4 DEF MigrationFits
<1>7. QED
  BY <1>1, <1>2, <1>5, <1>6, MigrationAlone

LEMMA MigrateCountsStep == ASSUME StoreInv, MigrateCounts PROVE StoreInv'
<1>1. /\ TablesStay /\ Requesting /\ files' = files /\ migration.pc = "next" /\ MigrationFits
      /\ client' = client /\ resources' = resources /\ versions' = versions
  BY DEF MigrateCounts, StoreInv, TablesStay, Requesting
<1>2. PICK t \in migration.todo :
        migration' = [pc |-> IF VersionsOf(t.r) = {} THEN "create" ELSE "adopt",
                      todo |-> migration.todo \ {t}, r |-> t.r, h |-> t.h]
  BY DEF MigrateCounts
<1>3. PICK r, h : r = t.r /\ h = t.h
  OBVIOUS
<1>4. Pending(r) /\ h = resources[r].hash /\ t = [r |-> r, h |-> h]
  BY <1>1, <1>3 DEF MigrationFits
<1>5. \A u \in migration.todo \ {t} :
        Pending(u.r) /\ u = [r |-> u.r, h |-> resources[u.r].hash] /\ u.r # r
  <2>1. \A u \in migration.todo : Pending(u.r) /\ u = [r |-> u.r, h |-> resources[u.r].hash]
    BY <1>1 DEF MigrationFits
  <2>2. \A u \in migration.todo : u.r = r => u = t
    BY <1>4, <2>1
  <2>3. QED
    BY <2>1, <2>2
<1>6. /\ migration'.pc = (IF VersionsOf(r) = {} THEN "create" ELSE "adopt")
      /\ migration'.todo = migration.todo \ {t} /\ migration'.r = r /\ migration'.h = h
      /\ MigrationShaped'
  BY <1>2, <1>3 DEF MigrationShaped
<1>7. /\ Pending(r)' /\ VersionsOf(r)' = VersionsOf(r) /\ h = resources'[r].hash
      /\ \A u \in migration'.todo :
           Pending(u.r)' /\ u = [r |-> u.r, h |-> resources'[u.r].hash] /\ u.r # r
  BY <1>1, <1>4, <1>5, <1>6 DEF Pending, Live, VersionsOf
<1>8. Tables'
  BY <1>1, TablesKept DEF StoreInv
<1>9. (\A c \in Clients : client[c] = NoRequest) => MigrationFits'
  BY <1>1, <1>6, <1>7 DEF MigrationFits, VersionsOf, Pending, Live
<1>10. QED
  BY <1>1, <1>6, <1>8, <1>9, MigrationAlone

\* A resource with none current gets its version 1 for the current one.
LEMMA TablesAdopt ==
  ASSUME Tables, NEW r \in Resources, Live(r), resources[r].current = 0, NEW v \in VersionsOf(r),
         resources' = [resources EXCEPT ![r].current = v.id],
         versions' = versions, lastVersion' = lastVersion, previews' = previews, files' = files
  PROVE  Tables' /\ \A s \in Resources : /\ s # r => resources'[s] = resources[s]
                                         /\ Live(s)' <=> Live(s)
<1>1. /\ v \in versions /\ v.resource = r /\ v.id \in Nat /\ v.id # 0 /\ v.number = 1
      /\ v.hash = resources[r].hash
  <2>1. v \in versions /\ v.resource = r /\ v.id \in Nat /\ v.id >= 1
    BY VersionsOfAre DEF VersionsOf
  <2>2. v.number = 1 /\ v.hash = resources[r].hash
    BY DEF Tables, TablesFit
  <2>3. QED
    BY <2>1, <2>2
<1>2. /\ resources'[r].state = resources[r].state /\ resources'[r].hash = resources[r].hash
      /\ resources'[r].current = v.id
      /\ \A s \in Resources : s # r => resources'[s] = resources[s]
  BY DEF Tables, TablesFit
<1>3. \A s \in Resources : (Live(s)' <=> Live(s)) /\ resources'[s].hash = resources[s].hash
                           /\ resources'[s].state = resources[s].state
  BY <1>2 DEF Live
<1>4. \A s : VersionsOf(s)' = VersionsOf(s)
  BY DEF VersionsOf
<1>5. \A s \in Resources : First(s)' <=> First(s)
  <2>1. First(r)' /\ First(r)
    BY <1>1, <1>2, <1>3, <1>4 DEF First
  <2>2. \A s \in Resources : s # r => (First(s)' <=> First(s))
    BY <1>2, <1>3, <1>4 DEF First
  <2>3. QED
    BY <2>1, <2>2
<1>6. TypeOK'
  BY <1>3 DEF Tables, TypeOK, TablesFit, Live
<1>7. TablesFit'
  <2>1. resources' \in [Resources -> [state : {"unborn", "live", "deleted"},
                                      hash : Contents \cup {"none"}, current : Nat]]
    BY <1>1 DEF Tables, TablesFit
  <2>2. \A s \in Resources :
       /\ Live(s)' /\ resources'[s].current = 0 =>
            \A u \in VersionsOf(s)' : u.number = 1 /\ u.hash = resources'[s].hash
       /\ ~Live(s)' => previews'[s] = {}
    <3>1. \A s \in Resources : s # r =>
           /\ Live(s)' /\ resources'[s].current = 0 =>
                \A u \in VersionsOf(s)' : u.number = 1 /\ u.hash = resources'[s].hash
           /\ ~Live(s)' => previews'[s] = {}
      BY <1>2, <1>3, <1>4 DEF Tables, TablesFit
    <3>2. Live(r)' /\ resources'[r].current # 0
      BY <1>1, <1>2, <1>3
    <3>3. QED
      BY <3>1, <3>2
  <2>3. QED
    BY <2>1, <2>2 DEF Tables, TablesFit
<1>8. RowsHaveFiles'
  BY <1>3 DEF Tables, RowsHaveFiles, Referenced, Unreferenced
<1>9. NoTwins' /\ NumbersUnique'
  BY <1>3, <1>5 DEF Tables, NoTwins, NumbersUnique
<1>10. CurrentAgrees'
  <2> SUFFICES ASSUME NEW s \in Resources, Live(s)', resources'[s].current # 0
               PROVE  \E u \in VersionsOf(s)' : u.id = resources'[s].current /\ u.hash = resources'[s].hash
    BY DEF CurrentAgrees
  <2>1. CASE s = r
    BY <1>1, <1>2, <1>4, <2>1
  <2>2. CASE s # r
    BY <1>2, <1>3, <1>4, <2>2 DEF Tables, CurrentAgrees
  <2>3. QED
    BY <2>1, <2>2
<1>11. PreviewsCurrent'
  BY <1>3 DEF Tables, PreviewsCurrent
<1>12. QED
  BY <1>2, <1>3, <1>6, <1>7, <1>8, <1>9, <1>10, <1>11 DEF Tables

\* The other resources of the list are as they were.
LEMMA ListKept ==
  ASSUME MigrationFits, migration.pc \in {"adopt", "create", "point"},
         \A s \in Resources : s # migration.r => resources'[s] = resources[s]
  PROVE  \A t \in migration.todo : Pending(t.r)' /\ t = [r |-> t.r, h |-> resources'[t.r].hash]
                                   /\ t.r # migration.r
<1>1. \A t \in migration.todo : /\ Pending(t.r) /\ t = [r |-> t.r, h |-> resources[t.r].hash]
                                /\ t.r # migration.r
  BY DEF MigrationFits
<1>2. QED
  BY <1>1 DEF Pending, Live

LEMMA MigrateAdoptsStep == ASSUME StoreInv, MigrateAdopts PROVE StoreInv'
<1>1. /\ Requesting /\ files' = files /\ migration.pc = "adopt" /\ MigrationFits /\ Tables
      /\ client' = client /\ versions' = versions /\ lastVersion' = lastVersion /\ previews' = previews
      /\ MigrationShaped /\ migration' = [migration EXCEPT !.pc = "next"]
  BY DEF MigrateAdopts, StoreInv, Requesting
<1>2. PICK r : r = migration.r
  OBVIOUS
<1>3. Pending(r) /\ VersionsOf(r) # {}
  BY <1>1, <1>2 DEF MigrationFits
<1>4. PICK v : /\ v = CHOOSE u \in VersionsOf(r) : u.number = MaxNumber(VersionsOf(r))
               /\ v \in VersionsOf(r)
  <2>1. IsFiniteSet(VersionsOf(r)) /\ \A u \in VersionsOf(r) : u.number \in Nat
    BY <1>1, VersionsOfAre
  <2>2. \E u \in VersionsOf(r) : u.number = MaxNumber(VersionsOf(r))
    BY <1>3, <2>1, MaxNumberIsMax
  <2>3. QED
    BY <2>2
<1>5. resources' = [resources EXCEPT ![r].current = v.id]
  BY <1>2, <1>3, <1>4 DEF MigrateAdopts, Pending
<1>6. Tables' /\ \A s \in Resources : s # r => resources'[s] = resources[s]
  BY <1>1, <1>3, <1>4, <1>5, TablesAdopt DEF Pending
<1>7. migration'.pc = "next" /\ migration'.todo = migration.todo /\ MigrationShaped'
  BY <1>1 DEF MigrationShaped
<1>8. \A t \in migration'.todo : Pending(t.r)' /\ t = [r |-> t.r, h |-> resources'[t.r].hash]
  BY <1>1, <1>2, <1>6, <1>7, ListKept
<1>9. (\A c \in Clients : client[c] = NoRequest) => MigrationFits'
  BY <1>1, <1>7, <1>8 DEF MigrationFits
<1>10. QED
  BY <1>1, <1>6, <1>7, <1>9, MigrationAlone

LEMMA MigrateCreatesStep == ASSUME StoreInv, MigrateCreates PROVE StoreInv'
<1>1. /\ Requesting /\ files' = files /\ migration.pc = "create" /\ MigrationFits /\ Tables
      /\ client' = client /\ resources' = resources /\ previews' = previews /\ MigrationShaped
  BY DEF MigrateCreates, StoreInv, Requesting
<1>2. PICK r : r = migration.r
  OBVIOUS
<1>3. Pending(r) /\ VersionsOf(r) = {} /\ migration.h = resources[r].hash
  BY <1>1, <1>2 DEF MigrationFits
<1>4. /\ versions' = versions \cup {Version(lastVersion + 1, r, 1, resources[r].hash)}
      /\ lastVersion' = lastVersion + 1
      /\ migration' = [migration EXCEPT !.pc = "point", !.h = lastVersion + 1]
  BY <1>2, <1>3 DEF MigrateCreates, Pending
<1>5. Tables' /\ VersionsOf(r)' = {Version(lastVersion + 1, r, 1, resources[r].hash)}
  BY <1>1, <1>3, <1>4, TablesFirst DEF Pending
<1>6. /\ migration'.pc = "point" /\ migration'.todo = migration.todo /\ migration'.r = r
      /\ migration'.h = lastVersion + 1 /\ MigrationShaped'
  BY <1>1, <1>2, <1>4 DEF MigrationShaped
<1>7. \A t \in migration'.todo : Pending(t.r)' /\ t = [r |-> t.r, h |-> resources'[t.r].hash] /\ t.r # r
  BY <1>1, <1>2, <1>6, ListKept
<1>8. Pending(r)' /\ \E v \in VersionsOf(r)' : v.id = migration'.h
  BY <1>1, <1>3, <1>5, <1>6 DEF Pending, Live, Version
<1>9. (\A c \in Clients : client[c] = NoRequest) => MigrationFits'
  <2>1. VersionsOf(migration.r)' = VersionsOf(r)'
    BY <1>6 DEF VersionsOf
  <2>2. Pending(migration.r)'
    BY <1>6, <1>8 DEF Pending, Live
  <2>3. QED
    BY <1>1, <1>6, <1>7, <1>8, <2>1, <2>2 DEF MigrationFits
<1>10. QED
  BY <1>1, <1>5, <1>6, <1>9, MigrationAlone

LEMMA MigratePointsStep == ASSUME StoreInv, MigratePoints PROVE StoreInv'
<1>1. /\ Requesting /\ files' = files /\ migration.pc = "point" /\ MigrationFits /\ Tables
      /\ client' = client /\ versions' = versions /\ lastVersion' = lastVersion /\ previews' = previews
      /\ MigrationShaped /\ migration' = [migration EXCEPT !.pc = "next", !.h = "none"]
  BY DEF MigratePoints, StoreInv, Requesting
<1>2. PICK r : r = migration.r
  OBVIOUS
<1>3. Pending(r) /\ \E v \in VersionsOf(r) : v.id = migration.h
  BY <1>1, <1>2 DEF MigrationFits
<1>4. PICK v \in VersionsOf(r) : v.id = migration.h
  BY <1>3
<1>5. resources' = [resources EXCEPT ![r].current = v.id]
  BY <1>2, <1>3, <1>4 DEF MigratePoints, Pending
<1>6. Tables' /\ \A s \in Resources : s # r => resources'[s] = resources[s]
  BY <1>1, <1>3, <1>4, <1>5, TablesAdopt DEF Pending
<1>7. migration'.pc = "next" /\ migration'.todo = migration.todo /\ MigrationShaped'
  BY <1>1 DEF MigrationShaped
<1>8. \A t \in migration'.todo : Pending(t.r)' /\ t = [r |-> t.r, h |-> resources'[t.r].hash]
  BY <1>1, <1>2, <1>6, <1>7, ListKept
<1>9. (\A c \in Clients : client[c] = NoRequest) => MigrationFits'
  BY <1>1, <1>7, <1>8 DEF MigrationFits
<1>10. QED
  BY <1>1, <1>6, <1>7, <1>9, MigrationAlone

\* The second pass finds nothing to repair.
LEMMA NothingOutOfSync == ASSUME Tables PROVE OutOfSync = {}
<1> SUFFICES ASSUME NEW u \in versions, NEW r \in Resources, Live(r), resources[r].current = u.id
             PROVE  resources[r].hash = u.hash
  BY DEF OutOfSync
<1>1. u.id # 0
  BY DEF Tables, TypeOK, TablesFit
<1>2. PICK v \in VersionsOf(r) : v.id = resources[r].current /\ v.hash = resources[r].hash
  BY <1>1 DEF Tables, CurrentAgrees
<1>3. u = v
  BY <1>2 DEF Tables, TablesFit, VersionsOf
<1>4. QED
  BY <1>2, <1>3

LEMMA SyncListsStep == ASSUME StoreInv, SyncLists PROVE StoreInv'
<1>1. /\ TablesStay /\ Requesting /\ files' = files /\ migration.pc = "next" /\ client' = client
  BY DEF SyncLists, StoreInv, TablesStay, Requesting
<1>2. migration'.pc = "syncing" /\ migration'.todo = {} /\ MigrationShaped'
  BY NothingOutOfSync DEF SyncLists, NoMigration, MigrationShaped, StoreInv
<1>3. Tables'
  BY <1>1, TablesKept DEF StoreInv
<1>4. (\A c \in Clients : client[c] = NoRequest) => MigrationFits'
  BY <1>1, <1>2 DEF MigrationFits
<1>5. QED
  BY <1>1, <1>2, <1>3, <1>4, MigrationAlone

LEMMA SyncCommitsKeeps == ASSUME StoreInv, SyncCommits PROVE TablesStay
<1>1. {t.r : t \in migration.todo} = {}
  BY DEF SyncCommits, StoreInv, MigrationFits
<1>2. resources' = [r \in Resources |-> resources[r]] /\ previews' = [r \in Resources |-> previews[r]]
  BY <1>1 DEF SyncCommits
<1>3. QED
  BY <1>2 DEF SyncCommits, StoreInv, Tables, TablesFit, TablesStay

LEMMA SyncCommitsStep == ASSUME StoreInv, SyncCommits PROVE StoreInv'
<1>1. /\ TablesStay /\ Requesting /\ files' = files /\ migration.pc = "syncing" /\ client' = client
      /\ migration' = NoMigration
  BY SyncCommitsKeeps DEF SyncCommits, Requesting
<1>2. migration'.pc = "done" /\ MigrationShaped'
  BY <1>1 DEF NoMigration, MigrationShaped
<1>3. Tables'
  BY <1>1, TablesKept DEF StoreInv
<1>4. QED
  BY <1>1, <1>2, <1>3, MigrationAlone DEF MigrationFits

LEMMA MigrateStep == ASSUME StoreInv, Migrate PROVE StoreInv'
BY MigrateListsStep, MigrateCountsStep, MigrateAdoptsStep, MigrateCreatesStep, MigratePointsStep,
   SyncListsStep, SyncCommitsStep DEF Migrate

-----------------------------------------------------------------------------
(* Every step.                                                               *)

LEMMA InitStep == ASSUME Init PROVE StoreInv
<1> USE DEF Init
<1>1. \A r \in Resources : /\ resources[r].state = "live" <=> r \in Legacy
                           /\ resources[r].current = 0
                           /\ resources[r].state = "live" => resources[r].hash \in Contents
                           /\ previews[r] = {}
  BY DEF Unborn
<1>2. \A s : VersionsOf(s) = {}
  BY DEF VersionsOf
<1>3. TypeOK
  <2>1. files \in [Contents -> {"none", "partial", "whole"}]
    OBVIOUS
  <2>2. \A r \in Resources : resources[r].state \in {"unborn", "live", "deleted"}
    BY DEF Unborn
  <2>3. QED
    BY <1>1, <2>1, <2>2 DEF TypeOK, Live
<1>4. RowsHaveFiles
  BY <1>1 DEF RowsHaveFiles, Referenced, Unreferenced
<1>5. NoTwins
  BY <1>1, StoreAssumption DEF NoTwins, First, Live
<1>6. NumbersUnique /\ CurrentAgrees /\ PreviewsCurrent
  BY <1>1 DEF NumbersUnique, CurrentAgrees, PreviewsCurrent
<1>7. TablesFit
  <2>1. resources \in [Resources -> [state : {"unborn", "live", "deleted"},
                                     hash : Contents \cup {"none"}, current : Nat]]
    BY DEF Unborn
  <2>2. IsFiniteSet(versions)
    BY FS_EmptySet
  <2>3. QED
    BY <1>1, <1>2, <2>1, <2>2 DEF TablesFit
<1>8. NoRequest \in Request /\ NoRequest.op = "none"
  BY DEF NoRequest, Request
<1>9. \A c \in Clients : Fits(client[c])
  BY DEF Fits, NoRequest, Stages, Changes, Stores, Numbered, Unmatched
<1>10. Requests
  BY <1>8, <1>9 DEF Requests, RequestsApart, Stores, Changes
<1>11. Truncated /\ MigrationFits /\ MigrationShaped
  BY DEF Truncated, MigrationFits, MigrationShaped, NoMigration
<1>12. QED
  BY <1>3, <1>4, <1>5, <1>6, <1>7, <1>10, <1>11 DEF StoreInv, Tables

LEMMA CrashStep == ASSUME StoreInv, Crash PROVE StoreInv'
<1>1. /\ TablesStay /\ files' = files /\ faults' = faults + 1 /\ faults \in Nat
      /\ client' = [c \in Clients |-> NoRequest]
      /\ migration' \in {NoMigration, [NoMigration EXCEPT !.pc = "listing"]}
  BY DEF Crash, StoreInv
<1>2. faults' \in Nat /\ faults' # 0
  BY <1>1
<1>3. NoRequest \in Request /\ NoRequest.op = "none"
  BY DEF NoRequest, Request
<1>4. \A c \in Clients : client'[c] = NoRequest
  BY <1>1
<1>5. \A c \in Clients : Fits(client[c])'
  BY <1>4 DEF Fits, NoRequest, Stages, Changes, Stores, Numbered, Unmatched
<1>6. Requests'
  BY <1>1, <1>3, <1>4, <1>5 DEF Requests, RequestsApart, Stores, Changes
<1>7. MigrationFits' /\ MigrationShaped'
  BY <1>1, <1>4 DEF MigrationFits, MigrationShaped, NoMigration
<1>8. Truncated'
  BY <1>2 DEF Truncated
<1>9. QED
  BY <1>1, <1>2, <1>6, <1>7, <1>8, TablesKept DEF StoreInv

LEMMA StutterStep == ASSUME StoreInv, UNCHANGED vars PROVE StoreInv'
<1>1. TablesStay /\ files' = files /\ client' = client /\ migration' = migration /\ faults' = faults
  BY DEF vars, TablesStay
<1>2. \A c \in Clients : Fits(client[c])'
  BY <1>1, OthersFitQuietly
<1>3. Requests'
  BY <1>1, <1>2 DEF StoreInv, Requests, RequestsApart
<1>4. MigrationFits' /\ MigrationShaped' /\ Truncated'
  BY <1>1 DEF StoreInv, MigrationFits, MigrationShaped, Truncated, TablesStay, VersionsOf, Pending, Live
<1>5. QED
  BY <1>1, <1>3, <1>4, TablesKept DEF StoreInv

LEMMA ServeStep == ASSUME StoreInv, NEW c \in Clients, Serve(c) PROVE StoreInv'
<1>1. CASE StatFile(c) \/ CreateFile(c) \/ WriteFile(c) \/ WriteFails(c)
  BY <1>1, StatFileStep, CreateFileStep, WriteFileStep, WriteFailsStep
<1>2. CASE AddLocks(c) \/ AddChecks(c) \/ AddCommits(c) \/ AddRefused(c)
  BY <1>2, AddLocksStep, AddChecksStep, AddCommitsStep, AddRefusedStep
<1>3. CASE LockVersion(c) \/ NotThere(c) \/ UploadReads(c) \/ RestoreReads(c) \/ TransformReads(c)
  BY <1>3, LockVersionStep, NotThereStep, UploadReadsStep, RestoreReadsStep, TransformReadsStep
<1>4. CASE CropReads(c) \/ CropProbes(c) \/ VersionCommits(c) \/ TransformCommits(c)
  BY <1>4, CropReadsStep, CropProbesStep, VersionCommitsStep, TransformCommitsStep
<1>5. CASE DeleteVersionReads(c) \/ DeleteVersionRow(c) \/ DeleteVersionCounts(c)
  BY <1>5, DeleteVersionReadsStep, DeleteVersionRowStep, DeleteVersionCountsStep
<1>6. CASE DeleteReads(c) \/ DeleteCommits(c) \/ BulkDeleteCommits(c) \/ MergeCommits(c) \/ RemoveFile(c)
  BY <1>6, DeleteReadsStep, DeleteCommitsStep, BulkDeleteCommitsStep, MergeCommitsStep, RemoveFileStep
<1>7. CASE ThumbnailReads(c) \/ ThumbnailSaves(c)
  BY <1>7, ThumbnailReadsStep, ThumbnailSavesStep
<1>8. QED
  BY <1>1, <1>2, <1>3, <1>4, <1>5, <1>6, <1>7 DEF Serve

LEMMA StoreInvariant == ASSUME KeptApart PROVE Spec => []StoreInv
<1>1. Init => StoreInv
  BY InitStep
<1>2. StoreInv /\ [Next]_vars => StoreInv'
  BY MigrateStep, CrashStep, StartStep, ServeStep, StutterStep DEF Next
<1>3. QED
  BY <1>1, <1>2, PTL DEF Spec

-----------------------------------------------------------------------------
(* What it gives.                                                            *)

\* A row never refers to a file that was taken away or truncated under it: deletions
\* and merges count references in their transaction and remove files after it, but no
\* store is under way then, and every row a store writes has its file
\* (CountHashReferences, AddResource and the version writers).
THEOREM FilesAreKept == KeptApart => (Spec => []FilesKept)
<1> SUFFICES ASSUME KeptApart PROVE Spec => []FilesKept
  OBVIOUS
<1>1. StoreInv => FilesKept
  <2> SUFFICES ASSUME StoreInv PROVE FilesKept
    OBVIOUS
  <2>1. TypeOK /\ RowsHaveFiles
    BY DEF StoreInv, Tables
  <2>2. WholeUnlessFault
    <3> SUFFICES ASSUME faults = 0, \A c \in Clients : client[c].op \notin Stores,
                        NEW h \in Referenced, files[h] # "whole"
                 PROVE  FALSE
      BY DEF WholeUnlessFault
    <3>1. h \in Contents /\ files[h] = "partial"
      BY <2>1 DEF TypeOK, RowsHaveFiles, Referenced
    <3>2. PICK c \in Clients : client[c].pc = "write"
      BY <3>1 DEF StoreInv, Truncated
    <3>3. <<client[c].op, client[c].pc>> \in Stages
      BY DEF StoreInv, Requests, Fits
    <3>4. client[c].op \in Stores
      BY <3>2, <3>3 DEF Stages, Stores, Changes
    <3>5. QED
      BY <3>4
  <2>3. QED
    BY <2>1, <2>2 DEF FilesKept
<1>2. QED
  BY <1>1, StoreInvariant, PTL

\* However uploads and crops of one content overlap they add one resource, and uploads,
\* restores, transforms and merges never give one number to two versions of a resource:
\* the first by the hash lock of AddResource, the second by the version lock of the
\* resource and the number read under it. What any request or the migration has read outside
\* the step that acts on it still holds then: the number of the next version, that the
\* content is not there, that a version is not the current one, that no row refers to a
\* file, what a preview was made of.
THEOREM NothingIsDoubled == KeptApart => (Spec => []NothingDoubled)
<1> SUFFICES ASSUME KeptApart PROVE Spec => []NothingDoubled
  OBVIOUS
<1>1. StoreInv => NothingDoubled
  BY DEF StoreInv, Tables, Requests, ReadsHold, NothingDoubled
<1>2. QED
  BY <1>1, StoreInvariant, PTL

\* The fields a resource is served and deduplicated by are its current version's, and its
\* cached previews show the same content, through every upload, restore, transform, merge,
\* thumbnail and the two passes of the start-up migration.
THEOREM ShownAlwaysAgrees == KeptApart => (Spec => []ShownAgrees)
<1> SUFFICES ASSUME KeptApart PROVE Spec => []ShownAgrees
  OBVIOUS
<1>1. StoreInv => ShownAgrees
  BY DEF StoreInv, Tables, ShownAgrees
<1>2. QED
  BY <1>1, StoreInvariant, PTL

LEMMA ShownIsAVersion ==
  ASSUME Tables, NEW r \in Resources, Live(r), VersionsOf(r) # {}
  PROVE  \E v \in VersionsOf(r) : v.hash = resources[r].hash
<1>1. CASE resources[r].current = 0
  BY <1>1 DEF Tables, TablesFit
<1>2. CASE resources[r].current # 0
  BY <1>2 DEF Tables, CurrentAgrees
<1>3. QED
  BY <1>1, <1>2

\* A step that gives a resource a new content.
Reshows(r) == Live(r) /\ resources'[r].state = "live" /\ resources'[r].hash # resources[r].hash

Keeps(r) == \E v \in versions' : v.resource = r /\ v.hash = resources[r].hash

LEMMA OthersShowOn ==
  ASSUME StoreInv, NEW c \in Clients, Serve(c), NEW r \in Resources, Reshows(r)
  PROVE  \/ VersionCommits(c) /\ client[c].r = r
         \/ TransformCommits(c) /\ client[c].r = r
<1>1. resources \in [Resources -> [state : {"unborn", "live", "deleted"},
                                   hash : Contents \cup {"none"}, current : Nat]]
  BY DEF StoreInv, Tables, TablesFit
<1>2. resources' # resources
  BY DEF Reshows
<1>3. ~AddCommits(c)
  BY <1>1 DEF AddCommits, Reshows, Live, Unborn
<1>4. \A gone : resources' # Without(gone)
  BY DEF Without, Reshows, Unborn
<1>5. ~DeleteCommits(c)
  BY <1>4 DEF DeleteCommits
<1>6. ~BulkDeleteCommits(c) /\ ~MergeCommits(c)
  BY <1>2, <1>4 DEF BulkDeleteCommits, MergeCommits, DeleteRows, TablesStay
<1>7. VersionCommits(c) \/ TransformCommits(c)
  <2>1. ~StatFile(c) /\ ~CreateFile(c) /\ ~WriteFile(c) /\ ~WriteFails(c)
    BY <1>2 DEF StatFile, CreateFile, WriteFile, WriteFails, TablesStay
  <2>2. ~AddLocks(c) /\ ~AddChecks(c) /\ ~AddRefused(c) /\ ~LockVersion(c) /\ ~NotThere(c)
    BY <1>2 DEF AddLocks, AddChecks, AddRefused, LockVersion, NotThere, TablesStay
  <2>3. ~UploadReads(c) /\ ~RestoreReads(c) /\ ~TransformReads(c) /\ ~CropReads(c) /\ ~CropProbes(c)
    BY <1>2 DEF UploadReads, RestoreReads, TransformReads, CropReads, CropProbes, TablesStay
  <2>4. ~DeleteVersionReads(c) /\ ~DeleteVersionRow(c) /\ ~DeleteVersionCounts(c) /\ ~DeleteReads(c)
    BY <1>2 DEF DeleteVersionReads, DeleteVersionRow, DeleteVersionCounts, DeleteReads, TablesStay
  <2>5. ~RemoveFile(c) /\ ~ThumbnailReads(c) /\ ~ThumbnailSaves(c)
    BY <1>2 DEF RemoveFile, ThumbnailReads, ThumbnailSaves, TablesStay
  <2>6. QED
    BY <1>3, <1>5, <1>6, <2>1, <2>2, <2>3, <2>4, <2>5 DEF Serve
<1>8. VersionCommits(c) => client[c].r = r
  BY <1>1, <1>2 DEF VersionCommits, MakeCurrent, Reshows, TablesStay
<1>9. TransformCommits(c) => client[c].r = r
  BY <1>1, <1>2 DEF TransformCommits, MakeCurrent, Reshows, TablesStay
<1>10. QED
  BY <1>7, <1>8, <1>9

LEMMA MigrationShowsOn ==
  ASSUME StoreInv, Migrate, NEW r \in Resources
  PROVE  ~Reshows(r)
<1>1. resources \in [Resources -> [state : {"unborn", "live", "deleted"},
                                   hash : Contents \cup {"none"}, current : Nat]]
  BY DEF StoreInv, Tables, TablesFit
<1>2. CASE MigrateLists \/ MigrateCounts \/ MigrateCreates \/ SyncLists
  BY <1>2 DEF MigrateLists, MigrateCounts, MigrateCreates, SyncLists, TablesStay, Reshows
<1>3. CASE MigrateAdopts \/ MigratePoints
  BY <1>1, <1>3 DEF MigrateAdopts, MigratePoints, Reshows
<1>4. CASE SyncCommits
  BY <1>4, SyncCommitsKeeps DEF TablesStay, Reshows
<1>5. QED
  BY <1>2, <1>3, <1>4 DEF Migrate

LEMMA ServingKeepsHistory ==
  ASSUME StoreInv, NEW c \in Clients, Serve(c), NEW r \in Resources, Reshows(r)
  PROVE  Keeps(r)
<1>1. Live(r) /\ Tables
  BY DEF Reshows, StoreInv
<1>2. ASSUME VersionsOf(r) # {}, versions \subseteq versions' PROVE Keeps(r)
  BY <1>1, <1>2, ShownIsAVersion DEF Keeps, VersionsOf
<1>3. CASE VersionCommits(c) /\ client[c].r = r
  <2>1. Fits(client[c]) /\ Numbered(client[c])
    BY <1>3 DEF VersionCommits, At, Numbered, StoreInv, Requests
  <2>2. VersionsOf(r) # {}
    BY <1>3, <2>1 DEF Fits
  <2>3. versions \subseteq versions'
    BY <1>1, <1>3 DEF VersionCommits
  <2>4. QED
    BY <1>2, <2>2, <2>3
<1>4. CASE TransformCommits(c) /\ client[c].r = r
  <2>1. versions \subseteq versions' /\ Original(r) \subseteq versions'
    BY <1>1, <1>4 DEF TransformCommits
  <2>2. CASE VersionsOf(r) # {}
    BY <1>2, <2>1, <2>2
  <2>3. CASE VersionsOf(r) = {}
    BY <2>1, <2>3 DEF Original, Keeps, Version
  <2>4. QED
    BY <2>2, <2>3
<1>5. QED
  BY <1>3, <1>4, OthersShowOn

\* What a resource showed before a change stays among its versions: an upload writes it
\* down before it reads the number of the new version, a transform in its transaction.
THEOREM HistoryIsKept == KeptApart => (Spec => HistoryKept)
<1> SUFFICES ASSUME KeptApart PROVE Spec => HistoryKept
  OBVIOUS
<1>1. StoreInv /\ [Next]_vars => \A r \in Resources : Reshows(r) => Keeps(r)
  <2> SUFFICES ASSUME StoreInv, [Next]_vars, NEW r \in Resources, Reshows(r) PROVE Keeps(r)
    OBVIOUS
  <2>1. resources' # resources
    BY DEF Reshows
  <2>2. CASE \E c \in Clients : Serve(c)
    BY <2>2, ServingKeepsHistory
  <2>3. ~Migrate
    BY MigrationShowsOn
  <2>4. ~Crash /\ ~UNCHANGED vars
    BY <2>1 DEF Crash, vars, TablesStay
  <2>5. ~\E c \in Clients : Start(c)
    BY <2>1 DEF Start, StartAdd, StartChange, StartRestore, StartDeleteVersion, StartDelete,
                StartBulkDelete, StartMerge, StartThumbnail, Begin, TablesStay
  <2>6. QED
    BY <2>2, <2>3, <2>4, <2>5 DEF Next
<1>2. StoreInv /\ [Next]_vars =>
        [\A r \in Resources :
           Live(r) /\ resources'[r].state = "live" /\ resources'[r].hash # resources[r].hash
             => \E v \in versions' : v.resource = r /\ v.hash = resources[r].hash]_vars
  BY <1>1 DEF Reshows, Keeps
<1>3. QED
  BY <1>2, StoreInvariant, PTL DEF Spec, HistoryKept

-----------------------------------------------------------------------------
(* Part two: an import is applied by one attempt at a time, and replays         *)
(* exactly, with every failure the module has.                                 *)

\* Handlers and attempts are records that say where they are.
Shaped ==
  /\ DOMAIN jobs = Attempts /\ \A a \in Attempts : "pc" \in DOMAIN jobs[a]
  /\ DOMAIN handlers = Handlers /\ \A c \in Handlers : "pc" \in DOMAIN handlers[c]

Consumed(c) == handlers[c].pc = "consumed"

\* The plan belongs to nobody while it is ready; otherwise to one handler that has
\* consumed it or to one attempt that runs, never to both.
OneApply ==
  /\ AppliesAlone
  /\ \A c, d \in Handlers : Consumed(c) /\ Consumed(d) => c = d
  /\ \A c \in Handlers : Consumed(c) => \A a \in Attempts : ~Running(a)
  /\ plan = "ready" =>
       (\A c \in Handlers : ~Consumed(c)) /\ (\A a \in Attempts : ~Running(a))

Alone == Shaped /\ OneApply

-----------------------------------------------------------------------------
(* The steps of an attempt.                                                  *)

\* A step of attempt a: it was running, no other changes, and the plan becomes ready
\* only as it ends.
Worked(a) ==
  /\ Running(a)
  /\ Shaped'
  /\ \A b \in Attempts \ {a} : jobs'[b] = jobs[b]
  /\ handlers' = handlers
  /\ plan' = "ready" => plan = "ready" \/ ~Running(a)'

\* What changes the record of one attempt keeps the shape of all.
LEMMA OneChanges ==
  ASSUME Shaped, NEW a \in Attempts, NEW job, "pc" \in DOMAIN job,
         jobs' = [jobs EXCEPT ![a] = job], handlers' = handlers
  PROVE  Shaped' /\ (\A b \in Attempts \ {a} : jobs'[b] = jobs[b]) /\ jobs'[a] = job
BY DEF Shaped, Attempts

\* Where a failure, a checkpoint and an advance lead.
LEMMA FailEnds ==
  ASSUME Shaped, NEW a \in Attempts, NEW mutated, FailWith(a, mutated), handlers' = handlers, Running(a)
  PROVE  Worked(a)
<1> DEFINE job == [[jobs[a] EXCEPT !.mutated = mutated] EXCEPT !.pc = "failed"]
<1>1. "pc" \in DOMAIN job /\ job.pc = "failed"
  BY DEF Shaped
<1>2. jobs' = [jobs EXCEPT ![a] = job]
  BY DEF FailWith
<1> HIDE DEF job
<1>3. QED
  BY <1>1, <1>2, OneChanges DEF Worked, Running, Ended

LEMMA AdvanceGoesOn ==
  ASSUME Shaped, NEW a \in Attempts, NEW pc, NEW todo, Advance(a, pc, todo), handlers' = handlers,
         Running(a)
  PROVE  Worked(a)
<1> DEFINE job == [[jobs[a] EXCEPT !.pc = pc] EXCEPT !.todo = todo]
<1>1. "pc" \in DOMAIN job
  BY DEF Shaped
<1>2. jobs' = [jobs EXCEPT ![a] = job] /\ plan' = plan
  BY DEF Advance
<1> HIDE DEF job
<1>3. QED
  BY <1>1, <1>2, OneChanges DEF Worked

LEMMA ChangeWorks ==
  ASSUME Shaped, NEW a \in Attempts, NEW job, "pc" \in DOMAIN job, Running(a),
         jobs' = [jobs EXCEPT ![a] = job], handlers' = handlers,
         plan' = plan \/ plan' # "ready"
  PROVE  Worked(a)
BY OneChanges DEF Worked

\* The records that the phases of the rows write keep their shape.
LEMMA SchemaDefRecord ==
  ASSUME Shaped, NEW a \in Attempts, applySchemaDefDecisions(a)
  PROVE  \E job : "pc" \in DOMAIN job /\ jobs' = [jobs EXCEPT ![a] = job]
<1>1. PICK i, k :
        \/ jobs' = [jobs EXCEPT ![a].todo = @ \ {i}, ![a].ids[i] = k]
        \/ jobs' = [jobs EXCEPT ![a].todo = @ \ {i}, ![a].ids[i] = k, ![a].mutated = TRUE]
  BY DEF applySchemaDefDecisions, SameDef, Matches
<1> DEFINE plain == [jobs[a] EXCEPT !.todo = @ \ {i}, !.ids[i] = k]
           mutated == [jobs[a] EXCEPT !.todo = @ \ {i}, !.ids[i] = k, !.mutated = TRUE]
<1>2. "pc" \in DOMAIN plain /\ "pc" \in DOMAIN mutated
  BY DEF Shaped
<1>3. jobs' = [jobs EXCEPT ![a] = plain] \/ jobs' = [jobs EXCEPT ![a] = mutated]
  BY <1>1
<1> HIDE DEF plain, mutated
<1>4. QED
  BY <1>2, <1>3

LEMMA GroupRecord ==
  ASSUME Shaped, NEW a \in Attempts, applyGroups(a)
  PROVE  \E job : "pc" \in DOMAIN job /\ jobs' = [jobs EXCEPT ![a] = job]
<1>1. PICK g, k :
        \/ jobs' = [jobs EXCEPT ![a].ids[g] = <<g, a>>, ![a].created = @ \cup {<<g, a>>},
                                ![a].mutated = TRUE]
        \/ jobs' = [jobs EXCEPT ![a].ids[g] = k, ![a].skipped = @ \cup {g}]
        \/ jobs' = [jobs EXCEPT ![a].ids[g] = k, ![a].mutated = TRUE]
  BY DEF applyGroups, Reached, Matches
<1> DEFINE made == [jobs[a] EXCEPT !.ids[g] = <<g, a>>, !.created = @ \cup {<<g, a>>}, !.mutated = TRUE]
           skips == [jobs[a] EXCEPT !.ids[g] = k, !.skipped = @ \cup {g}]
           merges == [jobs[a] EXCEPT !.ids[g] = k, !.mutated = TRUE]
<1>2. "pc" \in DOMAIN made /\ "pc" \in DOMAIN skips /\ "pc" \in DOMAIN merges
  BY DEF Shaped
<1>3. \/ jobs' = [jobs EXCEPT ![a] = made]
      \/ jobs' = [jobs EXCEPT ![a] = skips]
      \/ jobs' = [jobs EXCEPT ![a] = merges]
  BY <1>1
<1> HIDE DEF made, skips, merges
<1>4. QED
  BY <1>2, <1>3

LEMMA ResourceRecord ==
  ASSUME Shaped, NEW a \in Attempts, applyResources(a)
  PROVE  \/ Fail(a)
         \/ /\ plan' = plan
            /\ \E job : "pc" \in DOMAIN job /\ jobs' = [jobs EXCEPT ![a] = job]
<1>1. PICK x \in jobs[a].todo :
        \/ Fail(a)
        \/ plan' = plan /\ \E r \in Matches(x) : CollideByGUID(a, x, r)
        \/ plan' = plan /\ (ReuseByHash(a, x) \/ CreateResource(a, x))
  BY DEF applyResources
<1>2. ASSUME NEW r \in Matches(x), CollideByGUID(a, x, r)
      PROVE  \E job : "pc" \in DOMAIN job /\ jobs' = [jobs EXCEPT ![a] = job]
  <2> DEFINE job == [Done(a, x) EXCEPT !.ids[x] = Key(r)]
             skips == [job EXCEPT !.skipped = @ \cup {x}]
             merges == [job EXCEPT !.mutated = TRUE]
             lists == [job EXCEPT !.mutated = TRUE, !.created = @ \cup {Key(r)}]
  <2>1. "pc" \in DOMAIN skips /\ "pc" \in DOMAIN merges /\ "pc" \in DOMAIN CopyAfter(x, r, lists)
    BY DEF Shaped, Done, CopyAfter
  <2>2. \/ jobs' = [jobs EXCEPT ![a] = skips]
        \/ jobs' = [jobs EXCEPT ![a] = merges]
        \/ jobs' = [jobs EXCEPT ![a] = CopyAfter(x, r, lists)]
    BY <1>2, Zenon DEF CollideByGUID
  <2> HIDE DEF job, skips, merges, lists
  <2>3. QED
    BY <2>1, <2>2
<1>3. ASSUME ReuseByHash(a, x) \/ CreateResource(a, x)
      PROVE  \E job : "pc" \in DOMAIN job /\ jobs' = [jobs EXCEPT ![a] = job]
  <2>1. CASE CreateResource(a, x)
    <3> DEFINE job == [Done(a, x) EXCEPT
                         !.ids[x] = <<x, a>>, !.created = @ \cup {<<x, a>>}, !.mutated = TRUE]
    <3>1. "pc" \in DOMAIN job
      BY DEF Shaped, Done
    <3>2. jobs' = [jobs EXCEPT ![a] = job]
      BY <2>1 DEF CreateResource
    <3> HIDE DEF job
    <3>3. QED
      BY <3>1, <3>2
  <2>2. CASE ReuseByHash(a, x)
    <3>1. CASE jobs' = [jobs EXCEPT ![a] = Done(a, x)]
      <4>1. "pc" \in DOMAIN Done(a, x)
        BY DEF Shaped, Done
      <4>2. QED
        BY <3>1, <4>1
    <3>2. CASE \E r \in SameHash(x) :
            jobs' = [jobs EXCEPT ![a] = [Done(a, x) EXCEPT !.ids[x] = Key(r), !.skipped = @ \cup {x}]]
      <4>1. PICK r \in SameHash(x) :
              jobs' = [jobs EXCEPT ![a] = [Done(a, x) EXCEPT !.ids[x] = Key(r), !.skipped = @ \cup {x}]]
        BY <3>2
      <4> DEFINE job == [Done(a, x) EXCEPT !.ids[x] = Key(r), !.skipped = @ \cup {x}]
      <4>2. "pc" \in DOMAIN job
        BY DEF Shaped, Done
      <4>3. jobs' = [jobs EXCEPT ![a] = job]
        BY <4>1
      <4> HIDE DEF job
      <4>4. QED
        BY <4>2, <4>3
    <3>3. QED
      BY <2>2, <3>1, <3>2 DEF ReuseByHash
  <2>3. QED
    BY <1>3, <2>1, <2>2
<1>4. QED
  BY <1>1, <1>2, <1>3

LEMMA NoteRecord ==
  ASSUME Shaped, NEW a \in Attempts, applyNotes(a)
  PROVE  \/ Fail(a)
         \/ /\ plan' = plan
            /\ \E job : "pc" \in DOMAIN job /\ jobs' = [jobs EXCEPT ![a] = job]
<1>1. PICK n, k :
        \/ Fail(a)
        \/ /\ plan' = plan
           /\ \/ jobs' = [jobs EXCEPT ![a] = [Done(a, n) EXCEPT
                            !.ids[n] = <<n, a>>, !.created = @ \cup {<<n, a>>}, !.mutated = TRUE]]
              \/ jobs' = [jobs EXCEPT ![a] = [Done(a, n) EXCEPT !.ids[n] = k, !.skipped = @ \cup {n}]]
              \/ jobs' = [jobs EXCEPT ![a] = [Done(a, n) EXCEPT !.ids[n] = k, !.mutated = TRUE]]
  BY DEF applyNotes, Matches
<1> DEFINE made == [Done(a, n) EXCEPT
                      !.ids[n] = <<n, a>>, !.created = @ \cup {<<n, a>>}, !.mutated = TRUE]
           skips == [Done(a, n) EXCEPT !.ids[n] = k, !.skipped = @ \cup {n}]
           merges == [Done(a, n) EXCEPT !.ids[n] = k, !.mutated = TRUE]
<1>2. "pc" \in DOMAIN made /\ "pc" \in DOMAIN skips /\ "pc" \in DOMAIN merges
  BY DEF Shaped, Done
<1>3. \/ Fail(a)
      \/ /\ plan' = plan
         /\ \/ jobs' = [jobs EXCEPT ![a] = made]
            \/ jobs' = [jobs EXCEPT ![a] = skips]
            \/ jobs' = [jobs EXCEPT ![a] = merges]
  BY <1>1
<1> HIDE DEF made, skips, merges
<1>4. QED
  BY <1>2, <1>3

\* Every step of an attempt: it fails, goes on to a phase, or writes its own record.
LEMMA EveryWorkStep ==
  ASSUME Shaped, NEW a \in Attempts, Work(a)
  PROVE  Worked(a)
<1>1. CASE LoadImportPlan(a)
  BY <1>1, FailEnds, AdvanceGoesOn DEF LoadImportPlan, Fail, HandlersStay, Running, Ended
<1>2. CASE OnBlob(a)
  <2>1. Running(a) /\ handlers' = handlers
    BY <1>2 DEF OnBlob, HandlersStay, Running, Ended
  <2>2. PICK b \in jobs[a].todo :
          \/ Fail(a)
          \/ Advance(a, "blobs", jobs[a].todo \ {b})
          \/ /\ jobs' = [jobs EXCEPT ![a].pc = "writing", ![a].blob = b, ![a].todo = @ \ {b}]
             /\ UNCHANGED plan
    BY <1>2 DEF OnBlob
  <2>3. ASSUME jobs' = [jobs EXCEPT ![a].pc = "writing", ![a].blob = b, ![a].todo = @ \ {b}],
               UNCHANGED plan
        PROVE  Worked(a)
    <3> DEFINE job == [jobs[a] EXCEPT !.pc = "writing", !.blob = b, !.todo = @ \ {b}]
    <3>1. "pc" \in DOMAIN job
      BY DEF Shaped
    <3>2. jobs' = [jobs EXCEPT ![a] = job]
      BY <2>3
    <3> HIDE DEF job
    <3>3. QED
      BY <2>1, <2>3, <3>1, <3>2, ChangeWorks
  <2>4. QED
    BY <2>1, <2>2, <2>3, FailEnds, AdvanceGoesOn DEF Fail
<1>3. CASE WriteBlob(a)
  <2> DEFINE job == [jobs[a] EXCEPT !.pc = "blobs", !.blob = "none"]
  <2>1. "pc" \in DOMAIN job
    BY DEF Shaped
  <2>2. jobs' = [jobs EXCEPT ![a] = job] /\ Running(a) /\ handlers' = handlers /\ plan' = plan
    BY <1>3 DEF WriteBlob, HandlersStay, Running, Ended
  <2> HIDE DEF job
  <2>3. QED
    BY <2>1, <2>2, ChangeWorks
<1>4. CASE BlobFails(a) \/ CopyFails(a)
  BY <1>4, FailEnds DEF BlobFails, CopyFails, Fail, HandlersStay, Running, Ended
<1>5. CASE EndBlobs(a)
  <2>1. Running(a) /\ handlers' = handlers
    BY <1>5 DEF EndBlobs, HandlersStay, Running, Ended
  <2> DEFINE d == jobs[a].decisions
             job == [jobs[a] EXCEPT !.pc = "defs", !.safe = RetrySafe(d),
                                    !.todo = Named \cup {i \in NoteTypes : d.createsTypes}]
  <2>2. "pc" \in DOMAIN job
    BY DEF Shaped
  <2>3. Fail(a) \/ (jobs' = [jobs EXCEPT ![a] = job] /\ plan' = plan)
    BY <1>5 DEF EndBlobs
  <2> HIDE DEF job
  <2>4. QED
    BY <2>1, <2>2, <2>3, FailEnds, ChangeWorks DEF Fail
<1>6. CASE EndDefs(a) \/ EndGroups(a) \/ EndResources(a) \/ EndNotes(a)
  <2>1. Running(a) /\ handlers' = handlers
    BY <1>6 DEF EndDefs, EndGroups, EndResources, EndNotes, HandlersStay, Running, Ended
  <2>2. \E pc, todo : Checkpoint(a, pc, todo)
    BY <1>6 DEF EndDefs, EndGroups, EndResources, EndNotes
  <2>3. Fail(a) \/ \E pc, todo : Advance(a, pc, todo)
    BY <2>2 DEF Checkpoint
  <2>4. QED
    BY <2>1, <2>3, FailEnds, AdvanceGoesOn DEF Fail
<1>7. CASE StatementFails(a)
  <2>1. Running(a) /\ handlers' = handlers
    BY <1>7 DEF StatementFails, HandlersStay, Running, Ended
  <2>2. \E m : FailWith(a, m)
    BY <1>7 DEF StatementFails
  <2>3. QED
    BY <2>1, <2>2, FailEnds
<1>8. CASE applyM2MLinks(a)
  <2>1. Running(a) /\ handlers' = handlers /\ \E todo : Advance(a, "linking", todo)
    BY <1>8 DEF applyM2MLinks, HandlersStay, Running, Ended
  <2>2. QED
    BY <2>1, AdvanceGoesOn
<1>9. CASE Complete(a)
  <2> DEFINE job == [jobs[a] EXCEPT !.pc = "completed"]
  <2>1. "pc" \in DOMAIN job
    BY DEF Shaped
  <2>2. /\ jobs' = [jobs EXCEPT ![a] = job] /\ Running(a) /\ handlers' = handlers
        /\ plan' = plan \/ plan' # "ready"
    BY <1>9 DEF Complete, HandlersStay, Running, Ended
  <2> HIDE DEF job
  <2>3. QED
    BY <2>1, <2>2, ChangeWorks
<1>10. CASE Cancel(a)
  <2> DEFINE job == [jobs[a] EXCEPT !.cancelled = TRUE]
  <2>1. "pc" \in DOMAIN job
    BY DEF Shaped
  <2>2. jobs' = [jobs EXCEPT ![a] = job] /\ Running(a) /\ handlers' = handlers /\ plan' = plan
    BY <1>10 DEF Cancel
  <2> HIDE DEF job
  <2>3. QED
    BY <2>1, <2>2, ChangeWorks
<1>11. CASE copyBlob(a)
  <2> DEFINE job == [jobs[a] EXCEPT !.pc = "resources", !.copy = NoKey]
  <2>1. "pc" \in DOMAIN job
    BY DEF Shaped
  <2>2. jobs' = [jobs EXCEPT ![a] = job] /\ Running(a) /\ handlers' = handlers /\ plan' = plan
    BY <1>11 DEF copyBlob, HandlersStay, Running, Ended
  <2> HIDE DEF job
  <2>3. QED
    BY <2>1, <2>2, ChangeWorks
<1>12. CASE applySchemaDefDecisions(a) \/ applyGroups(a)
  <2>1. Running(a) /\ handlers' = handlers /\ plan' = plan
    BY <1>12 DEF applySchemaDefDecisions, applyGroups, HandlersStay, Running, Ended
  <2>2. \E job : "pc" \in DOMAIN job /\ jobs' = [jobs EXCEPT ![a] = job]
    <3>1. CASE applySchemaDefDecisions(a)
      BY <3>1, SchemaDefRecord
    <3>2. CASE applyGroups(a)
      BY <3>2, GroupRecord
    <3>3. QED
      BY <1>12, <3>1, <3>2
  <2>3. QED
    BY <2>1, <2>2, ChangeWorks
<1>13. CASE applyResources(a)
  <2>1. Running(a) /\ handlers' = handlers
    BY <1>13 DEF applyResources, HandlersStay, Running, Ended
  <2>2. \/ Fail(a)
        \/ /\ plan' = plan
           /\ \E job : "pc" \in DOMAIN job /\ jobs' = [jobs EXCEPT ![a] = job]
    BY <1>13, ResourceRecord
  <2>3. QED
    BY <2>1, <2>2, FailEnds, ChangeWorks DEF Fail
<1>14. CASE applyNotes(a)
  <2>1. Running(a) /\ handlers' = handlers
    BY <1>14 DEF applyNotes, HandlersStay, Running, Ended
  <2>2. \/ Fail(a)
        \/ /\ plan' = plan
           /\ \E job : "pc" \in DOMAIN job /\ jobs' = [jobs EXCEPT ![a] = job]
    BY <1>14, NoteRecord
  <2>3. QED
    BY <2>1, <2>2, FailEnds, ChangeWorks DEF Fail
<1>15. QED
  BY <1>1, <1>2, <1>3, <1>4, <1>5, <1>6, <1>7, <1>8, <1>9, <1>10, <1>11, <1>12, <1>13, <1>14
     DEF Work

-----------------------------------------------------------------------------
(* One apply at a time.                                                      *)

LEMMA WorkKeepsAlone ==
  ASSUME Alone, NEW a \in Attempts, Work(a)
  PROVE  Alone'
<1>1. Worked(a)
  BY EveryWorkStep DEF Alone
<1>2. \A b \in Attempts \ {a} : ~Running(b) /\ ~Running(b)'
  BY <1>1 DEF Worked, Alone, OneApply, AppliesAlone, Running
<1>3. \A c \in Handlers : ~Consumed(c) /\ ~Consumed(c)'
  BY <1>1 DEF Worked, Alone, OneApply, Consumed
<1>4. plan' = "ready" => ~Running(a)'
  BY <1>1 DEF Worked, Alone, OneApply
<1>5. QED
  BY <1>1, <1>2, <1>3, <1>4 DEF Worked, Alone, OneApply, AppliesAlone

LEMMA HandleKeepsAlone ==
  ASSUME Alone, NEW c \in Handlers, Handle(c)
  PROVE  Alone'
<1> USE DEF Alone, OneApply, AppliesAlone, Consumed
<1>1. CASE \E d \in Decisions : ApplyLoads(c, d)
  <2>1. PICK d \in Decisions : handlers' = [handlers EXCEPT ![c] = [pc |-> "loaded", decisions |-> d]]
    BY <1>1 DEF ApplyLoads
  <2>2. Shaped' /\ \A b \in Handlers : Consumed(b)' => Consumed(b)
    BY <1>1, <2>1 DEF ApplyLoads, Shaped
  <2>3. QED
    BY <1>1, <2>2 DEF ApplyLoads, Running
<1>2. CASE Consume(c) /\ plan = "ready"
  <2>1. Shaped' /\ (\A b \in Handlers \ {c} : ~Consumed(b)') /\ jobs' = jobs /\ plan' = "applied"
    BY <1>2 DEF Consume, Importing, Shaped
  <2>2. QED
    BY <1>2, <2>1 DEF Running
<1>3. CASE SubmitRefused(c) \/ (Consume(c) /\ plan # "ready")
  <2>1. Shaped' /\ ~Consumed(c)' /\ \A b \in Handlers : Consumed(b)' => Consumed(b)
    BY <1>3 DEF SubmitRefused, Consume, NoApply, Shaped
  <2>2. jobs' = jobs
    BY <1>3 DEF SubmitRefused, Consume
  <2>3. CASE SubmitRefused(c)
    BY <2>1, <2>2, <2>3 DEF SubmitRefused, Running
  <2>4. CASE Consume(c) /\ plan # "ready"
    BY <2>1, <2>2, <2>4 DEF Consume, Running
  <2>5. QED
    BY <1>3, <2>3, <2>4
<1>4. CASE Submit(c)
  <2>1. \A b \in Handlers : ~Consumed(b)'
    BY <1>4 DEF Submit, NoApply, Shaped
  <2>2. \A b \in Attempts : b # attempts + 1 => jobs'[b] = jobs[b] /\ ~Running(b)'
    BY <1>4 DEF Submit, Running, Shaped
  <2>3. Shaped'
    BY <1>4 DEF Submit, NoApply, NoJob, Shaped
  <2>4. plan' # "ready"
    BY <1>4 DEF Submit
  <2>5. QED
    BY <2>1, <2>2, <2>3, <2>4
<1>5. QED
  BY <1>1, <1>2, <1>3, <1>4 DEF Handle

LEMMA AloneInit == ImportInit => Alone
BY DEF ImportInit, Alone, Shaped, OneApply, AppliesAlone, Consumed, Running, Ended, NoApply, NoJob

LEMMA AloneNext == Alone /\ [ImportNext]_importVars => Alone'
<1> SUFFICES ASSUME Alone, [ImportNext]_importVars PROVE Alone'
  OBVIOUS
<1>1. CASE DeleteImport
  BY <1>1 DEF DeleteImport, Alone, Shaped, OneApply, AppliesAlone, Consumed, Running
<1>2. CASE ImportCrash
  <2>1. \A c \in Handlers : ~Consumed(c)'
    BY <1>2 DEF ImportCrash, Consumed, NoApply
  <2>2. \A a \in Attempts : ~Running(a)'
    BY <1>2 DEF ImportCrash, Running, Ended, Alone, Shaped
  <2>3. Shaped'
    BY <1>2 DEF ImportCrash, NoApply, Alone, Shaped
  <2>4. QED
    BY <2>1, <2>2, <2>3 DEF Alone, OneApply, AppliesAlone
<1>3. CASE \E c \in Handlers : Handle(c)
  BY <1>3, HandleKeepsAlone
<1>4. CASE \E a \in Attempts : Work(a)
  BY <1>4, WorkKeepsAlone
<1>5. CASE UNCHANGED importVars
  BY <1>5 DEF importVars, Alone, Shaped, OneApply, AppliesAlone, Consumed, Running
<1>6. QED
  BY <1>1, <1>2, <1>3, <1>4, <1>5 DEF ImportNext

\* The rename of .plan.json is the only lock an import has: with it one attempt on the
\* plan runs at a time, whatever requests race, and however attempts end.
THEOREM ImportsApplyAlone == ImportSpec => []AppliesAlone
<1>1. Alone => AppliesAlone
  BY DEF Alone, OneApply
<1>2. QED
  BY <1>1, AloneInit, AloneNext, PTL DEF ImportSpec

-----------------------------------------------------------------------------
(* The records of an import.                                                 *)

\* The fields of a job and of a row.
JobFields ==
  {"pc", "decisions", "todo", "blob", "copy", "ids", "skipped", "created", "mutated", "safe",
   "cancelled"}

RowFields == {"item", "by", "owner", "hash", "path"}

\* What is there, with the fields it has.
Formed ==
  /\ \A a \in Attempts : /\ JobFields \subseteq DOMAIN jobs[a] /\ DOMAIN jobs[a].ids = Items
                         /\ jobs[a].mutated \in BOOLEAN /\ jobs[a].safe \in BOOLEAN
  /\ \A c \in Handlers : {"pc", "decisions"} \subseteq DOMAIN handlers[c]
  /\ \A r \in rows : RowFields \subseteq DOMAIN r
  /\ plan \in {"ready", "applied", "gone"} /\ attempts \in 0 .. MaxAttempts
  /\ guided \subseteq Items /\ DOMAIN blobFiles = Blobs

\* Owners and links are rows that are there.
Refer ==
  /\ \A r \in rows : r.owner \in Keys \cup {NoKey}
  /\ \A l \in links : l \subseteq Keys

Records ==
  /\ Alone /\ Formed /\ Refer /\ CreatedListed /\ OwnersInPlace /\ RecordsFit

-----------------------------------------------------------------------------
(* What the invariant says of the properties.                                *)

LEMMA Apart ==
  /\ \A i \in Items : i # "none" /\ i # "bystander"
  /\ \A i \in Named : i \notin NoteTypes /\ i \notin Owned
  /\ \A i \in NoteTypes : i \notin Owned
  /\ \A i \in Groups : i \notin Media /\ i \notin Notes
  /\ \A i \in Media : i \notin Notes
  /\ \A b \in Blobs : b # "none" /\ b # "partial"
  /\ \A x \in Media : HashOf[x] \in Blobs
  /\ \A i \in Owned : i \in Items /\ Owner[i] \in Groups \cup {"none"}
  /\ \A x \in Carried : x \in Media
  /\ MaxAttempts \in Nat
BY ImportAssumption DEF Items, Owned, Blobs

LEMMA KeyIs ==
  ASSUME NEW r PROVE Key(r) = <<r.item, r.by>> /\ Key(r)[1] = r.item /\ Key(r)[2] = r.by
BY DEF Key

LEMMA OneRowPerKey ==
  ASSUME Records, NEW r \in rows, NEW s \in rows, Key(r) = Key(s)
  PROVE  r = s
BY KeyIs DEF Records, RecordsFit, RowsFit

LEMMA RowItems ==
  ASSUME Records, NEW r \in rows
  PROVE  r.item \in Items \cup {"bystander"} /\ r.by \in 0 .. MaxAttempts /\ Key(r) # NoKey
<1>1. r.item \in Items \cup {"bystander"} /\ r.by \in 0 .. MaxAttempts
  BY Apart DEF Records, RecordsFit, RowsFit, FoundBefore, Formed, Attempts
<1>2. QED
  BY <1>1, Apart, KeyIs DEF NoKey

LEMMA RecordsTyped ==
  ASSUME Records
  PROVE  /\ plan \in {"ready", "applied", "gone"} /\ attempts \in 0 .. MaxAttempts
         /\ \A r, s \in rows : Key(r) = Key(s) => r = s
         /\ \A r \in rows : r.owner \in {Key(s) : s \in rows} \cup {NoKey}
         /\ \A l \in links : l \subseteq {Key(s) : s \in rows}
BY OneRowPerKey DEF Records, Formed, Refer, Keys

LEMMA RecordsOnce == Records => NothingTwice
BY DEF Records, RecordsFit, RowsFit, NothingTwice

\* What an attempt created it did not skip, so a relation between two such rows was one
\* of those to wire.
LEMMA RecordsGraph ==
  ASSUME Records PROVE GraphComplete
<1> SUFFICES ASSUME NEW a \in Attempts, Completed(a), NEW e \in Refs, Own(a, e[1]), Own(a, e[2])
             PROVE  Linked(a, e)
  BY DEF GraphComplete, Linked
<1>1. e[1] \in Items /\ e[2] \in Items
  BY ImportAssumption DEF Items
<1>2. Mapped(a, e[1]) /\ Mapped(a, e[2])
  BY <1>1, Apart DEF Own, Mapped, NoKey
<1>3. e[1] \notin jobs[a].skipped
  BY DEF Records, RecordsFit, MapsFit
<1>4. e \in Wired(a)
  BY <1>2, <1>3 DEF Wired
<1>5. QED
  BY <1>4 DEF Records, RecordsFit, PhaseFits

-----------------------------------------------------------------------------
(* Handlers, deletions, crashes.                                             *)

LEMMA Decides ==
  ASSUME NEW d \in Decisions PROVE d # NoDecisions
BY DEF Decisions, NoDecisions

\* What an attempt has created and what its lists name.
Listed(a) ==
  /\ \A r \in rows : r.by = a /\ r.item \in Owned => Key(r) \in jobs[a].created
  /\ jobs[a].created \subseteq Keys

LEMMA ListedIs == CreatedListed <=> \A a \in Attempts : Listed(a)
BY DEF CreatedListed, Listed, Keys

\* An attempt whose map and lists stay, while every row stays or is written in place.
LEMMA MapStays ==
  ASSUME Records, NEW b \in Attempts,
         jobs'[b].ids = jobs[b].ids, jobs'[b].skipped = jobs[b].skipped,
         jobs'[b].created = jobs[b].created,
         Keys \subseteq Keys',
         \A r \in rows' : r.by = b => \E s \in rows : s.item = r.item /\ s.by = b
  PROVE  MapsFit(b)' /\ Listed(b)'
<1>1. MapsFit(b) /\ Listed(b)
  BY ListedIs DEF Records, RecordsFit
<1>2. \A i \in Items : Mapped(b, i)' <=> Mapped(b, i)
  BY DEF Mapped
<1>3. \A i : Own(b, i)' <=> Own(b, i)
  BY DEF Own
<1>4. \A r \in rows' : r.by = b => jobs'[b].ids[r.item] = Key(r) /\ (r.item \in Owned => Key(r) \in jobs'[b].created)
  <2> SUFFICES ASSUME NEW r \in rows', r.by = b
               PROVE  jobs'[b].ids[r.item] = Key(r) /\ (r.item \in Owned => Key(r) \in jobs'[b].created)
    OBVIOUS
  <2>1. PICK s \in rows : s.item = r.item /\ s.by = b
    OBVIOUS
  <2>2. Key(s) = Key(r)
    BY <2>1 DEF Key
  <2>3. QED
    BY <1>1, <2>1, <2>2 DEF MapsFit, Listed
<1>5. MapsFit(b)'
  BY <1>1, <1>2, <1>3, <1>4 DEF MapsFit
<1>6. Listed(b)'
  BY <1>1, <1>4 DEF Listed
<1>7. QED
  BY <1>5, <1>6

\* What is said of the phase of an attempt that no longer runs and was not the last.
LEMMA PhaseOver ==
  ASSUME NEW b \in Attempts, jobs'[b].pc \in {"failed", "lost", "completed"}, ~Completed(b)'
  PROVE  PhaseFits(b)'
BY DEF PhaseFits, Running, Ended

LEMMA PhaseNone ==
  ASSUME NEW b \in Attempts, jobs'[b].ids = NoJob.ids, jobs'[b].skipped = {}, jobs'[b].created = {},
         ~jobs'[b].mutated, jobs'[b].pc \in {"none", "loading", "blobs", "writing"}
  PROVE  PhaseFits(b)'
<1>1. \A i \in Items : ~Mapped(b, i)'
  BY DEF Mapped, NoJob
<1>2. ~Completed(b)'
  BY DEF Completed
<1>3. QED
  BY <1>1, <1>2 DEF PhaseFits, Running, Ended

LEMMA PhaseStays ==
  ASSUME NEW b \in Attempts, jobs'[b] = jobs[b], PhaseFits(b), rows' = rows, links' = links,
         guided' = guided, chosen' = chosen, Completed(b)' => Completed(b)
  PROVE  PhaseFits(b)'
<1>1. \A i : Mapped(b, i)' <=> Mapped(b, i)
  BY DEF Mapped
<1>2. Wired(b)' = Wired(b)
  BY <1>1 DEF Wired
<1>3. \A e : Linked(b, e)' <=> Linked(b, e)
  BY DEF Linked
<1>4. \A i : OwnerMapped(b, i)' <=> OwnerMapped(b, i)
  BY <1>1 DEF OwnerMapped
<1>5. RetrySafe(chosen)' = RetrySafe(chosen)
  BY DEF RetrySafe
<1>6. Keys' = Keys
  BY DEF Keys
<1>7. Running(b)' <=> Running(b)
  BY DEF Running
<1>8. QED
  BY <1>1, <1>2, <1>3, <1>4, <1>5, <1>6, <1>7 DEF PhaseFits

LEMMA RowsStand ==
  ASSUME Records, rows' = rows, guided' = guided, \A r \in rows : r.by # 0 => CreatedOnce(r)'
  PROVE  RowsFit'
BY DEF Records, RecordsFit, RowsFit, FoundBefore

\* Owners, lists and links, when the rows stay.
LEMMA OwnersStay ==
  ASSUME Records, rows' = rows, \A l \in links' : l \in links \/ l \subseteq Keys
  PROVE  Refer' /\ OwnersInPlace' /\ Keys' = Keys
BY DEF Records, Refer, OwnersInPlace, Keys

\* Rows of an attempt that another retries are safe to retry.
LEMMA RetriedIsSafe ==
  ASSUME Records, NEW r \in rows, r.by # 0,
         plan = "ready" \/ (\E c \in Handlers : Consumed(c)) \/ r.by # attempts
  PROVE  RetrySafe(chosen)
BY DEF Records, RecordsFit, RowsFit, CreatedOnce, Alone, OneApply, Consumed

LEMMA CreatedAgain ==
  ASSUME Records, NEW r \in rows, r.by # 0, chosen' = chosen, guided' = guided,
         jobs'[r.by].mutated, jobs'[r.by].safe = jobs[r.by].safe,
         jobs'[r.by].pc \notin {"none", "loading", "blobs", "writing"},
         \/ RetrySafe(chosen)
         \/ /\ r.by = attempts'
            /\ Running(r.by)' \/ (plan' # "ready" /\ \A c \in Handlers : ~Consumed(c)')
  PROVE  CreatedOnce(r)'
<1>1. RetrySafe(chosen)' = RetrySafe(chosen)
  BY DEF RetrySafe
<1>2. CreatedOnce(r)
  BY DEF Records, RecordsFit, RowsFit
<1>3. QED
  BY <1>1, <1>2 DEF CreatedOnce, Consumed

-----------------------------------------------------------------------------
(* Handlers, deletions, crashes.                                             *)

LEMMA NoJobIs ==
  /\ JobFields \subseteq DOMAIN NoJob /\ DOMAIN NoJob.ids = Items
  /\ NoJob.pc = "none" /\ NoJob.skipped = {} /\ NoJob.created = {}
  /\ NoJob.mutated = FALSE /\ NoJob.safe = TRUE
  /\ \A i \in Items : NoJob.ids[i] = NoKey
<1>1. JobFields \subseteq DOMAIN NoJob
  BY DEF NoJob, JobFields
<1>2. QED
  BY <1>1 DEF NoJob

LEMMA RecordsInit == ImportInit /\ FilesUnshared => Records
<1> SUFFICES ASSUME ImportInit, FilesUnshared PROVE Records
  OBVIOUS
<1>1. PICK prior \in Priors, other \in {"none"} \cup Blobs :
        /\ prior \subseteq guided
        /\ FilesUnshared =>
             /\ other # OldHash
             /\ \A x \in prior \cap Media :
                  prior \cap Media = {x} /\ \A y \in Carried \ {x} : HashOf[y] # OldHash
        /\ rows = {Before(i) : i \in prior} \cup
                  (IF other = "none" THEN {} ELSE {Row("bystander", 0, NoKey, other)})
  BY DEF ImportInit
<1>2. guided \subseteq Items /\ prior \subseteq Items
  BY ImportAssumption DEF ImportInit
<1>3. \A r \in rows : \/ \E i \in prior : r = Before(i)
                      \/ other \in Blobs /\ r = Row("bystander", 0, NoKey, other)
  BY <1>1
<1>4. \A a \in Attempts : jobs[a] = NoJob
  BY DEF ImportInit
<1>5. attempts = 0 /\ links = {} /\ plan = "ready" /\ chosen = NoDecisions
  BY DEF ImportInit
<1>6. Formed
  <2>1. \A a \in Attempts : /\ JobFields \subseteq DOMAIN jobs[a] /\ DOMAIN jobs[a].ids = Items
                            /\ jobs[a].mutated \in BOOLEAN /\ jobs[a].safe \in BOOLEAN
    BY <1>4, NoJobIs
  <2>2. \A c \in Handlers : {"pc", "decisions"} \subseteq DOMAIN handlers[c]
    BY DEF ImportInit, NoApply
  <2>3. \A r \in rows : RowFields \subseteq DOMAIN r
    BY <1>3 DEF Before, Row, RowFields
  <2>4. DOMAIN blobFiles = Blobs
    BY DEF ImportInit
  <2>5. QED
    BY <1>2, <1>5, <2>1, <2>2, <2>3, <2>4, Apart DEF Formed
<1>7. Refer /\ OwnersInPlace
  BY <1>3, <1>5 DEF Before, Row, Refer, OwnersInPlace
<1>8. \A r \in rows : r.by = 0
  BY <1>3 DEF Before, Row
<1>9. CreatedListed
  BY <1>4, <1>8 DEF CreatedListed, NoJob, Attempts
<1>10. Decided
  BY <1>4, <1>5 DEF ImportInit, Decided, NoApply, NoJob, Running, Ended, Attempts
<1>11. \A r \in rows : FoundBefore(r)
  <2> SUFFICES ASSUME NEW r \in rows PROVE FoundBefore(r)
    OBVIOUS
  <2>1. CASE other \in Blobs /\ r = Row("bystander", 0, NoKey, other)
    BY <2>1, <1>1, Apart DEF FoundBefore, Row, Items, Owned
  <2>2. CASE \E i \in prior : r = Before(i)
    <3>1. PICK i \in prior : r = Before(i)
      BY <2>2
    <3>2. r.item = i /\ r.by = 0 /\ (i \in Media => r.hash = OldHash /\ r.path = OldHash)
      BY <3>1 DEF Before, Row
    <3>3. i \in guided /\ i # "bystander"
      BY <1>1, <1>2, Apart
    <3>4. ASSUME i \in Media, NEW s \in rows, s.item \in Media
          PROVE  s = r
      <4>1. PICK k \in prior : s = Before(k)
        BY <3>4, <1>3, Apart DEF Row, Items, Owned
      <4>2. k \in Media
        BY <3>4, <4>1 DEF Before, Row
      <4>3. QED
        BY <3>1, <3>4, <4>1, <4>2, <1>1
    <3>5. QED
      BY <3>2, <3>3, <3>4, <1>1 DEF FoundBefore
  <2>3. QED
    BY <1>3, <2>1, <2>2
<1>12. \A r, s \in rows : r.item = s.item => r = s
  BY <1>2, <1>3, Apart DEF Before, Row
<1>13. RowsFit
  BY <1>8, <1>11, <1>12 DEF RowsFit
<1>14. ASSUME NEW a \in Attempts PROVE MapsFit(a) /\ PhaseFits(a)
  <2>1. \A i \in Items : ~Mapped(a, i)
    BY <1>4 DEF Mapped, NoJob
  <2>2. MapsFit(a)
    BY <1>4, <1>8, <2>1 DEF MapsFit, NoJob, Attempts
  <2>3. PhaseFits(a)
    BY <1>4, <2>1 DEF PhaseFits, NoJob, Completed, Running, Ended
  <2>4. QED
    BY <2>2, <2>3
<1>15. QED
  BY <1>6, <1>7, <1>9, <1>10, <1>13, <1>14, AloneInit DEF Records, RecordsFit

LEMMA DeleteKeepsRecords ==
  ASSUME Records, Alone', DeleteImport
  PROVE  Records'
<1>1. /\ rows' = rows /\ links' = links /\ guided' = guided /\ chosen' = chosen /\ jobs' = jobs
      /\ attempts' = attempts /\ handlers' = handlers /\ blobFiles' = blobFiles /\ plan' = "gone"
  BY DEF DeleteImport, Importing
<1>2. Formed'
  BY <1>1 DEF Records, Formed
<1>3. Decided'
  BY <1>1 DEF Records, RecordsFit, Decided, Running
<1>4. ASSUME NEW b \in Attempts PROVE MapsFit(b)' /\ Listed(b)' /\ PhaseFits(b)'
  BY <1>1, MapStays, PhaseStays DEF Records, RecordsFit, Keys, Completed
<1>5. ASSUME NEW r \in rows, r.by # 0 PROVE CreatedOnce(r)'
  <2>1. CreatedOnce(r)
    BY <1>5 DEF Records, RecordsFit, RowsFit
  <2>2. QED
    BY <1>1, <1>5, <2>1, CreatedAgain DEF CreatedOnce, Running, Consumed
<1>6. RowsFit' /\ Refer' /\ OwnersInPlace'
  BY <1>1, <1>5, RowsStand, OwnersStay
<1>7. CreatedListed'
  BY <1>4 DEF Listed, CreatedListed, Keys
<1>8. QED
  BY <1>2, <1>3, <1>4, <1>6, <1>7 DEF Records, RecordsFit

LEMMA CrashKeepsRecords ==
  ASSUME Records, Alone', ImportCrash
  PROVE  Records'
<1>1. /\ rows' = rows /\ links' = links /\ guided' = guided /\ chosen' = chosen /\ plan' = plan
      /\ attempts' = attempts /\ blobFiles' = blobFiles
      /\ \A c \in Handlers : handlers'[c] = NoApply
  BY DEF ImportCrash
<1>2. \A b \in Attempts : IF Running(b) THEN jobs'[b] = [jobs[b] EXCEPT !.pc = "lost"] ELSE jobs'[b] = jobs[b]
  BY DEF ImportCrash
<1>3. \A b \in Attempts :
        /\ JobFields \subseteq DOMAIN jobs'[b]
        /\ jobs'[b].ids = jobs[b].ids /\ jobs'[b].skipped = jobs[b].skipped
        /\ jobs'[b].created = jobs[b].created /\ jobs'[b].mutated = jobs[b].mutated
        /\ jobs'[b].safe = jobs[b].safe /\ jobs'[b].decisions = jobs[b].decisions
        /\ Running(b) => jobs'[b].pc = "lost"
  <2> SUFFICES ASSUME NEW b \in Attempts
               PROVE  /\ JobFields \subseteq DOMAIN jobs'[b]
                      /\ jobs'[b].ids = jobs[b].ids /\ jobs'[b].skipped = jobs[b].skipped
                      /\ jobs'[b].created = jobs[b].created /\ jobs'[b].mutated = jobs[b].mutated
                      /\ jobs'[b].safe = jobs[b].safe /\ jobs'[b].decisions = jobs[b].decisions
                      /\ Running(b) => jobs'[b].pc = "lost"
    OBVIOUS
  <2>1. JobFields \subseteq DOMAIN jobs[b]
    BY DEF Records, Formed
  <2>2. CASE Running(b)
    <3>1. jobs'[b] = [jobs[b] EXCEPT !.pc = "lost"] /\ DOMAIN jobs'[b] = DOMAIN jobs[b]
      BY <1>2, <2>2
    <3>2. "pc" \in DOMAIN jobs[b]
      BY <2>1 DEF JobFields
    <3>3. QED
      BY <2>1, <3>1, <3>2
  <2>3. CASE ~Running(b)
    BY <1>2, <2>1, <2>3
  <2>4. QED
    BY <2>2, <2>3
<1>4. Formed'
  BY <1>1, <1>3 DEF Records, Formed, NoApply
<1>5. \A b \in Attempts : ~Running(b)'
  BY <1>2, <1>3 DEF Running, Ended
<1>6. Decided'
  <2>1. ASSUME NEW b \in Attempts
        PROVE  IF b > attempts' THEN jobs'[b] = NoJob
               ELSE chosen' \in Decisions /\ jobs'[b].decisions = chosen' /\ jobs'[b].pc # "none"
    <3>1. CASE b > attempts
      <4>1. jobs[b] = NoJob /\ ~Running(b)
        BY <3>1, NoJobIs DEF Records, RecordsFit, Decided, Running, Ended
      <4>2. QED
        BY <1>1, <1>2, <3>1, <4>1
    <3>2. CASE ~(b > attempts)
      BY <1>1, <1>2, <1>3, <3>2 DEF Records, RecordsFit, Decided
    <3>3. QED
      BY <3>1, <3>2
  <2>2. QED
    BY <1>1, <1>5, <2>1 DEF Decided, NoApply
<1>7. ASSUME NEW b \in Attempts PROVE MapsFit(b)' /\ Listed(b)' /\ PhaseFits(b)'
  <2>1. MapsFit(b)' /\ Listed(b)'
    <3>1. Keys' = Keys /\ \A r \in rows' : r \in rows
      BY <1>1 DEF Keys
    <3>2. QED
      BY <1>3, <3>1, MapStays
  <2>2. CASE Running(b)
    <3>1. jobs'[b].pc = "lost"
      BY <2>2, <1>3
    <3>2. ~Completed(b)'
      BY <3>1 DEF Completed
    <3>3. QED
      BY <2>1, <3>1, <3>2, PhaseOver
  <2>3. CASE ~Running(b)
    BY <2>1, <2>3, <1>1, <1>2, PhaseStays DEF Records, RecordsFit, Completed
  <2>4. QED
    BY <2>1, <2>2, <2>3
<1>8. ASSUME NEW r \in rows, r.by # 0 PROVE CreatedOnce(r)'
  <2>1. CreatedOnce(r) /\ r.by \in Attempts
    BY <1>8 DEF Records, RecordsFit, RowsFit
  <2>2. \A c \in Handlers : ~Consumed(c)'
    BY <1>1 DEF Consumed, NoApply
  <2>3. jobs'[r.by].pc \notin {"none", "loading", "blobs", "writing"}
    BY <2>1, <1>2, <1>3 DEF CreatedOnce
  <2>4. CASE RetrySafe(chosen)
    BY <1>1, <1>3, <1>8, <2>1, <2>3, <2>4, CreatedAgain DEF CreatedOnce
  <2>5. CASE ~RetrySafe(chosen)
    <3>1. r.by = attempts /\ plan # "ready"
      BY <2>1, <2>5 DEF CreatedOnce, Records, Alone, OneApply
    <3>2. QED
      BY <1>1, <1>3, <1>8, <2>1, <2>2, <2>3, <3>1, CreatedAgain DEF CreatedOnce
  <2>6. QED
    BY <2>4, <2>5
<1>9. RowsFit' /\ Refer' /\ OwnersInPlace'
  BY <1>1, <1>8, RowsStand, OwnersStay
<1>10. CreatedListed'
  BY <1>7 DEF Listed, CreatedListed, Keys
<1>11. QED
  BY <1>4, <1>6, <1>7, <1>9, <1>10 DEF Records, RecordsFit

-----------------------------------------------------------------------------
(* An attempt begins.                                                        *)

LEMMA LoadsKeepsRecords ==
  ASSUME Records, SameDecisions, Alone', NEW c \in Handlers, NEW d \in Decisions, ApplyLoads(c, d)
  PROVE  Records'
<1>1. /\ rows' = rows /\ links' = links /\ guided' = guided /\ jobs' = jobs /\ plan' = plan
      /\ attempts' = attempts /\ blobFiles' = blobFiles
      /\ handlers' = [handlers EXCEPT ![c] = [pc |-> "loaded", decisions |-> d]]
      /\ chosen \in {NoDecisions, d} /\ chosen' = IF chosen = NoDecisions THEN d ELSE chosen
  BY DEF ApplyLoads, Importing
<1>2. chosen' = d /\ (chosen \in Decisions => chosen' = chosen)
  BY <1>1, Decides
<1>3. Formed'
  BY <1>1 DEF Records, Formed
<1>4. \A b \in Attempts : chosen \in Decisions \/ (b > attempts /\ jobs[b] = NoJob)
  BY DEF Records, RecordsFit, Decided
<1>5. Decided'
  <2>1. \A b \in Handlers : handlers'[b].pc # "idle" =>
          chosen' \in Decisions /\ handlers'[b].decisions = chosen'
    <3> SUFFICES ASSUME NEW b \in Handlers, handlers'[b].pc # "idle"
                 PROVE  handlers'[b].decisions = d
      BY <1>2
    <3>1. CASE b = c
      BY <1>1, <3>1 DEF Records, Alone, Shaped
    <3>2. CASE b # c
      <4>1. handlers'[b] = handlers[b]
        BY <1>1, <3>2
      <4>2. QED
        BY <1>2, <4>1 DEF Records, RecordsFit, Decided
    <3>3. QED
      BY <3>1, <3>2
  <2>2. \A b \in Attempts : IF b > attempts' THEN jobs'[b] = NoJob
          ELSE chosen' \in Decisions /\ jobs'[b].decisions = chosen' /\ jobs'[b].pc # "none"
    BY <1>1, <1>2 DEF Records, RecordsFit, Decided
  <2>3. \A b \in Attempts : Running(b)' => b = attempts'
    BY <1>1 DEF Records, RecordsFit, Decided, Running
  <2>4. QED
    BY <2>1, <2>2, <2>3 DEF Decided
<1>6. ASSUME NEW b \in Attempts PROVE MapsFit(b)' /\ Listed(b)' /\ PhaseFits(b)'
  <2>1. MapsFit(b)' /\ Listed(b)'
    BY <1>1, MapStays DEF Keys
  <2>2. CASE chosen \in Decisions
    BY <2>1, <2>2, <1>1, <1>2, PhaseStays DEF Records, RecordsFit, Completed
  <2>3. CASE chosen \notin Decisions
    BY <2>1, <2>3, <1>1, <1>4, NoJobIs, PhaseNone
  <2>4. QED
    BY <2>1, <2>2, <2>3
<1>7. ASSUME NEW r \in rows, r.by # 0 PROVE CreatedOnce(r)'
  <2>1. CreatedOnce(r) /\ r.by \in Attempts
    BY <1>7 DEF Records, RecordsFit, RowsFit
  <2>2. chosen' = chosen
    BY <2>1, <1>2, <1>4, NoJobIs DEF CreatedOnce
  <2>3. RetrySafe(chosen)
    BY <1>7, RetriedIsSafe DEF ApplyLoads
  <2>4. QED
    BY <1>1, <1>7, <2>1, <2>2, <2>3, CreatedAgain DEF CreatedOnce
<1>8. RowsFit' /\ Refer' /\ OwnersInPlace'
  BY <1>1, <1>7, RowsStand, OwnersStay
<1>9. CreatedListed'
  BY <1>6 DEF Listed, CreatedListed, Keys
<1>10. QED
  BY <1>3, <1>5, <1>6, <1>8, <1>9 DEF Records, RecordsFit

\* A handler that takes the plan or gives it up.
LEMMA ConsumeKeepsRecords ==
  ASSUME Records, Alone', NEW c \in Handlers, Consume(c) \/ SubmitRefused(c)
  PROVE  Records'
<1>1. /\ rows' = rows /\ links' = links /\ guided' = guided /\ jobs' = jobs /\ chosen' = chosen
      /\ attempts' = attempts /\ blobFiles' = blobFiles
      /\ handlers[c].pc \in {"loaded", "consumed"}
      /\ \/ handlers' = [handlers EXCEPT ![c].pc = "consumed"]
         \/ handlers' = [handlers EXCEPT ![c] = NoApply]
      /\ plan' \in {plan, "applied", "ready"}
  BY DEF Consume, SubmitRefused, GiveBack, Importing
<1>2. \A b \in Handlers :
        /\ {"pc", "decisions"} \subseteq DOMAIN handlers'[b]
        /\ handlers'[b].pc # "idle" => handlers[b].pc # "idle" /\ handlers'[b].decisions = handlers[b].decisions
  <2>1. \A b \in Handlers : {"pc", "decisions"} \subseteq DOMAIN handlers[b]
    BY DEF Records, Formed
  <2>2. CASE handlers' = [handlers EXCEPT ![c].pc = "consumed"]
    BY <1>1, <2>1, <2>2 DEF Records, Alone, Shaped
  <2>3. CASE handlers' = [handlers EXCEPT ![c] = NoApply]
    BY <1>1, <2>1, <2>3 DEF Records, Alone, Shaped, NoApply
  <2>4. QED
    BY <1>1, <2>2, <2>3
<1>3. Formed'
  BY <1>1, <1>2 DEF Records, Formed
<1>4. Decided'
  BY <1>1, <1>2 DEF Records, RecordsFit, Decided, Running
<1>5. ASSUME NEW b \in Attempts PROVE MapsFit(b)' /\ Listed(b)' /\ PhaseFits(b)'
  <2>1. MapsFit(b)' /\ Listed(b)'
    BY <1>1, MapStays DEF Keys
  <2>2. QED
    BY <2>1, <1>1, PhaseStays DEF Records, RecordsFit, Completed
<1>6. ASSUME NEW r \in rows, r.by # 0 PROVE CreatedOnce(r)'
  <2>1. CreatedOnce(r) /\ r.by \in Attempts
    BY <1>6 DEF Records, RecordsFit, RowsFit
  <2>2. CASE RetrySafe(chosen)
    BY <1>1, <1>6, <2>1, <2>2, CreatedAgain DEF CreatedOnce
  <2>3. CASE ~RetrySafe(chosen)
    <3>1. plan # "ready" /\ (\A b \in Handlers : ~Consumed(b)) /\ r.by = attempts
      BY <1>6, <2>1, <2>3, RetriedIsSafe
    <3>2. ~SubmitRefused(c)
      BY <3>1 DEF SubmitRefused, Consumed
    <3>3. plan' = plan /\ handlers' = [handlers EXCEPT ![c] = NoApply]
      BY <3>1, <3>2 DEF Consume
    <3>4. \A b \in Handlers : ~Consumed(b)'
      BY <3>1, <3>3 DEF Consumed, NoApply, Records, Alone, Shaped
    <3>5. QED
      BY <1>1, <1>6, <2>1, <3>1, <3>3, <3>4, CreatedAgain DEF CreatedOnce
  <2>4. QED
    BY <2>2, <2>3
<1>7. RowsFit' /\ Refer' /\ OwnersInPlace'
  BY <1>1, <1>6, RowsStand, OwnersStay
<1>8. CreatedListed'
  BY <1>5 DEF Listed, CreatedListed, Keys
<1>9. QED
  BY <1>3, <1>4, <1>5, <1>7, <1>8 DEF Records, RecordsFit

\* A job starts with nothing mapped; what earlier ones created was safe to retry.
LEMMA SubmitKeepsRecords ==
  ASSUME Records, Alone', NEW c \in Handlers, Submit(c)
  PROVE  Records'
<1> DEFINE new == attempts + 1
           job == [NoJob EXCEPT !.pc = "loading", !.decisions = handlers[c].decisions]
<1>1. /\ rows' = rows /\ links' = links /\ guided' = guided /\ chosen' = chosen
      /\ attempts' = new /\ blobFiles' = blobFiles /\ plan' = plan
      /\ handlers' = [handlers EXCEPT ![c] = NoApply]
      /\ jobs' = [jobs EXCEPT ![new] = job]
      /\ handlers[c].pc = "consumed" /\ attempts < MaxAttempts
  BY DEF Submit, Importing
<1>2. new \in Attempts /\ attempts \in Nat
  BY <1>1, Apart DEF Attempts, Records, Formed
<1>3. /\ jobs[new] = NoJob
      /\ chosen \in Decisions /\ handlers[c].decisions = chosen
      /\ \A b \in Attempts : ~Running(b)
  BY <1>1, <1>2 DEF Records, RecordsFit, Decided, Alone, OneApply, Consumed
<1>4. /\ JobFields \subseteq DOMAIN job /\ job.ids = NoJob.ids /\ job.skipped = {}
      /\ job.created = {} /\ job.mutated = FALSE /\ job.safe = TRUE /\ job.pc = "loading"
      /\ job.decisions = chosen
  <2>1. "pc" \in DOMAIN NoJob /\ "decisions" \in DOMAIN NoJob /\ DOMAIN job = DOMAIN NoJob
    BY NoJobIs DEF JobFields
  <2>2. QED
    BY <1>3, <2>1, NoJobIs
<1>5. jobs'[new] = job /\ \A b \in Attempts \ {new} : jobs'[b] = jobs[b]
  BY <1>1, <1>2 DEF Records, Alone, Shaped
<1> HIDE DEF job
<1>6. Formed'
  <2>1. \A b \in Handlers : {"pc", "decisions"} \subseteq DOMAIN handlers'[b]
    BY <1>1 DEF Records, Formed, NoApply
  <2>2. \A b \in Attempts :
          /\ JobFields \subseteq DOMAIN jobs'[b] /\ DOMAIN jobs'[b].ids = Items
          /\ jobs'[b].mutated \in BOOLEAN /\ jobs'[b].safe \in BOOLEAN
    BY <1>4, <1>5, NoJobIs DEF Records, Formed
  <2>3. QED
    BY <1>1, <1>2, <2>1, <2>2, Apart DEF Records, Formed
<1>7. Decided'
  <2>1. \A b \in Handlers : handlers'[b].pc # "idle" =>
          chosen' \in Decisions /\ handlers'[b].decisions = chosen'
    BY <1>1 DEF Records, RecordsFit, Decided, NoApply, Alone, Shaped
  <2>2. \A b \in Attempts : IF b > attempts' THEN jobs'[b] = NoJob
          ELSE chosen' \in Decisions /\ jobs'[b].decisions = chosen' /\ jobs'[b].pc # "none"
    <3> SUFFICES ASSUME NEW b \in Attempts
                 PROVE  IF b > new THEN jobs'[b] = NoJob
                        ELSE jobs'[b].decisions = chosen /\ jobs'[b].pc # "none"
      BY <1>1, <1>3
    <3>1. CASE b = new
      BY <3>1, <1>2, <1>4, <1>5
    <3>2. CASE b # new
      <4>1. jobs'[b] = jobs[b] /\ (b > new <=> b > attempts)
        BY <3>2, <1>2, <1>5 DEF Attempts
      <4>2. QED
        BY <4>1 DEF Records, RecordsFit, Decided
    <3>3. QED
      BY <3>1, <3>2
  <2>3. \A b \in Attempts : Running(b)' => b = attempts'
    BY <1>1, <1>3, <1>5 DEF Running
  <2>4. QED
    BY <2>1, <2>2, <2>3 DEF Decided
<1>8. ASSUME NEW b \in Attempts PROVE MapsFit(b)' /\ Listed(b)' /\ PhaseFits(b)'
  <2>1. MapsFit(b)' /\ Listed(b)'
    <3>1. jobs'[b].ids = jobs[b].ids /\ jobs'[b].skipped = jobs[b].skipped /\ jobs'[b].created = jobs[b].created
      BY <1>3, <1>4, <1>5, NoJobIs
    <3>2. Keys' = Keys /\ \A r \in rows' : r \in rows
      BY <1>1 DEF Keys
    <3>3. QED
      BY <3>1, <3>2, MapStays
  <2>2. CASE b = new
    BY <2>1, <2>2, <1>4, <1>5, PhaseNone
  <2>3. CASE b # new
    BY <2>1, <2>3, <1>1, <1>5, PhaseStays DEF Records, RecordsFit, Completed
  <2>4. QED
    BY <2>1, <2>2, <2>3
<1>9. ASSUME NEW r \in rows, r.by # 0 PROVE CreatedOnce(r)'
  <2>1. CreatedOnce(r) /\ r.by \in Attempts
    BY <1>9 DEF Records, RecordsFit, RowsFit
  <2>2. r.by # new
    BY <2>1, <1>3, NoJobIs DEF CreatedOnce
  <2>3. RetrySafe(chosen)
    BY <1>1, <1>9, RetriedIsSafe DEF Consumed
  <2>4. QED
    BY <1>1, <1>5, <1>9, <2>1, <2>2, <2>3, CreatedAgain DEF CreatedOnce
<1>10. RowsFit' /\ Refer' /\ OwnersInPlace'
  BY <1>1, <1>9, RowsStand, OwnersStay
<1>11. CreatedListed'
  BY <1>8 DEF Listed, CreatedListed, Keys
<1>12. QED
  BY <1>6, <1>7, <1>8, <1>10, <1>11 DEF Records, RecordsFit

Early == {"loading", "blobs", "writing"}

LEMMA AtWork ==
  ASSUME Records, NEW a \in Attempts, Running(a)
  PROVE  /\ a = attempts /\ plan # "ready" /\ attempts \in Nat
         /\ \A c \in Handlers : ~Consumed(c)
         /\ chosen \in Decisions /\ jobs[a].decisions = chosen
         /\ \A b \in Attempts \ {a} : ~Running(b)
         /\ JobFields \subseteq DOMAIN jobs[a] /\ jobs[a].pc # "none"
         /\ MapsFit(a) /\ Listed(a) /\ PhaseFits(a)
<1>1. a = attempts /\ attempts \in Nat
  BY Apart DEF Records, RecordsFit, Decided, Formed
<1>2. jobs[a].pc # "none"
  BY DEF Running, Ended
<1>3. QED
  BY <1>1, <1>2, ListedIs DEF Records, RecordsFit, Decided, Alone, OneApply, AppliesAlone, Formed

\* The step of an attempt leaves the others as they are.
OnlyOwn(a) ==
  /\ HandlersStay /\ \A b \in Attempts \ {a} : jobs'[b] = jobs[b]
  /\ JobFields \subseteq DOMAIN jobs'[a] /\ DOMAIN jobs'[a].ids = Items
  /\ jobs'[a].mutated \in BOOLEAN /\ jobs'[a].safe \in BOOLEAN
  /\ jobs'[a].decisions = jobs[a].decisions /\ jobs'[a].pc # "none"
  /\ plan' \in {"ready", "applied", "gone"} /\ DOMAIN blobFiles' = Blobs

\* What a step of an attempt has to show: of its rows, its map and its phase.
LEMMA StepKeeps ==
  ASSUME Records, Alone', NEW a \in Attempts, Running(a), OnlyOwn(a),
         Refer', OwnersInPlace', RowsFit', Keys \subseteq Keys',
         MapsFit(a)', Listed(a)', PhaseFits(a)',
         \A r \in rows' : RowFields \subseteq DOMAIN r,
         \A r \in rows' : r.by # a => \E s \in rows : s.item = r.item /\ s.by = r.by
  PROVE  Records'
<1> USE AtWork
<1>1. /\ guided' = guided /\ chosen' = chosen /\ handlers' = handlers /\ attempts' = attempts
      /\ \A b \in Attempts \ {a} : jobs'[b] = jobs[b]
  BY DEF OnlyOwn, HandlersStay
<1>2. Formed'
  BY <1>1 DEF Records, Formed, OnlyOwn
<1>3. Decided'
  <2>1. \A c \in Handlers : handlers'[c].pc # "idle" =>
          chosen' \in Decisions /\ handlers'[c].decisions = chosen'
    BY <1>1 DEF Records, RecordsFit, Decided
  <2>2. \A b \in Attempts : IF b > attempts' THEN jobs'[b] = NoJob
          ELSE chosen' \in Decisions /\ jobs'[b].decisions = chosen' /\ jobs'[b].pc # "none"
    <3> SUFFICES ASSUME NEW b \in Attempts
                 PROVE  IF b > attempts' THEN jobs'[b] = NoJob
                        ELSE chosen' \in Decisions /\ jobs'[b].decisions = chosen' /\ jobs'[b].pc # "none"
      OBVIOUS
    <3>1. CASE b = a
      BY <3>1, <1>1 DEF OnlyOwn
    <3>2. CASE b # a
      BY <3>2, <1>1 DEF Records, RecordsFit, Decided
    <3>3. QED
      BY <3>1, <3>2
  <2>3. \A b \in Attempts : Running(b)' => b = attempts'
    BY <1>1 DEF Running
  <2>4. QED
    BY <2>1, <2>2, <2>3 DEF Decided
<1>4. ASSUME NEW b \in Attempts PROVE MapsFit(b)' /\ Listed(b)' /\ PhaseFits(b)'
  <2>1. CASE b = a
    BY <2>1
  <2>2. CASE b # a
    <3>1. jobs'[b] = jobs[b] /\ ~Completed(b)' /\ ~Running(b)
      BY <1>1, <2>2 DEF Completed
    <3>2. \A r \in rows' : r.by = b => \E s \in rows : s.item = r.item /\ s.by = b
      BY <2>2
    <3>3. MapsFit(b)' /\ Listed(b)'
      BY <3>1, <3>2, MapStays
    <3>4. CASE jobs[b].pc = "none"
      <4>1. jobs[b] = NoJob
        BY <3>4 DEF Records, RecordsFit, Decided
      <4>2. QED
        BY <3>1, <3>3, <4>1, NoJobIs, PhaseNone
    <3>5. CASE jobs[b].pc # "none"
      <4>1. jobs'[b].pc \in {"failed", "lost", "completed"}
        BY <3>1, <3>5 DEF Running, Ended
      <4>2. QED
        BY <3>1, <3>3, <4>1, PhaseOver
    <3>6. QED
      BY <3>4, <3>5
  <2>3. QED
    BY <2>1, <2>2
<1>5. CreatedListed'
  BY <1>4 DEF CreatedListed, Listed, Keys
<1>6. QED
  BY <1>2, <1>3, <1>4, <1>5 DEF Records, RecordsFit

\* A step of an attempt that writes no row.
LEMMA RowlessKeeps ==
  ASSUME Records, Alone', NEW a \in Attempts, Running(a), OnlyOwn(a), rows' = rows,
         jobs'[a].ids = jobs[a].ids, jobs'[a].skipped = jobs[a].skipped,
         jobs'[a].created = jobs[a].created,
         jobs[a].mutated => jobs'[a].mutated,
         jobs[a].pc \notin Early => jobs'[a].pc \notin Early /\ jobs'[a].safe = jobs[a].safe,
         plan' = "ready" => RetrySafe(chosen) \/ jobs[a].pc \in Early \/ ~jobs[a].mutated,
         \A l \in links' : l \in links \/ l \subseteq Keys,
         PhaseFits(a)'
  PROVE  Records'
<1> USE AtWork
<1>1. /\ guided' = guided /\ chosen' = chosen /\ handlers' = handlers /\ attempts' = attempts
      /\ \A b \in Attempts \ {a} : jobs'[b] = jobs[b]
  BY DEF OnlyOwn, HandlersStay
<1>2. ASSUME NEW r \in rows, r.by # 0 PROVE CreatedOnce(r)'
  <2>1. CreatedOnce(r) /\ r.by \in Attempts
    BY <1>2 DEF Records, RecordsFit, RowsFit
  <2>2. CASE r.by # a
    BY <1>1, <1>2, <2>1, <2>2, CreatedAgain DEF CreatedOnce
  <2>3. CASE r.by = a
    <3>1. /\ jobs[a].mutated /\ jobs[a].pc \notin Early /\ jobs'[a].pc \notin Early
          /\ jobs'[a].safe = jobs[a].safe
      BY <2>1, <2>3 DEF CreatedOnce, Early
    <3>2. RetrySafe(chosen) \/ plan' # "ready"
      BY <3>1
    <3>3. \A c \in Handlers : ~Consumed(c)'
      BY <1>1 DEF Consumed
    <3>4. jobs'[a].mutated /\ jobs'[a].pc \notin {"none", "loading", "blobs", "writing"}
      BY <3>1 DEF Early, OnlyOwn
    <3>5. QED
      BY <1>1, <1>2, <2>3, <3>1, <3>2, <3>3, <3>4, CreatedAgain
  <2>4. QED
    BY <2>2, <2>3
<1>3. RowsFit' /\ Refer' /\ OwnersInPlace' /\ Keys' = Keys
  BY <1>1, <1>2, RowsStand, OwnersStay
<1>4. MapsFit(a)' /\ Listed(a)'
  BY <1>3, MapStays
<1>5. \A r \in rows' : RowFields \subseteq DOMAIN r
  BY DEF Records, Formed
<1>6. QED
  BY <1>3, <1>4, <1>5, StepKeeps

-----------------------------------------------------------------------------
(* The end of an attempt.                                                    *)

\* The record of an attempt with another pc, todo, blob and copy.
LEMMA Advanced ==
  ASSUME Records, NEW a \in Attempts, NEW pc, NEW todo, Advance(a, pc, todo)
  PROVE  /\ jobs'[a].pc = pc /\ jobs'[a].todo = todo
         /\ jobs'[a].ids = jobs[a].ids /\ jobs'[a].skipped = jobs[a].skipped
         /\ jobs'[a].created = jobs[a].created /\ jobs'[a].mutated = jobs[a].mutated
         /\ jobs'[a].safe = jobs[a].safe /\ jobs'[a].decisions = jobs[a].decisions
         /\ jobs'[a].copy = jobs[a].copy /\ jobs'[a].blob = jobs[a].blob
         /\ JobFields \subseteq DOMAIN jobs'[a]
         /\ \A b \in Attempts \ {a} : jobs'[b] = jobs[b]
         /\ plan' = plan
<1>1. DOMAIN jobs = Attempts /\ JobFields \subseteq DOMAIN jobs[a]
  BY DEF Records, Formed, Alone, Shaped
<1>2. jobs' = [jobs EXCEPT ![a].pc = pc, ![a].todo = todo] /\ plan' = plan
  BY DEF Advance
<1>3. "pc" \in DOMAIN jobs[a] /\ "todo" \in DOMAIN jobs[a]
  BY <1>1 DEF JobFields
<1>4. QED
  BY <1>1, <1>2, <1>3

LEMMA FailKeeps ==
  ASSUME Records, Alone', NEW a \in Attempts, Running(a), NEW m \in BOOLEAN, FailWith(a, m),
         jobs[a].mutated => m, HandlersStay, rows' = rows, links' = links, blobFiles' = blobFiles
  PROVE  Records'
<1> DEFINE job == [jobs[a] EXCEPT !.mutated = m]
<1>1. DOMAIN jobs = Attempts /\ JobFields \subseteq DOMAIN jobs[a]
  BY DEF Records, Formed, Alone, Shaped
<1>2. "pc" \in DOMAIN jobs[a] /\ "mutated" \in DOMAIN jobs[a]
  BY <1>1 DEF JobFields
<1>3. /\ jobs' = [jobs EXCEPT ![a] = [job EXCEPT !.pc = "failed"]]
      /\ IF shouldRestorePlan(job) THEN GiveBack ELSE plan' = plan
  BY DEF FailWith
<1>4. /\ job.pc = jobs[a].pc /\ job.mutated = m /\ job.safe = jobs[a].safe
      /\ JobFields \subseteq DOMAIN job /\ job.ids = jobs[a].ids /\ job.skipped = jobs[a].skipped
      /\ job.created = jobs[a].created /\ job.decisions = jobs[a].decisions
      /\ "pc" \in DOMAIN job
  BY <1>1, <1>2
<1> HIDE DEF job
<1>5. /\ jobs'[a].pc = "failed" /\ jobs'[a].mutated = m /\ jobs'[a].safe = jobs[a].safe
      /\ JobFields \subseteq DOMAIN jobs'[a] /\ jobs'[a].ids = jobs[a].ids
      /\ jobs'[a].skipped = jobs[a].skipped
      /\ jobs'[a].created = jobs[a].created /\ jobs'[a].decisions = jobs[a].decisions
      /\ \A b \in Attempts \ {a} : jobs'[b] = jobs[b]
  BY <1>1, <1>3, <1>4
<1>6. plan' = "ready" => RetrySafe(chosen) \/ jobs[a].pc \in Early \/ ~jobs[a].mutated
  <2> SUFFICES ASSUME plan' = "ready", jobs[a].pc \notin Early, jobs[a].mutated
               PROVE  RetrySafe(chosen)
    OBVIOUS
  <2>1. shouldRestorePlan(job)
    BY <1>3, AtWork
  <2>2. job.safe
    BY <2>1, <1>4 DEF shouldRestorePlan, Early
  <2>3. jobs[a].pc # "none" /\ PhaseFits(a)
    BY AtWork
  <2>4. QED
    BY <1>4, <2>2, <2>3 DEF PhaseFits, Early
<1>7. plan' \in {"ready", "applied", "gone"}
  BY <1>3 DEF GiveBack, Records, Formed
<1>8. OnlyOwn(a)
  BY <1>5, <1>7 DEF OnlyOwn, Records, Formed
<1>9. PhaseFits(a)'
  <2>1. ~Completed(a)'
    BY <1>5 DEF Completed
  <2>2. QED
    BY <1>5, <2>1, PhaseOver
<1>10. jobs'[a].pc \notin Early
  BY <1>5 DEF Early
<1>11. QED
  BY <1>5, <1>6, <1>8, <1>9, <1>10, RowlessKeeps

\* An attempt that goes on, to a phase that fits.
LEMMA AdvanceKeeps ==
  ASSUME Records, Alone', NEW a \in Attempts, Running(a), NEW pc, NEW todo, Advance(a, pc, todo),
         HandlersStay, rows' = rows, DOMAIN blobFiles' = Blobs, pc # "none",
         jobs[a].pc \notin Early => pc \notin Early,
         \A l \in links' : l \in links \/ l \subseteq Keys,
         PhaseFits(a)'
  PROVE  Records'
<1>1. plan' = plan /\ plan # "ready"
  BY Advanced, AtWork
<1>2. OnlyOwn(a)
  BY <1>1, Advanced DEF OnlyOwn, Records, Formed
<1>3. QED
  BY <1>1, <1>2, Advanced, RowlessKeeps

-----------------------------------------------------------------------------
(* The blobs.                                                                *)

LEMMA Unmoved ==
  ASSUME NEW a \in Attempts, jobs'[a].ids = jobs[a].ids, jobs'[a].skipped = jobs[a].skipped,
         rows' = rows, guided' = guided, chosen' = chosen
  PROVE  /\ \A i : Mapped(a, i)' <=> Mapped(a, i)
         /\ \A i : OwnerMapped(a, i)' <=> OwnerMapped(a, i)
         /\ Wired(a)' = Wired(a) /\ Keys' = Keys /\ RetrySafe(chosen)' = RetrySafe(chosen)
         /\ links' = links => \A e : Linked(a, e)' <=> Linked(a, e)
BY DEF Mapped, OwnerMapped, Wired, Keys, RetrySafe, Linked

\* Early, nothing is mapped, and nothing is asked of what is left to do.
LEMMA EarlyFits ==
  ASSUME Records, NEW a \in Attempts, Running(a), jobs[a].pc \in Early, jobs'[a].pc \in Early,
         jobs'[a].ids = jobs[a].ids, jobs'[a].skipped = jobs[a].skipped,
         jobs'[a].created = jobs[a].created, jobs'[a].mutated = jobs[a].mutated
  PROVE  PhaseFits(a)'
<1>1. /\ \A i \in Items : ~Mapped(a, i)
      /\ jobs[a].skipped = {} /\ jobs[a].created = {} /\ ~jobs[a].mutated
  BY AtWork DEF PhaseFits, Early
<1>2. \A i \in Items : ~Mapped(a, i)'
  BY <1>1 DEF Mapped
<1>3. ~Completed(a)'
  BY DEF Completed, Early
<1>4. QED
  BY <1>1, <1>2, <1>3 DEF PhaseFits, Early

LEMMA BlobStepsKeep ==
  ASSUME Records, Alone', NEW a \in Attempts, Running(a),
         LoadImportPlan(a) \/ OnBlob(a) \/ WriteBlob(a) \/ BlobFails(a) \/ EndBlobs(a)
  PROVE  Records'
<1> USE AtWork
<1>1. /\ HandlersStay /\ rows' = rows /\ links' = links /\ DOMAIN blobFiles' = Blobs
      /\ jobs[a].pc \in Early /\ jobs[a].mutated \in BOOLEAN
  BY DEF LoadImportPlan, OnBlob, WriteBlob, BlobFails, EndBlobs, Early, Records, Formed
<1>2. CASE Fail(a) /\ blobFiles' = blobFiles
  BY <1>1, <1>2, FailKeeps DEF Fail
<1>3. ASSUME NEW todo, Advance(a, "blobs", todo) PROVE Records'
  <2>1. PhaseFits(a)'
    BY <1>1, <1>3, Advanced, EarlyFits DEF Early
  <2>2. QED
    BY <1>1, <1>3, <2>1, AdvanceKeeps
<1>4. DOMAIN jobs = Attempts /\ JobFields \subseteq DOMAIN jobs[a]
  BY DEF Records, Formed, Alone, Shaped
<1>5. /\ "pc" \in DOMAIN jobs[a] /\ "blob" \in DOMAIN jobs[a] /\ "todo" \in DOMAIN jobs[a]
      /\ "safe" \in DOMAIN jobs[a]
  BY <1>4 DEF JobFields
<1>6. ASSUME plan' = plan, jobs'[a].pc \in Early,
             jobs'[a].ids = jobs[a].ids, jobs'[a].skipped = jobs[a].skipped,
             jobs'[a].created = jobs[a].created, jobs'[a].mutated = jobs[a].mutated,
             jobs'[a].safe = jobs[a].safe, jobs'[a].decisions = jobs[a].decisions,
             JobFields \subseteq DOMAIN jobs'[a], \A b \in Attempts \ {a} : jobs'[b] = jobs[b]
      PROVE  Records'
  <2>1. PhaseFits(a)'
    BY <1>1, <1>6, EarlyFits
  <2>2. OnlyOwn(a)
    BY <1>1, <1>6 DEF OnlyOwn, Records, Formed, Early
  <2>3. QED
    BY <1>1, <1>6, <2>1, <2>2, RowlessKeeps
<1>7. CASE LoadImportPlan(a)
  BY <1>2, <1>3, <1>7 DEF LoadImportPlan
<1>8. CASE OnBlob(a)
  <2>1. PICK b \in jobs[a].todo :
          \/ Fail(a) /\ UNCHANGED blobFiles
          \/ Advance(a, "blobs", jobs[a].todo \ {b})
          \/ /\ jobs' = [jobs EXCEPT ![a].pc = "writing", ![a].blob = b, ![a].todo = @ \ {b}]
             /\ UNCHANGED plan
    BY <1>8 DEF OnBlob
  <2>2. CASE /\ jobs' = [jobs EXCEPT ![a].pc = "writing", ![a].blob = b, ![a].todo = @ \ {b}]
             /\ UNCHANGED plan
    <3>1. /\ jobs'[a].pc = "writing"
          /\ jobs'[a].ids = jobs[a].ids /\ jobs'[a].skipped = jobs[a].skipped
          /\ jobs'[a].created = jobs[a].created /\ jobs'[a].mutated = jobs[a].mutated
          /\ jobs'[a].safe = jobs[a].safe /\ jobs'[a].decisions = jobs[a].decisions
          /\ JobFields \subseteq DOMAIN jobs'[a]
          /\ \A c \in Attempts \ {a} : jobs'[c] = jobs[c]
      BY <2>2, <1>4, <1>5
    <3>2. QED
      BY <2>2, <3>1, <1>6 DEF Early
  <2>3. QED
    BY <2>1, <2>2, <1>2, <1>3
<1>9. CASE WriteBlob(a)
  <2>1. jobs' = [jobs EXCEPT ![a].pc = "blobs", ![a].blob = "none"] /\ plan' = plan
    BY <1>9 DEF WriteBlob
  <2>2. /\ jobs'[a].pc = "blobs"
        /\ jobs'[a].ids = jobs[a].ids /\ jobs'[a].skipped = jobs[a].skipped
        /\ jobs'[a].created = jobs[a].created /\ jobs'[a].mutated = jobs[a].mutated
        /\ jobs'[a].safe = jobs[a].safe /\ jobs'[a].decisions = jobs[a].decisions
        /\ JobFields \subseteq DOMAIN jobs'[a]
        /\ \A b \in Attempts \ {a} : jobs'[b] = jobs[b]
    BY <2>1, <1>4, <1>5
  <2>3. QED
    BY <2>1, <2>2, <1>6 DEF Early
<1>10. CASE BlobFails(a)
  BY <1>2, <1>10 DEF BlobFails
<1>11. CASE EndBlobs(a) /\ ~Fail(a)
  <2> DEFINE defs == Named \cup {i \in NoteTypes : chosen.createsTypes}
  <2>1. /\ jobs' = [jobs EXCEPT ![a].pc = "defs", ![a].safe = RetrySafe(chosen), ![a].todo = defs]
        /\ plan' = plan
    <3>1. jobs[a].decisions = chosen
      OBVIOUS
    <3>2. /\ jobs' = [jobs EXCEPT ![a].pc = "defs", ![a].safe = RetrySafe(jobs[a].decisions),
                         ![a].todo = Named \cup {i \in NoteTypes : jobs[a].decisions.createsTypes}]
          /\ plan' = plan
      BY <1>11 DEF EndBlobs
    <3>3. QED
      BY ONLY <3>1, <3>2
  <2>2. /\ jobs'[a].pc = "defs" /\ jobs'[a].safe = RetrySafe(chosen) /\ jobs'[a].todo = defs
        /\ jobs'[a].ids = jobs[a].ids /\ jobs'[a].skipped = jobs[a].skipped
        /\ jobs'[a].created = jobs[a].created /\ jobs'[a].mutated = jobs[a].mutated
        /\ jobs'[a].decisions = jobs[a].decisions
        /\ JobFields \subseteq DOMAIN jobs'[a]
        /\ \A b \in Attempts \ {a} : jobs'[b] = jobs[b]
    BY <2>1, <1>4, <1>5
  <2>3. guided' = guided /\ chosen' = chosen
    BY <1>1 DEF HandlersStay
  <2>4. RetrySafe(chosen)' = RetrySafe(chosen) /\ RetrySafe(chosen) \in BOOLEAN
    BY <2>3 DEF RetrySafe
  <2>5. \A i \in Items : ~Mapped(a, i)'
    <3>1. \A i \in Items : ~Mapped(a, i)
      BY <1>1 DEF PhaseFits, Early
    <3>2. QED
      BY <3>1, <2>2 DEF Mapped
  <2>6. PhaseFits(a)'
    <3>1. defs \cup Owned \subseteq Items
      BY DEF Items
    <3> HIDE DEF defs
    <3>2. ~Completed(a)'
      BY <2>2 DEF Completed
    <3>3. jobs'[a].todo \subseteq Named \cup {i \in NoteTypes : chosen'.createsTypes}
      BY <2>2, <2>3 DEF defs
    <3>4. QED
      BY <2>2, <2>4, <2>5, <3>1, <3>2, <3>3 DEF PhaseFits
  <2>7. OnlyOwn(a)
    BY <1>1, <2>1, <2>2, <2>4 DEF OnlyOwn, Records, Formed
  <2>8. QED
    BY <1>1, <2>1, <2>2, <2>6, <2>7, RowlessKeeps
<1>12. CASE EndBlobs(a) /\ Fail(a)
  BY <1>2, <1>12 DEF EndBlobs
<1>13. QED
  BY <1>7, <1>8, <1>9, <1>10, <1>11, <1>12

-----------------------------------------------------------------------------
(* The ends of the phases, failures, and the links.                          *)

\* What is to be done in the phase that follows is still undone, and below what is done.
LEMMA NextPhaseFits ==
  ASSUME Records, NEW a \in Attempts, Running(a), NEW pc, NEW todo, Advance(a, pc, todo),
         rows' = rows, links' = links, HandlersStay,
         \/ jobs[a].pc = "defs" /\ pc = "groups" /\ todo = {}
         \/ jobs[a].pc = "groups" /\ pc = "resources" /\ todo = Entries(a, Media)
         \/ jobs[a].pc = "resources" /\ pc = "notes" /\ todo = Entries(a, Notes)
         \/ jobs[a].pc = "notes" /\ pc = "linking" /\ todo = Wired(a) \cup Remapped(a)
  PROVE  PhaseFits(a)'
<1>1. /\ jobs'[a].pc = pc /\ jobs'[a].todo = todo
      /\ jobs'[a].ids = jobs[a].ids /\ jobs'[a].skipped = jobs[a].skipped
      /\ jobs'[a].safe = jobs[a].safe
      /\ chosen' = chosen /\ guided' = guided
  BY Advanced DEF HandlersStay
<1>2. /\ \A i : Mapped(a, i)' <=> Mapped(a, i)
      /\ \A i : OwnerMapped(a, i)' <=> OwnerMapped(a, i)
      /\ Wired(a)' = Wired(a) /\ Keys' = Keys /\ RetrySafe(chosen)' = RetrySafe(chosen)
      /\ \A e : Linked(a, e)' <=> Linked(a, e)
  BY <1>1, Unmoved
<1>3. PhaseFits(a) /\ jobs[a].decisions = chosen
  BY AtWork
<1>4. jobs'[a].safe = RetrySafe(chosen)'
  BY <1>1, <1>2, <1>3 DEF PhaseFits
<1>5. ~Completed(a)'
  BY <1>1 DEF Completed
<1>6. CASE jobs[a].pc = "defs" /\ pc = "groups" /\ todo = {}
  <2>1. \A i \in Media \cup Notes : ~Mapped(a, i)
    BY <1>3, <1>6 DEF PhaseFits, Owned
  <2>2. QED
    BY <1>1, <1>2, <1>4, <1>5, <1>6, <2>1 DEF PhaseFits
<1>7. CASE jobs[a].pc = "groups" /\ pc = "resources" /\ todo = Entries(a, Media)
  <2>1. \A i \in Media \cup Notes : ~Mapped(a, i)
    BY <1>3, <1>7 DEF PhaseFits
  <2>2. todo \subseteq Media \ chosen.excluded /\ \A i \in todo : OwnerMapped(a, i)
    BY <1>3, <1>7 DEF Entries, OwnerMapped
  <2>3. QED
    BY <1>1, <1>2, <1>4, <1>5, <1>7, <2>1, <2>2 DEF PhaseFits
<1>8. CASE jobs[a].pc = "resources" /\ pc = "notes" /\ todo = Entries(a, Notes)
  <2>1. \A i \in Notes : ~Mapped(a, i)
    BY <1>3, <1>8 DEF PhaseFits
  <2>2. todo \subseteq Notes /\ \A i \in todo : OwnerMapped(a, i)
    BY <1>3, <1>8 DEF Entries, OwnerMapped
  <2>3. QED
    BY <1>1, <1>2, <1>4, <1>5, <1>8, <2>1, <2>2 DEF PhaseFits
<1>9. CASE jobs[a].pc = "notes" /\ pc = "linking" /\ todo = Wired(a) \cup Remapped(a)
  <2>1. \A e \in Remapped(a) : e[1] \in Groups /\ e[2] = "bystander" /\ Mapped(a, e[1]) /\ Bystander \in Keys
    BY ImportAssumption DEF Remapped, Keys
  <2>2. QED
    BY <1>1, <1>2, <1>4, <1>5, <1>9, <2>1 DEF PhaseFits
<1>10. QED
  BY <1>6, <1>7, <1>8, <1>9

LEMMA PhaseEndsKeep ==
  ASSUME Records, Alone', NEW a \in Attempts, Running(a),
         EndDefs(a) \/ EndGroups(a) \/ EndResources(a) \/ EndNotes(a)
  PROVE  Records'
<1>1. /\ HandlersStay /\ rows' = rows /\ links' = links /\ blobFiles' = blobFiles
      /\ jobs[a].mutated \in BOOLEAN /\ DOMAIN blobFiles = Blobs
  BY DEF EndDefs, EndGroups, EndResources, EndNotes, Records, Formed
<1>2. CASE Fail(a)
  BY <1>1, <1>2, FailKeeps DEF Fail
<1>3. CASE ~Fail(a)
  <2>1. PICK pc, todo :
          /\ Advance(a, pc, todo)
          /\ \/ jobs[a].pc = "defs" /\ pc = "groups" /\ todo = {}
             \/ jobs[a].pc = "groups" /\ pc = "resources" /\ todo = Entries(a, Media)
             \/ jobs[a].pc = "resources" /\ pc = "notes" /\ todo = Entries(a, Notes)
             \/ jobs[a].pc = "notes" /\ pc = "linking" /\ todo = Wired(a) \cup Remapped(a)
    BY <1>3 DEF EndDefs, EndGroups, EndResources, EndNotes, Checkpoint
  <2>2. PhaseFits(a)'
    BY <1>1, <2>1, NextPhaseFits
  <2>3. pc \notin Early /\ pc # "none"
    BY <2>1 DEF Early
  <2>4. QED
    BY <1>1, <2>1, <2>2, <2>3, AdvanceKeeps
<1>4. QED
  BY <1>2, <1>3

LEMMA FailuresKeep ==
  ASSUME Records, Alone', NEW a \in Attempts, Running(a), CopyFails(a) \/ StatementFails(a)
  PROVE  Records'
<1>1. /\ HandlersStay /\ rows' = rows /\ links' = links /\ blobFiles' = blobFiles
      /\ jobs[a].mutated \in BOOLEAN
  BY DEF CopyFails, StatementFails, Records, Formed
<1>2. PICK m \in BOOLEAN : FailWith(a, m) /\ (jobs[a].mutated => m)
  <2>1. CASE CopyFails(a)
    BY <1>1, <2>1 DEF CopyFails, Fail
  <2>2. CASE StatementFails(a)
    <3>1. PICK merged \in BOOLEAN : FailWith(a, jobs[a].mutated \/ merged)
      BY <2>2 DEF StatementFails
    <3>2. (jobs[a].mutated \/ merged) \in BOOLEAN /\ (jobs[a].mutated => (jobs[a].mutated \/ merged))
      OBVIOUS
    <3>3. QED
      BY <3>1, <3>2
  <2>3. QED
    BY <2>1, <2>2
<1>3. QED
  BY <1>1, <1>2, FailKeeps

LEMMA LinksKeep ==
  ASSUME Records, Alone', NEW a \in Attempts, Running(a), applyM2MLinks(a)
  PROVE  Records'
<1>1. /\ HandlersStay /\ rows' = rows /\ blobFiles' = blobFiles /\ jobs[a].pc = "linking"
      /\ DOMAIN blobFiles = Blobs
  BY DEF applyM2MLinks, Records, Formed
<1>2. PICK e \in jobs[a].todo :
        /\ links' = links \cup {{jobs[a].ids[e[1]], IF e[2] = "bystander" THEN Bystander
                                                    ELSE jobs[a].ids[e[2]]}}
        /\ Advance(a, "linking", jobs[a].todo \ {e})
  BY DEF applyM2MLinks
<1>3. MapsFit(a) /\ PhaseFits(a)
  BY AtWork
<1>4. \A f \in Wired(a) : f[2] # "bystander" /\ f[1] \in Items /\ f[2] \in Items
  BY ImportAssumption, Apart DEF Wired, Items
<1>5. \A f \in Wired(a) : Mapped(a, f[1]) /\ Mapped(a, f[2])
  BY DEF Wired
<1>6. {jobs[a].ids[e[1]], IF e[2] = "bystander" THEN Bystander ELSE jobs[a].ids[e[2]]} \subseteq Keys
  <2>1. CASE e \in Wired(a)
    BY <1>3, <1>4, <1>5, <2>1 DEF MapsFit
  <2>2. CASE e \notin Wired(a)
    <3>1. e[1] \in Groups /\ e[2] = "bystander" /\ Mapped(a, e[1]) /\ Bystander \in Keys
      BY <1>1, <1>3, <2>2 DEF PhaseFits
    <3>2. e[1] \in Items
      BY <3>1 DEF Items, Owned
    <3>3. QED
      BY <1>3, <3>1, <3>2 DEF MapsFit
  <2>3. QED
    BY <2>1, <2>2
<1>7. /\ jobs'[a].pc = "linking" /\ jobs'[a].todo = jobs[a].todo \ {e}
      /\ jobs'[a].ids = jobs[a].ids /\ jobs'[a].skipped = jobs[a].skipped
      /\ jobs'[a].safe = jobs[a].safe
      /\ chosen' = chosen /\ guided' = guided
  BY <1>1, <1>2, Advanced DEF HandlersStay
<1>8. /\ \A i : Mapped(a, i)' <=> Mapped(a, i)
      /\ Wired(a)' = Wired(a) /\ Keys' = Keys /\ RetrySafe(chosen)' = RetrySafe(chosen)
  BY <1>1, <1>7, Unmoved
<1>9. \A f \in Wired(a) : f \in jobs[a].todo \ {e} \/ Linked(a, f)'
  <2> SUFFICES ASSUME NEW f \in Wired(a), f \notin jobs[a].todo \ {e} PROVE Linked(a, f)'
    OBVIOUS
  <2>1. CASE f = e
    BY <1>2, <1>4, <1>7, <2>1 DEF Linked
  <2>2. CASE f # e
    <3>1. Linked(a, f)
      BY <1>1, <1>3, <2>2 DEF PhaseFits
    <3>2. QED
      BY <1>2, <1>7, <3>1 DEF Linked
  <2>3. QED
    BY <2>1, <2>2
<1>10. PhaseFits(a)'
  <2>1. ~Completed(a)'
    BY <1>7 DEF Completed
  <2>2. \A f \in jobs[a].todo : f \in Wired(a) \/ (/\ f[1] \in Groups /\ f[2] = "bystander"
                                                   /\ Mapped(a, f[1]) /\ Bystander \in Keys)
    BY <1>1, <1>3 DEF PhaseFits
  <2>3. jobs'[a].safe = RetrySafe(chosen)'
    BY <1>1, <1>3, <1>7, <1>8 DEF PhaseFits
  <2>4. QED
    BY <1>7, <1>8, <1>9, <2>1, <2>2, <2>3 DEF PhaseFits
<1>11. \A l \in links' : l \in links \/ l \subseteq Keys
  BY <1>2, <1>6
<1>12. QED
  BY <1>1, <1>2, <1>10, <1>11, AdvanceKeeps DEF Early

\* The steps that change the pc, the copy or the cancel of an attempt and no more.
LEMMA LastStepsKeep ==
  ASSUME Records, Alone', NEW a \in Attempts, Running(a),
         Complete(a) \/ Cancel(a) \/ copyBlob(a)
  PROVE  Records'
<1>1. /\ HandlersStay /\ rows' = rows /\ links' = links /\ DOMAIN blobFiles' = Blobs
      /\ guided' = guided /\ chosen' = chosen /\ attempts' = attempts
  BY DEF Complete, Cancel, copyBlob, Importing, HandlersStay, Records, Formed
<1>2. DOMAIN jobs = Attempts /\ JobFields \subseteq DOMAIN jobs[a]
  BY DEF Records, Formed, Alone, Shaped
<1>3. "pc" \in DOMAIN jobs[a] /\ "copy" \in DOMAIN jobs[a] /\ "cancelled" \in DOMAIN jobs[a]
  BY <1>2 DEF JobFields
<1>4. \/ jobs' = [jobs EXCEPT ![a].pc = "completed"]
      \/ jobs' = [jobs EXCEPT ![a].cancelled = TRUE]
      \/ jobs' = [jobs EXCEPT ![a].pc = "resources", ![a].copy = NoKey]
  BY DEF Complete, Cancel, copyBlob
<1>5. /\ jobs'[a].todo = jobs[a].todo
      /\ jobs'[a].ids = jobs[a].ids /\ jobs'[a].skipped = jobs[a].skipped
      /\ jobs'[a].created = jobs[a].created /\ jobs'[a].mutated = jobs[a].mutated
      /\ jobs'[a].safe = jobs[a].safe /\ jobs'[a].decisions = jobs[a].decisions
      /\ JobFields \subseteq DOMAIN jobs'[a]
      /\ \A b \in Attempts \ {a} : jobs'[b] = jobs[b]
  <2>1. CASE jobs' = [jobs EXCEPT ![a].pc = "completed"]
    BY <1>2, <1>3, <2>1
  <2>2. CASE jobs' = [jobs EXCEPT ![a].cancelled = TRUE]
    BY <1>2, <1>3, <2>2
  <2>3. CASE jobs' = [jobs EXCEPT ![a].pc = "resources", ![a].copy = NoKey]
    BY <1>2, <1>3, <2>3
  <2>4. QED
    BY ONLY <1>4, <2>1, <2>2, <2>3
<1>6. \/ Complete(a) /\ jobs[a].pc = "linking" /\ jobs'[a].pc = "completed" /\ jobs[a].todo = {}
      \/ Cancel(a) /\ jobs'[a].pc = jobs[a].pc
      \/ copyBlob(a) /\ jobs[a].pc = "copying" /\ jobs'[a].pc = "resources"
  BY <1>2, <1>3 DEF Complete, Cancel, copyBlob
<1>7. plan' # "ready" /\ plan' \in {"applied", "gone"}
  BY <1>6, AtWork DEF Complete, Cancel, copyBlob, Records, Formed
<1>8. jobs'[a].pc # "none" /\ (jobs[a].pc \notin Early => jobs'[a].pc \notin Early)
  BY <1>6, AtWork DEF Early
<1>9. OnlyOwn(a)
  BY <1>1, <1>5, <1>7, <1>8 DEF OnlyOwn, Records, Formed
<1>10. PhaseFits(a)'
  <2>1. /\ \A i : Mapped(a, i)' <=> Mapped(a, i)
        /\ \A i : OwnerMapped(a, i)' <=> OwnerMapped(a, i)
        /\ Wired(a)' = Wired(a) /\ Keys' = Keys /\ RetrySafe(chosen)' = RetrySafe(chosen)
        /\ \A e : Linked(a, e)' <=> Linked(a, e)
    BY <1>1, <1>5, Unmoved
  <2>2. PhaseFits(a) /\ jobs[a].pc # "none"
    BY AtWork
  <2>3. CASE Complete(a) /\ jobs[a].pc = "linking" /\ jobs'[a].pc = "completed" /\ jobs[a].todo = {}
    <3>1. \A e \in Wired(a) : Linked(a, e)
      BY <2>2, <2>3 DEF PhaseFits
    <3>2. QED
      BY <2>1, <2>3, <3>1 DEF PhaseFits, Running, Ended
  <2>4. CASE Cancel(a) /\ jobs'[a].pc = jobs[a].pc
    <3>1. ~Completed(a)' /\ (Running(a)' <=> Running(a))
      BY <2>4 DEF Completed, Running, Ended
    <3>2. QED
      BY <1>1, <1>5, <2>1, <2>2, <2>4, <3>1 DEF PhaseFits
  <2>5. CASE copyBlob(a) /\ jobs[a].pc = "copying" /\ jobs'[a].pc = "resources"
    <3>1. ~Completed(a)'
      BY <2>5 DEF Completed
    <3>2. QED
      BY <1>1, <1>5, <2>1, <2>2, <2>5, <3>1 DEF PhaseFits
  <2>6. QED
    BY <1>6, <2>3, <2>4, <2>5
<1>11. QED
  BY <1>1, <1>5, <1>7, <1>8, <1>9, <1>10, RowlessKeeps

-----------------------------------------------------------------------------
(* The rows an attempt takes for its items.                                  *)

\* Attempt a takes item i, one of those its phase has still to do, and knows it by k.
Takes(a, i, k) ==
  /\ HandlersStay /\ plan' = plan /\ blobFiles' = blobFiles
  /\ \A b \in Attempts \ {a} : jobs'[b] = jobs[b]
  /\ JobFields \subseteq DOMAIN jobs'[a]
  /\ jobs'[a].decisions = jobs[a].decisions /\ jobs'[a].safe = jobs[a].safe
  /\ jobs'[a].mutated \in BOOLEAN /\ (jobs[a].mutated => jobs'[a].mutated)
  /\ jobs'[a].ids = [jobs[a].ids EXCEPT ![i] = k]
  /\ \/ jobs[a].pc = "groups" /\ i \in Reached(a) /\ jobs'[a].pc = "groups"
     \/ /\ jobs[a].pc \in {"defs", "resources", "notes"} /\ i \in jobs[a].todo
        /\ jobs'[a].todo = jobs[a].todo \ {i}
        /\ jobs'[a].pc = jobs[a].pc \/ (jobs[a].pc = "resources" /\ jobs'[a].pc = "copying")

LEMMA TakenIs ==
  ASSUME Records, NEW a \in Attempts, Running(a), NEW i, NEW k, Takes(a, i, k)
  PROVE  /\ i \in Items /\ ~Mapped(a, i) /\ jobs'[a].ids[i] = k
         /\ \A j \in Items : j # i => jobs'[a].ids[j] = jobs[a].ids[j]
         /\ i \in Owned => OwnerMapped(a, i)
         /\ jobs[a].pc = "defs" => i \in Named \cup {n \in NoteTypes : chosen.createsTypes}
         /\ jobs[a].pc = "groups" => i \in Groups
         /\ jobs[a].pc = "resources" => i \in Media
         /\ jobs[a].pc = "notes" => i \in Notes
         /\ jobs[a].pc \in {"defs", "groups", "resources", "notes"}
         /\ jobs'[a].pc \notin Early /\ jobs'[a].pc # "none" /\ Running(a)'
         /\ DOMAIN jobs'[a].ids = Items
<1>1. PhaseFits(a) /\ DOMAIN jobs[a].ids = Items
  BY AtWork DEF Records, Formed
<1>2. CASE jobs[a].pc = "groups"
  <2>1. i \in Groups /\ ~Mapped(a, i) /\ OwnerMapped(a, i)
    BY <1>2 DEF Takes, Reached, OwnerMapped
  <2>2. i \in Items
    BY <2>1 DEF Items, Owned
  <2>3. QED
    BY <1>1, <1>2, <2>1, <2>2 DEF Takes, Early, Running, Ended
<1>3. CASE jobs[a].pc = "defs"
  <2>1. i \in Named \cup {n \in NoteTypes : chosen.createsTypes} /\ ~Mapped(a, i)
    BY <1>1, <1>3 DEF Takes, PhaseFits
  <2>2. i \in Items /\ i \notin Owned
    BY <2>1, Apart DEF Items
  <2>3. QED
    BY <1>1, <1>3, <2>1, <2>2 DEF Takes, Early, Running, Ended
<1>4. CASE jobs[a].pc = "resources"
  <2>1. i \in Media /\ ~Mapped(a, i) /\ OwnerMapped(a, i)
    BY <1>1, <1>4 DEF Takes, PhaseFits
  <2>2. i \in Items
    BY <2>1 DEF Items, Owned
  <2>3. QED
    BY <1>1, <1>4, <2>1, <2>2 DEF Takes, Early, Running, Ended
<1>5. CASE jobs[a].pc = "notes"
  <2>1. i \in Notes /\ ~Mapped(a, i) /\ OwnerMapped(a, i)
    BY <1>1, <1>5 DEF Takes, PhaseFits
  <2>2. i \in Items
    BY <2>1 DEF Items, Owned
  <2>3. QED
    BY <1>1, <1>5, <2>1, <2>2 DEF Takes, Early, Running, Ended
<1>6. QED
  BY <1>2, <1>3, <1>4, <1>5 DEF Takes

LEMMA TakesOnlyOwn ==
  ASSUME Records, NEW a \in Attempts, Running(a), NEW i, NEW k, Takes(a, i, k)
  PROVE  OnlyOwn(a)
BY TakenIs DEF Takes, OnlyOwn, Records, Formed

\* The phase goes on with what is left.
LEMMA TakesPhase ==
  ASSUME Records, NEW a \in Attempts, Running(a), NEW i, NEW k, k # NoKey, Takes(a, i, k)
  PROVE  PhaseFits(a)'
<1>1. \A j \in Items : Mapped(a, j)' <=> Mapped(a, j) \/ j = i
  BY TakenIs DEF Mapped
<1>2. \A j \in Owned : OwnerMapped(a, j) => OwnerMapped(a, j)'
  BY <1>1, Apart DEF OwnerMapped, Items, Owned
<1>3. chosen' = chosen /\ guided' = guided
  BY DEF Takes, HandlersStay
<1>4. RetrySafe(chosen)' = RetrySafe(chosen)
  BY <1>3 DEF RetrySafe
<1>5. PhaseFits(a)
  BY AtWork
<1>6. jobs'[a].safe = RetrySafe(chosen)'
  BY <1>4, <1>5, TakenIs DEF Takes, PhaseFits
<1>7. Media \subseteq Owned /\ Notes \subseteq Owned /\ Groups \subseteq Owned /\ Owned \subseteq Items
  BY DEF Owned, Items
<1>8. CASE jobs[a].pc = "groups"
  <2>1. i \in Groups /\ jobs'[a].pc = "groups"
    BY <1>8, TakenIs DEF Takes
  <2>2. \A j \in Media \cup Notes : ~Mapped(a, j)'
    BY <1>1, <1>5, <1>7, <1>8, <2>1, Apart DEF PhaseFits
  <2>3. QED
    BY <1>6, <2>1, <2>2 DEF PhaseFits, Completed
<1>9. CASE jobs[a].pc = "defs"
  <2>1. i \notin Owned /\ jobs'[a].pc = "defs" /\ jobs'[a].todo = jobs[a].todo \ {i}
    BY <1>9, TakenIs, Apart DEF Takes
  <2>2. jobs[a].todo \subseteq Named \cup {n \in NoteTypes : chosen.createsTypes}
    BY <1>5, <1>9 DEF PhaseFits
  <2>3. jobs[a].todo \subseteq Items
    BY <2>2 DEF Items
  <2>4. \A j \in jobs'[a].todo \cup Owned : ~Mapped(a, j)'
    BY <1>1, <1>5, <1>7, <1>9, <2>1, <2>3 DEF PhaseFits
  <2>5. jobs'[a].todo \subseteq Named \cup {n \in NoteTypes : chosen'.createsTypes}
    BY <1>3, <2>1, <2>2
  <2>6. QED
    BY <1>6, <2>1, <2>4, <2>5 DEF PhaseFits, Completed
<1>10. CASE jobs[a].pc = "resources"
  <2>1. i \in Media /\ jobs'[a].pc \in {"resources", "copying"} /\ jobs'[a].todo = jobs[a].todo \ {i}
    BY <1>10, TakenIs DEF Takes
  <2>2. jobs[a].todo \subseteq Media \ chosen.excluded
    BY <1>5, <1>10 DEF PhaseFits
  <2>3. \A j \in jobs'[a].todo \cup Notes : ~Mapped(a, j)'
    BY <1>1, <1>5, <1>7, <1>10, <2>1, <2>2, Apart DEF PhaseFits
  <2>4. \A j \in jobs'[a].todo : OwnerMapped(a, j)'
    BY <1>2, <1>5, <1>7, <1>10, <2>1, <2>2 DEF PhaseFits
  <2>5. QED
    BY <1>3, <1>6, <2>1, <2>2, <2>3, <2>4 DEF PhaseFits, Completed
<1>11. CASE jobs[a].pc = "notes"
  <2>1. i \in Notes /\ jobs'[a].pc = "notes" /\ jobs'[a].todo = jobs[a].todo \ {i}
    BY <1>11, TakenIs DEF Takes
  <2>2. jobs[a].todo \subseteq Notes
    BY <1>5, <1>11 DEF PhaseFits
  <2>3. \A j \in jobs'[a].todo : ~Mapped(a, j)'
    BY <1>1, <1>5, <1>7, <1>11, <2>1, <2>2 DEF PhaseFits
  <2>4. \A j \in jobs'[a].todo : OwnerMapped(a, j)'
    BY <1>2, <1>5, <1>7, <1>11, <2>1, <2>2 DEF PhaseFits
  <2>5. QED
    BY <1>6, <2>1, <2>2, <2>3, <2>4 DEF PhaseFits, Completed
<1>12. QED
  BY <1>8, <1>9, <1>10, <1>11, TakenIs

\* The map and the lists with one item more. The rows of the attempt are those it had and
\* at most the one the item is now known by.
LEMMA TakesMap ==
  ASSUME Records, NEW a \in Attempts, Running(a), NEW i, NEW k, k # NoKey, Takes(a, i, k),
         k \in Keys', i \notin Media => k[1] = i, Keys \subseteq Keys',
         \/ jobs'[a].skipped = jobs[a].skipped
         \/ jobs'[a].skipped = jobs[a].skipped \cup {i} /\ ~(k[1] = i /\ k[2] > 0),
         jobs[a].created \subseteq jobs'[a].created, jobs'[a].created \subseteq jobs[a].created \cup {k},
         \A r \in rows' : r.by = a =>
           \/ \E s \in rows : s.item = r.item /\ s.by = a
           \/ r.item = i /\ Key(r) = k /\ (i \in Owned => k \in jobs'[a].created)
  PROVE  MapsFit(a)' /\ Listed(a)'
<1>1. MapsFit(a) /\ Listed(a)
  BY AtWork
<1>2. \A j \in Items : Mapped(a, j)' <=> Mapped(a, j) \/ j = i
  BY TakenIs DEF Mapped
<1>3. \A r \in rows' : r.by = a =>
        jobs'[a].ids[r.item] = Key(r) /\ (r.item \in Owned => Key(r) \in jobs'[a].created)
  <2> SUFFICES ASSUME NEW r \in rows', r.by = a
               PROVE  jobs'[a].ids[r.item] = Key(r) /\ (r.item \in Owned => Key(r) \in jobs'[a].created)
    OBVIOUS
  <2>1. CASE \E s \in rows : s.item = r.item /\ s.by = a
    <3>1. PICK s \in rows : s.item = r.item /\ s.by = a
      BY <2>1
    <3>2. Key(s) = Key(r) /\ Key(s) # NoKey /\ s.item \in Items
      BY <3>1, RowItems DEF Key, Records, RecordsFit, RowsFit, Attempts
    <3>3. jobs[a].ids[s.item] = Key(s)
      BY <1>1, <3>1 DEF MapsFit
    <3>4. s.item # i
      BY <3>2, <3>3, TakenIs DEF Mapped
    <3>5. s.item \in Owned => Key(s) \in jobs[a].created
      BY <1>1, <3>1 DEF Listed
    <3>6. QED
      BY <3>1, <3>2, <3>3, <3>4, <3>5, TakenIs
  <2>2. CASE r.item = i /\ Key(r) = k /\ (i \in Owned => k \in jobs'[a].created)
    BY <2>2, TakenIs
  <2>3. QED
    BY <2>1, <2>2
<1>4. \A j \in Items : Mapped(a, j)' =>
        jobs'[a].ids[j] \in Keys' /\ (j \notin Media => jobs'[a].ids[j][1] = j)
  BY <1>1, <1>2, TakenIs DEF MapsFit
<1>5. \A j \in jobs'[a].skipped : j \in Items /\ Mapped(a, j)' /\ ~Own(a, j)'
  <2> SUFFICES ASSUME NEW j \in jobs'[a].skipped
               PROVE  j \in Items /\ Mapped(a, j)' /\ ~Own(a, j)'
    OBVIOUS
  <2>1. CASE j \in jobs[a].skipped
    <3>1. j \in Items /\ Mapped(a, j) /\ ~Own(a, j) /\ j # i
      BY <1>1, <2>1, TakenIs DEF MapsFit
    <3>2. QED
      BY <1>2, <3>1, TakenIs DEF Own
  <2>2. CASE j \notin jobs[a].skipped
    BY <1>2, <2>2, TakenIs DEF Own
  <2>3. QED
    BY <2>1, <2>2
<1>6. MapsFit(a)'
  BY <1>3, <1>4, <1>5 DEF MapsFit
<1>7. Listed(a)'
  BY <1>1, <1>3 DEF Listed
<1>8. QED
  BY <1>6, <1>7

\* A row of an attempt that is not this one was safe to create again; one of this
\* attempt is known to it.
LEMMA NotOwned ==
  ASSUME Records, NEW a \in Attempts, Running(a), NEW r \in rows, r.by # 0, ~Mapped(a, r.item)
  PROVE  RetrySafe(chosen)
<1>1. r.by # a
  BY AtWork, RowItems DEF MapsFit, Mapped
<1>2. QED
  BY <1>1, AtWork, RetriedIsSafe

\* An item that is not found has no row: where a GUID or a name does not tell, a retry
\* would not be safe.
LEMMA Absent ==
  ASSUME Records, NEW a \in Attempts, Running(a), NEW i, ~Mapped(a, i),
         \/ i \in Owned /\ Matches(i) = {}
         \/ i \in Named \cup {n \in NoteTypes : chosen.createsTypes} /\ SameDef(i) = {},
         NEW r \in rows
  PROVE  r.item # i
<1> SUFFICES ASSUME r.item = i PROVE FALSE
  OBVIOUS
<1>1. i \notin guided /\ i \in Items /\ i \notin Named
  BY Apart DEF Matches, SameDef, Items
<1>2. r.by # 0
  BY <1>1, Apart DEF Records, RecordsFit, RowsFit, FoundBefore
<1>3. RetrySafe(chosen)
  BY <1>2, NotOwned
<1>4. QED
  BY <1>1, <1>3 DEF RetrySafe

LEMMA SkipsNoneOfItsOwn ==
  ASSUME Records, NEW a \in Attempts, Running(a), NEW r \in rows, ~Mapped(a, r.item),
         chosen.guidPolicy = "skip"
  PROVE  r.by = 0
BY NotOwned DEF RetrySafe

LEMMA OwnerKeyIs ==
  ASSUME Records, NEW a \in Attempts, Running(a), NEW i \in Owned, OwnerMapped(a, i)
  PROVE  /\ OwnerKey(a, i) \in Keys \cup {NoKey}
         /\ Owner[i] # "none" => OwnerKey(a, i)[1] = Owner[i]
         /\ OwnerKey(a, i) # NoKey => Owner[i] # "none"
<1>1. CASE Owner[i] = "none"
  BY <1>1 DEF OwnerKey
<1>2. CASE Owner[i] # "none"
  <2>1. Owner[i] \in Groups /\ Owner[i] \in Items /\ Owner[i] \notin Media /\ Mapped(a, Owner[i])
    BY <1>2, Apart DEF OwnerMapped, Items, Owned
  <2>2. QED
    BY <1>2, <2>1, AtWork DEF OwnerKey, MapsFit
<1>3. QED
  BY <1>1, <1>2

LEMMA OnceStays ==
  ASSUME Records, NEW a \in Attempts, Running(a), NEW i, NEW k, Takes(a, i, k),
         NEW r \in rows, r.by # 0
  PROVE  CreatedOnce(r)'
<1>1. CreatedOnce(r) /\ r.by \in Attempts
  BY DEF Records, RecordsFit, RowsFit
<1>2. chosen' = chosen /\ guided' = guided /\ attempts' = attempts
  BY DEF Takes, HandlersStay
<1>3. CASE r.by = a
  <2>1. /\ jobs'[a].mutated /\ jobs'[a].safe = jobs[a].safe /\ Running(a)'
        /\ jobs'[a].pc \notin {"none", "loading", "blobs", "writing"}
    BY <1>1, <1>3, TakenIs DEF CreatedOnce, Takes, Early
  <2>2. QED
    BY <1>2, <1>3, <2>1, AtWork, CreatedAgain
<1>4. CASE r.by # a
  <2>1. RetrySafe(chosen)
    BY <1>4, AtWork, RetriedIsSafe
  <2>2. jobs'[r.by] = jobs[r.by]
    BY <1>1, <1>4 DEF Takes
  <2>3. QED
    BY <1>1, <1>2, <2>1, <2>2, CreatedAgain DEF CreatedOnce
<1>5. QED
  BY <1>3, <1>4

\* The item is known by a row that was there; it is listed as skipped only if no attempt
\* created that row for it.
LEMMA FindsKeeps ==
  ASSUME Records, Alone', NEW a \in Attempts, Running(a), NEW i, NEW r \in rows, Takes(a, i, Key(r)),
         rows' = rows, links' = links,
         i \notin Media => r.item = i,
         \/ jobs'[a].skipped = jobs[a].skipped
         \/ jobs'[a].skipped = jobs[a].skipped \cup {i} /\ (r.item = i => r.by = 0),
         jobs'[a].created = jobs[a].created
  PROVE  Records'
<1>1. Key(r) # NoKey /\ Key(r) \in Keys /\ Key(r)[1] = r.item /\ Key(r)[2] = r.by
  BY RowItems, KeyIs DEF Keys
<1>2. guided' = guided
  BY DEF Takes, HandlersStay
<1>3. \A s \in rows : s.by # 0 => CreatedOnce(s)'
  BY OnceStays
<1>4. RowsFit' /\ Refer' /\ OwnersInPlace' /\ Keys' = Keys
  BY <1>2, <1>3, RowsStand, OwnersStay
<1>5. ~(Key(r)[1] = i /\ Key(r)[2] > 0) \/ jobs'[a].skipped = jobs[a].skipped
  BY <1>1
<1>6. \A s \in rows' : s.by = a => \E q \in rows : q.item = s.item /\ q.by = a
  OBVIOUS
<1>7. MapsFit(a)' /\ Listed(a)'
  BY <1>1, <1>4, <1>5, <1>6, TakesMap
<1>8. PhaseFits(a)'
  BY <1>1, TakesPhase
<1>9. OnlyOwn(a)
  BY TakesOnlyOwn
<1>10. \A s \in rows' : RowFields \subseteq DOMAIN s
  BY DEF Records, Formed
<1>11. QED
  BY <1>4, <1>7, <1>8, <1>9, <1>10, StepKeeps

\* A row is created for an item that has none.
LEMMA AddsKeeps ==
  ASSUME Records, Alone', NEW a \in Attempts, Running(a), NEW i, Takes(a, i, <<i, a>>),
         NEW o, NEW h, rows' = rows \cup {Row(i, a, o, h)}, links' = links,
         \A r \in rows : r.item # i,
         o = IF i \in Owned THEN OwnerKey(a, i) ELSE NoKey,
         i \in Media => i \in Carried /\ h = HashOf[i],
         jobs'[a].mutated, jobs'[a].skipped = jobs[a].skipped,
         jobs'[a].created = IF i \in Owned THEN jobs[a].created \cup {<<i, a>>} ELSE jobs[a].created
  PROVE  Records'
<1> DEFINE t == Row(i, a, o, h)
<1>1. /\ t.item = i /\ t.by = a /\ t.owner = o /\ t.hash = h /\ t.path = h
      /\ Key(t) = <<i, a>> /\ RowFields \subseteq DOMAIN t
  BY DEF Row, RowFields, Key
<1>2. rows' = rows \cup {t}
  OBVIOUS
<1> HIDE DEF t
<1>3. /\ chosen' = chosen /\ guided' = guided /\ attempts' = attempts /\ handlers' = handlers
  BY DEF Takes, HandlersStay
<1>4. i \in Items /\ a \in Nat /\ a # 0 /\ <<i, a>> # NoKey
  BY TakenIs, Apart DEF Attempts, NoKey
<1>5. Keys' = Keys \cup {<<i, a>>}
  BY <1>1, <1>2 DEF Keys
<1>6. RowsFit'
  <2>1. \A r, s \in rows' : r.item = s.item => r = s
    BY <1>1, <1>2 DEF Records, RecordsFit, RowsFit
  <2>2. CreatedOnce(t)'
    <3>1. jobs'[a].safe = RetrySafe(chosen)'
      <4>1. jobs[a].safe = RetrySafe(chosen)
        BY AtWork, TakenIs DEF PhaseFits
      <4>2. QED
        BY <1>3, <4>1 DEF RetrySafe, Takes
    <3>2. jobs'[a].pc \notin {"none", "loading", "blobs", "writing"} /\ Running(a)'
      BY TakenIs DEF Early
    <3>3. i \in NoteTypes => chosen.createsTypes
      BY TakenIs, Apart DEF Owned
    <3>4. QED
      BY <1>1, <1>3, <3>1, <3>2, <3>3, AtWork DEF CreatedOnce
  <2>3. ASSUME NEW r \in rows, r.by = 0 PROVE FoundBefore(r)'
    <3>1. FoundBefore(r)
      BY <2>3 DEF Records, RecordsFit, RowsFit
    <3>2. QED
      BY <1>1, <1>2, <1>3, <1>4, <2>3, <3>1 DEF FoundBefore
  <2>4. ASSUME NEW r \in rows, r.by # 0 PROVE r.by \in Attempts /\ r.item \in Items /\ CreatedOnce(r)'
    BY <2>4, OnceStays DEF Records, RecordsFit, RowsFit
  <2>5. QED
    BY <1>1, <1>2, <1>4, <2>1, <2>2, <2>3, <2>4 DEF RowsFit
<1>7. /\ o \in Keys \cup {NoKey}
      /\ i \in Owned /\ Owner[i] # "none" => o[1] = Owner[i]
  BY TakenIs, OwnerKeyIs
<1>8. Refer'
  BY <1>1, <1>2, <1>5, <1>7 DEF Records, Refer
<1>9. OwnersInPlace'
  BY <1>1, <1>2, <1>7 DEF Records, OwnersInPlace
<1>10. \A r \in rows' : r.by = a =>
         \/ \E s \in rows : s.item = r.item /\ s.by = a
         \/ r.item = i /\ Key(r) = <<i, a>> /\ (i \in Owned => <<i, a>> \in jobs'[a].created)
  BY <1>1, <1>2
<1>11. MapsFit(a)' /\ Listed(a)'
  BY <1>4, <1>5, <1>10, TakesMap
<1>12. PhaseFits(a)'
  BY <1>4, TakesPhase
<1>13. OnlyOwn(a)
  BY TakesOnlyOwn
<1>14. \A r \in rows' : RowFields \subseteq DOMAIN r
  BY <1>1, <1>2 DEF Records, Formed
<1>15. \A r \in rows' : r.by # a => \E s \in rows : s.item = r.item /\ s.by = r.by
  BY <1>1, <1>2
<1>16. QED
  BY <1>5, <1>6, <1>8, <1>9, <1>11, <1>12, <1>13, <1>14, <1>15, StepKeeps

\* The row of an item is written in place: its owner, and the hash of a replaced resource.
LEMMA SetsKeeps ==
  ASSUME Records, Alone', NEW a \in Attempts, Running(a), NEW i \in Owned, NEW r \in rows, r.item = i,
         Takes(a, i, Key(r)), NEW t, rows' = (rows \ {r}) \cup {t},
         RowFields \subseteq DOMAIN t, t.item = r.item, t.by = r.by, t.path = r.path,
         t.owner = r.owner \/ (t.owner = OwnerKey(a, i) /\ t.owner # NoKey),
         t.hash = r.hash \/ (i \in Media /\ t.hash = HashOf[i]),
         \A l \in links' : l \in links \/ l \subseteq Keys,
         jobs'[a].skipped = jobs[a].skipped,
         jobs[a].created \subseteq jobs'[a].created,
         jobs'[a].created \subseteq jobs[a].created \cup {Key(r)}
  PROVE  Records'
<1>1. Key(t) = Key(r)
  BY DEF Key
<1>2. Keys' = Keys
  <2>1. \A k : k \in Keys' <=> k \in Keys
    BY <1>1 DEF Keys
  <2>2. QED
    BY <2>1
<1>3. /\ chosen' = chosen /\ guided' = guided /\ attempts' = attempts /\ handlers' = handlers
  BY DEF Takes, HandlersStay
<1>4. /\ Key(r) # NoKey /\ Key(r) \in Keys /\ Key(r)[1] = i /\ Key(r)[2] = r.by
      /\ i \in Items /\ i # "bystander" /\ ~Mapped(a, i)
  BY RowItems, KeyIs, TakenIs, Apart DEF Keys
<1>5. RowsFit'
  <2>1. \A q, s \in rows' : q.item = s.item => q = s
    BY DEF Records, RecordsFit, RowsFit
  <2>2. CASE r.by = 0
    <3>1. FoundBefore(r)
      BY <2>2 DEF Records, RecordsFit, RowsFit
    <3>2. FoundBefore(t)'
      <4>1. ASSUME i \in Media, NEW s \in rows', s.by = 0, s.item \in Media PROVE s = t
        BY <3>1, <4>1 DEF FoundBefore
      <4>2. QED
        BY <1>3, <1>4, <3>1, <4>1 DEF FoundBefore
    <3>3. ASSUME NEW q \in rows \ {r}, q.by = 0 PROVE FoundBefore(q)'
      <4>1. FoundBefore(q)
        BY <3>3 DEF Records, RecordsFit, RowsFit
      <4>2. ASSUME q.item \in Media, NEW s \in rows', s.by = 0, s.item \in Media PROVE s = q
        BY <2>2, <3>3, <4>1, <4>2 DEF FoundBefore
      <4>3. QED
        BY <1>3, <4>1, <4>2 DEF FoundBefore
    <3>4. ASSUME NEW q \in rows \ {r}, q.by # 0
          PROVE  q.by \in Attempts /\ q.item \in Items /\ CreatedOnce(q)'
      BY <3>4, OnceStays DEF Records, RecordsFit, RowsFit
    <3>5. QED
      BY <2>1, <2>2, <3>2, <3>3, <3>4 DEF RowsFit
  <2>3. CASE r.by # 0
    <3>1. CreatedOnce(r) /\ CreatedOnce(r)' /\ r.by \in Attempts
      BY <2>3, OnceStays DEF Records, RecordsFit, RowsFit
    <3>2. CreatedOnce(t)'
      BY <3>1, <1>3 DEF CreatedOnce
    <3>3. ASSUME NEW q \in rows \ {r}, q.by = 0 PROVE FoundBefore(q)'
      <4>1. FoundBefore(q)
        BY <3>3 DEF Records, RecordsFit, RowsFit
      <4>2. QED
        BY <1>3, <2>3, <4>1 DEF FoundBefore
    <3>4. ASSUME NEW q \in rows \ {r}, q.by # 0
          PROVE  q.by \in Attempts /\ q.item \in Items /\ CreatedOnce(q)'
      BY <3>4, OnceStays DEF Records, RecordsFit, RowsFit
    <3>5. QED
      BY <2>1, <2>3, <3>1, <3>2, <3>3, <3>4, <1>4 DEF RowsFit
  <2>4. QED
    BY <2>2, <2>3
<1>6. /\ OwnerKey(a, i) \in Keys \cup {NoKey}
      /\ Owner[i] # "none" => OwnerKey(a, i)[1] = Owner[i]
  BY TakenIs, OwnerKeyIs
<1>7. Refer'
  BY <1>2, <1>6 DEF Records, Refer
<1>8. OwnersInPlace'
  BY <1>6 DEF Records, OwnersInPlace
<1>9. \A s \in rows' : \E q \in rows : q.item = s.item /\ q.by = s.by
  OBVIOUS
<1>10. MapsFit(a)' /\ Listed(a)'
  BY <1>2, <1>4, <1>9, TakesMap
<1>11. PhaseFits(a)'
  BY <1>4, TakesPhase
<1>12. OnlyOwn(a)
  BY TakesOnlyOwn
<1>13. \A s \in rows' : RowFields \subseteq DOMAIN s
  BY DEF Records, Formed
<1>14. QED
  BY <1>2, <1>5, <1>7, <1>8, <1>9, <1>10, <1>11, <1>12, <1>13, StepKeeps

-----------------------------------------------------------------------------
(* Definitions and groups.                                                   *)

LEMMA DefsKeep ==
  ASSUME Records, Alone', NEW a \in Attempts, Running(a), applySchemaDefDecisions(a)
  PROVE  Records'
<1>1. /\ HandlersStay /\ plan' = plan /\ links' = links /\ blobFiles' = blobFiles
      /\ jobs[a].pc = "defs"
  BY DEF applySchemaDefDecisions
<1>2. /\ DOMAIN jobs = Attempts /\ JobFields \subseteq DOMAIN jobs[a] /\ DOMAIN jobs[a].ids = Items
      /\ jobs[a].mutated \in BOOLEAN
  BY DEF Records, Formed, Alone, Shaped
<1>3. /\ "todo" \in DOMAIN jobs[a] /\ "ids" \in DOMAIN jobs[a] /\ "mutated" \in DOMAIN jobs[a]
  BY <1>2 DEF JobFields
<1>4. PICK i \in jobs[a].todo :
        \/ /\ SameDef(i) # {}
           /\ \E r \in SameDef(i) :
                jobs' = [jobs EXCEPT ![a].todo = @ \ {i}, ![a].ids[i] = Key(r)]
           /\ UNCHANGED rows
        \/ /\ SameDef(i) = {}
           /\ rows' = rows \cup {Row(i, a, NoKey, "none")}
           /\ jobs' = [jobs EXCEPT ![a].todo = @ \ {i}, ![a].ids[i] = <<i, a>>, ![a].mutated = TRUE]
  BY DEF applySchemaDefDecisions
<1>5. /\ i \in Named \cup {n \in NoteTypes : chosen.createsTypes} /\ ~Mapped(a, i)
      /\ i \notin Owned /\ i \notin Media
  BY <1>1, AtWork, Apart DEF PhaseFits, Owned
<1>6. CASE SameDef(i) # {}
  <2>1. PICK r \in SameDef(i) :
          jobs' = [jobs EXCEPT ![a].todo = @ \ {i}, ![a].ids[i] = Key(r)]
    BY <1>4, <1>6
  <2>2. r \in rows /\ r.item = i
    BY <2>1 DEF SameDef, Matches
  <2> DEFINE k == Key(r)
  <2>3. jobs' = [jobs EXCEPT ![a].todo = @ \ {i}, ![a].ids[i] = k]
    BY <2>1
  <2> HIDE DEF k
  <2>4. /\ jobs'[a].todo = jobs[a].todo \ {i} /\ jobs'[a].ids = [jobs[a].ids EXCEPT ![i] = k]
        /\ jobs'[a].pc = jobs[a].pc /\ jobs'[a].skipped = jobs[a].skipped
        /\ jobs'[a].created = jobs[a].created /\ jobs'[a].mutated = jobs[a].mutated
        /\ jobs'[a].safe = jobs[a].safe /\ jobs'[a].decisions = jobs[a].decisions
        /\ JobFields \subseteq DOMAIN jobs'[a]
        /\ \A b \in Attempts \ {a} : jobs'[b] = jobs[b]
    BY <2>3, <1>2, <1>3
  <2>5. Takes(a, i, k)
    BY <1>1, <1>2, <2>4 DEF Takes
  <2>6. rows' = rows
    BY <1>4, <1>6
  <2>7. QED
    BY <1>1, <2>2, <2>4, <2>5, <2>6, FindsKeeps DEF k
<1>7. CASE SameDef(i) = {}
  <2>1. /\ rows' = rows \cup {Row(i, a, NoKey, "none")}
        /\ jobs' = [jobs EXCEPT ![a].todo = @ \ {i}, ![a].ids[i] = <<i, a>>, ![a].mutated = TRUE]
    BY <1>4, <1>7
  <2>2. /\ jobs'[a].todo = jobs[a].todo \ {i} /\ jobs'[a].ids = [jobs[a].ids EXCEPT ![i] = <<i, a>>]
        /\ jobs'[a].pc = jobs[a].pc /\ jobs'[a].skipped = jobs[a].skipped
        /\ jobs'[a].created = jobs[a].created /\ jobs'[a].mutated = TRUE
        /\ jobs'[a].safe = jobs[a].safe /\ jobs'[a].decisions = jobs[a].decisions
        /\ JobFields \subseteq DOMAIN jobs'[a]
        /\ \A b \in Attempts \ {a} : jobs'[b] = jobs[b]
    BY <2>1, <1>2, <1>3
  <2>3. Takes(a, i, <<i, a>>)
    BY <1>1, <2>2 DEF Takes
  <2>4. \A r \in rows : r.item # i
    BY <1>5, <1>7, Absent
  <2>5. QED
    <3>1. NoKey = IF i \in Owned THEN OwnerKey(a, i) ELSE NoKey
      BY <1>5
    <3>2. jobs'[a].created = IF i \in Owned THEN jobs[a].created \cup {<<i, a>>} ELSE jobs[a].created
      BY <1>5, <2>2
    <3>3. rows' = rows \cup {Row(i, a, NoKey, "none")}
      BY <2>1
    <3>4. i \in Media => i \in Carried /\ "none" = HashOf[i]
      BY <1>5
    <3>5. jobs'[a].mutated /\ jobs'[a].skipped = jobs[a].skipped
      BY <2>2
    <3>6. QED
      BY <1>1, <2>3, <2>4, <3>1, <3>2, <3>3, <3>4, <3>5, AddsKeeps
<1>8. QED
  BY <1>6, <1>7

LEMMA AdoptedIs ==
  ASSUME Records, NEW a \in Attempts, NEW r \in rows
  PROVE  LET t == Adopted(a, r) IN
         /\ RowFields \subseteq DOMAIN t /\ t.item = r.item /\ t.by = r.by /\ t.path = r.path
         /\ t.hash = r.hash
         /\ t.owner = r.owner \/ (t.owner = OwnerKey(a, r.item) /\ t.owner # NoKey)
<1>1. RowFields \subseteq DOMAIN r
  BY DEF Records, Formed
<1>2. "owner" \in DOMAIN r
  BY <1>1 DEF RowFields
<1> DEFINE o == OwnerKey(a, r.item)
<1>3. Adopted(a, r) = IF o = NoKey THEN r ELSE [r EXCEPT !.owner = o]
  BY DEF Adopted
<1> HIDE DEF o
<1>4. CASE o = NoKey
  BY <1>1, <1>3, <1>4
<1>5. CASE o # NoKey
  <2>1. LET t == [r EXCEPT !.owner = o] IN
        /\ DOMAIN t = DOMAIN r /\ t.item = r.item /\ t.by = r.by /\ t.path = r.path
        /\ t.hash = r.hash /\ t.owner = o
    BY <1>2
  <2>2. QED
    BY <1>1, <1>3, <1>5, <2>1 DEF o
<1>6. QED
  BY <1>4, <1>5

LEMMA GroupsKeep ==
  ASSUME Records, Alone', NEW a \in Attempts, Running(a), applyGroups(a)
  PROVE  Records'
<1>1. /\ HandlersStay /\ plan' = plan /\ links' = links /\ blobFiles' = blobFiles
      /\ jobs[a].pc = "groups"
  BY DEF applyGroups
<1>2. /\ DOMAIN jobs = Attempts /\ JobFields \subseteq DOMAIN jobs[a] /\ DOMAIN jobs[a].ids = Items
      /\ jobs[a].mutated \in BOOLEAN /\ jobs[a].decisions = chosen
  BY AtWork DEF Records, Formed, Alone, Shaped
<1>3. /\ "skipped" \in DOMAIN jobs[a] /\ "ids" \in DOMAIN jobs[a] /\ "mutated" \in DOMAIN jobs[a]
      /\ "created" \in DOMAIN jobs[a]
  BY <1>2 DEF JobFields
<1>4. PICK g \in Reached(a) :
       \/ /\ Matches(g) = {}
          /\ rows' = rows \cup {Row(g, a, OwnerKey(a, g), "none")}
          /\ jobs' = [jobs EXCEPT ![a].ids[g] = <<g, a>>, ![a].created = @ \cup {<<g, a>>},
                                  ![a].mutated = TRUE]
       \/ /\ jobs[a].decisions.guidPolicy = "skip"
          /\ \E r \in Matches(g) :
               jobs' = [jobs EXCEPT ![a].ids[g] = Key(r), ![a].skipped = @ \cup {g}]
          /\ UNCHANGED rows
       \/ /\ jobs[a].decisions.guidPolicy # "skip"
          /\ \E r \in Matches(g) :
               /\ rows' = (rows \ {r}) \cup {Adopted(a, r)}
               /\ jobs' = [jobs EXCEPT ![a].ids[g] = Key(r), ![a].mutated = TRUE]
  BY DEF applyGroups
<1>5. g \in Groups /\ g \in Owned /\ g \notin Media /\ ~Mapped(a, g)
  BY Apart DEF Reached, Owned
<1>6. CASE /\ Matches(g) = {}
           /\ rows' = rows \cup {Row(g, a, OwnerKey(a, g), "none")}
           /\ jobs' = [jobs EXCEPT ![a].ids[g] = <<g, a>>, ![a].created = @ \cup {<<g, a>>},
                                   ![a].mutated = TRUE]
  <2>1. /\ jobs'[a].ids = [jobs[a].ids EXCEPT ![g] = <<g, a>>]
        /\ jobs'[a].pc = jobs[a].pc /\ jobs'[a].skipped = jobs[a].skipped
        /\ jobs'[a].created = jobs[a].created \cup {<<g, a>>} /\ jobs'[a].mutated = TRUE
        /\ jobs'[a].safe = jobs[a].safe /\ jobs'[a].decisions = jobs[a].decisions
        /\ JobFields \subseteq DOMAIN jobs'[a]
        /\ \A b \in Attempts \ {a} : jobs'[b] = jobs[b]
    BY <1>6, <1>2, <1>3
  <2>2. Takes(a, g, <<g, a>>)
    BY <1>1, <2>1 DEF Takes
  <2>3. \A r \in rows : r.item # g
    BY <1>5, <1>6, Absent
  <2>4. QED
    <3>1. OwnerKey(a, g) = IF g \in Owned THEN OwnerKey(a, g) ELSE NoKey
      BY <1>5
    <3>2. jobs'[a].created = IF g \in Owned THEN jobs[a].created \cup {<<g, a>>} ELSE jobs[a].created
      BY <1>5, <2>1
    <3>3. rows' = rows \cup {Row(g, a, OwnerKey(a, g), "none")}
      BY <1>6
    <3>4. g \in Media => g \in Carried /\ "none" = HashOf[g]
      BY <1>5
    <3>5. jobs'[a].mutated /\ jobs'[a].skipped = jobs[a].skipped
      BY <2>1
    <3>6. QED
      BY <1>1, <2>2, <2>3, <3>1, <3>2, <3>3, <3>4, <3>5, AddsKeeps
<1>7. CASE /\ jobs[a].decisions.guidPolicy = "skip"
           /\ \E r \in Matches(g) :
                jobs' = [jobs EXCEPT ![a].ids[g] = Key(r), ![a].skipped = @ \cup {g}]
           /\ UNCHANGED rows
  <2>1. PICK r \in Matches(g) :
          jobs' = [jobs EXCEPT ![a].ids[g] = Key(r), ![a].skipped = @ \cup {g}]
    BY <1>7
  <2>2. r \in rows /\ r.item = g
    BY <2>1 DEF Matches
  <2> DEFINE k == Key(r)
  <2>3. jobs' = [jobs EXCEPT ![a].ids[g] = k, ![a].skipped = @ \cup {g}]
    BY <2>1
  <2> HIDE DEF k
  <2>4. /\ jobs'[a].ids = [jobs[a].ids EXCEPT ![g] = k]
        /\ jobs'[a].pc = jobs[a].pc /\ jobs'[a].skipped = jobs[a].skipped \cup {g}
        /\ jobs'[a].created = jobs[a].created /\ jobs'[a].mutated = jobs[a].mutated
        /\ jobs'[a].safe = jobs[a].safe /\ jobs'[a].decisions = jobs[a].decisions
        /\ JobFields \subseteq DOMAIN jobs'[a]
        /\ \A b \in Attempts \ {a} : jobs'[b] = jobs[b]
    BY <2>3, <1>2, <1>3
  <2>5. Takes(a, g, k)
    BY <1>1, <1>2, <2>4 DEF Takes
  <2>6. r.by = 0
    BY <1>2, <1>5, <1>7, <2>2, SkipsNoneOfItsOwn
  <2>7. QED
    BY <1>1, <1>7, <2>2, <2>4, <2>5, <2>6, FindsKeeps DEF k
<1>8. CASE /\ jobs[a].decisions.guidPolicy # "skip"
           /\ \E r \in Matches(g) :
                /\ rows' = (rows \ {r}) \cup {Adopted(a, r)}
                /\ jobs' = [jobs EXCEPT ![a].ids[g] = Key(r), ![a].mutated = TRUE]
  <2>1. PICK r \in Matches(g) :
          /\ rows' = (rows \ {r}) \cup {Adopted(a, r)}
          /\ jobs' = [jobs EXCEPT ![a].ids[g] = Key(r), ![a].mutated = TRUE]
    BY <1>8
  <2>2. r \in rows /\ r.item = g
    BY <2>1 DEF Matches
  <2> DEFINE k == Key(r)
             t == Adopted(a, r)
  <2>3. jobs' = [jobs EXCEPT ![a].ids[g] = k, ![a].mutated = TRUE] /\ rows' = (rows \ {r}) \cup {t}
    BY <2>1
  <2>4. /\ RowFields \subseteq DOMAIN t /\ t.item = r.item /\ t.by = r.by /\ t.path = r.path
        /\ t.hash = r.hash
        /\ t.owner = r.owner \/ (t.owner = OwnerKey(a, g) /\ t.owner # NoKey)
    BY <2>2, AdoptedIs
  <2> HIDE DEF k, t
  <2>5. /\ jobs'[a].ids = [jobs[a].ids EXCEPT ![g] = k]
        /\ jobs'[a].pc = jobs[a].pc /\ jobs'[a].skipped = jobs[a].skipped
        /\ jobs'[a].created = jobs[a].created /\ jobs'[a].mutated = TRUE
        /\ jobs'[a].safe = jobs[a].safe /\ jobs'[a].decisions = jobs[a].decisions
        /\ JobFields \subseteq DOMAIN jobs'[a]
        /\ \A b \in Attempts \ {a} : jobs'[b] = jobs[b]
    BY <2>3, <1>2, <1>3
  <2>6. Takes(a, g, k)
    BY <1>1, <2>5 DEF Takes
  <2>7. QED
    <3>1. rows' = (rows \ {r}) \cup {t} /\ r \in rows /\ r.item = g /\ Takes(a, g, Key(r))
      BY <2>2, <2>3, <2>6 DEF k
    <3>2. \A l \in links' : l \in links \/ l \subseteq Keys
      BY <1>1
    <3>3. /\ jobs'[a].skipped = jobs[a].skipped /\ jobs[a].created \subseteq jobs'[a].created
          /\ jobs'[a].created \subseteq jobs[a].created \cup {Key(r)}
      BY <2>5
    <3>4. QED
      BY <1>5, <2>4, <3>1, <3>2, <3>3, SetsKeeps
<1>9. QED
  BY <1>4, <1>6, <1>7, <1>8

-----------------------------------------------------------------------------
(* Resources.                                                                *)

\* The record of an attempt that is done with an item.
LEMMA DoneIs ==
  ASSUME Records, NEW a \in Attempts, NEW i
  PROVE  LET j == Done(a, i) IN
         /\ DOMAIN j = DOMAIN jobs[a] /\ JobFields \subseteq DOMAIN j
         /\ j.todo = jobs[a].todo \ {i} /\ j.pc = jobs[a].pc /\ j.ids = jobs[a].ids
         /\ j.skipped = jobs[a].skipped /\ j.created = jobs[a].created
         /\ j.mutated = jobs[a].mutated /\ j.safe = jobs[a].safe
         /\ j.decisions = jobs[a].decisions /\ j.copy = jobs[a].copy /\ j.blob = jobs[a].blob
<1>1. JobFields \subseteq DOMAIN jobs[a]
  BY DEF Records, Formed
<1>2. "todo" \in DOMAIN jobs[a]
  BY <1>1 DEF JobFields
<1>3. QED
  BY <1>1, <1>2 DEF Done

\* The record with an item that it knows.
LEMMA WithId ==
  ASSUME NEW d, JobFields \subseteq DOMAIN d, NEW i, NEW k, NEW j, j = [d EXCEPT !.ids[i] = k]
  PROVE  /\ DOMAIN j = DOMAIN d /\ JobFields \subseteq DOMAIN j /\ j.ids = [d.ids EXCEPT ![i] = k]
         /\ j.todo = d.todo /\ j.pc = d.pc /\ j.skipped = d.skipped /\ j.created = d.created
         /\ j.mutated = d.mutated /\ j.safe = d.safe /\ j.decisions = d.decisions
         /\ j.copy = d.copy
<1>1. "ids" \in DOMAIN d
  BY DEF JobFields
<1>2. QED
  BY <1>1

LEMMA WritesOne ==
  ASSUME Records, NEW a \in Attempts, NEW job, JobFields \subseteq DOMAIN job,
         jobs' = [jobs EXCEPT ![a] = job], HandlersStay
  PROVE  jobs'[a] = job /\ \A b \in Attempts \ {a} : jobs'[b] = jobs[b]
<1>1. "pc" \in DOMAIN job /\ Shaped /\ handlers' = handlers
  BY DEF JobFields, Records, Alone, HandlersStay
<1>2. QED
  BY <1>1, OneChanges

LEMMA CollideKeeps ==
  ASSUME Records, Alone', NEW a \in Attempts, Running(a), jobs[a].pc = "resources",
         NEW x \in jobs[a].todo, NEW r \in Matches(x), CollideByGUID(a, x, r),
         HandlersStay, plan' = plan, blobFiles' = blobFiles, links' = links
  PROVE  Records'
<1> DEFINE k == Key(r)
           j == [Done(a, x) EXCEPT !.ids[x] = k]
           skips == [j EXCEPT !.skipped = @ \cup {x}]
           merges == [j EXCEPT !.mutated = TRUE]
           lists == [j EXCEPT !.mutated = TRUE, !.created = @ \cup {k}]
           copies == CopyAfter(x, r, lists)
           t == Adopted(a, r)
           u == [t EXCEPT !.hash = HashOf[x]]
<1>1. /\ jobs[a].decisions = chosen /\ jobs[a].mutated \in BOOLEAN
      /\ x \in Media /\ x \in Owned /\ ~Mapped(a, x)
      /\ r \in rows /\ r.item = x
  BY AtWork DEF Records, Formed, Matches, PhaseFits, Owned
<1>2. \/ chosen.guidPolicy = "skip" /\ jobs' = [jobs EXCEPT ![a] = skips] /\ rows' = rows
      \/ jobs' = [jobs EXCEPT ![a] = merges] /\ rows' = (rows \ {r}) \cup {t}
      \/ jobs' = [jobs EXCEPT ![a] = copies] /\ rows' = (rows \ {r}) \cup {u}
  BY <1>1, Zenon DEF CollideByGUID
<1> DEFINE d == Done(a, x)
<1>3. /\ JobFields \subseteq DOMAIN d
      /\ d.todo = jobs[a].todo \ {x} /\ d.pc = jobs[a].pc /\ d.ids = jobs[a].ids
      /\ d.skipped = jobs[a].skipped /\ d.created = jobs[a].created
      /\ d.mutated = jobs[a].mutated /\ d.safe = jobs[a].safe
      /\ d.decisions = jobs[a].decisions
  BY DoneIs
<1>4. /\ "ids" \in DOMAIN d /\ "skipped" \in DOMAIN d /\ "mutated" \in DOMAIN d
      /\ "created" \in DOMAIN d /\ "pc" \in DOMAIN d /\ "copy" \in DOMAIN d
  BY <1>3 DEF JobFields
<1>5. j = [d EXCEPT !.ids[x] = k]
  OBVIOUS
<1> HIDE DEF d
<1>6. /\ DOMAIN j = DOMAIN d /\ j.ids = [jobs[a].ids EXCEPT ![x] = k]
      /\ j.todo = jobs[a].todo \ {x} /\ j.pc = jobs[a].pc
      /\ j.skipped = jobs[a].skipped /\ j.created = jobs[a].created
      /\ j.mutated = jobs[a].mutated /\ j.safe = jobs[a].safe
      /\ j.decisions = jobs[a].decisions
  <2> HIDE DEF j, k
  <2>1. QED
    BY <1>3, <1>5, WithId
<1> HIDE DEF j
<1>7. CASE chosen.guidPolicy = "skip" /\ jobs' = [jobs EXCEPT ![a] = skips] /\ rows' = rows
  <2>1. /\ JobFields \subseteq DOMAIN skips /\ skips.ids = [jobs[a].ids EXCEPT ![x] = k]
        /\ skips.todo = jobs[a].todo \ {x} /\ skips.pc = jobs[a].pc
        /\ skips.skipped = jobs[a].skipped \cup {x} /\ skips.created = jobs[a].created
        /\ skips.mutated = jobs[a].mutated /\ skips.safe = jobs[a].safe
        /\ skips.decisions = jobs[a].decisions
    BY <1>3, <1>4, <1>6
  <2> HIDE DEF skips, k
  <2>2. Takes(a, x, k) /\ jobs'[a] = skips
    <3>1. jobs'[a] = skips /\ \A b \in Attempts \ {a} : jobs'[b] = jobs[b]
      BY <1>7, <2>1, WritesOne
    <3>2. QED
      BY <1>1, <2>1, <3>1 DEF Takes
  <2>3. r.by = 0
    BY <1>1, <1>7, SkipsNoneOfItsOwn
  <2>4. QED
    BY <1>1, <1>7, <2>1, <2>2, <2>3, FindsKeeps DEF k
<1>8. /\ RowFields \subseteq DOMAIN t /\ t.item = r.item /\ t.by = r.by /\ t.path = r.path
      /\ t.hash = r.hash
      /\ t.owner = r.owner \/ (t.owner = OwnerKey(a, x) /\ t.owner # NoKey)
  BY <1>1, AdoptedIs
<1> HIDE DEF t
<1>9. CASE jobs' = [jobs EXCEPT ![a] = merges] /\ rows' = (rows \ {r}) \cup {t}
  <2>1. /\ JobFields \subseteq DOMAIN merges /\ merges.ids = [jobs[a].ids EXCEPT ![x] = k]
        /\ merges.todo = jobs[a].todo \ {x} /\ merges.pc = jobs[a].pc
        /\ merges.skipped = jobs[a].skipped /\ merges.created = jobs[a].created
        /\ merges.mutated = TRUE /\ merges.safe = jobs[a].safe
        /\ merges.decisions = jobs[a].decisions
    BY <1>3, <1>4, <1>6
  <2> HIDE DEF merges, k
  <2>2. Takes(a, x, k) /\ jobs'[a] = merges
    <3>1. jobs'[a] = merges /\ \A b \in Attempts \ {a} : jobs'[b] = jobs[b]
      BY <1>9, <2>1, WritesOne
    <3>2. QED
      BY <1>1, <2>1, <3>1 DEF Takes
  <2>3. Takes(a, x, Key(r)) /\ rows' = (rows \ {r}) \cup {t} /\ \A l \in links' : l \in links \/ l \subseteq Keys
    BY <1>9, <2>2 DEF k
  <2>4. /\ jobs'[a].skipped = jobs[a].skipped /\ jobs[a].created \subseteq jobs'[a].created
        /\ jobs'[a].created \subseteq jobs[a].created \cup {Key(r)}
    BY <2>1, <2>2
  <2>5. QED
    BY <1>1, <1>8, <2>3, <2>4, SetsKeeps
<1>10. CASE jobs' = [jobs EXCEPT ![a] = copies] /\ rows' = (rows \ {r}) \cup {u}
  <2>1. /\ JobFields \subseteq DOMAIN lists /\ lists.ids = [jobs[a].ids EXCEPT ![x] = k]
        /\ lists.todo = jobs[a].todo \ {x}
        /\ lists.skipped = jobs[a].skipped /\ lists.created = jobs[a].created \cup {k}
        /\ lists.mutated = TRUE /\ lists.safe = jobs[a].safe
        /\ lists.decisions = jobs[a].decisions /\ "pc" \in DOMAIN lists /\ "copy" \in DOMAIN lists
    BY <1>3, <1>4, <1>6
  <2> HIDE DEF lists
  <2>2. /\ JobFields \subseteq DOMAIN copies /\ copies.ids = [jobs[a].ids EXCEPT ![x] = k]
        /\ copies.todo = jobs[a].todo \ {x} /\ copies.pc = "copying"
        /\ copies.skipped = jobs[a].skipped /\ copies.created = jobs[a].created \cup {k}
        /\ copies.mutated = TRUE /\ copies.safe = jobs[a].safe
        /\ copies.decisions = jobs[a].decisions
    BY <2>1 DEF CopyAfter
  <2>3. /\ RowFields \subseteq DOMAIN u /\ u.item = r.item /\ u.by = r.by /\ u.path = r.path
        /\ u.hash = HashOf[x] /\ u.owner = t.owner
    <3>1. "hash" \in DOMAIN t
      BY <1>8 DEF RowFields
    <3>2. QED
      BY <1>8, <3>1
  <2> HIDE DEF copies, k, u
  <2>4. Takes(a, x, k) /\ jobs'[a] = copies
    <3>1. jobs'[a] = copies /\ \A b \in Attempts \ {a} : jobs'[b] = jobs[b]
      BY <1>10, <2>2, WritesOne
    <3>2. QED
      BY <1>1, <2>2, <3>1 DEF Takes
  <2>5. Takes(a, x, Key(r)) /\ rows' = (rows \ {r}) \cup {u} /\ \A l \in links' : l \in links \/ l \subseteq Keys
    BY <1>10, <2>4 DEF k
  <2>6. /\ jobs'[a].skipped = jobs[a].skipped /\ jobs[a].created \subseteq jobs'[a].created
        /\ jobs'[a].created \subseteq jobs[a].created \cup {Key(r)}
    BY <2>2, <2>4 DEF k
  <2>7. u.owner = r.owner \/ (u.owner = OwnerKey(a, x) /\ u.owner # NoKey)
    BY <1>8, <2>3
  <2>8. QED
    BY <1>1, <2>3, <2>5, <2>6, <2>7, SetsKeeps
<1>11. QED
  BY <1>2, <1>7, <1>9, <1>10

\* A resource that is taken by its hash is another one's row: its own would be found by
\* its GUID, or could not be created twice.
LEMMA ReuseKeeps ==
  ASSUME Records, Alone', NEW a \in Attempts, Running(a), jobs[a].pc = "resources",
         NEW x \in jobs[a].todo, Matches(x) = {}, ReuseByHash(a, x),
         HandlersStay, plan' = plan, blobFiles' = blobFiles, links' = links
  PROVE  Records'
<1> DEFINE d == Done(a, x)
<1>1. x \in Media /\ x \in Owned /\ ~Mapped(a, x) /\ jobs[a].mutated \in BOOLEAN
  BY AtWork DEF Records, Formed, PhaseFits, Owned
<1>2. /\ JobFields \subseteq DOMAIN d
      /\ d.todo = jobs[a].todo \ {x} /\ d.pc = jobs[a].pc /\ d.ids = jobs[a].ids
      /\ d.skipped = jobs[a].skipped /\ d.created = jobs[a].created
      /\ d.mutated = jobs[a].mutated /\ d.safe = jobs[a].safe
      /\ d.decisions = jobs[a].decisions
  BY DoneIs
<1>3. rows' = rows
  BY DEF ReuseByHash
<1>4. CASE jobs' = [jobs EXCEPT ![a] = Done(a, x)]
  <2> HIDE DEF d
  <2>1. jobs'[a] = d /\ \A b \in Attempts \ {a} : jobs'[b] = jobs[b]
    BY <1>2, <1>4, OneChanges DEF Records, Alone, Shaped, d
  <2>2. OnlyOwn(a) /\ jobs'[a].pc = "resources"
    BY <1>1, <1>2, <2>1 DEF OnlyOwn, Records, Formed
  <2>3. PhaseFits(a)'
    <3>1. /\ \A i : Mapped(a, i)' <=> Mapped(a, i)
          /\ \A i : OwnerMapped(a, i)' <=> OwnerMapped(a, i)
          /\ RetrySafe(chosen)' = RetrySafe(chosen) /\ chosen' = chosen
      BY <1>2, <1>3, <2>1, Unmoved DEF HandlersStay
    <3>2. PhaseFits(a) /\ ~Completed(a)' /\ Running(a)'
      BY <2>2, AtWork DEF Completed, Running, Ended
    <3>3. QED
      BY <1>2, <2>1, <2>2, <3>1, <3>2 DEF PhaseFits
  <2>4. plan' # "ready"
    BY AtWork
  <2>5. QED
    BY <1>2, <1>3, <2>1, <2>2, <2>3, <2>4, RowlessKeeps DEF Early
<1>5. CASE \E r \in SameHash(x) :
            jobs' = [jobs EXCEPT ![a] = [Done(a, x) EXCEPT !.ids[x] = Key(r), !.skipped = @ \cup {x}]]
  <2>1. PICK r \in SameHash(x) :
          jobs' = [jobs EXCEPT ![a] = [Done(a, x) EXCEPT !.ids[x] = Key(r), !.skipped = @ \cup {x}]]
    BY <1>5
  <2>2. r \in rows /\ r.item # x
    BY <1>1, Absent DEF SameHash
  <2> DEFINE k == Key(r)
             skips == [d EXCEPT !.ids[x] = k, !.skipped = @ \cup {x}]
  <2>3. jobs' = [jobs EXCEPT ![a] = skips]
    BY <2>1
  <2> HIDE DEF d, k
  <2>4. "ids" \in DOMAIN d /\ "skipped" \in DOMAIN d
    BY <1>2 DEF JobFields
  <2>5. /\ JobFields \subseteq DOMAIN skips /\ skips.ids = [jobs[a].ids EXCEPT ![x] = k]
        /\ skips.todo = jobs[a].todo \ {x} /\ skips.pc = jobs[a].pc
        /\ skips.skipped = jobs[a].skipped \cup {x} /\ skips.created = jobs[a].created
        /\ skips.mutated = jobs[a].mutated /\ skips.safe = jobs[a].safe
        /\ skips.decisions = jobs[a].decisions
    BY <1>2, <2>4
  <2> HIDE DEF skips
  <2>6. Takes(a, x, k) /\ jobs'[a] = skips
    <3>1. jobs'[a] = skips /\ \A b \in Attempts \ {a} : jobs'[b] = jobs[b]
      BY <2>3, <2>5, WritesOne
    <3>2. QED
      BY <1>1, <2>5, <3>1 DEF Takes
  <2>7. QED
    BY <1>1, <1>3, <2>2, <2>5, <2>6, FindsKeeps DEF k
<1>6. QED
  BY <1>4, <1>5 DEF ReuseByHash

\* A row that is created below the owner's, in the phases of resources and notes.
LEMMA CreatesKeep ==
  ASSUME Records, Alone', NEW a \in Attempts, Running(a), jobs[a].pc \in {"resources", "notes"},
         NEW i \in jobs[a].todo, i \in Media => i \in Carried, Matches(i) = {},
         NEW h, i \in Media => h = HashOf[i],
         rows' = rows \cup {Row(i, a, OwnerKey(a, i), h)},
         jobs' = [jobs EXCEPT ![a] = [Done(a, i) EXCEPT
                    !.ids[i] = <<i, a>>, !.created = @ \cup {<<i, a>>}, !.mutated = TRUE]],
         HandlersStay, plan' = plan, blobFiles' = blobFiles, links' = links
  PROVE  Records'
<1> DEFINE d == Done(a, i)
           job == [d EXCEPT !.ids[i] = <<i, a>>, !.created = @ \cup {<<i, a>>}, !.mutated = TRUE]
<1>1. i \in Owned /\ ~Mapped(a, i)
  BY AtWork DEF PhaseFits, Owned
<1>2. /\ JobFields \subseteq DOMAIN d
      /\ d.todo = jobs[a].todo \ {i} /\ d.pc = jobs[a].pc /\ d.ids = jobs[a].ids
      /\ d.skipped = jobs[a].skipped /\ d.created = jobs[a].created
      /\ d.mutated = jobs[a].mutated /\ d.safe = jobs[a].safe
      /\ d.decisions = jobs[a].decisions
  BY DoneIs
<1>3. jobs' = [jobs EXCEPT ![a] = job]
  OBVIOUS
<1> HIDE DEF d
<1>4. "ids" \in DOMAIN d /\ "created" \in DOMAIN d /\ "mutated" \in DOMAIN d
  BY <1>2 DEF JobFields
<1>5. /\ JobFields \subseteq DOMAIN job /\ job.ids = [jobs[a].ids EXCEPT ![i] = <<i, a>>]
      /\ job.todo = jobs[a].todo \ {i} /\ job.pc = jobs[a].pc
      /\ job.skipped = jobs[a].skipped /\ job.created = jobs[a].created \cup {<<i, a>>}
      /\ job.mutated = TRUE /\ job.safe = jobs[a].safe
      /\ job.decisions = jobs[a].decisions
  BY <1>2, <1>4
<1> HIDE DEF job
<1>6. Takes(a, i, <<i, a>>) /\ jobs'[a] = job
  <2>1. jobs'[a] = job /\ \A b \in Attempts \ {a} : jobs'[b] = jobs[b]
    BY <1>3, <1>5, WritesOne
  <2>2. QED
    BY <1>5, <2>1 DEF Takes
<1>7. \A r \in rows : r.item # i
  BY <1>1, Absent
<1>8. OwnerKey(a, i) = IF i \in Owned THEN OwnerKey(a, i) ELSE NoKey
  BY <1>1
<1>9. jobs'[a].created = IF i \in Owned THEN jobs[a].created \cup {<<i, a>>} ELSE jobs[a].created
  BY <1>1, <1>5, <1>6
<1>10. jobs'[a].mutated /\ jobs'[a].skipped = jobs[a].skipped
  BY <1>5, <1>6
<1>11. QED
  BY <1>6, <1>7, <1>8, <1>9, <1>10, AddsKeeps

LEMMA ResourcesKeep ==
  ASSUME Records, Alone', NEW a \in Attempts, Running(a), applyResources(a)
  PROVE  Records'
<1>1. /\ HandlersStay /\ links' = links /\ blobFiles' = blobFiles
      /\ jobs[a].pc = "resources" /\ jobs[a].mutated \in BOOLEAN
  BY DEF applyResources, Records, Formed
<1>2. PICK x \in jobs[a].todo :
        \/ Fail(a) /\ UNCHANGED rows
        \/ /\ plan' = plan
           /\ \/ \E r \in Matches(x) : CollideByGUID(a, x, r)
              \/ Matches(x) = {} /\ (ReuseByHash(a, x) \/ CreateResource(a, x))
  BY DEF applyResources
<1>3. CASE Fail(a) /\ UNCHANGED rows
  BY <1>1, <1>3, FailKeeps DEF Fail
<1>4. CASE plan' = plan /\ \E r \in Matches(x) : CollideByGUID(a, x, r)
  BY <1>1, <1>4, CollideKeeps
<1>5. CASE plan' = plan /\ Matches(x) = {} /\ ReuseByHash(a, x)
  BY <1>1, <1>5, ReuseKeeps
<1>6. CASE plan' = plan /\ Matches(x) = {} /\ CreateResource(a, x)
  <2>1. /\ x \in Carried /\ rows' = rows \cup {Row(x, a, OwnerKey(a, x), HashOf[x])}
        /\ jobs' = [jobs EXCEPT ![a] = [Done(a, x) EXCEPT
                      !.ids[x] = <<x, a>>, !.created = @ \cup {<<x, a>>}, !.mutated = TRUE]]
    BY <1>6 DEF CreateResource
  <2>2. QED
    BY <1>1, <1>6, <2>1, CreatesKeep
<1>7. QED
  BY <1>2, <1>3, <1>4, <1>5, <1>6

-----------------------------------------------------------------------------
(* Notes, and every step of an attempt.                                      *)

\* A note that is there already: kept, or merged with its links.
LEMMA NoteFoundKeeps ==
  ASSUME Records, Alone', NEW a \in Attempts, Running(a), jobs[a].pc = "notes",
         NEW n \in jobs[a].todo, NEW r \in Matches(n),
         HandlersStay, plan' = plan, blobFiles' = blobFiles,
         \/ /\ chosen.guidPolicy = "skip" /\ rows' = rows /\ links' = links
            /\ jobs' = [jobs EXCEPT ![a] = [Done(a, n) EXCEPT !.ids[n] = Key(r), !.skipped = @ \cup {n}]]
         \/ /\ rows' = (rows \ {r}) \cup {Adopted(a, r)}
            /\ jobs' = [jobs EXCEPT ![a] = [Done(a, n) EXCEPT !.ids[n] = Key(r), !.mutated = TRUE]]
            /\ \A l \in links' : l \in links \/ l \in NoteLinks(a, n, r)
  PROVE  Records'
<1> DEFINE d == Done(a, n)
           k == Key(r)
           skips == [d EXCEPT !.ids[n] = k, !.skipped = @ \cup {n}]
           merges == [d EXCEPT !.ids[n] = k, !.mutated = TRUE]
           t == Adopted(a, r)
<1>1. /\ n \in Notes /\ n \in Owned /\ n \notin Media /\ ~Mapped(a, n)
      /\ jobs[a].mutated \in BOOLEAN /\ r \in rows /\ r.item = n
  BY AtWork, Apart DEF Records, Formed, Matches, PhaseFits, Owned
<1>2. /\ JobFields \subseteq DOMAIN d
      /\ d.todo = jobs[a].todo \ {n} /\ d.pc = jobs[a].pc /\ d.ids = jobs[a].ids
      /\ d.skipped = jobs[a].skipped /\ d.created = jobs[a].created
      /\ d.mutated = jobs[a].mutated /\ d.safe = jobs[a].safe
      /\ d.decisions = jobs[a].decisions
  BY DoneIs
<1>3. \/ chosen.guidPolicy = "skip" /\ rows' = rows /\ links' = links /\ jobs' = [jobs EXCEPT ![a] = skips]
      \/ /\ rows' = (rows \ {r}) \cup {t} /\ jobs' = [jobs EXCEPT ![a] = merges]
         /\ \A l \in links' : l \in links \/ l \in NoteLinks(a, n, r)
  OBVIOUS
<1>4. "ids" \in DOMAIN d /\ "skipped" \in DOMAIN d /\ "mutated" \in DOMAIN d
  BY <1>2 DEF JobFields
<1> HIDE DEF d, k
<1>5. CASE chosen.guidPolicy = "skip" /\ rows' = rows /\ links' = links /\ jobs' = [jobs EXCEPT ![a] = skips]
  <2>1. /\ JobFields \subseteq DOMAIN skips /\ skips.ids = [jobs[a].ids EXCEPT ![n] = k]
        /\ skips.todo = jobs[a].todo \ {n} /\ skips.pc = jobs[a].pc
        /\ skips.skipped = jobs[a].skipped \cup {n} /\ skips.created = jobs[a].created
        /\ skips.mutated = jobs[a].mutated /\ skips.safe = jobs[a].safe
        /\ skips.decisions = jobs[a].decisions
    BY <1>2, <1>4
  <2> HIDE DEF skips
  <2>2. jobs'[a] = skips /\ \A b \in Attempts \ {a} : jobs'[b] = jobs[b]
    BY <1>5, <2>1, WritesOne
  <2>3. Takes(a, n, k)
    BY <1>1, <2>1, <2>2 DEF Takes
  <2>4. r.by = 0
    BY <1>1, <1>5, SkipsNoneOfItsOwn
  <2>5. QED
    BY <1>1, <1>5, <2>1, <2>2, <2>3, <2>4, FindsKeeps DEF k
<1>6. CASE /\ rows' = (rows \ {r}) \cup {t} /\ jobs' = [jobs EXCEPT ![a] = merges]
           /\ \A l \in links' : l \in links \/ l \in NoteLinks(a, n, r)
  <2>1. /\ RowFields \subseteq DOMAIN t /\ t.item = r.item /\ t.by = r.by /\ t.path = r.path
        /\ t.hash = r.hash
        /\ t.owner = r.owner \/ (t.owner = OwnerKey(a, n) /\ t.owner # NoKey)
    BY <1>1, AdoptedIs
  <2> HIDE DEF t
  <2>2. /\ JobFields \subseteq DOMAIN merges /\ merges.ids = [jobs[a].ids EXCEPT ![n] = k]
        /\ merges.todo = jobs[a].todo \ {n} /\ merges.pc = jobs[a].pc
        /\ merges.skipped = jobs[a].skipped /\ merges.created = jobs[a].created
        /\ merges.mutated = TRUE /\ merges.safe = jobs[a].safe
        /\ merges.decisions = jobs[a].decisions
    BY <1>2, <1>4
  <2> HIDE DEF merges
  <2>3. jobs'[a] = merges /\ \A b \in Attempts \ {a} : jobs'[b] = jobs[b]
    BY <1>6, <2>2, WritesOne
  <2>4. Takes(a, n, k)
    BY <1>1, <2>2, <2>3 DEF Takes
  <2>5. \A l \in NoteLinks(a, n, r) : l \subseteq Keys
    <3>1. Key(r) \in Keys
      BY <1>1 DEF Keys
    <3>2. \A e \in Refs : Mapped(a, e[2]) => jobs[a].ids[e[2]] \in Keys
      BY AtWork, ImportAssumption DEF MapsFit, Items
    <3>3. QED
      BY <3>1, <3>2 DEF NoteLinks
  <2>6. \A l \in links' : l \in links \/ l \subseteq Keys
    BY <1>6, <2>5
  <2>7. /\ jobs'[a].skipped = jobs[a].skipped /\ jobs[a].created \subseteq jobs'[a].created
        /\ jobs'[a].created \subseteq jobs[a].created \cup {Key(r)}
    BY <2>2, <2>3
  <2>8. rows' = (rows \ {r}) \cup {t} /\ r \in rows /\ r.item = n /\ Takes(a, n, Key(r))
    BY <1>1, <1>6, <2>4 DEF k
  <2>9. QED
    BY <1>1, <2>1, <2>6, <2>7, <2>8, SetsKeeps
<1>7. QED
  BY <1>3, <1>5, <1>6

LEMMA NotesKeep ==
  ASSUME Records, Alone', NEW a \in Attempts, Running(a), applyNotes(a)
  PROVE  Records'
<1>1. /\ HandlersStay /\ blobFiles' = blobFiles
      /\ jobs[a].pc = "notes" /\ jobs[a].mutated \in BOOLEAN /\ jobs[a].decisions = chosen
  BY AtWork DEF applyNotes, Records, Formed
<1>2. PICK n \in jobs[a].todo :
        \/ Fail(a) /\ UNCHANGED <<rows, links>>
        \/ /\ Matches(n) = {} /\ plan' = plan /\ links' = links
           /\ rows' = rows \cup {Row(n, a, OwnerKey(a, n), "none")}
           /\ jobs' = [jobs EXCEPT ![a] = [Done(a, n) EXCEPT
                         !.ids[n] = <<n, a>>, !.created = @ \cup {<<n, a>>}, !.mutated = TRUE]]
        \/ /\ jobs[a].decisions.guidPolicy = "skip" /\ plan' = plan /\ links' = links /\ rows' = rows
           /\ \E r \in Matches(n) :
                jobs' = [jobs EXCEPT ![a] = [Done(a, n) EXCEPT !.ids[n] = Key(r), !.skipped = @ \cup {n}]]
        \/ /\ plan' = plan
           /\ \E r \in Matches(n) :
                /\ rows' = (rows \ {r}) \cup {Adopted(a, r)}
                /\ jobs' = [jobs EXCEPT ![a] = [Done(a, n) EXCEPT !.ids[n] = Key(r), !.mutated = TRUE]]
                /\ \A l \in links' : l \in links \/ l \in NoteLinks(a, n, r)
  BY DEF applyNotes
<1>3. n \in Notes /\ n \notin Media
  BY <1>1, AtWork, Apart DEF PhaseFits
<1>4. CASE Fail(a) /\ UNCHANGED <<rows, links>>
  BY <1>1, <1>4, FailKeeps DEF Fail
<1>5. CASE /\ Matches(n) = {} /\ plan' = plan /\ links' = links
           /\ rows' = rows \cup {Row(n, a, OwnerKey(a, n), "none")}
           /\ jobs' = [jobs EXCEPT ![a] = [Done(a, n) EXCEPT
                         !.ids[n] = <<n, a>>, !.created = @ \cup {<<n, a>>}, !.mutated = TRUE]]
  <2>1. jobs[a].pc \in {"resources", "notes"} /\ (n \in Media => n \in Carried)
        /\ (n \in Media => "none" = HashOf[n])
    BY <1>1, <1>3
  <2>2. QED
    BY <1>1, <1>5, <2>1, CreatesKeep
<1>6. CASE /\ jobs[a].decisions.guidPolicy = "skip" /\ plan' = plan /\ links' = links /\ rows' = rows
           /\ \E r \in Matches(n) :
                jobs' = [jobs EXCEPT ![a] = [Done(a, n) EXCEPT !.ids[n] = Key(r), !.skipped = @ \cup {n}]]
  BY <1>1, <1>6, NoteFoundKeeps
<1>7. CASE /\ plan' = plan
           /\ \E r \in Matches(n) :
                /\ rows' = (rows \ {r}) \cup {Adopted(a, r)}
                /\ jobs' = [jobs EXCEPT ![a] = [Done(a, n) EXCEPT !.ids[n] = Key(r), !.mutated = TRUE]]
                /\ \A l \in links' : l \in links \/ l \in NoteLinks(a, n, r)
  BY <1>1, <1>7, NoteFoundKeeps
<1>8. QED
  BY <1>2, <1>4, <1>5, <1>6, <1>7

LEMMA WorkKeepsRecords ==
  ASSUME Records, Alone', NEW a \in Attempts, Work(a)
  PROVE  Records'
<1>1. Running(a)
  BY EveryWorkStep DEF Records, Alone, Worked
<1>2. QED
  BY <1>1, BlobStepsKeep, DefsKeep, PhaseEndsKeep, GroupsKeep, ResourcesKeep, NotesKeep, LinksKeep,
     FailuresKeep, LastStepsKeep DEF Work

LEMMA RecordsNext ==
  SameDecisions /\ Records /\ [ImportNext]_importVars => Records'
<1> SUFFICES ASSUME SameDecisions, Records, [ImportNext]_importVars PROVE Records'
  OBVIOUS
<1>1. Alone'
  BY AloneNext DEF Records
<1>2. CASE DeleteImport
  BY <1>1, <1>2, DeleteKeepsRecords
<1>3. CASE ImportCrash
  BY <1>1, <1>3, CrashKeepsRecords
<1>4. CASE \E c \in Handlers : Handle(c)
  BY <1>1, <1>4, LoadsKeepsRecords, ConsumeKeepsRecords, SubmitKeepsRecords DEF Handle
<1>5. CASE \E a \in Attempts : Work(a)
  BY <1>1, <1>5, WorkKeepsRecords
<1>6. CASE UNCHANGED importVars
  <2>1. /\ rows' = rows /\ links' = links /\ guided' = guided /\ jobs' = jobs /\ chosen' = chosen
        /\ attempts' = attempts /\ blobFiles' = blobFiles /\ handlers' = handlers /\ plan' = plan
    BY <1>6 DEF importVars
  <2>2. Formed' /\ Decided' /\ CreatedListed'
    BY <2>1 DEF Records, Formed, RecordsFit, Decided, Running, CreatedListed, Keys
  <2>3. ASSUME NEW b \in Attempts PROVE MapsFit(b)' /\ PhaseFits(b)'
    BY <2>1, MapStays, PhaseStays DEF Records, RecordsFit, Keys, Completed
  <2>4. ASSUME NEW r \in rows, r.by # 0 PROVE CreatedOnce(r)'
    <3>1. CreatedOnce(r)
      BY <2>4 DEF Records, RecordsFit, RowsFit
    <3>2. QED
      BY <2>1, <2>4, <3>1, CreatedAgain DEF CreatedOnce, Running, Consumed
  <2>5. RowsFit' /\ Refer' /\ OwnersInPlace'
    BY <2>1, <2>4, RowsStand, OwnersStay
  <2>6. QED
    BY <1>1, <2>2, <2>3, <2>5 DEF Records, RecordsFit
<1>7. QED
  BY <1>2, <1>3, <1>4, <1>5, <1>6 DEF ImportNext

-----------------------------------------------------------------------------
(* The rows have their bytes: what that says, and where it begins.           *)

\* The attempt at work, or the next one, still comes to a resource that a row is of.
Awaited(i) ==
  LET j == jobs[attempts] IN
  /\ chosen.guidPolicy = "replace" /\ Due(i)
  /\ attempts > 0 /\ j.pc \notin {"notes", "linking", "completed"}
  /\ j.pc \in {"resources", "copying"} =>
       i \in j.todo \/ (j.pc = "copying" /\ j.copy = <<i, 0>>)

\* The file of a row has bytes, those of its hash or those it had.
Stored(r) ==
  r.item \in Media \cup {"bystander"} =>
    blobFiles[r.path] \in Blobs /\ (blobFiles[r.path] = r.hash \/ Unwritten(r))

LEMMA FilesFitIs ==
  FilesFit <=> /\ \A b \in Blobs : FileFits(b)
               /\ \A a \in Attempts : BlobsFit(a)
               /\ \A r \in rows : Stored(r)
BY DEF FilesFit, Stored

LEMMA UnwrittenIs ==
  ASSUME NEW r
  PROVE  Unwritten(r) <=> /\ r.by = 0 /\ r.item \in Media /\ r.hash = HashOf[r.item]
                          /\ HasBlob(r.item) /\ Awaited(r.item)
BY KeyIs DEF Unwritten, Awaited

LEMMA FilesBytes ==
  ASSUME FilesFit
  PROVE  BytesMatch /\ \A b \in Blobs : blobFiles[b] \in Blobs \cup {"partial", "none"}
<1>1. ASSUME NEW a \in Attempts, Completed(a), NEW r \in rows, r.item \in Media \cup {"bystander"}
      PROVE  blobFiles[r.path] = r.hash
  <2>1. ~Unwritten(r)
    BY <1>1 DEF Unwritten, Completed
  <2>2. QED
    BY <1>1, <2>1 DEF FilesFit
<1>2. ASSUME NEW b \in Blobs PROVE blobFiles[b] \in Blobs \cup {"partial", "none"}
  <2>1. FileFits(b)
    BY DEF FilesFit
  <2>2. \A x \in Media : HashOf[x] \in Blobs
    BY Apart
  <2>3. QED
    BY <2>1, <2>2 DEF FileFits
<1>3. QED
  BY <1>1, <1>2 DEF BytesMatch

LEMMA FilesInit == ImportInit /\ FilesUnshared => FilesFit
<1> SUFFICES ASSUME ImportInit PROVE FilesFit
  OBVIOUS
<1>1. /\ \A a \in Attempts : jobs[a] = NoJob
      /\ blobFiles = [b \in Blobs |-> IF \E r \in rows : r.path = b THEN b ELSE "none"]
  BY DEF ImportInit
<1>2. PICK prior \in Priors, other \in {"none"} \cup Blobs :
        /\ prior \subseteq guided
        /\ rows = {Before(i) : i \in prior} \cup
                  (IF other = "none" THEN {} ELSE {Row("bystander", 0, NoKey, other)})
  BY DEF ImportInit
<1>3. \A b \in Blobs : FileFits(b)
  BY <1>1 DEF FileFits
<1>4. ASSUME NEW a \in Attempts PROVE BlobsFit(a)
  <2>1. jobs[a].pc = "none" /\ \A i \in Items : jobs[a].ids[i] = NoKey
    BY <1>1 DEF NoJob
  <2>2. Groups \subseteq Items
    BY DEF Items, Owned
  <2>3. QED
    BY <2>1, <2>2 DEF BlobsFit, Mapped
<1>5. ASSUME NEW r \in rows PROVE Stored(r)
  <2>1. CASE \E i \in prior : r = Before(i)
    <3>1. PICK i \in prior : r = Before(i)
      BY <2>1
    <3>2. i \in Items
      BY ImportAssumption
    <3>3. i # "bystander"
      BY <3>2, Apart
    <3>4. r.item = i /\ r.path = r.hash /\ (i \in Media => r.hash = OldHash)
      BY <3>1 DEF Before, Row
    <3>5. OldHash \in Blobs
      BY DEF Blobs
    <3>6. QED
      BY <1>1, <3>3, <3>4, <3>5 DEF Stored
  <2>2. CASE other # "none" /\ r = Row("bystander", 0, NoKey, other)
    <3>1. r.path = other /\ r.hash = other /\ other \in Blobs
      BY <2>2 DEF Row
    <3>2. QED
      BY <1>1, <3>1 DEF Stored
  <2>3. QED
    BY <1>2, <2>1, <2>2
<1>6. QED
  BY <1>3, <1>4, <1>5, FilesFitIs

-----------------------------------------------------------------------------
(* Where no file and no row changes.                                         *)

LEMMA UnwrittenStays ==
  ASSUME NEW r, Unwritten(r), chosen' = chosen, attempts' = attempts,
         LET j == jobs[attempts] jj == jobs'[attempts] IN
         /\ jj.pc \notin {"notes", "linking", "completed"}
         /\ jj.pc \in {"resources", "copying"} => jj.pc = j.pc /\ jj.todo = j.todo /\ jj.copy = j.copy
  PROVE  Unwritten(r)'
BY DEF Unwritten, Due

\* An attempt that is over asks of the files only what it has mapped.
LEMMA OverFits ==
  ASSUME NEW b \in Attempts, BlobsFit(b), ~Running(b)', jobs'[b].ids = jobs[b].ids, chosen' = chosen
  PROVE  BlobsFit(b)'
<1>1. jobs'[b].pc \notin {"blobs", "writing", "defs", "groups", "resources", "copying"}
  BY DEF Running, Ended
<1>2. \A g \in Groups : Mapped(b, g)' => g \in Walked(chosen)'
  BY DEF BlobsFit, Mapped, Walked
<1>3. QED
  BY <1>1, <1>2 DEF BlobsFit

LEMMA FilesStand ==
  ASSUME FilesFit, rows' = rows, blobFiles' = blobFiles,
         \A b \in Blobs : Writing(b) => Writing(b)',
         \A a \in Attempts : BlobsFit(a)',
         \A r \in rows : Unwritten(r) => Unwritten(r)'
  PROVE  FilesFit'
<1>1. ASSUME NEW b \in Blobs PROVE FileFits(b)'
  <2>1. FileFits(b)
    BY DEF FilesFit
  <2>2. QED
    BY <2>1 DEF FileFits
<1>2. ASSUME NEW r \in rows PROVE Stored(r)'
  BY DEF FilesFit, Stored
<1>3. QED
  BY <1>1, <1>2, FilesFitIs DEF FilesFit, Stored

\* Nothing that the files are for changes.
LEMMA FilesApart ==
  ASSUME FilesFit, rows' = rows, blobFiles' = blobFiles, jobs' = jobs, chosen' = chosen,
         attempts' = attempts
  PROVE  FilesFit'
<1>1. \A b \in Blobs : Writing(b) => Writing(b)'
  BY DEF Writing
<1>2. ASSUME NEW a \in Attempts PROVE BlobsFit(a)'
  <2>1. BlobsFit(a)
    BY DEF FilesFit
  <2>2. QED
    BY <2>1 DEF BlobsFit, Mapped, Walked
<1>3. \A r \in rows : Unwritten(r) => Unwritten(r)'
  BY DEF Unwritten, Due
<1>4. QED
  BY <1>1, <1>2, <1>3, FilesStand

\* An attempt that has not begun has mapped nothing.
LEMMA NothingMapped ==
  ASSUME NEW b \in Attempts, jobs'[b].ids = NoJob.ids,
         jobs'[b].pc \notin {"blobs", "writing", "defs", "groups", "resources", "copying"}
  PROVE  BlobsFit(b)'
<1>1. \A g \in Groups : ~Mapped(b, g)'
  BY NoJobIs DEF Mapped, Items, Owned
<1>2. QED
  BY <1>1 DEF BlobsFit

\* The first request brings the decisions that all attempts have: none has begun.
LEMMA LoadsKeepsFiles ==
  ASSUME Records, FilesFit, NEW c \in Handlers, NEW d \in Decisions, ApplyLoads(c, d)
  PROVE  FilesFit'
<1>1. /\ rows' = rows /\ blobFiles' = blobFiles /\ jobs' = jobs /\ attempts' = attempts
      /\ chosen' = IF chosen = NoDecisions THEN d ELSE chosen
  BY DEF ApplyLoads, Importing
<1>2. CASE chosen # NoDecisions
  BY <1>1, <1>2, FilesApart
<1>3. CASE chosen = NoDecisions
  <2>1. chosen \notin Decisions
    BY <1>3, Decides
  <2>2. \A b \in Attempts : jobs[b] = NoJob
    BY <2>1 DEF Records, RecordsFit, Decided
  <2>3. ASSUME NEW b \in Attempts PROVE BlobsFit(b)'
    BY <1>1, <2>2, NoJobIs, NothingMapped
  <2>4. \A r : ~Unwritten(r)
    BY <1>3 DEF Unwritten, NoDecisions
  <2>5. \A b \in Blobs : Writing(b) => Writing(b)'
    BY <1>1 DEF Writing
  <2>6. QED
    BY <1>1, <2>3, <2>4, <2>5, FilesStand
<1>4. QED
  BY <1>2, <1>3

LEMMA SubmitKeepsFiles ==
  ASSUME Records, FilesFit, NEW c \in Handlers, Submit(c)
  PROVE  FilesFit'
<1> DEFINE new == attempts + 1
           job == [NoJob EXCEPT !.pc = "loading", !.decisions = handlers[c].decisions]
<1>1. /\ rows' = rows /\ chosen' = chosen /\ attempts' = new /\ blobFiles' = blobFiles
      /\ jobs' = [jobs EXCEPT ![new] = job]
      /\ handlers[c].pc = "consumed" /\ attempts < MaxAttempts
  BY DEF Submit, Importing
<1>2. new \in Attempts /\ attempts \in Nat
  BY <1>1, Apart DEF Attempts, Records, Formed
<1>3. \A b \in Attempts : ~Running(b)
  BY <1>1 DEF Records, Alone, OneApply, Consumed
<1>4. job.ids = NoJob.ids /\ job.pc = "loading"
  <2>1. "pc" \in DOMAIN NoJob
    BY NoJobIs DEF JobFields
  <2>2. QED
    BY <2>1
<1>5. jobs'[new] = job /\ \A b \in Attempts \ {new} : jobs'[b] = jobs[b]
  BY <1>1, <1>2 DEF Records, Alone, Shaped
<1> HIDE DEF job
<1>6. ASSUME NEW b \in Attempts PROVE BlobsFit(b)'
  <2>1. CASE b = new
    BY <1>4, <1>5, <2>1, NothingMapped
  <2>2. CASE b # new
    <3>1. BlobsFit(b) /\ jobs'[b] = jobs[b] /\ ~Running(b)'
      BY <1>3, <1>5, <2>2 DEF FilesFit, Running
    <3>2. QED
      BY <1>1, <3>1, OverFits
  <2>3. QED
    BY <2>1, <2>2
<1>7. \A b \in Blobs : ~Writing(b)
  BY <1>3 DEF Writing, Running, Ended
<1>8. ASSUME NEW r \in rows, Unwritten(r) PROVE Unwritten(r)'
  <2>1. jobs'[attempts'].pc = "loading" /\ attempts' > 0
    BY <1>1, <1>2, <1>4, <1>5
  <2>2. QED
    BY <1>1, <1>8, <2>1 DEF Unwritten, Due
<1>9. QED
  BY <1>1, <1>6, <1>7, <1>8, FilesStand

\* A crash does not cut the writing of a blob short.
LEMMA CrashKeepsFiles ==
  ASSUME Records, FilesFit, WholeWrites, ImportCrash
  PROVE  FilesFit'
<1>1. /\ rows' = rows /\ chosen' = chosen /\ attempts' = attempts /\ blobFiles' = blobFiles
      /\ \A b \in Attempts : jobs[b].pc # "writing"
      /\ \A b \in Attempts : IF Running(b) THEN jobs'[b] = [jobs[b] EXCEPT !.pc = "lost"]
                             ELSE jobs'[b] = jobs[b]
  BY DEF ImportCrash
<1>2. ASSUME NEW b \in Attempts
      PROVE  /\ jobs'[b].ids = jobs[b].ids
             /\ jobs'[b].pc = "lost" \/ (jobs'[b] = jobs[b] /\ ~Running(b))
  <2>1. CASE Running(b)
    <3>1. jobs'[b] = [jobs[b] EXCEPT !.pc = "lost"]
      BY <1>1, <2>1
    <3>2. JobFields \subseteq DOMAIN jobs[b]
      BY DEF Records, Formed
    <3>3. "pc" \in DOMAIN jobs[b]
      BY <3>2 DEF JobFields
    <3>4. QED
      BY <3>1, <3>3
  <2>2. CASE ~Running(b)
    BY <1>1, <2>2
  <2>3. QED
    BY <2>1, <2>2
<1>3. ASSUME NEW b \in Attempts PROVE BlobsFit(b)'
  <2>1. BlobsFit(b) /\ ~Running(b)'
    BY <1>2 DEF FilesFit, Running, Ended
  <2>2. QED
    BY <1>1, <1>2, <2>1, OverFits
<1>4. ASSUME NEW r \in rows, Unwritten(r) PROVE Unwritten(r)'
  <2>1. attempts \in Attempts
    BY <1>4, Apart DEF Unwritten, Records, Formed, Attempts
  <2>2. CASE jobs'[attempts].pc = "lost"
    BY <1>1, <1>4, <2>2, UnwrittenStays
  <2>3. CASE jobs'[attempts] = jobs[attempts]
    BY <1>1, <1>4, <2>3 DEF Unwritten, Due
  <2>4. QED
    BY <1>2, <2>1, <2>2, <2>3
<1>5. \A b \in Blobs : ~Writing(b)
  BY <1>1 DEF Writing
<1>6. QED
  BY <1>1, <1>3, <1>4, <1>5, FilesStand

-----------------------------------------------------------------------------
(* The steps of an attempt.                                                  *)

\* Attempt a changes, no other does.
Only(a) ==
  /\ chosen' = chosen /\ attempts' = attempts
  /\ \A b \in Attempts \ {a} : jobs'[b] = jobs[b]

LEMMA WorkIsOnly ==
  ASSUME Records, NEW a \in Attempts, Work(a)
  PROVE  Running(a) /\ Only(a)
<1>1. Running(a) /\ \A b \in Attempts \ {a} : jobs'[b] = jobs[b]
  BY EveryWorkStep DEF Records, Alone, Worked
<1>2. chosen' = chosen /\ attempts' = attempts
  BY DEF Work, HandlersStay, Cancel, LoadImportPlan, OnBlob, WriteBlob, BlobFails, EndBlobs,
     applySchemaDefDecisions, EndDefs, applyGroups, EndGroups, applyResources, copyBlob, CopyFails,
     EndResources, applyNotes, EndNotes, applyM2MLinks, StatementFails, Complete
<1>3. QED
  BY <1>1, <1>2 DEF Only

LEMMA OnlyOneWrites ==
  ASSUME Records, NEW a \in Attempts, Running(a), NEW b, Writing(b)
  PROVE  jobs[a].pc = "writing" /\ jobs[a].blob = b
<1>1. PICK c \in Attempts : jobs[c].pc = "writing" /\ jobs[c].blob = b
  BY DEF Writing
<1>2. Running(c)
  BY <1>1 DEF Running, Ended
<1>3. QED
  BY <1>1, <1>2, AtWork

\* What a step of an attempt has to show of the files.
LEMMA StepFiles ==
  ASSUME Records, FilesFit, NEW a \in Attempts, Running(a), Only(a), BlobsFit(a)',
         \A b \in Blobs : FileFits(b)',
         \A r \in rows' : Stored(r)'
  PROVE  FilesFit'
<1>1. ASSUME NEW b \in Attempts PROVE BlobsFit(b)'
  <2>1. CASE b # a
    <3>1. BlobsFit(b) /\ jobs'[b] = jobs[b] /\ ~Running(b)' /\ chosen' = chosen
      BY <2>1, AtWork DEF FilesFit, Only, Running
    <3>2. QED
      BY <3>1, OverFits
  <2>2. QED
    BY <2>1
<1>2. QED
  BY <1>1 DEF FilesFit, Stored

\* A step of an attempt that changes no row and no file, and writes on if it was writing.
LEMMA RestStands ==
  ASSUME Records, FilesFit, NEW a \in Attempts, Running(a), Only(a),
         rows' = rows, blobFiles' = blobFiles, BlobsFit(a)',
         jobs[a].pc = "writing" => jobs'[a].pc = "writing" /\ jobs'[a].blob = jobs[a].blob,
         \A r \in rows : Unwritten(r) => Unwritten(r)'
  PROVE  FilesFit'
<1>1. ASSUME NEW b \in Blobs PROVE FileFits(b)'
  <2>1. Writing(b) => Writing(b)'
    BY OnlyOneWrites DEF Writing
  <2>2. FileFits(b)
    BY DEF FilesFit
  <2>3. QED
    BY <2>1, <2>2 DEF FileFits
<1>2. \A r \in rows' : Stored(r)'
  BY DEF FilesFit, Stored
<1>3. QED
  BY <1>1, <1>2, StepFiles

\* The end of an attempt that writes no blob: one that completes was linking.
LEMMA EndFiles ==
  ASSUME Records, FilesFit, NEW a \in Attempts, Running(a), Only(a),
         rows' = rows, blobFiles' = blobFiles, jobs[a].pc # "writing",
         jobs'[a].ids = jobs[a].ids,
         jobs'[a].pc = "failed" \/ (jobs'[a].pc = "completed" /\ jobs[a].pc = "linking")
  PROVE  FilesFit'
<1>1. BlobsFit(a)'
  <2>1. BlobsFit(a) /\ ~Running(a)' /\ chosen' = chosen
    BY DEF FilesFit, Running, Ended, Only
  <2>2. QED
    BY <2>1, OverFits
<1>2. ASSUME NEW r \in rows, Unwritten(r) PROVE Unwritten(r)'
  <2>1. jobs'[a].pc = "failed" /\ a = attempts
    BY <1>2, AtWork DEF Unwritten
  <2>2. QED
    BY <1>2, <2>1, UnwrittenStays DEF Only
<1>3. QED
  BY <1>1, <1>2, RestStands

LEMMA FailedIs ==
  ASSUME Records, NEW a \in Attempts, NEW m, FailWith(a, m)
  PROVE  jobs'[a].pc = "failed" /\ jobs'[a].ids = jobs[a].ids
<1> DEFINE job == [jobs[a] EXCEPT !.mutated = m]
<1>1. DOMAIN jobs = Attempts /\ JobFields \subseteq DOMAIN jobs[a]
  BY DEF Records, Formed, Alone, Shaped
<1>2. "pc" \in DOMAIN jobs[a] /\ "mutated" \in DOMAIN jobs[a]
  BY <1>1 DEF JobFields
<1>3. jobs' = [jobs EXCEPT ![a] = [job EXCEPT !.pc = "failed"]]
  BY DEF FailWith
<1>4. job.ids = jobs[a].ids /\ "pc" \in DOMAIN job
  BY <1>1, <1>2
<1> HIDE DEF job
<1>5. QED
  BY <1>1, <1>3, <1>4

LEMMA FailFiles ==
  ASSUME Records, FilesFit, NEW a \in Attempts, Running(a), Only(a), NEW m, FailWith(a, m),
         rows' = rows, blobFiles' = blobFiles, jobs[a].pc # "writing"
  PROVE  FilesFit'
BY FailedIs, EndFiles

-----------------------------------------------------------------------------
(* The blobs.                                                                *)

\* The path of a resource names a file.
LEMMA PathIsFile ==
  ASSUME Records, NEW r \in rows, r.item \in Media \cup {"bystander"}
  PROVE  r.path \in Blobs
<1>1. OldHash \in Blobs
  BY DEF Blobs
<1>2. CASE r.by = 0
  BY <1>1, <1>2 DEF Records, RecordsFit, RowsFit, FoundBefore
<1>3. CASE r.by # 0
  BY <1>3, Apart DEF Records, RecordsFit, RowsFit, CreatedOnce
<1>4. QED
  BY <1>2, <1>3

\* A file that is there when no blob is being written has the carried blob of its name:
\* no carried blob has the name of a file that was replaced by other bytes.
LEMMA ThereIsWhole ==
  ASSUME Records, FilesFit, NEW a \in Attempts, Running(a), jobs[a].pc # "writing",
         NEW y \in Carried, blobFiles[HashOf[y]] # "none"
  PROVE  blobFiles[HashOf[y]] = HashOf[y]
<1>1. HashOf[y] \in Blobs
  BY Apart
<1>2. FileFits(HashOf[y])
  BY <1>1 DEF FilesFit
<1>3. ~Writing(HashOf[y])
  BY OnlyOneWrites
<1>4. ASSUME NEW r \in rows, r.by = 0, r.item \in Media, HashOf[r.item] # OldHash, HashOf[y] = OldHash
      PROVE  FALSE
  BY <1>4 DEF Records, RecordsFit, RowsFit, FoundBefore
<1>5. QED
  BY <1>2, <1>3, <1>4 DEF FileFits

\* Before the rows are written, a step of the blobs leaves them unwritten.
LEMMA EarlyUnwritten ==
  ASSUME Records, NEW a \in Attempts, Running(a), Only(a),
         jobs'[a].pc \in {"blobs", "writing", "defs"}, NEW r \in rows, Unwritten(r)
  PROVE  Unwritten(r)'
<1>1. a = attempts
  BY AtWork
<1>2. QED
  BY <1>1, UnwrittenStays DEF Only

LEMMA SameMaps ==
  ASSUME FilesFit, NEW a \in Attempts, jobs'[a].ids = jobs[a].ids, chosen' = chosen
  PROVE  \A g \in Groups : Mapped(a, g)' => g \in Walked(chosen)'
<1>1. BlobsFit(a)
  BY DEF FilesFit
<1>2. QED
  BY <1>1 DEF BlobsFit, Mapped, Walked

LEMMA LoadFiles ==
  ASSUME Records, FilesFit, NEW a \in Attempts, Running(a), Only(a), LoadImportPlan(a)
  PROVE  FilesFit'
<1>1. rows' = rows /\ blobFiles' = blobFiles /\ jobs[a].pc = "loading"
  BY DEF LoadImportPlan
<1>2. CASE Fail(a)
  BY <1>1, <1>2, FailFiles DEF Fail
<1>3. CASE Advance(a, "blobs", {HashOf[x] : x \in Carried})
  <2>1. /\ jobs'[a].pc = "blobs" /\ jobs'[a].todo = {HashOf[x] : x \in Carried}
        /\ jobs'[a].ids = jobs[a].ids
    BY <1>3, Advanced
  <2>2. BlobsFit(a)'
    BY <2>1, SameMaps DEF BlobsFit, Only
  <2>3. QED
    BY <1>1, <2>1, <2>2, EarlyUnwritten, RestStands
<1>4. QED
  BY <1>2, <1>3 DEF LoadImportPlan

LEMMA BlobFailsFiles ==
  ASSUME Records, FilesFit, WholeWrites, NEW a \in Attempts, Running(a), Only(a), BlobFails(a)
  PROVE  FilesFit'
BY FailFiles DEF BlobFails, Fail

LEMMA EndBlobsFiles ==
  ASSUME Records, FilesFit, NEW a \in Attempts, Running(a), Only(a), EndBlobs(a)
  PROVE  FilesFit'
<1>1. rows' = rows /\ blobFiles' = blobFiles /\ jobs[a].pc = "blobs" /\ jobs[a].todo = {}
  BY DEF EndBlobs
<1>2. CASE Fail(a)
  BY <1>1, <1>2, FailFiles DEF Fail
<1>3. CASE ~Fail(a)
  <2>1. PICK safe, todo : jobs' = [jobs EXCEPT ![a].pc = "defs", ![a].safe = safe, ![a].todo = todo]
    BY <1>3 DEF EndBlobs
  <2>2. DOMAIN jobs = Attempts /\ JobFields \subseteq DOMAIN jobs[a]
    BY DEF Records, Formed, Alone, Shaped
  <2>3. "pc" \in DOMAIN jobs[a] /\ "safe" \in DOMAIN jobs[a] /\ "todo" \in DOMAIN jobs[a]
    BY <2>2 DEF JobFields
  <2>4. jobs'[a].pc = "defs" /\ jobs'[a].ids = jobs[a].ids
    BY <2>1, <2>2, <2>3
  <2>5. BlobsFit(a)
    BY DEF FilesFit
  <2>6. \A y \in Carried : blobFiles[HashOf[y]] = HashOf[y]
    BY <1>1, <2>5 DEF BlobsFit
  <2>7. BlobsFit(a)'
    BY <1>1, <2>4, <2>6, SameMaps DEF BlobsFit, Only
  <2>8. QED
    BY <1>1, <2>4, <2>7, EarlyUnwritten, RestStands
<1>4. QED
  BY <1>2, <1>3

LEMMA OnBlobFiles ==
  ASSUME Records, FilesFit, NEW a \in Attempts, Running(a), Only(a), OnBlob(a)
  PROVE  FilesFit'
<1>1. rows' = rows /\ jobs[a].pc = "blobs" /\ BlobsFit(a) /\ chosen' = chosen
  BY DEF OnBlob, FilesFit, Only
<1>2. PICK b \in jobs[a].todo :
        \/ Fail(a) /\ blobFiles' = blobFiles
        \/ blobFiles[b] # "none" /\ Advance(a, "blobs", jobs[a].todo \ {b}) /\ blobFiles' = blobFiles
        \/ /\ blobFiles[b] = "none"
           /\ jobs' = [jobs EXCEPT ![a].pc = "writing", ![a].blob = b, ![a].todo = @ \ {b}]
           /\ blobFiles' = [blobFiles EXCEPT ![b] = "partial"]
  BY DEF OnBlob
<1>3. PICK x \in Carried : b = HashOf[x]
  BY <1>1 DEF BlobsFit
<1>4. b \in Blobs /\ DOMAIN blobFiles = Blobs
  BY <1>3, Apart DEF Records, Formed
<1>5. CASE Fail(a) /\ blobFiles' = blobFiles
  BY <1>1, <1>5, FailFiles DEF Fail
<1>6. CASE blobFiles[b] # "none" /\ Advance(a, "blobs", jobs[a].todo \ {b}) /\ blobFiles' = blobFiles
  <2>1. /\ jobs'[a].pc = "blobs" /\ jobs'[a].todo = jobs[a].todo \ {b}
        /\ jobs'[a].ids = jobs[a].ids
    BY <1>6, Advanced
  <2>2. blobFiles[b] = b
    BY <1>1, <1>3, <1>6, ThereIsWhole
  <2>3. \A y \in Carried : blobFiles[HashOf[y]] = HashOf[y] \/ HashOf[y] \in jobs'[a].todo
    BY <1>1, <2>1, <2>2 DEF BlobsFit
  <2>4. BlobsFit(a)'
    BY <1>1, <1>6, <2>1, <2>3, SameMaps DEF BlobsFit
  <2>5. QED
    BY <1>1, <1>6, <2>1, <2>4, EarlyUnwritten, RestStands
<1>7. CASE /\ blobFiles[b] = "none"
           /\ jobs' = [jobs EXCEPT ![a].pc = "writing", ![a].blob = b, ![a].todo = @ \ {b}]
           /\ blobFiles' = [blobFiles EXCEPT ![b] = "partial"]
  <2>1. DOMAIN jobs = Attempts /\ JobFields \subseteq DOMAIN jobs[a]
    BY DEF Records, Formed, Alone, Shaped
  <2>2. "pc" \in DOMAIN jobs[a] /\ "blob" \in DOMAIN jobs[a] /\ "todo" \in DOMAIN jobs[a]
    BY <2>1 DEF JobFields
  <2>3. /\ jobs'[a].pc = "writing" /\ jobs'[a].blob = b /\ jobs'[a].todo = jobs[a].todo \ {b}
        /\ jobs'[a].ids = jobs[a].ids
    BY <1>7, <2>1, <2>2
  <2>4. blobFiles'[b] = "partial" /\ \A c \in Blobs \ {b} : blobFiles'[c] = blobFiles[c]
    BY <1>4, <1>7
  <2>5. BlobsFit(a)'
    <3>1. ASSUME NEW y \in Carried
          PROVE  blobFiles'[HashOf[y]] = HashOf[y] \/ HashOf[y] \in jobs'[a].todo \/ b = HashOf[y]
      BY <1>1, <2>3, <2>4, Apart DEF BlobsFit
    <3>2. QED
      BY <1>1, <1>4, <2>3, <2>4, <3>1, SameMaps DEF BlobsFit
  <2>6. ASSUME NEW c \in Blobs PROVE FileFits(c)'
    <3>1. CASE c = b
      BY <2>3, <2>4, <3>1 DEF FileFits, Writing
    <3>2. CASE c # b
      <4>1. FileFits(c) /\ ~Writing(c)
        BY <1>1, OnlyOneWrites DEF FilesFit
      <4>2. QED
        BY <1>1, <2>4, <3>2, <4>1 DEF FileFits
    <3>3. QED
      BY <3>1, <3>2
  <2>7. ASSUME NEW r \in rows PROVE Stored(r)'
    <3>1. SUFFICES ASSUME r.item \in Media \cup {"bystander"}
                   PROVE  blobFiles'[r.path] \in Blobs /\ (blobFiles'[r.path] = r.hash \/ Unwritten(r)')
      BY DEF Stored
    <3>2. blobFiles[r.path] \in Blobs /\ (blobFiles[r.path] = r.hash \/ Unwritten(r)) /\ r.path \in Blobs
      BY <3>1, PathIsFile DEF FilesFit
    <3>3. r.path # b
      BY <1>7, <3>2, Apart
    <3>4. QED
      BY <2>3, <2>4, <3>2, <3>3, EarlyUnwritten
  <2>8. QED
    BY <1>1, <2>5, <2>6, <2>7, StepFiles
<1>8. QED
  BY <1>2, <1>5, <1>6, <1>7

LEMMA WriteBlobFiles ==
  ASSUME Records, FilesFit, NEW a \in Attempts, Running(a), Only(a), WriteBlob(a)
  PROVE  FilesFit'
<1> DEFINE b == jobs[a].blob
<1>1. /\ rows' = rows /\ jobs[a].pc = "writing" /\ BlobsFit(a) /\ chosen' = chosen
      /\ jobs' = [jobs EXCEPT ![a].pc = "blobs", ![a].blob = "none"]
      /\ blobFiles' = [blobFiles EXCEPT ![b] = b]
  BY DEF WriteBlob, FilesFit, Only
<1>2. b \in Blobs /\ blobFiles[b] = "partial" /\ DOMAIN blobFiles = Blobs
  BY <1>1 DEF BlobsFit, Records, Formed
<1>3. DOMAIN jobs = Attempts /\ JobFields \subseteq DOMAIN jobs[a]
  BY DEF Records, Formed, Alone, Shaped
<1>4. "pc" \in DOMAIN jobs[a] /\ "blob" \in DOMAIN jobs[a]
  BY <1>3 DEF JobFields
<1>5. jobs'[a].pc = "blobs" /\ jobs'[a].todo = jobs[a].todo /\ jobs'[a].ids = jobs[a].ids
  BY <1>1, <1>3, <1>4
<1>6. blobFiles'[b] = b /\ \A c \in Blobs \ {b} : blobFiles'[c] = blobFiles[c]
  BY <1>1, <1>2
<1> HIDE DEF b
<1>7. BlobsFit(a)'
  <2>1. ASSUME NEW y \in Carried
        PROVE  blobFiles'[HashOf[y]] = HashOf[y] \/ HashOf[y] \in jobs'[a].todo
    BY <1>1, <1>5, <1>6, Apart DEF BlobsFit, b
  <2>2. jobs'[a].todo \subseteq {HashOf[y] : y \in Carried}
    BY <1>1, <1>5 DEF BlobsFit
  <2>3. QED
    BY <1>1, <1>5, <2>1, <2>2, SameMaps DEF BlobsFit
<1>8. ASSUME NEW c \in Blobs PROVE FileFits(c)'
  <2>1. CASE c = b
    BY <1>6, <2>1 DEF FileFits
  <2>2. CASE c # b
    <3>1. FileFits(c) /\ ~Writing(c)
      BY <2>2, OnlyOneWrites DEF FilesFit, b
    <3>2. QED
      BY <1>1, <1>6, <2>2, <3>1 DEF FileFits
  <2>3. QED
    BY <2>1, <2>2
<1>9. ASSUME NEW r \in rows PROVE Stored(r)'
  <2>1. SUFFICES ASSUME r.item \in Media \cup {"bystander"}
                 PROVE  blobFiles'[r.path] \in Blobs /\ (blobFiles'[r.path] = r.hash \/ Unwritten(r)')
    BY DEF Stored
  <2>2. blobFiles[r.path] \in Blobs /\ (blobFiles[r.path] = r.hash \/ Unwritten(r)) /\ r.path \in Blobs
    BY <2>1, PathIsFile DEF FilesFit
  <2>3. r.path # b
    BY <1>2, <2>2, Apart
  <2>4. QED
    BY <1>5, <1>6, <2>2, <2>3, EarlyUnwritten
<1>10. QED
  BY <1>1, <1>7, <1>8, <1>9, StepFiles

-----------------------------------------------------------------------------
(* The later phases, where carried blobs are on disk.                        *)

Late == {"defs", "groups", "resources", "copying"}

\* The blobs are on disk in these phases. A step of them that writes no file shows the
\* copy it has to make, what it has mapped, and its rows.
LEMMA LateFiles ==
  ASSUME Records, FilesFit, NEW a \in Attempts, Running(a), Only(a), blobFiles' = blobFiles,
         \/ jobs[a].pc \in Late
         \/ jobs[a].pc \in {"notes", "linking"} /\ jobs'[a].pc \notin Late,
         jobs'[a].pc \notin Early,
         jobs'[a].pc = "copying" =>
           \E r \in rows' : /\ Key(r) = jobs'[a].copy /\ r.item \in Media
                            /\ r.hash = HashOf[r.item] /\ HasBlob(r.item),
         \A g \in Groups : Mapped(a, g)' => g \in Walked(chosen),
         \A r \in rows : \E s \in rows' : s.item = r.item /\ s.by = r.by,
         \A r \in rows' : Stored(r)'
  PROVE  FilesFit'
<1>1. /\ BlobsFit(a) /\ chosen' = chosen /\ Walked(chosen)' = Walked(chosen)
      /\ jobs[a].pc \notin {"blobs", "writing"}
  BY DEF FilesFit, Only, Walked, Late
<1>2. BlobsFit(a)'
  <2>1. jobs'[a].pc \in Late => \A y \in Carried : blobFiles'[HashOf[y]] = HashOf[y]
    BY <1>1 DEF BlobsFit, Late
  <2>2. jobs'[a].pc = "copying" =>
          \E r \in rows' : /\ Key(r) = jobs'[a].copy /\ r.item \in Media
                           /\ r.hash = HashOf[r.item] /\ HasBlob(r.item)
    OBVIOUS
  <2>3. \A g \in Groups : Mapped(a, g)' => g \in Walked(chosen)'
    BY <1>1
  <2>4. jobs'[a].pc \notin {"blobs", "writing"}
    BY DEF Early
  <2>5. QED
    BY <2>1, <2>2, <2>3, <2>4 DEF BlobsFit, Late, HasBlob
<1>3. ASSUME NEW b \in Blobs PROVE FileFits(b)'
  <2>1. FileFits(b) /\ ~Writing(b)
    BY <1>1, OnlyOneWrites DEF FilesFit
  <2>2. CASE /\ b = OldHash
             /\ \E r \in rows : /\ r.by = 0 /\ r.item \in Media
                                /\ HashOf[r.item] # OldHash /\ blobFiles[b] = HashOf[r.item]
    <3>1. PICK r \in rows : /\ r.by = 0 /\ r.item \in Media
                            /\ HashOf[r.item] # OldHash /\ blobFiles[b] = HashOf[r.item]
      BY <2>2
    <3>2. PICK s \in rows' : s.item = r.item /\ s.by = r.by
      OBVIOUS
    <3>3. QED
      BY <2>2, <3>1, <3>2 DEF FileFits
  <2>3. CASE blobFiles[b] \in {"none", b}
    BY <2>3 DEF FileFits
  <2>4. QED
    BY <2>1, <2>2, <2>3 DEF FileFits
<1>4. QED
  BY <1>2, <1>3, StepFiles

LEMMA UnwrittenThen ==
  ASSUME NEW r, r.by = 0, r.item \in Media, r.hash = HashOf[r.item], HasBlob(r.item), Awaited(r.item)'
  PROVE  Unwritten(r)'
<1>1. Key(r) = <<r.item, 0>>
  BY DEF Key
<1>2. HasBlob(r.item)'
  BY DEF HasBlob
<1>3. chosen'.guidPolicy = "replace" /\ Due(r.item)'
  BY DEF Awaited
<1>4. attempts' > 0 /\ jobs'[attempts'].pc \notin {"notes", "linking", "completed"}
  BY DEF Awaited
<1>5. jobs'[attempts'].pc \in {"resources", "copying"} =>
        r.item \in jobs'[attempts'].todo
          \/ (jobs'[attempts'].pc = "copying" /\ jobs'[attempts'].copy = Key(r)')
  BY <1>1 DEF Awaited, Key
<1>6. QED
  BY <1>2, <1>3, <1>4, <1>5 DEF Unwritten

\* A row that is of the same resource and bytes as before.
LEMMA StoredStays ==
  ASSUME FilesFit, blobFiles' = blobFiles, NEW r, NEW s \in rows,
         r.item = s.item, r.by = s.by, r.hash = s.hash, r.path = s.path,
         r.item \in Media /\ Awaited(r.item) => Awaited(r.item)'
  PROVE  Stored(r)'
<1> SUFFICES ASSUME r.item \in Media \cup {"bystander"}
             PROVE  blobFiles'[r.path] \in Blobs /\ (blobFiles'[r.path] = r.hash \/ Unwritten(r)')
  BY DEF Stored
<1>1. blobFiles[s.path] \in Blobs /\ (blobFiles[s.path] = s.hash \/ Unwritten(s))
  BY DEF FilesFit
<1>2. Unwritten(s) => Unwritten(r)'
  <2>1. Unwritten(s) => /\ s.by = 0 /\ s.item \in Media /\ s.hash = HashOf[s.item]
                        /\ HasBlob(s.item) /\ Awaited(s.item)
    BY UnwrittenIs
  <2>2. ASSUME Unwritten(s) PROVE Unwritten(r)'
    BY <2>1, <2>2, UnwrittenThen
  <2>3. QED
    BY <2>2
<1>3. QED
  BY <1>1, <1>2

LEMMA AwaitedStays ==
  ASSUME Records, NEW a \in Attempts, Running(a), Only(a), NEW i, Awaited(i),
         jobs[a].pc \notin {"notes", "linking", "completed"} =>
           /\ jobs'[a].pc \notin {"notes", "linking", "completed"}
           /\ jobs'[a].pc \in {"resources", "copying"} =>
                i \in jobs'[a].todo \/ (jobs'[a].pc = "copying" /\ jobs'[a].copy = <<i, 0>>)
  PROVE  Awaited(i)'
<1>1. a = attempts /\ attempts' = attempts /\ chosen' = chosen
  BY AtWork DEF Only
<1>2. QED
  BY <1>1 DEF Awaited, Due, Walked

\* Rows of what is not a resource come and are written.
OthersWritten(a, i) ==
  \/ rows' = rows
  \/ \E o : rows' = rows \cup {Row(i, a, o, "none")}
  \/ \E r \in rows : \E t : rows' = (rows \ {r}) \cup {t} /\ r.item = i /\ t.item = i /\ t.by = r.by

LEMMA OthersFiles ==
  ASSUME Records, FilesFit, NEW a \in Attempts, Running(a), Only(a), blobFiles' = blobFiles,
         jobs[a].pc \in {"defs", "groups", "notes", "linking"}, jobs'[a].pc = jobs[a].pc,
         NEW i, i \notin Media \cup {"bystander"}, OthersWritten(a, i),
         \A g \in Groups : Mapped(a, g)' => g \in Walked(chosen)
  PROVE  FilesFit'
<1>1. \A r \in rows' : r \in rows \/ r.item = i
  BY DEF OthersWritten, Row
<1>2. ASSUME NEW r \in rows PROVE \E s \in rows' : s.item = r.item /\ s.by = r.by
  BY DEF OthersWritten
<1>3. ASSUME NEW r \in rows' PROVE Stored(r)'
  <2>1. CASE r \in rows
    <3>1. Awaited(r.item) => Awaited(r.item)'
      BY AwaitedStays
    <3>2. QED
      BY <2>1, <3>1, StoredStays
  <2>2. CASE r.item = i
    BY <2>2 DEF Stored
  <2>3. QED
    BY <1>1, <2>1, <2>2
<1>4. jobs'[a].pc \notin Early /\ jobs'[a].pc # "copying"
  BY DEF Early
<1>5. jobs[a].pc \in Late \/ (jobs[a].pc \in {"notes", "linking"} /\ jobs'[a].pc \notin Late)
  BY DEF Late
<1>6. QED
  BY <1>2, <1>3, <1>4, <1>5, LateFiles

\* A group that is reached is one that the walk comes to.
LEMMA ReachedIsWalked ==
  ASSUME FilesFit, NEW a \in Attempts, jobs[a].decisions = chosen, NEW g \in Reached(a)
  PROVE  g \in Walked(chosen)
<1>1. g \in Groups /\ g \notin chosen.excluded /\ (Owner[g] = "none" \/ Mapped(a, Owner[g]))
  BY DEF Reached
<1>2. g \in Owned
  BY <1>1 DEF Owned
<1>3. Owner[g] = "none" \/ Owner[g] \in Walked(chosen)
  BY <1>1, <1>2, Apart DEF FilesFit, BlobsFit
<1>4. ASSUME NEW S \in SUBSET Groups,
             \A h \in Groups \ chosen.excluded : Owner[h] = "none" \/ Owner[h] \in S => h \in S
      PROVE  g \in S
  <2>1. Owner[g] = "none" \/ Owner[g] \in S
    BY <1>3, <1>4 DEF Walked
  <2>2. QED
    BY <1>1, <1>4, <2>1
<1>5. QED
  BY <1>1, <1>4 DEF Walked

\* When the walk reaches no more, it has mapped all it comes to.
LEMMA WalkIsDone ==
  ASSUME NEW a \in Attempts, jobs[a].decisions = chosen, Reached(a) = {}, NEW g \in Walked(chosen)
  PROVE  Mapped(a, g)
<1> DEFINE S == {h \in Groups : Mapped(a, h)}
<1>1. ASSUME NEW h \in Groups \ chosen.excluded, Owner[h] = "none" \/ Owner[h] \in S
      PROVE  h \in S
  BY <1>1 DEF Reached
<1>2. S \in SUBSET Groups
  OBVIOUS
<1>3. g \in S
  BY <1>1, <1>2 DEF Walked
<1>4. QED
  BY <1>3

LEMMA DefsFiles ==
  ASSUME Records, FilesFit, NEW a \in Attempts, Running(a), Only(a), applySchemaDefDecisions(a)
  PROVE  FilesFit'
<1>1. jobs[a].pc = "defs" /\ blobFiles' = blobFiles /\ chosen' = chosen
  BY DEF applySchemaDefDecisions, Only
<1>2. DOMAIN jobs = Attempts /\ JobFields \subseteq DOMAIN jobs[a] /\ DOMAIN jobs[a].ids = Items
  BY DEF Records, Formed, Alone, Shaped
<1>3. "todo" \in DOMAIN jobs[a] /\ "ids" \in DOMAIN jobs[a] /\ "mutated" \in DOMAIN jobs[a]
  BY <1>2 DEF JobFields
<1>4. PICK i, k :
        /\ i \in jobs[a].todo
        /\ rows' = rows \/ rows' = rows \cup {Row(i, a, NoKey, "none")}
        /\ \/ jobs' = [jobs EXCEPT ![a].todo = @ \ {i}, ![a].ids[i] = k]
           \/ jobs' = [jobs EXCEPT ![a].todo = @ \ {i}, ![a].ids[i] = k, ![a].mutated = TRUE]
  BY DEF applySchemaDefDecisions
<1>5. i \in Named \cup NoteTypes
  BY <1>1, <1>4, AtWork DEF PhaseFits
<1>6. i \notin Media \cup {"bystander"} /\ i \notin Groups
  BY <1>5, Apart DEF Items, Owned
<1>7. jobs'[a].pc = "defs" /\ jobs'[a].ids = [jobs[a].ids EXCEPT ![i] = k]
  <2>1. CASE jobs' = [jobs EXCEPT ![a].todo = @ \ {i}, ![a].ids[i] = k]
    BY <1>1, <1>2, <1>3, <2>1
  <2>2. CASE jobs' = [jobs EXCEPT ![a].todo = @ \ {i}, ![a].ids[i] = k, ![a].mutated = TRUE]
    BY <1>1, <1>2, <1>3, <2>2
  <2>3. QED
    BY <1>4, <2>1, <2>2
<1>8. \A g \in Groups : Mapped(a, g)' => g \in Walked(chosen)
  <2>1. \A g \in Groups : jobs'[a].ids[g] = jobs[a].ids[g]
    BY <1>2, <1>6, <1>7 DEF Items, Owned
  <2>2. QED
    BY <2>1 DEF FilesFit, BlobsFit, Mapped
<1>9. OthersWritten(a, i)
  BY <1>4 DEF OthersWritten
<1>10. QED
  BY <1>1, <1>6, <1>7, <1>8, <1>9, OthersFiles

\* A merge or a replace of what is no resource.
LEMMA AdoptedOthers ==
  ASSUME Records, NEW a \in Attempts, NEW i, NEW r \in Matches(i),
         rows' = (rows \ {r}) \cup {Adopted(a, r)}
  PROVE  OthersWritten(a, i)
<1>1. r \in rows /\ r.item = i
  BY DEF Matches
<1>2. Adopted(a, r).item = r.item /\ Adopted(a, r).by = r.by
  BY <1>1, AdoptedIs
<1>3. QED
  BY <1>1, <1>2 DEF OthersWritten

LEMMA GroupsFiles ==
  ASSUME Records, FilesFit, NEW a \in Attempts, Running(a), Only(a), applyGroups(a)
  PROVE  FilesFit'
<1>1. jobs[a].pc = "groups" /\ blobFiles' = blobFiles /\ jobs[a].decisions = chosen
  BY AtWork DEF applyGroups
<1>2. DOMAIN jobs = Attempts /\ JobFields \subseteq DOMAIN jobs[a] /\ DOMAIN jobs[a].ids = Items
  BY DEF Records, Formed, Alone, Shaped
<1>3. /\ "skipped" \in DOMAIN jobs[a] /\ "ids" \in DOMAIN jobs[a] /\ "mutated" \in DOMAIN jobs[a]
      /\ "created" \in DOMAIN jobs[a]
  BY <1>2 DEF JobFields
<1>4. PICK g \in Reached(a) :
       \/ /\ Matches(g) = {}
          /\ rows' = rows \cup {Row(g, a, OwnerKey(a, g), "none")}
          /\ jobs' = [jobs EXCEPT ![a].ids[g] = <<g, a>>, ![a].created = @ \cup {<<g, a>>},
                                  ![a].mutated = TRUE]
       \/ /\ jobs[a].decisions.guidPolicy = "skip"
          /\ \E r \in Matches(g) :
               jobs' = [jobs EXCEPT ![a].ids[g] = Key(r), ![a].skipped = @ \cup {g}]
          /\ UNCHANGED rows
       \/ /\ jobs[a].decisions.guidPolicy # "skip"
          /\ \E r \in Matches(g) :
               /\ rows' = (rows \ {r}) \cup {Adopted(a, r)}
               /\ jobs' = [jobs EXCEPT ![a].ids[g] = Key(r), ![a].mutated = TRUE]
  BY DEF applyGroups
<1>5. g \in Groups /\ g \notin Media \cup {"bystander"}
  BY Apart DEF Reached, Items, Owned
<1>6. ASSUME NEW k, jobs'[a].pc = jobs[a].pc, jobs'[a].ids = [jobs[a].ids EXCEPT ![g] = k],
             OthersWritten(a, g)
      PROVE  FilesFit'
  <2>1. \A h \in Groups : h = g \/ jobs'[a].ids[h] = jobs[a].ids[h]
    BY <1>2, <1>6 DEF Items, Owned
  <2>2. g \in Walked(chosen)
    BY <1>1, ReachedIsWalked
  <2>3. \A h \in Groups : Mapped(a, h)' => h \in Walked(chosen)
    BY <2>1, <2>2 DEF FilesFit, BlobsFit, Mapped
  <2>4. QED
    BY <1>1, <1>5, <1>6, <2>3, OthersFiles
<1>7. CASE /\ rows' = rows \cup {Row(g, a, OwnerKey(a, g), "none")}
           /\ jobs' = [jobs EXCEPT ![a].ids[g] = <<g, a>>, ![a].created = @ \cup {<<g, a>>},
                                   ![a].mutated = TRUE]
  <2>1. jobs'[a].pc = jobs[a].pc /\ jobs'[a].ids = [jobs[a].ids EXCEPT ![g] = <<g, a>>]
    BY <1>2, <1>3, <1>7
  <2>2. OthersWritten(a, g)
    BY <1>7 DEF OthersWritten
  <2>3. QED
    BY <1>6, <2>1, <2>2
<1>8. CASE /\ \E r \in Matches(g) :
                jobs' = [jobs EXCEPT ![a].ids[g] = Key(r), ![a].skipped = @ \cup {g}]
           /\ UNCHANGED rows
  <2>1. PICK k : jobs' = [jobs EXCEPT ![a].ids[g] = k, ![a].skipped = @ \cup {g}]
    BY <1>8
  <2>2. jobs'[a].pc = jobs[a].pc /\ jobs'[a].ids = [jobs[a].ids EXCEPT ![g] = k]
    BY <1>2, <1>3, <2>1
  <2>3. OthersWritten(a, g)
    BY <1>8 DEF OthersWritten
  <2>4. QED
    BY <1>6, <2>2, <2>3
<1>9. CASE \E r \in Matches(g) :
             /\ rows' = (rows \ {r}) \cup {Adopted(a, r)}
             /\ jobs' = [jobs EXCEPT ![a].ids[g] = Key(r), ![a].mutated = TRUE]
  <2>1. PICK r \in Matches(g) :
          /\ rows' = (rows \ {r}) \cup {Adopted(a, r)}
          /\ jobs' = [jobs EXCEPT ![a].ids[g] = Key(r), ![a].mutated = TRUE]
    BY <1>9
  <2> DEFINE k == Key(r)
  <2>2. jobs' = [jobs EXCEPT ![a].ids[g] = k, ![a].mutated = TRUE]
    BY <2>1
  <2> HIDE DEF k
  <2>3. jobs'[a].pc = jobs[a].pc /\ jobs'[a].ids = [jobs[a].ids EXCEPT ![g] = k]
    BY <1>2, <1>3, <2>2
  <2>4. OthersWritten(a, g)
    BY <2>1, AdoptedOthers
  <2>5. QED
    BY <1>6, <2>3, <2>4
<1>10. QED
  BY <1>4, <1>7, <1>8, <1>9

LEMMA NotesFiles ==
  ASSUME Records, FilesFit, NEW a \in Attempts, Running(a), Only(a), applyNotes(a)
  PROVE  FilesFit'
<1>1. jobs[a].pc = "notes" /\ blobFiles' = blobFiles /\ HandlersStay
  BY DEF applyNotes
<1>2. PICK n \in jobs[a].todo :
        \/ Fail(a) /\ UNCHANGED rows
        \/ /\ rows' = rows \cup {Row(n, a, OwnerKey(a, n), "none")}
           /\ jobs' = [jobs EXCEPT ![a] = [Done(a, n) EXCEPT
                         !.ids[n] = <<n, a>>, !.created = @ \cup {<<n, a>>}, !.mutated = TRUE]]
        \/ /\ rows' = rows
           /\ \E r \in Matches(n) :
                jobs' = [jobs EXCEPT ![a] = [Done(a, n) EXCEPT !.ids[n] = Key(r), !.skipped = @ \cup {n}]]
        \/ \E r \in Matches(n) :
             /\ rows' = (rows \ {r}) \cup {Adopted(a, r)}
             /\ jobs' = [jobs EXCEPT ![a] = [Done(a, n) EXCEPT !.ids[n] = Key(r), !.mutated = TRUE]]
  BY DEF applyNotes
<1>3. n \in Notes
  BY <1>1, AtWork DEF PhaseFits
<1>4. n \notin Media \cup {"bystander"} /\ n \notin Groups
  BY <1>3, Apart DEF Items, Owned
<1> DEFINE d == Done(a, n)
<1>5. JobFields \subseteq DOMAIN d /\ d.pc = jobs[a].pc /\ d.ids = jobs[a].ids
  BY DoneIs
<1>6. "ids" \in DOMAIN d /\ "skipped" \in DOMAIN d /\ "mutated" \in DOMAIN d /\ "created" \in DOMAIN d
  BY <1>5 DEF JobFields
<1>7. ASSUME NEW k, jobs'[a].pc = jobs[a].pc, jobs'[a].ids = [jobs[a].ids EXCEPT ![n] = k],
             OthersWritten(a, n)
      PROVE  FilesFit'
  <2>1. \A g \in Groups : jobs'[a].ids[g] = jobs[a].ids[g]
    BY <1>4, <1>7 DEF Items, Owned, Records, Formed
  <2>2. \A g \in Groups : Mapped(a, g)' => g \in Walked(chosen)
    BY <2>1 DEF FilesFit, BlobsFit, Mapped
  <2>3. QED
    BY <1>1, <1>4, <1>7, <2>2, OthersFiles
<1>8. CASE Fail(a) /\ UNCHANGED rows
  BY <1>1, <1>8, FailFiles DEF Fail
<1>9. CASE /\ rows' = rows \cup {Row(n, a, OwnerKey(a, n), "none")}
           /\ jobs' = [jobs EXCEPT ![a] = [Done(a, n) EXCEPT
                         !.ids[n] = <<n, a>>, !.created = @ \cup {<<n, a>>}, !.mutated = TRUE]]
  <2> DEFINE creates == [d EXCEPT !.ids[n] = <<n, a>>, !.created = @ \cup {<<n, a>>}, !.mutated = TRUE]
  <2>1. jobs' = [jobs EXCEPT ![a] = creates]
    BY <1>9
  <2> HIDE DEF d
  <2>2. /\ JobFields \subseteq DOMAIN creates /\ creates.pc = jobs[a].pc
        /\ creates.ids = [jobs[a].ids EXCEPT ![n] = <<n, a>>]
    BY <1>5, <1>6
  <2> HIDE DEF creates
  <2>3. jobs'[a].pc = jobs[a].pc /\ jobs'[a].ids = [jobs[a].ids EXCEPT ![n] = <<n, a>>]
    BY <1>1, <2>1, <2>2, WritesOne
  <2>4. OthersWritten(a, n)
    BY <1>9 DEF OthersWritten
  <2>5. QED
    BY <1>7, <2>3, <2>4
<1>10. CASE /\ rows' = rows
           /\ \E r \in Matches(n) :
                jobs' = [jobs EXCEPT ![a] = [Done(a, n) EXCEPT !.ids[n] = Key(r), !.skipped = @ \cup {n}]]
  <2>1. PICK r \in Matches(n) :
          jobs' = [jobs EXCEPT ![a] = [Done(a, n) EXCEPT !.ids[n] = Key(r), !.skipped = @ \cup {n}]]
    BY <1>10
  <2> DEFINE k == Key(r)
             skips == [d EXCEPT !.ids[n] = k, !.skipped = @ \cup {n}]
  <2>2. jobs' = [jobs EXCEPT ![a] = skips]
    BY <2>1
  <2> HIDE DEF d, k
  <2>3. /\ JobFields \subseteq DOMAIN skips /\ skips.pc = jobs[a].pc
        /\ skips.ids = [jobs[a].ids EXCEPT ![n] = k]
    BY <1>5, <1>6
  <2> HIDE DEF skips
  <2>4. jobs'[a].pc = jobs[a].pc /\ jobs'[a].ids = [jobs[a].ids EXCEPT ![n] = k]
    BY <1>1, <2>2, <2>3, WritesOne
  <2>5. OthersWritten(a, n)
    BY <1>10 DEF OthersWritten
  <2>6. QED
    BY <1>7, <2>4, <2>5
<1>11. CASE \E r \in Matches(n) :
             /\ rows' = (rows \ {r}) \cup {Adopted(a, r)}
             /\ jobs' = [jobs EXCEPT ![a] = [Done(a, n) EXCEPT !.ids[n] = Key(r), !.mutated = TRUE]]
  <2>1. PICK r \in Matches(n) :
          /\ rows' = (rows \ {r}) \cup {Adopted(a, r)}
          /\ jobs' = [jobs EXCEPT ![a] = [Done(a, n) EXCEPT !.ids[n] = Key(r), !.mutated = TRUE]]
    BY <1>11
  <2> DEFINE k == Key(r)
             merges == [d EXCEPT !.ids[n] = k, !.mutated = TRUE]
  <2>2. jobs' = [jobs EXCEPT ![a] = merges]
    BY <2>1
  <2> HIDE DEF d, k
  <2>3. /\ JobFields \subseteq DOMAIN merges /\ merges.pc = jobs[a].pc
        /\ merges.ids = [jobs[a].ids EXCEPT ![n] = k]
    BY <1>5, <1>6
  <2> HIDE DEF merges
  <2>4. jobs'[a].pc = jobs[a].pc /\ jobs'[a].ids = [jobs[a].ids EXCEPT ![n] = k]
    BY <1>1, <2>2, <2>3, WritesOne
  <2>5. OthersWritten(a, n)
    BY <2>1, AdoptedOthers
  <2>6. QED
    BY <1>7, <2>4, <2>5
<1>12. QED
  BY <1>2, <1>8, <1>9, <1>10, <1>11

-----------------------------------------------------------------------------
(* The ends of the phases, failures, and the last steps.                     *)

LEMMA PhaseEndsFiles ==
  ASSUME Records, FilesFit, NEW a \in Attempts, Running(a), Only(a),
         EndDefs(a) \/ EndGroups(a) \/ EndResources(a) \/ EndNotes(a)
  PROVE  FilesFit'
<1>1. /\ rows' = rows /\ blobFiles' = blobFiles /\ chosen' = chosen
      /\ jobs[a].pc \in {"defs", "groups", "resources", "notes"}
      /\ a = attempts /\ jobs[a].decisions = chosen
  BY AtWork DEF EndDefs, EndGroups, EndResources, EndNotes, Only
<1>2. CASE Fail(a)
  BY <1>1, <1>2, FailFiles DEF Fail
<1>3. CASE ~Fail(a)
  <2>1. PICK pc, todo :
          /\ Advance(a, pc, todo)
          /\ \/ jobs[a].pc = "defs" /\ pc = "groups"
             \/ /\ jobs[a].pc = "groups" /\ pc = "resources"
                /\ Reached(a) = {} /\ todo = Entries(a, Media)
             \/ jobs[a].pc = "resources" /\ pc = "notes" /\ jobs[a].todo = {}
             \/ jobs[a].pc = "notes" /\ pc = "linking"
    BY <1>3 DEF EndDefs, EndGroups, EndResources, EndNotes, Checkpoint
  <2>2. jobs'[a].pc = pc /\ jobs'[a].todo = todo /\ jobs'[a].ids = jobs[a].ids
    BY <2>1, Advanced
  <2>3. ASSUME NEW r \in rows, Unwritten(r) PROVE Unwritten(r)'
    <3>1. CASE jobs[a].pc = "defs"
      BY <1>1, <2>1, <2>2, <2>3, <3>1, UnwrittenStays DEF Only
    <3>2. CASE jobs[a].pc = "groups"
      <4>1. r.item \in Media /\ Due(r.item) /\ todo = Entries(a, Media) /\ Reached(a) = {}
        BY <2>1, <2>3, <3>2 DEF Unwritten
      <4>2. r.item \in todo
        BY <1>1, <4>1, WalkIsDone DEF Entries, Due
      <4>3. QED
        BY <1>1, <2>1, <2>2, <2>3, <3>2, <4>2 DEF Unwritten, Due, Only
    <3>3. CASE jobs[a].pc \in {"resources", "notes"}
      BY <1>1, <2>1, <2>3, <3>3 DEF Unwritten
    <3>4. QED
      BY <1>1, <3>1, <3>2, <3>3
  <2>4. BlobsFit(a)'
    <3>1. BlobsFit(a)
      BY DEF FilesFit
    <3>2. jobs'[a].pc \in {"groups", "resources"} => \A y \in Carried : blobFiles[HashOf[y]] = HashOf[y]
      BY <1>1, <2>1, <2>2, <3>1 DEF BlobsFit
    <3>3. QED
      BY <1>1, <2>1, <2>2, <3>2, SameMaps DEF BlobsFit
  <2>5. QED
    BY <1>1, <2>3, <2>4, RestStands
<1>4. QED
  BY <1>2, <1>3

LEMMA FailuresFiles ==
  ASSUME Records, FilesFit, NEW a \in Attempts, Running(a), Only(a), CopyFails(a) \/ StatementFails(a)
  PROVE  FilesFit'
<1>1. rows' = rows /\ blobFiles' = blobFiles /\ jobs[a].pc # "writing" /\ \E m : FailWith(a, m)
  BY DEF CopyFails, StatementFails, Fail
<1>2. QED
  BY <1>1, FailFiles

LEMMA LastFiles ==
  ASSUME Records, FilesFit, NEW a \in Attempts, Running(a), Only(a),
         Complete(a) \/ Cancel(a) \/ applyM2MLinks(a)
  PROVE  FilesFit'
<1>1. rows' = rows /\ blobFiles' = blobFiles /\ a = attempts /\ chosen' = chosen
  BY AtWork DEF Complete, Cancel, applyM2MLinks, Importing, Only
<1>2. DOMAIN jobs = Attempts /\ JobFields \subseteq DOMAIN jobs[a]
  BY DEF Records, Formed, Alone, Shaped
<1>3. "pc" \in DOMAIN jobs[a] /\ "cancelled" \in DOMAIN jobs[a]
  BY <1>2 DEF JobFields
<1>4. CASE Complete(a)
  <2>1. jobs[a].pc = "linking" /\ jobs' = [jobs EXCEPT ![a].pc = "completed"]
    BY <1>4 DEF Complete
  <2>2. jobs'[a].pc = "completed" /\ jobs'[a].ids = jobs[a].ids
    BY <1>2, <1>3, <2>1
  <2>3. QED
    BY <1>1, <2>1, <2>2, EndFiles
<1>5. CASE Cancel(a)
  <2>1. jobs' = [jobs EXCEPT ![a].cancelled = TRUE]
    BY <1>5 DEF Cancel
  <2>2. /\ jobs'[a].pc = jobs[a].pc /\ jobs'[a].ids = jobs[a].ids /\ jobs'[a].todo = jobs[a].todo
        /\ jobs'[a].blob = jobs[a].blob /\ jobs'[a].copy = jobs[a].copy
    BY <1>2, <1>3, <2>1
  <2>3. BlobsFit(a)
    BY DEF FilesFit
  <2>4. BlobsFit(a)'
    BY <1>1, <2>2, <2>3, SameMaps DEF BlobsFit
  <2>5. ASSUME NEW r \in rows, Unwritten(r) PROVE Unwritten(r)'
    BY <1>1, <2>2, <2>5 DEF Unwritten, Due, Only
  <2>6. QED
    BY <1>1, <2>2, <2>4, <2>5, RestStands
<1>6. CASE applyM2MLinks(a)
  <2>1. PICK todo : jobs[a].pc = "linking" /\ Advance(a, "linking", todo)
    BY <1>6 DEF applyM2MLinks
  <2>2. jobs'[a].pc = "linking" /\ jobs'[a].ids = jobs[a].ids
    BY <2>1, Advanced
  <2>3. BlobsFit(a)'
    BY <1>1, <2>2, SameMaps DEF BlobsFit
  <2>4. \A r \in rows : ~Unwritten(r)
    BY <1>1, <2>1 DEF Unwritten
  <2>5. QED
    BY <1>1, <2>1, <2>3, <2>4, RestStands
<1>7. QED
  BY <1>4, <1>5, <1>6

-----------------------------------------------------------------------------
(* A resource that meets one with its guid.                                  *)

\* A resource that is taken, and is not known to lack its bytes afterwards.
LEMMA ResourceFiles ==
  ASSUME Records, FilesFit, NEW a \in Attempts, Running(a), Only(a), blobFiles' = blobFiles,
         jobs[a].pc = "resources", NEW x \in jobs[a].todo, jobs'[a].todo = jobs[a].todo \ {x},
         NEW k, jobs'[a].ids = [jobs[a].ids EXCEPT ![x] = k] \/ jobs'[a].ids = jobs[a].ids,
         \/ jobs'[a].pc = "resources"
         \/ /\ jobs'[a].pc = "copying"
            /\ \E r \in rows' : /\ Key(r) = jobs'[a].copy /\ r.item \in Media
                                /\ r.hash = HashOf[r.item] /\ HasBlob(r.item),
         \A r \in rows : \E s \in rows' : s.item = r.item /\ s.by = r.by,
         \A r \in rows' : (r \in rows /\ (r.item = x => ~Unwritten(r))) \/ Stored(r)'
  PROVE  FilesFit'
<1>1. x \in Media /\ x \notin Groups /\ a = attempts /\ chosen' = chosen /\ attempts' = attempts
  BY AtWork, Apart DEF PhaseFits, Only
<1>2. ASSUME NEW r \in rows', r \in rows, r.item = x => ~Unwritten(r) PROVE Stored(r)'
  <2>1. CASE r.item = x
    BY <1>2, <2>1 DEF FilesFit, Stored
  <2>2. CASE r.item # x
    <3>1. r.item \in Media /\ Awaited(r.item) => Awaited(r.item)'
      <4>1. ASSUME Awaited(r.item) PROVE r.item \in jobs'[a].todo
        BY <1>1, <2>2, <4>1 DEF Awaited
      <4>2. jobs'[a].pc \notin {"notes", "linking", "completed"}
        OBVIOUS
      <4>3. QED
        BY <4>1, <4>2, AwaitedStays
    <3>2. QED
      BY <1>2, <3>1, StoredStays
  <2>3. QED
    BY <2>1, <2>2
<1>3. \A g \in Groups : Mapped(a, g)' => g \in Walked(chosen)
  <2>1. \A g \in Groups : jobs'[a].ids[g] = jobs[a].ids[g]
    BY <1>1 DEF Items, Owned, Records, Formed
  <2>2. QED
    BY <2>1 DEF FilesFit, BlobsFit, Mapped
<1>4. jobs[a].pc \in Late /\ jobs'[a].pc \notin Early
  BY DEF Late, Early
<1>5. \A r \in rows' : Stored(r)'
  BY <1>2
<1>6. jobs'[a].pc = "copying" =>
           \E r \in rows' : /\ Key(r) = jobs'[a].copy /\ r.item \in Media
                            /\ r.hash = HashOf[r.item] /\ HasBlob(r.item)
  OBVIOUS
<1>7. QED
  BY <1>3, <1>4, <1>5, <1>6, LateFiles

\* A row written over that keeps its item, attempt, path and hash, and had its bytes.
LEMMA MergedStored ==
  ASSUME FilesFit, blobFiles' = blobFiles, NEW r \in rows, ~Unwritten(r), NEW t,
         t.item = r.item, t.path = r.path, t.hash = r.hash
  PROVE  Stored(t)'
BY DEF FilesFit, Stored

\* A replaced row: one that an attempt created has its bytes; one from before awaits them.
LEMMA ReplacedStored ==
  ASSUME Records, FilesFit, NEW a \in Attempts, Running(a), Only(a), blobFiles' = blobFiles,
         jobs[a].pc = "resources", NEW r \in rows, r.item \in jobs[a].todo,
         chosen.guidPolicy = "replace", HasBlob(r.item), NEW u,
         u.item = r.item, u.by = r.by, u.path = r.path, u.hash = HashOf[r.item],
         jobs'[a].pc = "copying", jobs'[a].copy = Key(r)
  PROVE  Stored(u)'
<1>1. /\ r.item \in Media \ chosen.excluded /\ OwnerMapped(a, r.item)
      /\ a = attempts /\ chosen' = chosen /\ attempts' = attempts
  BY AtWork DEF PhaseFits, Only
<1>2. blobFiles[r.path] \in Blobs /\ (blobFiles[r.path] = r.hash \/ Unwritten(r))
  BY <1>1 DEF FilesFit
<1>3. CASE r.by # 0
  <2>1. r.hash = HashOf[r.item] /\ ~Unwritten(r)
    BY <1>1, <1>3 DEF Records, RecordsFit, RowsFit, CreatedOnce, Unwritten
  <2>2. QED
    BY <1>2, <2>1 DEF Stored
<1>4. CASE r.by = 0
  <2>1. Due(r.item)'
    <3>1. r.item \in Owned
      BY <1>1 DEF Owned
    <3>2. Owner[r.item] = "none" \/ Owner[r.item] \in Walked(chosen)
      BY <1>1, <3>1, Apart DEF OwnerMapped, FilesFit, BlobsFit
    <3>3. QED
      BY <1>1, <3>2 DEF Due, Walked
  <2>2. Awaited(r.item)'
    <3>1. jobs'[a].copy = <<r.item, 0>> /\ attempts > 0
      BY <1>1, <1>4 DEF Key, Attempts
    <3>2. QED
      BY <1>1, <2>1, <3>1 DEF Awaited
  <2>3. Unwritten(u)'
    BY <1>1, <1>4, <2>2, UnwrittenThen
  <2>4. QED
    BY <1>2, <2>3 DEF Stored
<1>5. QED
  BY <1>3, <1>4

LEMMA CollideFiles ==
  ASSUME Records, FilesFit, NEW a \in Attempts, Running(a), Only(a), jobs[a].pc = "resources",
         NEW x \in jobs[a].todo, NEW r \in Matches(x), CollideByGUID(a, x, r),
         HandlersStay, blobFiles' = blobFiles
  PROVE  FilesFit'
<1>1. PICK t : t = Adopted(a, r)
  OBVIOUS
<1>2. PICK u : u = [t EXCEPT !.hash = HashOf[x]]
  OBVIOUS
<1> DEFINE k == Key(r)
           d == Done(a, x)
           j == [d EXCEPT !.ids[x] = k]
           skips == [j EXCEPT !.skipped = @ \cup {x}]
           merges == [j EXCEPT !.mutated = TRUE]
           lists == [j EXCEPT !.mutated = TRUE, !.created = @ \cup {k}]
           copies == CopyAfter(x, r, lists)
<1>3. /\ jobs[a].decisions = chosen /\ x \in Media /\ r \in rows /\ r.item = x
      /\ chosen \in Decisions
  BY AtWork DEF Matches, PhaseFits
<1>4. \/ chosen.guidPolicy = "skip" /\ jobs' = [jobs EXCEPT ![a] = skips] /\ rows' = rows
      \/ /\ chosen.guidPolicy = "merge" \/ ~HasBlob(x)
         /\ jobs' = [jobs EXCEPT ![a] = merges] /\ rows' = (rows \ {r}) \cup {t}
      \/ /\ chosen.guidPolicy # "skip" /\ ~(chosen.guidPolicy = "merge" \/ ~HasBlob(x))
         /\ jobs' = [jobs EXCEPT ![a] = copies] /\ rows' = (rows \ {r}) \cup {u}
  BY <1>1, <1>2, <1>3, Zenon DEF CollideByGUID
<1>5. /\ JobFields \subseteq DOMAIN d /\ d.todo = jobs[a].todo \ {x} /\ d.pc = jobs[a].pc
      /\ d.ids = jobs[a].ids
  BY DoneIs
<1>6. /\ "ids" \in DOMAIN d /\ "skipped" \in DOMAIN d /\ "mutated" \in DOMAIN d
      /\ "created" \in DOMAIN d /\ "pc" \in DOMAIN d /\ "copy" \in DOMAIN d
  BY <1>5 DEF JobFields
<1> HIDE DEF d
<1>7. /\ DOMAIN j = DOMAIN d /\ j.ids = [jobs[a].ids EXCEPT ![x] = k]
      /\ j.todo = jobs[a].todo \ {x} /\ j.pc = jobs[a].pc
  <2> HIDE DEF k
  <2>1. QED
    BY <1>5, <1>6
<1> HIDE DEF j
<1>8. /\ RowFields \subseteq DOMAIN t /\ t.item = r.item /\ t.by = r.by /\ t.path = r.path
      /\ t.hash = r.hash
  BY <1>1, <1>3, AdoptedIs
<1>9. CASE chosen.guidPolicy = "skip" /\ jobs' = [jobs EXCEPT ![a] = skips] /\ rows' = rows
  <2>1. /\ JobFields \subseteq DOMAIN skips /\ skips.ids = [jobs[a].ids EXCEPT ![x] = k]
        /\ skips.todo = jobs[a].todo \ {x} /\ skips.pc = jobs[a].pc
    BY <1>5, <1>6, <1>7
  <2> HIDE DEF skips, k
  <2>2. jobs'[a] = skips
    BY <1>9, <2>1, WritesOne
  <2>3. \A s \in rows : ~Unwritten(s)
    BY <1>9 DEF Unwritten
  <2>4. QED
    BY <1>9, <2>1, <2>2, <2>3, ResourceFiles
<1>10. CASE /\ chosen.guidPolicy = "merge" \/ ~HasBlob(x)
           /\ jobs' = [jobs EXCEPT ![a] = merges] /\ rows' = (rows \ {r}) \cup {t}
  <2>1. /\ JobFields \subseteq DOMAIN merges /\ merges.ids = [jobs[a].ids EXCEPT ![x] = k]
        /\ merges.todo = jobs[a].todo \ {x} /\ merges.pc = jobs[a].pc
    BY <1>5, <1>6, <1>7
  <2> HIDE DEF merges, k
  <2>2. jobs'[a] = merges
    BY <1>10, <2>1, WritesOne
  <2>3. \A s \in rows : s.item = x => ~Unwritten(s)
    BY <1>10 DEF Unwritten
  <2>4. Stored(t)'
    BY <1>3, <1>8, <2>3, MergedStored
  <2>5. \A s \in rows : \E v \in rows' : v.item = s.item /\ v.by = s.by
    BY <1>8, <1>10
  <2>6. \A s \in rows' : (s \in rows /\ (s.item = x => ~Unwritten(s))) \/ Stored(s)'
    BY <1>10, <2>3, <2>4
  <2>7. QED
    BY <2>1, <2>2, <2>5, <2>6, ResourceFiles
<1>11. CASE /\ chosen.guidPolicy # "skip" /\ ~(chosen.guidPolicy = "merge" \/ ~HasBlob(x))
           /\ jobs' = [jobs EXCEPT ![a] = copies] /\ rows' = (rows \ {r}) \cup {u}
  <2>1. /\ JobFields \subseteq DOMAIN lists /\ lists.ids = [jobs[a].ids EXCEPT ![x] = k]
        /\ lists.todo = jobs[a].todo \ {x} /\ "pc" \in DOMAIN lists /\ "copy" \in DOMAIN lists
    BY <1>5, <1>6, <1>7
  <2> HIDE DEF lists
  <2>2. /\ JobFields \subseteq DOMAIN copies /\ copies.ids = [jobs[a].ids EXCEPT ![x] = k]
        /\ copies.todo = jobs[a].todo \ {x} /\ copies.pc = "copying" /\ copies.copy = k
    BY <2>1 DEF CopyAfter
  <2>3. u.item = r.item /\ u.by = r.by /\ u.path = r.path /\ u.hash = HashOf[x]
    <3>1. "hash" \in DOMAIN t
      BY <1>8 DEF RowFields
    <3>2. QED
      BY <1>2, <1>8, <3>1
  <2> HIDE DEF copies, k
  <2>4. jobs'[a] = copies
    BY <1>11, <2>2, WritesOne
  <2>5. chosen.guidPolicy = "replace" /\ HasBlob(x)
    BY <1>3, <1>11 DEF Decisions
  <2>6. jobs'[a].pc = "copying" /\ jobs'[a].copy = Key(r)
    BY <2>2, <2>4 DEF k
  <2>7. Stored(u)'
    BY <1>3, <2>3, <2>5, <2>6, ReplacedStored
  <2>8. Key(u) = Key(r)
    BY <2>3, KeyIs
  <2>9. \A s \in rows : \E v \in rows' : v.item = s.item /\ v.by = s.by
    BY <1>11, <2>3
  <2>10. \A s \in rows' : (s \in rows /\ (s.item = x => ~Unwritten(s))) \/ Stored(s)'
    <3>1. \A s \in rows : s.item = x => s = r
      BY <1>3 DEF Records, RecordsFit, RowsFit
    <3>2. QED
      BY <1>11, <2>7, <3>1
  <2>11. \E s \in rows' : /\ Key(s) = jobs'[a].copy /\ s.item \in Media
                          /\ s.hash = HashOf[s.item] /\ HasBlob(s.item)
    <3>1. u \in rows' /\ Key(u) = jobs'[a].copy
      BY <1>11, <2>6, <2>8
    <3>2. u.item = x /\ x \in Media /\ u.hash = HashOf[u.item] /\ HasBlob(u.item)
      <4>1. u.item = x /\ x \in Media /\ u.hash = HashOf[u.item]
        BY <1>3, <2>3
      <4>2. QED
        BY <2>5, <4>1
    <3>3. QED
      BY <3>1, <3>2
  <2>12. jobs'[a].todo = jobs[a].todo \ {x} /\ jobs'[a].ids = [jobs[a].ids EXCEPT ![x] = k]
    BY <2>2, <2>4
  <2>13. QED
    BY <2>6, <2>9, <2>10, <2>11, <2>12, ResourceFiles
<1>12. QED
  BY <1>4, <1>9, <1>10, <1>11

-----------------------------------------------------------------------------
(* Resources, copies, and the theorem.                                       *)

LEMMA ReuseFiles ==
  ASSUME Records, FilesFit, NEW a \in Attempts, Running(a), Only(a), jobs[a].pc = "resources",
         NEW x \in jobs[a].todo, Matches(x) = {}, ReuseByHash(a, x),
         HandlersStay, blobFiles' = blobFiles
  PROVE  FilesFit'
<1> DEFINE d == Done(a, x)
<1>1. x \in Owned /\ ~Mapped(a, x)
  BY AtWork DEF PhaseFits, Owned
<1>2. rows' = rows /\ \A r \in rows : r.item # x
  BY <1>1, Absent DEF ReuseByHash
<1>3. /\ JobFields \subseteq DOMAIN d /\ d.todo = jobs[a].todo \ {x} /\ d.pc = jobs[a].pc
      /\ d.ids = jobs[a].ids
  BY DoneIs
<1>4. CASE jobs' = [jobs EXCEPT ![a] = Done(a, x)]
  <2>1. jobs'[a] = d
    BY <1>3, <1>4 DEF Records, Alone, Shaped
  <2>2. jobs'[a].pc = "resources" /\ jobs'[a].todo = jobs[a].todo \ {x} /\ jobs'[a].ids = jobs[a].ids
    BY <1>3, <2>1
  <2>3. QED
    BY <1>2, <2>2, ResourceFiles
<1>5. CASE \E r \in SameHash(x) :
            jobs' = [jobs EXCEPT ![a] = [Done(a, x) EXCEPT !.ids[x] = Key(r), !.skipped = @ \cup {x}]]
  <2>1. PICK r \in SameHash(x) :
          jobs' = [jobs EXCEPT ![a] = [Done(a, x) EXCEPT !.ids[x] = Key(r), !.skipped = @ \cup {x}]]
    BY <1>5
  <2> DEFINE k == Key(r)
             skips == [d EXCEPT !.ids[x] = k, !.skipped = @ \cup {x}]
  <2>2. jobs' = [jobs EXCEPT ![a] = skips]
    BY <2>1
  <2> HIDE DEF d, k
  <2>3. "ids" \in DOMAIN d /\ "skipped" \in DOMAIN d
    BY <1>3 DEF JobFields
  <2>4. /\ JobFields \subseteq DOMAIN skips /\ skips.ids = [jobs[a].ids EXCEPT ![x] = k]
        /\ skips.todo = jobs[a].todo \ {x} /\ skips.pc = jobs[a].pc
    BY <1>3, <2>3
  <2> HIDE DEF skips
  <2>5. jobs'[a] = skips
    BY <2>2, <2>4, WritesOne
  <2>6. /\ jobs'[a].pc = "resources" /\ jobs'[a].todo = jobs[a].todo \ {x}
        /\ jobs'[a].ids = [jobs[a].ids EXCEPT ![x] = k]
    BY <2>4, <2>5
  <2>7. QED
    BY <1>2, <2>6, ResourceFiles
<1>6. QED
  BY <1>4, <1>5 DEF ReuseByHash

\* A resource that is created has its blob on disk.
LEMMA CreateFiles ==
  ASSUME Records, FilesFit, NEW a \in Attempts, Running(a), Only(a), jobs[a].pc = "resources",
         NEW x \in jobs[a].todo, Matches(x) = {}, CreateResource(a, x),
         HandlersStay, blobFiles' = blobFiles
  PROVE  FilesFit'
<1> DEFINE d == Done(a, x)
           creates == [d EXCEPT !.ids[x] = <<x, a>>, !.created = @ \cup {<<x, a>>}, !.mutated = TRUE]
<1>1. x \in Owned /\ ~Mapped(a, x) /\ x \in Carried
  BY AtWork DEF PhaseFits, Owned, CreateResource
<1>2. \A r \in rows : r.item # x
  BY <1>1, Absent
<1>3. PICK new : new = Row(x, a, OwnerKey(a, x), HashOf[x])
  OBVIOUS
<1>4. rows' = rows \cup {new} /\ jobs' = [jobs EXCEPT ![a] = creates]
  BY <1>3 DEF CreateResource
<1>5. new.item = x /\ new.path = HashOf[x] /\ new.hash = HashOf[x]
  BY <1>3 DEF Row
<1>6. /\ JobFields \subseteq DOMAIN d /\ d.todo = jobs[a].todo \ {x} /\ d.pc = jobs[a].pc
      /\ d.ids = jobs[a].ids
  BY DoneIs
<1> HIDE DEF d
<1>7. "ids" \in DOMAIN d /\ "created" \in DOMAIN d /\ "mutated" \in DOMAIN d
  BY <1>6 DEF JobFields
<1>8. /\ JobFields \subseteq DOMAIN creates /\ creates.ids = [jobs[a].ids EXCEPT ![x] = <<x, a>>]
      /\ creates.todo = jobs[a].todo \ {x} /\ creates.pc = jobs[a].pc
  BY <1>6, <1>7
<1> HIDE DEF creates
<1>9. jobs'[a] = creates
  BY <1>4, <1>8, WritesOne
<1>10. /\ jobs'[a].pc = "resources" /\ jobs'[a].todo = jobs[a].todo \ {x}
       /\ jobs'[a].ids = [jobs[a].ids EXCEPT ![x] = <<x, a>>]
  BY <1>8, <1>9
<1>11. Stored(new)'
  <2>1. BlobsFit(a)
    BY DEF FilesFit
  <2>2. blobFiles[HashOf[x]] = HashOf[x]
    BY <1>1, <2>1 DEF BlobsFit
  <2>3. HashOf[x] \in Blobs
    BY <1>1, Apart
  <2>4. QED
    BY <1>5, <2>2, <2>3 DEF Stored
<1>12. \A r \in rows : \E s \in rows' : s.item = r.item /\ s.by = r.by
  BY <1>4
<1>13. \A r \in rows' : (r \in rows /\ (r.item = x => ~Unwritten(r))) \/ Stored(r)'
  BY <1>2, <1>4, <1>11
<1>14. QED
  BY <1>10, <1>12, <1>13, ResourceFiles

LEMMA ResourcesFiles ==
  ASSUME Records, FilesFit, NEW a \in Attempts, Running(a), Only(a), applyResources(a)
  PROVE  FilesFit'
<1>1. HandlersStay /\ blobFiles' = blobFiles /\ jobs[a].pc = "resources"
  BY DEF applyResources
<1>2. PICK x \in jobs[a].todo :
        \/ Fail(a) /\ UNCHANGED rows
        \/ \E r \in Matches(x) : CollideByGUID(a, x, r)
        \/ Matches(x) = {} /\ (ReuseByHash(a, x) \/ CreateResource(a, x))
  BY DEF applyResources
<1>3. CASE Fail(a) /\ UNCHANGED rows
  BY <1>1, <1>3, FailFiles DEF Fail
<1>4. CASE \E r \in Matches(x) : CollideByGUID(a, x, r)
  BY <1>1, <1>4, CollideFiles
<1>5. CASE Matches(x) = {} /\ ReuseByHash(a, x)
  BY <1>1, <1>5, ReuseFiles
<1>6. CASE Matches(x) = {} /\ CreateResource(a, x)
  BY <1>1, <1>6, CreateFiles
<1>7. QED
  BY <1>2, <1>3, <1>4, <1>5, <1>6

-----------------------------------------------------------------------------
(* The copy over the file of a replaced resource.                            *)

\* The file of a resource that was there before is no other row's.
LEMMA OldFileUnshared ==
  ASSUME Records, NEW r \in rows, r.by = 0, r.item \in Media,
         NEW s \in rows, s.item \in Media \cup {"bystander"}, s.path = r.path
  PROVE  s = r
<1>1. /\ r.path = OldHash /\ \A y \in Carried \ {r.item} : HashOf[y] # OldHash
      /\ \A v \in rows : v.by = 0 /\ v.item \in Media => v = r
  BY DEF Records, RecordsFit, RowsFit, FoundBefore
<1>2. CASE s.by = 0
  <2>1. s.item # "bystander"
    BY <1>1, <1>2 DEF Records, RecordsFit, RowsFit, FoundBefore
  <2>2. QED
    BY <1>1, <1>2, <2>1
<1>3. CASE s.by # 0
  <2>1. s.item \in Items /\ s.item # "bystander"
    BY <1>3, Apart DEF Records, RecordsFit, RowsFit
  <2>2. s.item \in Carried /\ HashOf[s.item] = OldHash
    BY <1>1, <1>3, <2>1 DEF Records, RecordsFit, RowsFit, CreatedOnce
  <2>3. s.item = r.item
    BY <1>1, <2>2
  <2>4. QED
    BY <2>3 DEF Records, RecordsFit, RowsFit
<1>4. QED
  BY <1>2, <1>3

LEMMA CopyFiles ==
  ASSUME Records, FilesFit, NEW a \in Attempts, Running(a), Only(a), copyBlob(a)
  PROVE  FilesFit'
<1>1. /\ jobs[a].pc = "copying" /\ rows' = rows
      /\ jobs' = [jobs EXCEPT ![a].pc = "resources", ![a].copy = NoKey]
      /\ a = attempts /\ chosen' = chosen /\ attempts' = attempts
      /\ BlobsFit(a) /\ DOMAIN blobFiles = Blobs
  BY AtWork DEF copyBlob, Only, FilesFit, Records, Formed
<1>2. PICK r \in rows :
        Key(r) = jobs[a].copy /\ blobFiles' = [blobFiles EXCEPT ![r.path] = blobFiles[r.hash]]
  BY DEF copyBlob
<1>3. r.item \in Media /\ r.hash = HashOf[r.item] /\ HasBlob(r.item)
  <2>1. PICK s \in rows : /\ Key(s) = jobs[a].copy /\ s.item \in Media
                          /\ s.hash = HashOf[s.item] /\ HasBlob(s.item)
    BY <1>1 DEF BlobsFit
  <2>2. s = r
    BY <1>2, <2>1, OneRowPerKey
  <2>3. QED
    BY <2>1, <2>2
<1>4. \A y \in Carried : blobFiles[HashOf[y]] = HashOf[y]
  BY <1>1 DEF BlobsFit
<1>5. blobFiles[r.hash] = r.hash /\ r.hash \in Blobs /\ r.path \in Blobs
  <2>1. PICK y \in Carried : HashOf[y] = HashOf[r.item]
    BY <1>3 DEF HasBlob
  <2>2. QED
    BY <1>3, <1>4, <2>1, Apart, PathIsFile
<1>6. blobFiles'[r.path] = r.hash /\ \A b \in Blobs \ {r.path} : blobFiles'[b] = blobFiles[b]
  BY <1>1, <1>2, <1>5
<1>7. r.by # 0 => r.path = r.hash
  BY <1>3 DEF Records, RecordsFit, RowsFit, CreatedOnce
<1>8. r.by = 0 => r.path = OldHash /\ \A y \in Carried \ {r.item} : HashOf[y] # OldHash
  BY <1>3 DEF Records, RecordsFit, RowsFit, FoundBefore
<1>9. jobs'[a].pc = "resources" /\ jobs'[a].todo = jobs[a].todo /\ jobs'[a].ids = jobs[a].ids
  <2>1. DOMAIN jobs = Attempts /\ JobFields \subseteq DOMAIN jobs[a]
    BY DEF Records, Formed, Alone, Shaped
  <2>2. "pc" \in DOMAIN jobs[a] /\ "copy" \in DOMAIN jobs[a]
    BY <2>1 DEF JobFields
  <2>3. QED
    BY <1>1, <2>1, <2>2
<1>10. BlobsFit(a)'
  <2>1. ASSUME NEW y \in Carried PROVE blobFiles'[HashOf[y]] = HashOf[y]
    <3>1. HashOf[y] \in Blobs /\ blobFiles[HashOf[y]] = HashOf[y]
      BY <1>4, Apart
    <3>2. HashOf[y] = r.path => r.hash = HashOf[y]
      BY <1>3, <1>7, <1>8
    <3>3. QED
      BY <1>6, <3>1, <3>2
  <2>2. QED
    BY <1>1, <1>9, <2>1, SameMaps DEF BlobsFit
<1>11. ASSUME NEW b \in Blobs PROVE FileFits(b)'
  <2>1. FileFits(b) /\ ~Writing(b)
    BY <1>1, OnlyOneWrites DEF FilesFit
  <2>2. CASE b # r.path
    BY <1>1, <1>6, <2>1, <2>2 DEF FileFits
  <2>3. CASE b = r.path
    <3>1. CASE r.hash = b
      BY <1>6, <2>3, <3>1 DEF FileFits
    <3>2. CASE r.hash # b
      BY <1>1, <1>3, <1>6, <1>7, <1>8, <2>3, <3>2 DEF FileFits
    <3>3. QED
      BY <3>1, <3>2
  <2>4. QED
    BY <2>2, <2>3
<1>12. ASSUME NEW s \in rows PROVE Stored(s)'
  <2>1. SUFFICES ASSUME s.item \in Media \cup {"bystander"}
                 PROVE  blobFiles'[s.path] \in Blobs /\ (blobFiles'[s.path] = s.hash \/ Unwritten(s)')
    BY DEF Stored
  <2>2. blobFiles[s.path] \in Blobs /\ (blobFiles[s.path] = s.hash \/ Unwritten(s)) /\ s.path \in Blobs
    BY <2>1, PathIsFile DEF FilesFit
  <2>3. CASE s = r
    BY <1>5, <1>6, <2>3
  <2>4. CASE s # r
    <3>1. blobFiles'[s.path] = blobFiles[s.path]
      <4>1. CASE r.by = 0
        BY <1>3, <1>6, <2>1, <2>2, <2>4, <4>1, OldFileUnshared
      <4>2. CASE r.by # 0
        BY <1>5, <1>6, <1>7, <2>2, <4>2
      <4>3. QED
        BY <4>1, <4>2
    <3>2. ASSUME Unwritten(s) PROVE Unwritten(s)'
      <4>1. Key(s) # jobs[a].copy
        BY <1>2, <2>4, OneRowPerKey
      <4>2. s.item \in jobs[a].todo
        BY <1>1, <3>2, <4>1 DEF Unwritten
      <4>3. QED
        BY <1>1, <1>9, <3>2, <4>2 DEF Unwritten, Due
    <3>3. QED
      BY <2>2, <3>1, <3>2
  <2>5. QED
    BY <2>3, <2>4
<1>13. QED
  BY <1>1, <1>10, <1>11, <1>12, StepFiles

LEMMA WorkKeepsFiles ==
  ASSUME Records, FilesFit, WholeWrites, NEW a \in Attempts, Work(a)
  PROVE  FilesFit'
<1>1. Running(a) /\ Only(a)
  BY WorkIsOnly
<1>2. QED
  BY <1>1, LoadFiles, OnBlobFiles, WriteBlobFiles, BlobFailsFiles, EndBlobsFiles, DefsFiles,
     GroupsFiles, ResourcesFiles, CopyFiles, NotesFiles, PhaseEndsFiles, FailuresFiles, LastFiles
  DEF Work

LEMMA FilesNext ==
  WholeWrites /\ Records /\ FilesFit /\ [ImportNext]_importVars => FilesFit'
<1> SUFFICES ASSUME WholeWrites, Records, FilesFit, [ImportNext]_importVars PROVE FilesFit'
  OBVIOUS
<1>1. CASE DeleteImport \/ UNCHANGED importVars
  BY <1>1, FilesApart DEF DeleteImport, Importing, importVars
<1>2. CASE ImportCrash
  BY <1>2, CrashKeepsFiles
<1>3. CASE \E c \in Handlers : Handle(c)
  <2>1. PICK c \in Handlers : Handle(c)
    BY <1>3
  <2>2. CASE \E d \in Decisions : ApplyLoads(c, d)
    BY <2>2, LoadsKeepsFiles
  <2>3. CASE Consume(c) \/ SubmitRefused(c)
    BY <2>3, FilesApart DEF Consume, SubmitRefused, Importing
  <2>4. CASE Submit(c)
    BY <2>4, SubmitKeepsFiles
  <2>5. QED
    BY <2>1, <2>2, <2>3, <2>4 DEF Handle
<1>4. CASE \E a \in Attempts : Work(a)
  BY <1>4, WorkKeepsFiles
<1>5. QED
  BY <1>1, <1>2, <1>3, <1>4 DEF ImportNext

LEMMA RecordsExact ==
  ASSUME Records, FilesFit PROVE ImportExact
<1>1. ImportTypeOK
  BY RecordsTyped, FilesBytes DEF ImportTypeOK
<1>2. QED
  BY <1>1, RecordsOnce, RecordsGraph, FilesBytes DEF ImportExact, Records

\* ImportExact: however often a plan is replayed after failures, cancels and crashes, an
\* import creates each item once, lists all that it created, and is left, when it
\* completes, with the owners, relations and bytes of the archive.
THEOREM ImportsAreExact ==
  SameDecisions /\ WholeWrites /\ FilesUnshared => (ImportSpec => []ImportExact)
<1> SUFFICES ASSUME SameDecisions, WholeWrites, FilesUnshared PROVE ImportSpec => []ImportExact
  OBVIOUS
<1>1. ImportInit => Records /\ FilesFit
  BY RecordsInit, FilesInit
<1>2. Records /\ FilesFit /\ [ImportNext]_importVars => Records' /\ FilesFit'
  BY RecordsNext, FilesNext
<1>3. Records /\ FilesFit => ImportExact
  BY RecordsExact
<1>4. QED
  BY <1>1, <1>2, <1>3, PTL DEF ImportSpec
=============================================================================
