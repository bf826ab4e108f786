--------------------------- MODULE ResourceStore ---------------------------
(* Resources, their versions and the files both share. A file is stored once   *)
(* for its content; rows refer to it by hash, and whoever deletes the last row *)
(* of a hash removes the file. Uploads of one content hold that content's      *)
(* lock, changes of a resource's version hold that resource's lock; deletions, *)
(* merges, thumbnails and the start-up migration hold neither. A database      *)
(* transaction is one step; a file operation is a step of its own.             *)
EXTENDS Naturals, FiniteSets, FiniteSetsExt

CONSTANTS
  Contents,      \* what is stored: a content is its hash and its path
  Resources,     \* ids of the resources
  Legacy,        \* resources that predate versions
  Clients,       \* the goroutines that serve requests
  MaxRequests,   \* bound on requests
  MaxFaults,     \* bound on failed writes and crashes
  KeptApart      \* TRUE: the operator keeps apart what no lock keeps apart, see MayStart

ASSUME StoreAssumption ==
  /\ Legacy \subseteq Resources
  /\ MaxRequests \in Nat /\ MaxFaults \in Nat /\ KeptApart \in BOOLEAN

VARIABLES
  files,        \* by content: "none", "partial" or "whole"
  resources,    \* rows of resources, by id
  versions,     \* rows of resource_versions
  lastVersion,  \* the last version id given
  previews,     \* by resource, the contents its cached previews show
  client,       \* by client, its request
  migration,    \* the goroutine main starts: [pc, todo, r, h]
  requests,     \* requests made so far
  faults        \* failed writes and crashes so far

vars == <<files, resources, versions, lastVersion, previews, client, migration, requests, faults>>

Unborn == [state |-> "unborn", hash |-> "none", current |-> 0]

NoRequest == [op |-> "none", pc |-> "idle", r |-> "none", h |-> "none", v |-> 0, n |-> 0,
              others |-> <<>>, removes |-> {}]

NoMigration == [pc |-> "done", todo |-> {}, r |-> "none", h |-> "none"]

Init ==
  /\ resources \in [Resources -> {Unborn} \cup
                                 [state : {"live"}, hash : Contents, current : {0}]]
  /\ \A r \in Resources : resources[r].state = "live" <=> r \in Legacy
  /\ \A r, s \in Legacy : r # s => resources[r].hash # resources[s].hash
  /\ files = [h \in Contents |-> IF \E r \in Legacy : resources[r].hash = h THEN "whole" ELSE "none"]
  /\ versions = {} /\ lastVersion = 0
  /\ previews = [r \in Resources |-> {}]
  /\ client = [c \in Clients |-> NoRequest]
  /\ migration \in {NoMigration, [NoMigration EXCEPT !.pc = "listing"]}
  /\ requests = 0 /\ faults = 0

-----------------------------------------------------------------------------
(* Reading the tables.                                                       *)

Live(r) == resources[r].state = "live"

VersionsOf(r) == {v \in versions : v.resource = r}

MaxNumber(vs) == Max({v.number : v \in vs} \cup {0})

Version(id, r, n, h) == [id |-> id, resource |-> r, number |-> n, hash |-> h]

\* Mutant of Unreferenced: versions are not counted.
UnreferencedByResources(h, res, vers) ==
  \A r \in Resources : res[r].state = "live" => res[r].hash # h

\* CountHashReferences finds none in these tables.
Unreferenced(h, res, vers) ==
  /\ \A r \in Resources : res[r].state = "live" => res[r].hash # h
  /\ \A v \in vers : v.hash # h

-----------------------------------------------------------------------------
(* Requests and locks. A lock is held by the request that is past its queue.   *)

Changes == {"upload", "restore", "transform", "crop"}

Stores == Changes \cup {"add"}

Destroys == {"deleteVersion", "delete", "bulkDelete", "merge"}

Waiting == {"queued", "probing"}

HashHeld(h) ==
  \E d \in Clients : client[d].op = "add" /\ client[d].h = h /\ client[d].pc \notin Waiting

VersionHeld(r) ==
  \E d \in Clients : client[d].op \in Changes /\ client[d].r = r /\ client[d].pc \notin Waiting

\* What the code leaves to the operator: deletions and merges, and the views that
\* make previews, do not overlap with stores; requests wait for the migration; and
\* a merge has a winner with a current version.
MayStart(op) ==
  KeptApart =>
    /\ migration.pc = "done"
    /\ op \in Stores => \A d \in Clients : client[d].op \in Stores \cup {"none"}
    /\ op \notin Stores => \A d \in Clients : client[d].op \notin Stores

Goto(c, pc) == client' = [client EXCEPT ![c].pc = pc]

Finish(c) == client' = [client EXCEPT ![c] = NoRequest]

At(c, ops, pc) == client[c].op \in ops /\ client[c].pc = pc

TablesStay == UNCHANGED <<resources, versions, lastVersion, previews>>

Elsewhere == UNCHANGED <<migration, requests, faults>>

Begin(c, request) ==
  /\ client[c] = NoRequest
  /\ requests < MaxRequests
  /\ MayStart(request.op)
  /\ client' = [client EXCEPT ![c] = request]
  /\ requests' = requests + 1
  /\ TablesStay /\ UNCHANGED <<files, migration, faults>>

StartAdd(c, h) == Begin(c, [NoRequest EXCEPT !.op = "add", !.pc = "queued", !.h = h])

StartChange(c, op, r, h) ==
  Begin(c, [NoRequest EXCEPT !.op = op, !.pc = "queued", !.r = r, !.h = h])

StartRestore(c, r, v) ==
  Begin(c, [NoRequest EXCEPT !.op = "restore", !.pc = "queued", !.r = r, !.v = v])

StartDeleteVersion(c, r, v) ==
  Begin(c, [NoRequest EXCEPT !.op = "deleteVersion", !.pc = "reading", !.r = r, !.v = v])

StartDelete(c, r) ==
  Begin(c, [NoRequest EXCEPT !.op = "delete", !.pc = "reading", !.r = r])

StartBulkDelete(c, r, s) ==
  Begin(c, [NoRequest EXCEPT !.op = "bulkDelete", !.pc = "deleting", !.others = <<r, s>>])

\* n is 1 for keepAsVersion.
StartMerge(c, winner, loser, keep) ==
  /\ winner # loser
  /\ KeptApart => resources[winner].current # 0
  /\ Begin(c, [NoRequest EXCEPT !.op = "merge", !.pc = "deleting", !.r = winner,
                                !.n = keep, !.others = <<loser>>])

StartThumbnail(c, r) ==
  Begin(c, [NoRequest EXCEPT !.op = "thumbnail", !.pc = "reading", !.r = r])

-----------------------------------------------------------------------------
(* Putting a file under its hash: stored only when it is not there.          *)

StatFile(c) ==
  /\ At(c, Stores, "stat")
  /\ Goto(c, IF files[client[c].h] = "none" THEN "create" ELSE "saving")
  /\ TablesStay /\ Elsewhere /\ UNCHANGED files

\* Create truncates what another request may have put there since.
CreateFile(c) ==
  /\ At(c, Stores, "create")
  /\ files' = [files EXCEPT ![client[c].h] = "partial"]
  /\ Goto(c, "write")
  /\ TablesStay /\ Elsewhere

\* Mutant of WriteFile: the bytes stay behind in a buffer.
WriteNothing(c) ==
  /\ At(c, Stores, "write")
  /\ Goto(c, "saving")
  /\ TablesStay /\ Elsewhere /\ UNCHANGED files

WriteFile(c) ==
  /\ At(c, Stores, "write")
  /\ files' = [files EXCEPT ![client[c].h] = "whole"]
  /\ Goto(c, "saving")
  /\ TablesStay /\ Elsewhere

\* The request fails and leaves the file as it is.
WriteFails(c) ==
  /\ At(c, Stores, "write")
  /\ faults < MaxFaults
  /\ faults' = faults + 1
  /\ Finish(c)
  /\ TablesStay /\ UNCHANGED <<files, migration, requests>>

-----------------------------------------------------------------------------
(* AddResource.                                                              *)

\* Mutant of AddLocks: the hash lock is not waited for.
AddUnlocked(c) ==
  /\ At(c, {"add"}, "queued")
  /\ Goto(c, "checking")
  /\ TablesStay /\ Elsewhere /\ UNCHANGED files

AddLocks(c) ==
  /\ At(c, {"add"}, "queued")
  /\ ~HashHeld(client[c].h)
  /\ Goto(c, "checking")
  /\ TablesStay /\ Elsewhere /\ UNCHANGED files

\* A resource that has the content is filed under the new owner or reported, and
\* nothing is stored.
AddChecks(c) ==
  /\ At(c, {"add"}, "checking")
  /\ IF \E r \in Resources : Live(r) /\ resources[r].hash = client[c].h
     THEN Finish(c)
     ELSE Goto(c, "stat")
  /\ TablesStay /\ Elsewhere /\ UNCHANGED files

AddCommits(c) ==
  /\ At(c, {"add"}, "saving")
  /\ \E r \in Resources :
       /\ resources[r] = Unborn
       /\ resources' = [resources EXCEPT ![r] =
                          [state |-> "live", hash |-> client[c].h, current |-> lastVersion + 1]]
       /\ versions' = versions \cup {Version(lastVersion + 1, r, 1, client[c].h)}
  /\ lastVersion' = lastVersion + 1
  /\ Finish(c)
  /\ Elsewhere /\ UNCHANGED <<files, previews>>

\* Every id of the instance has been used.
AddRefused(c) ==
  /\ At(c, {"add"}, "saving")
  /\ \A r \in Resources : resources[r] # Unborn
  /\ Finish(c)
  /\ TablesStay /\ Elsewhere /\ UNCHANGED files

-----------------------------------------------------------------------------
(* UploadNewVersion, RestoreVersion, the transforms and the crop that becomes  *)
(* a resource of its own.                                                      *)

\* Mutant of LockVersion: the version lock is not waited for.
VersionUnlocked(c) ==
  /\ At(c, Changes, "queued")
  /\ Goto(c, "reading")
  /\ TablesStay /\ Elsewhere /\ UNCHANGED files

LockVersion(c) ==
  /\ At(c, Changes, "queued")
  /\ ~VersionHeld(client[c].r)
  /\ Goto(c, "reading")
  /\ TablesStay /\ Elsewhere /\ UNCHANGED files

NotThere(c) ==
  /\ At(c, Changes \cup {"delete", "thumbnail"}, "reading")
  /\ ~Live(client[c].r)
  /\ Finish(c)
  /\ TablesStay /\ Elsewhere /\ UNCHANGED files

\* A first upload writes down what the resource has as version 1, in a statement
\* of its own; then the number of the new version is read.
UploadReads(c) ==
  LET r == client[c].r IN
  /\ At(c, {"upload"}, "reading") /\ Live(r)
  /\ IF VersionsOf(r) = {}
     THEN /\ versions' = versions \cup {Version(lastVersion + 1, r, 1, resources[r].hash)}
          /\ lastVersion' = lastVersion + 1
     ELSE UNCHANGED <<versions, lastVersion>>
  /\ client' = [client EXCEPT ![c].pc = "stat",
                              ![c].n = MaxNumber(VersionsOf(r) \cup
                                         (IF VersionsOf(r) = {} THEN {[number |-> 1]} ELSE {})) + 1]
  /\ Elsewhere /\ UNCHANGED <<files, resources, previews>>

RestoreReads(c) ==
  LET r == client[c].r IN
  /\ At(c, {"restore"}, "reading") /\ Live(r)
  /\ \/ \E v \in VersionsOf(r) :
          /\ v.id = client[c].v
          /\ client' = [client EXCEPT ![c].pc = "saving", ![c].h = v.hash,
                                      ![c].n = MaxNumber(VersionsOf(r)) + 1]
     \/ /\ \A v \in VersionsOf(r) : v.id # client[c].v
        /\ Finish(c)
  /\ TablesStay /\ Elsewhere /\ UNCHANGED files

\* Rotate, crop and trim read the whole file and store what they make of it.
TransformReads(c) ==
  LET r == client[c].r IN
  /\ At(c, {"transform"}, "reading") /\ Live(r)
  /\ IF files[resources[r].hash] = "whole" THEN Goto(c, "stat") ELSE Finish(c)
  /\ TablesStay /\ Elsewhere /\ UNCHANGED files

\* The lock of the source is held for this step only.
CropReads(c) ==
  LET r == client[c].r IN
  /\ At(c, {"crop"}, "reading") /\ Live(r)
  /\ IF files[resources[r].hash] = "whole"
     THEN client' = [client EXCEPT ![c].op = "add", ![c].pc = "probing", ![c].r = "none"]
     ELSE Finish(c)
  /\ TablesStay /\ Elsewhere /\ UNCHANGED files

\* A crop that some resource already is, is refused; else it is added as any upload.
CropProbes(c) ==
  /\ At(c, {"add"}, "probing")
  /\ IF \E r \in Resources : Live(r) /\ resources[r].hash = client[c].h
     THEN Finish(c)
     ELSE Goto(c, "queued")
  /\ TablesStay /\ Elsewhere /\ UNCHANGED files

MakeCurrent(r, id, h) ==
  resources' = [resources EXCEPT ![r].hash = h, ![r].current = id]

\* Mutant of ClearPreviews.
KeepPreviews(r) == UNCHANGED previews

ClearPreviews(r) == previews' = [previews EXCEPT ![r] = {}]

\* The number was read before the transaction; a row of no resource is refused by
\* its foreign key.
VersionCommits(c) ==
  LET r == client[c].r  h == client[c].h IN
  /\ At(c, {"upload", "restore"}, "saving")
  /\ IF Live(r)
     THEN /\ versions' = versions \cup {Version(lastVersion + 1, r, client[c].n, h)}
          /\ lastVersion' = lastVersion + 1
          /\ MakeCurrent(r, lastVersion + 1, h)
          /\ ClearPreviews(r)
     ELSE TablesStay
  /\ Finish(c)
  /\ Elsewhere /\ UNCHANGED files

\* Mutant of Original: nothing is written.
NoOriginal(r) == {}

\* What a transform writes when the resource has no version yet.
Original(r) ==
  IF VersionsOf(r) = {} THEN {Version(lastVersion + 1, r, 1, resources[r].hash)} ELSE {}

TransformCommits(c) ==
  LET r == client[c].r  h == client[c].h
      id == lastVersion + Cardinality(Original(r)) + 1
  IN
  /\ At(c, {"transform"}, "saving")
  /\ IF Live(r)
     THEN /\ versions' = versions \cup Original(r) \cup
                         {Version(id, r, MaxNumber(VersionsOf(r) \cup Original(r)) + 1, h)}
          /\ lastVersion' = id
          /\ MakeCurrent(r, id, h)
          /\ ClearPreviews(r)
     ELSE TablesStay
  /\ Finish(c)
  /\ Elsewhere /\ UNCHANGED files

-----------------------------------------------------------------------------
(* DeleteVersion: four statements and a file.                                *)

\* Mutant of MayDelete: the current version may be deleted.
MayDeleteAny(r, v) == Live(r) /\ v \in VersionsOf(r) /\ Cardinality(VersionsOf(r)) > 1

MayDelete(r, v) ==
  /\ Live(r)
  /\ v \in VersionsOf(r)
  /\ resources[r].current # v.id
  /\ Cardinality(VersionsOf(r)) > 1

DeleteVersionReads(c) ==
  /\ At(c, {"deleteVersion"}, "reading")
  /\ \/ \E v \in versions :
          /\ v.id = client[c].v
          /\ MayDelete(client[c].r, v)
          /\ client' = [client EXCEPT ![c].pc = "deleting", ![c].h = v.hash]
     \/ /\ \A v \in versions : v.id = client[c].v => ~MayDelete(client[c].r, v)
        /\ Finish(c)
  /\ TablesStay /\ Elsewhere /\ UNCHANGED files

DeleteVersionRow(c) ==
  /\ At(c, {"deleteVersion"}, "deleting")
  /\ versions' = {v \in versions : v.id # client[c].v}
  /\ Goto(c, "counting")
  /\ Elsewhere /\ UNCHANGED <<files, resources, lastVersion, previews>>

DeleteVersionCounts(c) ==
  /\ At(c, {"deleteVersion"}, "counting")
  /\ client' = [client EXCEPT ![c].pc = "removing",
                              ![c].removes = IF Unreferenced(client[c].h, resources, versions)
                                             THEN {client[c].h} ELSE {}]
  /\ TablesStay /\ Elsewhere /\ UNCHANGED files

-----------------------------------------------------------------------------
(* DeleteResource, BulkDeleteResources and MergeResources: rows in one         *)
(* transaction, which also decides what files to remove; files after it.       *)

Without(gone) == [r \in Resources |->
  IF r \in gone THEN [Unborn EXCEPT !.state = "deleted"] ELSE resources[r]]

\* Mutant of VersionsWithout: the versions stay behind.
KeepAllVersions(gone) == versions

VersionsWithout(gone) == {v \in versions : v.resource \notin gone}

DeleteReads(c) ==
  /\ At(c, {"delete"}, "reading") /\ Live(client[c].r)
  /\ client' = [client EXCEPT ![c].pc = "deleting", ![c].h = resources[client[c].r].hash]
  /\ TablesStay /\ Elsewhere /\ UNCHANGED files

\* The hash counted is the one that was read before the transaction.
DeleteCommits(c) ==
  LET gone == {client[c].r} IN
  /\ At(c, {"delete"}, "deleting")
  /\ resources' = Without(gone) /\ versions' = VersionsWithout(gone)
  /\ previews' = [previews EXCEPT ![client[c].r] = {}]
  /\ client' = [client EXCEPT ![c].pc = "removing",
                              ![c].removes = IF Unreferenced(client[c].h, Without(gone), VersionsWithout(gone))
                                             THEN {client[c].h} ELSE {}]
  /\ Elsewhere /\ UNCHANGED <<files, lastVersion>>

\* What is counted for the i-th resource when those before it are gone.
Removable(seq, vers) ==
  {resources[seq[i]].hash : i \in
     {j \in DOMAIN seq :
        LET gone == {seq[k] : k \in 1 .. j}
        IN  Unreferenced(resources[seq[j]].hash, Without(gone),
                         {v \in vers : v.resource \notin gone})}}

DeleteRows(c, vers, removes) ==
  LET gone == {client[c].others[i] : i \in DOMAIN client[c].others} IN
  /\ resources' = Without(gone)
  /\ versions' = {v \in vers : v.resource \notin gone}
  /\ previews' = [r \in Resources |-> IF r \in gone THEN {} ELSE previews[r]]
  /\ client' = [client EXCEPT ![c].pc = "removing", ![c].removes = removes]

BulkDeleteCommits(c) ==
  /\ At(c, {"bulkDelete"}, "deleting")
  /\ IF \A i \in DOMAIN client[c].others : Live(client[c].others[i])
     THEN DeleteRows(c, versions, Removable(client[c].others, versions)) /\ UNCHANGED lastVersion
     ELSE Finish(c) /\ TablesStay
  /\ Elsewhere /\ UNCHANGED files

\* The loser's versions become the winner's, numbered after its own in the order
\* of their ids; with keepAsVersion what the loser shows becomes one first.
Handed(winner, loser, keep) ==
  LET kept == IF keep = 1
              THEN {Version(lastVersion + 1, winner, MaxNumber(VersionsOf(winner)) + 1,
                            resources[loser].hash)}
              ELSE {}
      base == MaxNumber(VersionsOf(winner) \cup kept)
      rank(v) == Cardinality({u \in VersionsOf(loser) : u.id <= v.id})
  IN  VersionsWithout({loser}) \cup kept \cup
      {[v EXCEPT !.resource = winner, !.number = base + rank(v)] : v \in VersionsOf(loser)}

MergeCommits(c) ==
  LET winner == client[c].r  loser == client[c].others[1]
      vers == Handed(winner, loser, client[c].n)
  IN
  /\ At(c, {"merge"}, "deleting")
  /\ IF Live(winner) /\ Live(loser)
     THEN DeleteRows(c, vers, Removable(client[c].others, vers)) /\ lastVersion' = lastVersion + client[c].n
     ELSE Finish(c) /\ TablesStay
  /\ Elsewhere /\ UNCHANGED files

RemoveFile(c) ==
  /\ client[c].pc = "removing"
  /\ \/ \E h \in client[c].removes :
          /\ files' = [files EXCEPT ![h] = "none"]
          /\ client' = [client EXCEPT ![c].removes = @ \ {h}]
     \/ client[c].removes = {} /\ Finish(c) /\ UNCHANGED files
  /\ TablesStay /\ Elsewhere

-----------------------------------------------------------------------------
(* LoadOrCreateThumbnailForResource: read, make, save.                        *)

ThumbnailReads(c) ==
  LET r == client[c].r IN
  /\ At(c, {"thumbnail"}, "reading") /\ Live(r)
  /\ IF previews[r] = {} /\ files[resources[r].hash] = "whole"
     THEN client' = [client EXCEPT ![c].pc = "making", ![c].h = resources[r].hash]
     ELSE Finish(c)
  /\ TablesStay /\ Elsewhere /\ UNCHANGED files

ThumbnailSaves(c) ==
  LET r == client[c].r IN
  /\ At(c, {"thumbnail"}, "making")
  /\ previews' = IF Live(r) THEN [previews EXCEPT ![r] = @ \cup {client[c].h}] ELSE previews
  /\ Finish(c)
  /\ Elsewhere /\ UNCHANGED <<files, resources, versions, lastVersion>>

-----------------------------------------------------------------------------
(* MigrateResourceVersions and SyncResourcesFromCurrentVersion, in the          *)
(* background of a process that already serves.                                 *)

Requesting == UNCHANGED <<client, requests, faults>>

MigrateLists ==
  /\ migration.pc = "listing"
  /\ migration' = [migration EXCEPT
       !.pc = "next",
       !.todo = {[r |-> r, h |-> resources[r].hash] :
                   r \in {s \in Resources : Live(s) /\ resources[s].current = 0}}]
  /\ TablesStay /\ Requesting /\ UNCHANGED files

\* A resource with versions and none current gets the latest; one with none gets
\* version 1 of what it had when it was listed.
MigrateCounts ==
  /\ migration.pc = "next"
  /\ \E t \in migration.todo :
       migration' = [pc |-> IF VersionsOf(t.r) = {} THEN "create" ELSE "adopt",
                     todo |-> migration.todo \ {t}, r |-> t.r, h |-> t.h]
  /\ TablesStay /\ Requesting /\ UNCHANGED files

MigrateAdopts ==
  LET r == migration.r IN
  /\ migration.pc = "adopt"
  /\ resources' = IF Live(r) /\ VersionsOf(r) # {}
                  THEN [resources EXCEPT ![r].current =
                          (CHOOSE v \in VersionsOf(r) : v.number = MaxNumber(VersionsOf(r))).id]
                  ELSE resources
  /\ migration' = [migration EXCEPT !.pc = "next"]
  /\ Requesting /\ UNCHANGED <<files, versions, lastVersion, previews>>

MigrateCreates ==
  LET r == migration.r IN
  /\ migration.pc = "create"
  /\ IF Live(r)
     THEN /\ versions' = versions \cup {Version(lastVersion + 1, r, 1, migration.h)}
          /\ lastVersion' = lastVersion + 1
          /\ migration' = [migration EXCEPT !.pc = "point", !.h = lastVersion + 1]
     ELSE UNCHANGED <<versions, lastVersion>> /\ migration' = [migration EXCEPT !.pc = "next"]
  /\ Requesting /\ UNCHANGED <<files, resources, previews>>

MigratePoints ==
  LET r == migration.r IN
  /\ migration.pc = "point"
  /\ resources' = IF Live(r) THEN [resources EXCEPT ![r].current = migration.h] ELSE resources
  /\ migration' = [migration EXCEPT !.pc = "next", !.h = "none"]
  /\ Requesting /\ UNCHANGED <<files, versions, lastVersion, previews>>

OutOfSync ==
  {[r |-> v.resource, h |-> v.hash] :
     v \in {u \in versions : \E r \in Resources :
              Live(r) /\ resources[r].current = u.id /\ resources[r].hash # u.hash}}

SyncLists ==
  /\ migration.pc = "next" /\ migration.todo = {}
  /\ migration' = [NoMigration EXCEPT !.pc = "syncing", !.todo = OutOfSync]
  /\ TablesStay /\ Requesting /\ UNCHANGED files

SyncCommits ==
  /\ migration.pc = "syncing"
  /\ LET stale == {t.r : t \in migration.todo} IN
     /\ resources' = [r \in Resources |->
          IF r \in stale /\ Live(r)
          THEN [resources[r] EXCEPT !.hash = (CHOOSE t \in migration.todo : t.r = r).h]
          ELSE resources[r]]
     /\ previews' = [r \in Resources |-> IF r \in stale THEN {} ELSE previews[r]]
  /\ migration' = NoMigration
  /\ Requesting /\ UNCHANGED <<files, versions, lastVersion>>

Migrate ==
  MigrateLists \/ MigrateCounts \/ MigrateAdopts \/ MigrateCreates \/ MigratePoints
  \/ SyncLists \/ SyncCommits

-----------------------------------------------------------------------------
\* The process dies with its requests, its locks and its migration; rows and files
\* stay as they are.
Crash ==
  /\ faults < MaxFaults
  /\ faults' = faults + 1
  /\ client' = [c \in Clients |-> NoRequest]
  /\ migration' \in {NoMigration, [NoMigration EXCEPT !.pc = "listing"]}
  /\ TablesStay /\ UNCHANGED <<files, requests>>

Start(c) ==
  \/ \E h \in Contents : StartAdd(c, h)
  \/ \E op \in Changes \ {"restore"}, h \in Contents, r \in Resources : StartChange(c, op, r, h)
  \/ \E v \in versions, r \in Resources :
       StartRestore(c, r, v.id) \/ StartDeleteVersion(c, r, v.id)
  \/ \E r \in Resources : StartDelete(c, r) \/ StartThumbnail(c, r)
  \/ \E r, s \in Resources :
       \/ r # s /\ StartBulkDelete(c, r, s)
       \/ \E keep \in {0, 1} : StartMerge(c, r, s, keep)

Serve(c) ==
  \/ StatFile(c) \/ CreateFile(c) \/ WriteFile(c) \/ WriteFails(c)
  \/ AddLocks(c) \/ AddChecks(c) \/ AddCommits(c) \/ AddRefused(c)
  \/ LockVersion(c) \/ NotThere(c) \/ UploadReads(c) \/ RestoreReads(c) \/ TransformReads(c)
  \/ CropReads(c) \/ CropProbes(c) \/ VersionCommits(c) \/ TransformCommits(c)
  \/ DeleteVersionReads(c) \/ DeleteVersionRow(c) \/ DeleteVersionCounts(c)
  \/ DeleteReads(c) \/ DeleteCommits(c) \/ BulkDeleteCommits(c) \/ MergeCommits(c) \/ RemoveFile(c)
  \/ ThumbnailReads(c) \/ ThumbnailSaves(c)

Next == Migrate \/ Crash \/ \E c \in Clients : Start(c) \/ Serve(c)

Spec == Init /\ [][Next]_vars

-----------------------------------------------------------------------------
(* Properties.                                                               *)

\* Rows and files are of their kinds, and every version has a resource.
TypeOK ==
  /\ files \in [Contents -> {"none", "partial", "whole"}]
  /\ \A r \in Resources :
       /\ resources[r].state \in {"unborn", "live", "deleted"}
       /\ Live(r) => resources[r].hash \in Contents
       /\ previews[r] \subseteq Contents
  /\ \A v \in versions : Live(v.resource) /\ v.hash \in Contents /\ v.id \in 1 .. lastVersion

Referenced == {h \in Contents : ~Unreferenced(h, resources, versions)}

\* A file a resource or a version refers to is not removed, whoever deleted,
\* merged or cleaned up other rows of its content (CountHashReferences).
RowsHaveFiles == \A h \in Referenced : files[h] # "none"

\* When no store is under way and no write has failed, the files of all rows are whole.
WholeUnlessFault ==
  (faults = 0 /\ \A c \in Clients : client[c].op \notin Stores)
    => \A h \in Referenced : files[h] = "whole"

\* A resource that still shows what it was created with.
First(r) ==
  /\ Live(r)
  /\ resources[r].current = 0 \/ \E v \in VersionsOf(r) : v.id = resources[r].current /\ v.number = 1

\* However uploads overlap, one content is not added as two resources.
NoTwins ==
  \A r, s \in Resources :
    First(r) /\ First(s) /\ resources[r].hash = resources[s].hash => r = s

\* Uploads, restores, transforms and merges never give two versions of a resource
\* the same number.
NumbersUnique ==
  \A u, v \in versions : u.resource = v.resource /\ u.number = v.number => u = v

\* The current version of a resource is one of its versions, and the fields the
\* resource is served and deduplicated by are that version's.
CurrentAgrees ==
  \A r \in Resources : Live(r) /\ resources[r].current # 0 =>
    \E v \in VersionsOf(r) : v.id = resources[r].current /\ v.hash = resources[r].hash

\* Cached previews show what their resource shows.
PreviewsCurrent == \A r \in Resources : Live(r) => previews[r] \subseteq {resources[r].hash}

\* What a resource showed before a change stays among its versions, that of a
\* resource that had no version included.
HistoryKept ==
  [][\A r \in Resources :
       Live(r) /\ resources'[r].state = "live" /\ resources'[r].hash # resources[r].hash
         => \E v \in versions' : v.resource = r /\ v.hash = resources[r].hash]_vars

\* A row never refers to a file that was taken away or truncated under it.
FilesKept == TypeOK /\ RowsHaveFiles /\ WholeUnlessFault

\* What a resource is served as, deduplicated by and previewed as is one thing.
ShownAgrees == CurrentAgrees /\ PreviewsCurrent

-----------------------------------------------------------------------------
(* What a request or the migration has read and will act on.                   *)

Request == [op : {"none", "thumbnail"} \cup Stores \cup Destroys,
            pc : {"idle", "queued", "probing", "checking", "reading", "stat", "create", "write",
                  "saving", "deleting", "counting", "removing", "making"},
            r : Resources \cup {"none"}, h : Contents \cup {"none"}, v : Nat, n : Nat,
            others : {<<>>} \cup {<<s>> : s \in Resources} \cup (Resources \X Resources),
            removes : SUBSET Contents]

\* The statuses of the requests of each kind.
Stages ==
  {<<"none", "idle">>}
  \cup ({"add"} \X {"queued", "probing", "checking", "stat", "create", "write", "saving"})
  \cup ({"upload", "transform"} \X {"queued", "reading", "stat", "create", "write", "saving"})
  \cup ({"restore"} \X {"queued", "reading", "saving"})
  \cup ({"crop"} \X {"queued", "reading"})
  \cup ({"deleteVersion"} \X {"reading", "deleting", "counting", "removing"})
  \cup ({"delete"} \X {"reading", "deleting", "removing"})
  \cup ({"bulkDelete", "merge"} \X {"deleting", "removing"})
  \cup ({"thumbnail"} \X {"reading", "making"})

Numbered(q) == q.op \in {"upload", "restore"} /\ q.pc \notin {"queued", "reading"}

Unmatched(q) == q.op = "add" /\ q.pc \notin Waiting \cup {"checking"}

\* A request stores a content that is there, gives a version a number above the
\* others, adds a content no resource was created with, deletes a version that is
\* not current, removes files no row refers to, and previews what is shown.
Fits(q) ==
  /\ <<q.op, q.pc>> \in Stages
  /\ q.op = "none" => q = NoRequest
  /\ q.op \in Changes \cup {"deleteVersion", "delete", "merge", "thumbnail"} => q.r \in Resources
  /\ q.op \in Stores \ {"restore"} \/ q.pc \in {"write", "saving", "making", "counting"} => q.h \in Contents
  /\ q.op \in {"deleteVersion", "delete"} /\ q.pc = "deleting" => q.h \in Contents
  /\ q.pc \in {"write", "saving"} => files[q.h] # "none"
  /\ Numbered(q) =>
       /\ VersionsOf(q.r) # {} /\ q.n >= 2
       /\ \A v \in VersionsOf(q.r) : v.number < q.n
  /\ Unmatched(q) => \A r \in Resources : First(r) => resources[r].hash # q.h
  /\ q.op = "deleteVersion" /\ q.pc = "deleting" =>
       \A r \in Resources : Live(r) => resources[r].current # q.v
  /\ q.pc = "removing" => \A h \in q.removes : Unreferenced(h, resources, versions)
  /\ q.pc = "making" /\ Live(q.r) => resources[q.r].hash = q.h
  /\ q.op = "bulkDelete" => q.others \in Resources \X Resources
  /\ q.op = "merge" =>
       /\ q.n \in {0, 1}
       /\ \E s \in Resources \ {q.r} : q.others = <<s>>
       /\ q.pc = "deleting" /\ Live(q.r) => resources[q.r].current # 0

\* Stores overlap with stores only, and the locks are exclusive.
RequestsApart ==
  \A c, d \in Clients :
    LET p == client[c]  q == client[d] IN
    /\ p.op \in Stores => q.op \in Stores \cup {"none"}
    /\ p.pc \notin Waiting /\ q.pc \notin Waiting =>
         /\ p.op = "add" /\ q.op = "add" /\ p.h = q.h => c = d
         /\ p.op \in Changes /\ q.op \in Changes /\ p.r = q.r => c = d

\* A file is truncated only while it is written.
Truncated ==
  faults = 0 => \A h \in Contents : files[h] = "partial" =>
    \E c \in Clients : client[c].pc = "write" /\ client[c].h = h

\* A resource with no current version has at most the version 1 of what it shows.
TablesFit ==
  /\ resources \in [Resources -> [state : {"unborn", "live", "deleted"},
                                  hash : Contents \cup {"none"}, current : Nat]]
  /\ previews \in [Resources -> SUBSET Contents]
  /\ IsFiniteSet(versions) /\ lastVersion \in Nat
  /\ \A v \in versions :
       v \in [id : Nat, resource : Resources, number : Nat, hash : Contents] /\ v.number >= 1
  /\ \A u, v \in versions : u.id = v.id => u = v
  /\ \A r \in Resources :
       /\ Live(r) /\ resources[r].current = 0 =>
            \A v \in VersionsOf(r) : v.number = 1 /\ v.hash = resources[r].hash
       /\ ~Live(r) => previews[r] = {}

\* The migration works on resources with no current version, one after the other.
Pending(r) == r \in Resources /\ Live(r) /\ resources[r].current = 0

MigrationFits ==
  /\ migration.pc # "done" => \A c \in Clients : client[c] = NoRequest
  /\ migration.pc \in {"next", "adopt", "create", "point"} =>
       \A t \in migration.todo : Pending(t.r) /\ t = [r |-> t.r, h |-> resources[t.r].hash]
  /\ migration.pc \in {"adopt", "create", "point"} =>
       /\ Pending(migration.r)
       /\ \A t \in migration.todo : t.r # migration.r
  /\ migration.pc = "adopt" => VersionsOf(migration.r) # {}
  /\ migration.pc = "create" =>
       VersionsOf(migration.r) = {} /\ migration.h = resources[migration.r].hash
  /\ migration.pc = "point" => \E v \in VersionsOf(migration.r) : v.id = migration.h
  /\ migration.pc = "syncing" => migration.todo = {}

\* What a request or the migration has read still holds when it acts on it, with
\* no lock held from the one to the other or with the locks that the code takes.
ReadsHold ==
  /\ client \in [Clients -> Request] /\ \A c \in Clients : Fits(client[c])
  /\ RequestsApart /\ Truncated /\ TablesFit /\ MigrationFits

\* No content becomes two resources and no number two versions, because what was read
\* before the write still holds at the write.
NothingDoubled == NoTwins /\ NumbersUnique /\ ReadsHold
=============================================================================
