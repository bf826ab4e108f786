---------------------------- MODULE GroupImport ----------------------------
(* Applying the plan of a parsed archive: the apply and delete handlers, which *)
(* consume and remove the plan's files, and the job that writes the blobs of   *)
(* the archive and then its rows, phase after phase, each in commits of its    *)
(* own. A job that fails hands its plan back when replaying it is harmless.    *)
(* A batch of applyBatchSize entries is one entry here. Two lookups of a GUID  *)
(* that both find nothing end in one row and one failed statement, the index   *)
(* on the GUID being unique: a lookup and its create are one step.             *)
EXTENDS Naturals, FiniteSets

CONSTANTS
  Named,           \* items found by a unique name: categories, tags, series, ...
  NoteTypes,       \* note types, whose names are not unique
  Groups, Notes,
  Media,           \* the resources
  Owner,           \* the group that owns an item, or "none"
  Refs,            \* pairs of items that are related
  Dangling,        \* groups related to the bystander, a resource outside the archive
  HashOf,          \* the hash of a resource of the archive
  Carried,         \* resources whose bytes the archive carries
  OldHash,         \* what a resource that is already there has
  Archives,        \* the sets of items that may have a GUID
  Priors,          \* the sets of items that may be there already
  Exclusions,      \* the sets of items a request may exclude
  Handlers,        \* goroutines that serve apply requests
  MaxAttempts,     \* bound on apply jobs
  MaxErrors,       \* bound on errors, refusals, cancels and crashes
  SameDecisions,   \* TRUE: all attempts on a plan have the decisions of the first
  WholeWrites,     \* TRUE: a blob whose file is created is written whole
  FilesUnshared    \* TRUE: the file of a resource that is replaced has no other row, and
                   \* no other resource of the archive has the bytes it had

Owned == Groups \cup Media \cup Notes

Items == Named \cup NoteTypes \cup Owned

Blobs == {HashOf[x] : x \in Media} \cup {OldHash}

ASSUME ImportAssumption ==
  /\ Owner \in [Owned -> Groups \cup {"none"}]
  /\ Refs \subseteq Owned \X Owned
  /\ Carried \subseteq Media /\ Dangling \subseteq Groups
  /\ \A s \in Archives \cup Priors : s \subseteq Items
  /\ MaxAttempts \in Nat /\ MaxErrors \in Nat
  /\ Named \cap NoteTypes = {} /\ (Named \cup NoteTypes) \cap Owned = {}
  /\ Groups \cap Media = {} /\ (Groups \cup Media) \cap Notes = {}
  /\ {"none", "bystander"} \cap Items = {} /\ {"none", "partial"} \cap Blobs = {}
  /\ SameDecisions \in BOOLEAN /\ WholeWrites \in BOOLEAN /\ FilesUnshared \in BOOLEAN

VARIABLES
  guided,     \* the items that have a GUID in the archive
  plan,       \* "ready": .plan.json, "applied": .plan.applied.json, or "gone"
  tar,        \* whether the staged archive is there
  chosen,     \* the decisions of the first request
  handlers,   \* by handler, its apply request
  jobs,       \* by attempt, its job and the state of ApplyImport
  attempts,   \* jobs submitted so far
  rows,       \* rows of the database that stand for items
  links,      \* many-to-many rows: sets of two keys
  blobFiles,  \* by path, its bytes: a blob, "partial" or "none"
  errors      \* errors, refusals, cancels and crashes so far

importVars ==
  <<guided, plan, tar, chosen, handlers, jobs, attempts, rows, links, blobFiles, errors>>

Attempts == 1 .. MaxAttempts

\* A row is known by its item and the attempt that created it, 0 for before.
Key(r) == <<r.item, r.by>>

NoKey == <<"none", 0>>

Bystander == <<"bystander", 0>>

Row(i, by, owner, h) == [item |-> i, by |-> by, owner |-> owner, hash |-> h, path |-> h]

Decisions ==
  [guidPolicy : {"merge", "replace", "skip"}, hashPolicy : {"skip", "duplicate"},
   excluded : Exclusions, createsTypes : BOOLEAN]

NoDecisions ==
  [guidPolicy |-> "none", hashPolicy |-> "none", excluded |-> {}, createsTypes |-> FALSE]

NoApply == [pc |-> "idle", decisions |-> NoDecisions]

NoJob == [pc |-> "none", decisions |-> NoDecisions, todo |-> {}, blob |-> "none", copy |-> NoKey,
          ids |-> [i \in Items |-> NoKey], skipped |-> {}, created |-> {},
          mutated |-> FALSE, safe |-> TRUE, cancelled |-> FALSE]

Before(i) == Row(i, 0, NoKey, IF i \in Media THEN OldHash ELSE "none")

ImportInit ==
  /\ guided \in Archives
  /\ \E prior \in Priors, other \in {"none"} \cup Blobs :
       /\ prior \subseteq guided
       /\ FilesUnshared =>
            /\ other # OldHash
            /\ \A x \in prior \cap Media :
                 prior \cap Media = {x} /\ \A y \in Carried \ {x} : HashOf[y] # OldHash
       /\ rows = {Before(i) : i \in prior} \cup
                 (IF other = "none" THEN {} ELSE {Row("bystander", 0, NoKey, other)})
  /\ blobFiles = [b \in Blobs |-> IF \E r \in rows : r.path = b THEN b ELSE "none"]
  /\ links = {}
  /\ plan = "ready" /\ tar = TRUE /\ chosen = NoDecisions
  /\ handlers = [c \in Handlers |-> NoApply]
  /\ jobs = [a \in Attempts |-> NoJob] /\ attempts = 0
  /\ errors = 0

-----------------------------------------------------------------------------
(* The handlers.                                                             *)

Importing == UNCHANGED <<guided, rows, links, blobFiles>>

Error == errors < MaxErrors /\ errors' = errors + 1

\* Stat, load and validate.
ApplyLoads(c, d) ==
  /\ handlers[c] = NoApply /\ attempts < MaxAttempts
  /\ plan = "ready"
  /\ SameDecisions => chosen \in {NoDecisions, d}
  /\ chosen' = IF chosen = NoDecisions THEN d ELSE chosen
  /\ handlers' = [handlers EXCEPT ![c] = [pc |-> "loaded", decisions |-> d]]
  /\ Importing /\ UNCHANGED <<plan, tar, jobs, attempts, errors>>

\* Mutant of Consume: the plan is copied, not renamed.
ConsumeCopy(c) ==
  /\ handlers[c].pc = "loaded"
  /\ handlers' = [handlers EXCEPT ![c].pc = "consumed"]
  /\ plan' = "applied"
  /\ Importing /\ UNCHANGED <<tar, chosen, jobs, attempts, errors>>

\* The rename of .plan.json fails for all but one.
Consume(c) ==
  /\ handlers[c].pc = "loaded"
  /\ IF plan = "ready"
     THEN /\ plan' = "applied"
          /\ handlers' = [handlers EXCEPT ![c].pc = "consumed"]
     ELSE /\ handlers' = [handlers EXCEPT ![c] = NoApply]
          /\ UNCHANGED plan
  /\ Importing /\ UNCHANGED <<tar, chosen, jobs, attempts, errors>>

Submit(c) ==
  /\ handlers[c].pc = "consumed" /\ attempts < MaxAttempts
  /\ attempts' = attempts + 1
  /\ jobs' = [jobs EXCEPT ![attempts + 1] =
                [NoJob EXCEPT !.pc = "loading", !.decisions = handlers[c].decisions]]
  /\ handlers' = [handlers EXCEPT ![c] = NoApply]
  /\ Importing /\ UNCHANGED <<plan, tar, chosen, errors>>

\* The rename back finds nothing when the import was deleted meanwhile.
GiveBack == plan' = IF plan = "applied" THEN "ready" ELSE plan

SubmitRefused(c) ==
  /\ handlers[c].pc = "consumed"
  /\ Error
  /\ GiveBack
  /\ handlers' = [handlers EXCEPT ![c] = NoApply]
  /\ Importing /\ UNCHANGED <<tar, chosen, jobs, attempts>>

\* Cancels the parse job only, and removes the files of the import.
DeleteImport ==
  /\ tar
  /\ plan' = "gone" /\ tar' = FALSE
  /\ Importing /\ UNCHANGED <<chosen, handlers, jobs, attempts, errors>>

-----------------------------------------------------------------------------
(* How an attempt ends.                                                      *)

Ended == {"none", "failed", "completed", "lost"}

Running(a) == jobs[a].pc \notin Ended

Cancel(a) ==
  /\ Running(a) /\ ~jobs[a].cancelled
  /\ Error
  /\ jobs' = [jobs EXCEPT ![a].cancelled = TRUE]
  /\ Importing /\ UNCHANGED <<plan, tar, chosen, handlers, attempts>>

HandlersStay == UNCHANGED <<guided, tar, chosen, handlers, attempts>>

\* Mutant of shouldRestorePlan: what the attempt has written is not asked.
RestoreAlways(job) == job.pc # "none"

\* There is no result before the blobs are written.
shouldRestorePlan(job) ==
  job.pc \in {"loading", "blobs", "writing"} \/ ~job.mutated \/ job.safe

FailWith(a, mutated) ==
  LET job == [jobs[a] EXCEPT !.mutated = mutated] IN
  /\ jobs' = [jobs EXCEPT ![a] = [job EXCEPT !.pc = "failed"]]
  /\ IF shouldRestorePlan(job) THEN GiveBack ELSE UNCHANGED plan

Fail(a) == FailWith(a, jobs[a].mutated)

Advance(a, pc, todo) ==
  /\ jobs' = [jobs EXCEPT ![a].pc = pc, ![a].todo = todo]
  /\ UNCHANGED plan

\* Where the code asks whether the job was cancelled.
Checkpoint(a, pc, todo) == IF jobs[a].cancelled THEN Fail(a) ELSE Advance(a, pc, todo)

Complete(a) ==
  /\ jobs[a].pc = "linking" /\ jobs[a].todo = {}
  /\ jobs' = [jobs EXCEPT ![a].pc = "completed"]
  /\ plan' = IF plan = "applied" THEN "gone" ELSE plan
  /\ HandlersStay /\ UNCHANGED <<rows, links, blobFiles, errors>>

-----------------------------------------------------------------------------
(* Phase 1: the blobs, then what a retry of this attempt would risk.          *)

LoadImportPlan(a) ==
  /\ jobs[a].pc = "loading"
  /\ IF plan = "gone" \/ ~tar
     THEN Fail(a)
     ELSE Advance(a, "blobs", {HashOf[x] : x \in Carried})
  /\ HandlersStay /\ UNCHANGED <<rows, links, blobFiles, errors>>

\* A file that is there already is taken to be the blob.
OnBlob(a) ==
  /\ jobs[a].pc = "blobs"
  /\ \E b \in jobs[a].todo :
       IF jobs[a].cancelled
       THEN Fail(a) /\ UNCHANGED blobFiles
       ELSE IF blobFiles[b] # "none"
       THEN Advance(a, "blobs", jobs[a].todo \ {b}) /\ UNCHANGED blobFiles
       ELSE /\ jobs' = [jobs EXCEPT ![a].pc = "writing", ![a].blob = b, ![a].todo = @ \ {b}]
            /\ blobFiles' = [blobFiles EXCEPT ![b] = "partial"]
            /\ UNCHANGED plan
  /\ HandlersStay /\ UNCHANGED <<rows, links, errors>>

WriteBlob(a) ==
  /\ jobs[a].pc = "writing"
  /\ blobFiles' = [blobFiles EXCEPT ![jobs[a].blob] = jobs[a].blob]
  /\ jobs' = [jobs EXCEPT ![a].pc = "blobs", ![a].blob = "none"]
  /\ HandlersStay /\ UNCHANGED <<plan, rows, links, errors>>

\* The archive cannot be read on, or the file of a blob is left as it is.
BlobFails(a) ==
  /\ jobs[a].pc = "blobs" \/ (jobs[a].pc = "writing" /\ ~WholeWrites)
  /\ Error
  /\ Fail(a)
  /\ HandlersStay /\ UNCHANGED <<rows, links, blobFiles>>

\* evaluateRetrySafety.
RetrySafe(d) ==
  /\ d.guidPolicy # "skip"
  /\ Owned \subseteq guided
  /\ NoteTypes \subseteq guided \/ ~d.createsTypes

EndBlobs(a) ==
  LET d == jobs[a].decisions IN
  /\ jobs[a].pc = "blobs" /\ jobs[a].todo = {}
  /\ IF jobs[a].cancelled
     THEN Fail(a)
     ELSE /\ jobs' = [jobs EXCEPT ![a].pc = "defs", ![a].safe = RetrySafe(d),
                        ![a].todo = Named \cup {i \in NoteTypes : d.createsTypes}]
          /\ UNCHANGED plan
  /\ HandlersStay /\ UNCHANGED <<rows, links, blobFiles, errors>>

-----------------------------------------------------------------------------
(* Phase 2: schema definitions and series, groups, resources, notes.          *)

\* The row that has the GUID of an item.
Matches(i) == IF i \in guided THEN {r \in rows : r.item = i} ELSE {}

\* A note type is not looked for by its name.
SameDef(i) == IF i \in Named THEN {r \in rows : r.item = i} ELSE Matches(i)

Mapped(a, i) == jobs[a].ids[i] # NoKey

\* Mutant of OwnerKey: the owner is taken to be a row of this attempt.
OwnerKeyNew(a, i) == IF Owner[i] = "none" THEN NoKey ELSE <<Owner[i], a>>

OwnerKey(a, i) == IF Owner[i] = "none" THEN NoKey ELSE jobs[a].ids[Owner[i]]

applySchemaDefDecisions(a) ==
  /\ jobs[a].pc = "defs"
  /\ \E i \in jobs[a].todo :
       \/ /\ SameDef(i) # {}
          /\ \E r \in SameDef(i) :
               jobs' = [jobs EXCEPT ![a].todo = @ \ {i}, ![a].ids[i] = Key(r)]
          /\ UNCHANGED rows
       \/ /\ SameDef(i) = {}
          /\ rows' = rows \cup {Row(i, a, NoKey, "none")}
          /\ jobs' = [jobs EXCEPT ![a].todo = @ \ {i}, ![a].ids[i] = <<i, a>>, ![a].mutated = TRUE]
  /\ HandlersStay /\ UNCHANGED <<plan, links, blobFiles, errors>>

EndDefs(a) ==
  /\ jobs[a].pc = "defs" /\ jobs[a].todo = {}
  /\ Checkpoint(a, "groups", {})
  /\ HandlersStay /\ UNCHANGED <<rows, links, blobFiles, errors>>

\* Mutant of Reached: the children of an excluded group are walked.
ReachedAnyway(a) ==
  {g \in Groups \ jobs[a].decisions.excluded :
     ~Mapped(a, g) /\ (Owner[g] = "none" \/ Mapped(a, Owner[g])
                        \/ Owner[g] \in jobs[a].decisions.excluded)}

\* The walk comes to a group after its parent, and not at all below an excluded one.
Reached(a) ==
  {g \in Groups \ jobs[a].decisions.excluded :
     ~Mapped(a, g) /\ (Owner[g] = "none" \/ Mapped(a, Owner[g]))}

\* mergeGroup, mergeResource and mergeNote, and the replaces, set the owner.
Adopted(a, r) ==
  IF OwnerKey(a, r.item) = NoKey THEN r ELSE [r EXCEPT !.owner = OwnerKey(a, r.item)]

applyGroups(a) ==
  /\ jobs[a].pc = "groups"
  /\ \E g \in Reached(a) :
       \/ /\ Matches(g) = {}
          /\ rows' = rows \cup {Row(g, a, OwnerKey(a, g), "none")}
          /\ jobs' = [jobs EXCEPT ![a].ids[g] = <<g, a>>, ![a].created = @ \cup {<<g, a>>},
                                  ![a].mutated = TRUE]
       \/ /\ jobs[a].decisions.guidPolicy = "skip"
          /\ \E r \in Matches(g) :
               jobs' = [jobs EXCEPT ![a].ids[g] = Key(r), ![a].skipped = @ \cup {g}]
          /\ UNCHANGED rows
       \/ /\ jobs[a].decisions.guidPolicy # "skip"
          /\ \E r \in Matches(g) :
               /\ rows' = (rows \ {r}) \cup {Adopted(a, r)}
               /\ jobs' = [jobs EXCEPT ![a].ids[g] = Key(r), ![a].mutated = TRUE]
  /\ HandlersStay /\ UNCHANGED <<plan, links, blobFiles, errors>>

\* Entries whose owner group was excluded are left out.
Entries(a, kind) ==
  {i \in kind \ jobs[a].decisions.excluded : Owner[i] = "none" \/ Mapped(a, Owner[i])}

EndGroups(a) ==
  /\ jobs[a].pc = "groups" /\ Reached(a) = {}
  /\ Checkpoint(a, "resources", Entries(a, Media))
  /\ HandlersStay /\ UNCHANGED <<rows, links, blobFiles, errors>>

Done(a, i) == [jobs[a] EXCEPT !.todo = @ \ {i}]

HasBlob(x) == \E y \in Carried : HashOf[y] = HashOf[x]

\* Mutant of CopyAfter: a resource that has the hash already is left alone.
CopyUnlessSame(x, r, job) ==
  IF r.hash = HashOf[x] THEN job ELSE [job EXCEPT !.pc = "copying", !.copy = Key(r)]

\* The copy that is left to do after the commit of a replacement.
CopyAfter(x, r, job) == [job EXCEPT !.pc = "copying", !.copy = Key(r)]

\* A resource whose GUID is known. A replaced one keeps its path, and its new bytes
\* are copied there after the commit; its id is listed with the created ones.
CollideByGUID(a, x, r) ==
  LET job == [Done(a, x) EXCEPT !.ids[x] = Key(r)] IN
  CASE jobs[a].decisions.guidPolicy = "skip" ->
         /\ jobs' = [jobs EXCEPT ![a] = [job EXCEPT !.skipped = @ \cup {x}]]
         /\ UNCHANGED rows
    [] jobs[a].decisions.guidPolicy = "merge" \/ ~HasBlob(x) ->
         /\ rows' = (rows \ {r}) \cup {Adopted(a, r)}
         /\ jobs' = [jobs EXCEPT ![a] = [job EXCEPT !.mutated = TRUE]]
    [] OTHER ->
         /\ rows' = (rows \ {r}) \cup {[Adopted(a, r) EXCEPT !.hash = HashOf[x]]}
         /\ jobs' = [jobs EXCEPT ![a] = CopyAfter(x, r,
                        [job EXCEPT !.mutated = TRUE, !.created = @ \cup {Key(r)}])]

SameHash(x) == {r \in rows : r.hash = HashOf[x]}

\* A resource the database has by hash is reused, when the policy or missing bytes
\* ask for it; one whose bytes are nowhere is left out.
ReuseByHash(a, x) ==
  /\ jobs[a].decisions.hashPolicy = "skip" \/ x \notin Carried
  /\ \/ \E r \in SameHash(x) :
          jobs' = [jobs EXCEPT ![a] = [Done(a, x) EXCEPT !.ids[x] = Key(r), !.skipped = @ \cup {x}]]
     \/ SameHash(x) = {} /\ x \notin Carried /\ jobs' = [jobs EXCEPT ![a] = Done(a, x)]
  /\ UNCHANGED rows

CreateResource(a, x) ==
  /\ x \in Carried
  /\ jobs[a].decisions.hashPolicy = "skip" => SameHash(x) = {}
  /\ rows' = rows \cup {Row(x, a, OwnerKey(a, x), HashOf[x])}
  /\ jobs' = [jobs EXCEPT ![a] = [Done(a, x) EXCEPT
                !.ids[x] = <<x, a>>, !.created = @ \cup {<<x, a>>}, !.mutated = TRUE]]

applyResources(a) ==
  /\ jobs[a].pc = "resources"
  /\ \E x \in jobs[a].todo :
       \/ jobs[a].cancelled /\ Fail(a) /\ UNCHANGED rows
       \/ /\ ~jobs[a].cancelled
          /\ \/ \E r \in Matches(x) : CollideByGUID(a, x, r)
             \/ Matches(x) = {} /\ (ReuseByHash(a, x) \/ CreateResource(a, x))
          /\ UNCHANGED plan
  /\ HandlersStay /\ UNCHANGED <<links, blobFiles, errors>>

\* copyBlob stages the bytes beside the live file and renames them over it.
copyBlob(a) ==
  /\ jobs[a].pc = "copying"
  /\ \E r \in rows :
       /\ Key(r) = jobs[a].copy
       /\ blobFiles' = [blobFiles EXCEPT ![r.path] = blobFiles[r.hash]]
  /\ jobs' = [jobs EXCEPT ![a].pc = "resources", ![a].copy = NoKey]
  /\ HandlersStay /\ UNCHANGED <<plan, rows, links, errors>>

CopyFails(a) ==
  /\ jobs[a].pc = "copying"
  /\ Error
  /\ Fail(a)
  /\ HandlersStay /\ UNCHANGED <<rows, links, blobFiles>>

EndResources(a) ==
  /\ jobs[a].pc = "resources" /\ jobs[a].todo = {}
  /\ Checkpoint(a, "notes", Entries(a, Notes))
  /\ HandlersStay /\ UNCHANGED <<rows, links, blobFiles, errors>>

\* The links that merging or replacing a note writes in the same transaction.
NoteLinks(a, n, r) ==
  {{Key(r), jobs[a].ids[e[2]]} : e \in {f \in Refs : f[1] = n /\ Mapped(a, f[2])}}

applyNotes(a) ==
  /\ jobs[a].pc = "notes"
  /\ \E n \in jobs[a].todo :
       \/ jobs[a].cancelled /\ Fail(a) /\ UNCHANGED <<rows, links>>
       \/ /\ ~jobs[a].cancelled /\ Matches(n) = {}
          /\ rows' = rows \cup {Row(n, a, OwnerKey(a, n), "none")}
          /\ jobs' = [jobs EXCEPT ![a] = [Done(a, n) EXCEPT
                        !.ids[n] = <<n, a>>, !.created = @ \cup {<<n, a>>}, !.mutated = TRUE]]
          /\ UNCHANGED <<plan, links>>
       \/ /\ ~jobs[a].cancelled /\ jobs[a].decisions.guidPolicy = "skip"
          /\ \E r \in Matches(n) :
               jobs' = [jobs EXCEPT ![a] = [Done(a, n) EXCEPT !.ids[n] = Key(r), !.skipped = @ \cup {n}]]
          /\ UNCHANGED <<plan, rows, links>>
       \/ /\ ~jobs[a].cancelled /\ jobs[a].decisions.guidPolicy # "skip"
          /\ \E r \in Matches(n) :
               /\ rows' = (rows \ {r}) \cup {Adopted(a, r)}
               /\ jobs' = [jobs EXCEPT ![a] = [Done(a, n) EXCEPT !.ids[n] = Key(r), !.mutated = TRUE]]
               /\ links' = NoteLinks(a, n, r) \cup
                            {l \in links : jobs[a].decisions.guidPolicy = "replace" => Key(r) \notin l}
          /\ UNCHANGED plan
  /\ HandlersStay /\ UNCHANGED <<blobFiles, errors>>

-----------------------------------------------------------------------------
(* The relationships, one statement each.                                     *)

\* Mutant of Wired: only what this attempt created is wired.
WiredIfCreated(a) ==
  {e \in Refs : Mapped(a, e[2]) /\ jobs[a].ids[e[1]] \in jobs[a].created}

Wired(a) ==
  {e \in Refs : Mapped(a, e[1]) /\ Mapped(a, e[2]) /\ e[1] \notin jobs[a].skipped}

\* A dangling reference is mapped to the bystander when there is one, for a group
\* that was skipped as well.
Remapped(a) ==
  {<<g, "bystander">> : g \in {h \in Dangling : Mapped(a, h) /\ \E r \in rows : Key(r) = Bystander}}

EndNotes(a) ==
  /\ jobs[a].pc = "notes" /\ jobs[a].todo = {}
  /\ Checkpoint(a, "linking", Wired(a) \cup Remapped(a))
  /\ HandlersStay /\ UNCHANGED <<rows, links, blobFiles, errors>>

applyM2MLinks(a) ==
  /\ jobs[a].pc = "linking"
  /\ \E e \in jobs[a].todo :
       /\ links' = links \cup {{jobs[a].ids[e[1]], IF e[2] = "bystander" THEN Bystander
                                                   ELSE jobs[a].ids[e[2]]}}
       /\ Advance(a, "linking", jobs[a].todo \ {e})
  /\ HandlersStay /\ UNCHANGED <<rows, blobFiles, errors>>

\* Mutant of StatementFails: the ids of a batch that is rolled back are listed.
StatementFailsListed(a) ==
  /\ jobs[a].pc = "resources" /\ jobs[a].todo # {}
  /\ Error
  /\ \E x \in jobs[a].todo :
       jobs' = [jobs EXCEPT ![a].pc = "failed", ![a].created = @ \cup {<<x, a>>}]
  /\ HandlersStay /\ UNCHANGED <<plan, rows, links, blobFiles>>

\* A statement or a commit fails. A merge counts as one although its transaction is
\* rolled back.
StatementFails(a) ==
  /\ jobs[a].pc \in {"defs", "groups", "resources", "notes", "linking"}
  /\ Error
  /\ \E merged \in BOOLEAN :
       /\ merged => /\ jobs[a].pc \in {"resources", "notes"}
                    /\ jobs[a].decisions.guidPolicy # "skip"
                    /\ \E i \in jobs[a].todo : Matches(i) # {}
       /\ FailWith(a, jobs[a].mutated \/ merged)
  /\ HandlersStay /\ UNCHANGED <<rows, links, blobFiles>>

\* The jobs of a process die with it; its files and rows stay.
ImportCrash ==
  /\ Error
  /\ WholeWrites => \A a \in Attempts : jobs[a].pc # "writing"
  /\ jobs' = [a \in Attempts |-> IF Running(a) THEN [jobs[a] EXCEPT !.pc = "lost"] ELSE jobs[a]]
  /\ handlers' = [c \in Handlers |-> NoApply]
  /\ UNCHANGED <<guided, plan, tar, chosen, attempts, rows, links, blobFiles>>

Work(a) ==
  \/ LoadImportPlan(a) \/ OnBlob(a) \/ WriteBlob(a) \/ BlobFails(a) \/ EndBlobs(a)
  \/ applySchemaDefDecisions(a) \/ EndDefs(a) \/ applyGroups(a) \/ EndGroups(a)
  \/ applyResources(a) \/ copyBlob(a) \/ CopyFails(a) \/ EndResources(a)
  \/ applyNotes(a) \/ EndNotes(a) \/ applyM2MLinks(a) \/ StatementFails(a)
  \/ Complete(a) \/ Cancel(a)

Handle(c) ==
  \/ \E d \in Decisions : ApplyLoads(c, d)
  \/ Consume(c) \/ Submit(c) \/ SubmitRefused(c)

ImportNext ==
  DeleteImport \/ ImportCrash \/ (\E c \in Handlers : Handle(c)) \/ (\E a \in Attempts : Work(a))

ImportSpec == ImportInit /\ [][ImportNext]_importVars

-----------------------------------------------------------------------------
(* Properties.                                                               *)

\* Rows are of items or the bystander, owned and linked by rows that are there.
ImportTypeOK ==
  LET keys == {Key(r) : r \in rows} IN
  /\ plan \in {"ready", "applied", "gone"} /\ attempts \in 0 .. MaxAttempts
  /\ \A r, s \in rows : Key(r) = Key(s) => r = s
  /\ \A r \in rows : r.owner \in keys \cup {NoKey}
  /\ \A l \in links : l \subseteq keys
  /\ \A b \in Blobs : blobFiles[b] \in Blobs \cup {"partial", "none"}

\* However many requests apply a plan, one attempt on it runs at a time.
AppliesAlone == \A a, b \in Attempts : Running(a) /\ Running(b) => a = b

\* A plan that is handed back after a failure never has an item created twice,
\* whatever the failed attempts had committed and whichever items lack a GUID.
NothingTwice ==
  \A r, s \in rows : r.item = s.item /\ r.by > 0 => r = s

\* Every row of a failed or cancelled attempt is in the lists its result gives for
\* cleaning up, and what the lists name is there: nothing of a batch rolled back.
CreatedListed ==
  \A a \in Attempts :
    /\ {Key(r) : r \in {s \in rows : s.by = a /\ s.item \in Owned}} \subseteq jobs[a].created
    /\ jobs[a].created \subseteq {Key(r) : r \in rows}

\* What was created below a group of the archive is owned by that group's row:
\* leaving out a group leaves no part of it behind without an owner.
OwnersInPlace ==
  \A r \in rows :
    r.by > 0 /\ r.item \in Owned /\ Owner[r.item] # "none" => r.owner[1] = Owner[r.item]

\* The last attempt on the plan, when it is over and was not undone by errors.
Completed(a) == a = attempts /\ jobs[a].pc = "completed"

Own(a, i) == jobs[a].ids[i][1] = i /\ jobs[a].ids[i][2] > 0

\* After an attempt that completes, all the archive's relations between rows that it
\* or the attempts before it created are there.
GraphComplete ==
  \A a \in Attempts : Completed(a) =>
    \A e \in Refs : Own(a, e[1]) /\ Own(a, e[2]) => {jobs[a].ids[e[1]], jobs[a].ids[e[2]]} \in links

\* After an attempt that completes, the file of every resource has the bytes of its
\* hash, those whose copy an earlier attempt failed to make included.
BytesMatch ==
  \A a \in Attempts : Completed(a) =>
    \A r \in rows : r.item \in Media \cup {"bystander"} => blobFiles[r.path] = r.hash

-----------------------------------------------------------------------------
(* What an attempt has found and done so far, and what its retries rely on.    *)

Keys == {Key(r) : r \in rows}

\* The requests on a plan bring one set of decisions, and only the last job runs.
Decided ==
  /\ \A c \in Handlers : handlers[c].pc # "idle" =>
       chosen \in Decisions /\ handlers[c].decisions = chosen
  /\ \A a \in Attempts :
       IF a > attempts THEN jobs[a] = NoJob
       ELSE chosen \in Decisions /\ jobs[a].decisions = chosen /\ jobs[a].pc # "none"
  /\ \A a \in Attempts : Running(a) => a = attempts

\* Rows an attempt created outlive it, and no retry of a plan that is not safe to
\* retry ever meets them.
CreatedOnce(r) ==
  /\ jobs[r.by].mutated /\ jobs[r.by].safe = RetrySafe(chosen)
  /\ jobs[r.by].pc \notin {"none", "loading", "blobs", "writing"}
  /\ RetrySafe(chosen) \/ (/\ r.by = attempts
                           /\ Running(r.by) \/ (/\ plan # "ready"
                                                /\ \A c \in Handlers : handlers[c].pc # "consumed"))
  /\ r.item \in NoteTypes => chosen.createsTypes
  /\ r.item \in Media => r.item \in Carried /\ r.hash = HashOf[r.item] /\ r.path = r.hash

FoundBefore(r) ==
  /\ r.item \in guided \cup {"bystander"}
  /\ r.item = "bystander" => r.hash \in Blobs \ {OldHash} /\ r.path = r.hash
  /\ r.item \in Media =>
       /\ r.hash \in {OldHash, HashOf[r.item]} /\ r.path = OldHash
       /\ \A y \in Carried \ {r.item} : HashOf[y] # OldHash
       /\ \A s \in rows : s.by = 0 /\ s.item \in Media => s = r

RowsFit ==
  /\ \A r, s \in rows : r.item = s.item => r = s
  /\ \A r \in rows : IF r.by = 0 THEN FoundBefore(r)
                     ELSE r.by \in Attempts /\ r.item \in Items /\ CreatedOnce(r)

\* The ids and lists of an attempt name rows: its own by their items, and of those it
\* skipped none that an attempt created.
MapsFit(a) ==
  /\ \A i \in Items : Mapped(a, i) =>
       jobs[a].ids[i] \in Keys /\ (i \notin Media => jobs[a].ids[i][1] = i)
  /\ \A r \in rows : r.by = a => jobs[a].ids[r.item] = Key(r)
  /\ \A i \in jobs[a].skipped : i \in Items /\ Mapped(a, i) /\ ~Own(a, i)

OwnerMapped(a, i) == Owner[i] = "none" \/ Mapped(a, Owner[i])

Linked(a, e) == {jobs[a].ids[e[1]], jobs[a].ids[e[2]]} \in links

\* What is left to do is still undone, and what it rests on is done.
PhaseFits(a) ==
  LET j == jobs[a]
      Undone(S) == \A i \in S : ~Mapped(a, i) IN
  /\ j.pc \in {"none", "loading", "blobs", "writing"} =>
       Undone(Items) /\ j.skipped = {} /\ j.created = {} /\ ~j.mutated
  /\ Running(a) /\ j.pc \notin {"loading", "blobs", "writing"} => j.safe = RetrySafe(chosen)
  /\ j.pc = "defs" =>
       /\ j.todo \subseteq Named \cup {i \in NoteTypes : chosen.createsTypes}
       /\ Undone(j.todo \cup Owned)
  /\ j.pc = "groups" => Undone(Media \cup Notes)
  /\ j.pc \in {"resources", "copying"} =>
       j.todo \subseteq Media \ chosen.excluded /\ Undone(j.todo \cup Notes)
  /\ j.pc = "notes" => j.todo \subseteq Notes /\ Undone(j.todo)
  /\ j.pc \in {"resources", "copying", "notes"} => \A i \in j.todo : OwnerMapped(a, i)
  /\ j.pc = "linking" =>
       /\ \A e \in j.todo : e \in Wired(a) \/ (/\ e[1] \in Groups /\ e[2] = "bystander"
                                               /\ Mapped(a, e[1]) /\ Bystander \in Keys)
       /\ \A e \in Wired(a) : e \in j.todo \/ Linked(a, e)
  /\ Completed(a) => \A e \in Wired(a) : Linked(a, e)

RecordsFit == Decided /\ RowsFit /\ \A a \in Attempts : MapsFit(a) /\ PhaseFits(a)

\* The groups that the walk of the groups comes to, and what is applied below them.
Walked(d) ==
  {g \in Groups : \A S \in SUBSET Groups :
     (\A h \in Groups \ d.excluded : Owner[h] = "none" \/ Owner[h] \in S => h \in S) => g \in S}

Due(i) == i \notin chosen.excluded /\ (Owner[i] = "none" \/ Owner[i] \in Walked(chosen))

\* A replaced resource that lacks its bytes: the attempt at work still comes to it.
Unwritten(r) ==
  LET j == jobs[attempts] IN
  /\ r.by = 0 /\ r.item \in Media /\ r.hash = HashOf[r.item] /\ HasBlob(r.item)
  /\ chosen.guidPolicy = "replace" /\ Due(r.item)
  /\ attempts > 0 /\ j.pc \notin {"notes", "linking", "completed"}
  /\ j.pc \in {"resources", "copying"} =>
       r.item \in j.todo \/ (j.pc = "copying" /\ j.copy = Key(r))

Writing(b) == \E a \in Attempts : jobs[a].pc = "writing" /\ jobs[a].blob = b

\* A file has the bytes of its name, or those that replaced them, once it is written.
FileFits(b) ==
  \/ blobFiles[b] \in {"none", b}
  \/ blobFiles[b] = "partial" /\ Writing(b)
  \/ b = OldHash /\ \E r \in rows : /\ r.by = 0 /\ r.item \in Media
                                    /\ HashOf[r.item] # OldHash /\ blobFiles[b] = HashOf[r.item]

\* A carried blob is on disk before the rows that need it.
BlobsFit(a) ==
  LET j == jobs[a] IN
  /\ j.pc \in {"blobs", "writing"} => j.todo \subseteq {HashOf[y] : y \in Carried}
  /\ j.pc = "writing" => j.blob \in Blobs /\ blobFiles[j.blob] = "partial"
  /\ j.pc \in {"blobs", "writing", "defs", "groups", "resources", "copying"} =>
       \A y \in Carried : \/ blobFiles[HashOf[y]] = HashOf[y]
                          \/ j.pc \in {"blobs", "writing"} /\ HashOf[y] \in j.todo
                          \/ j.pc = "writing" /\ j.blob = HashOf[y]
  /\ j.pc = "copying" =>
       \E r \in rows : /\ Key(r) = j.copy /\ r.item \in Media
                       /\ r.hash = HashOf[r.item] /\ HasBlob(r.item)
  /\ \A g \in Groups : Mapped(a, g) => g \in Walked(chosen)

FilesFit ==
  /\ \A b \in Blobs : FileFits(b)
  /\ \A a \in Attempts : BlobsFit(a)
  /\ \A r \in rows : r.item \in Media \cup {"bystander"} =>
       blobFiles[r.path] \in Blobs /\ (blobFiles[r.path] = r.hash \/ Unwritten(r))

\* However often a plan is replayed: each item once, and all that was made listed; when
\* it completes, with owners, relations and bytes in place; because what an attempt has
\* read and decided, and what an earlier one left, holds when it acts on it.
ImportExact ==
  /\ ImportTypeOK /\ NothingTwice /\ CreatedListed
  /\ OwnersInPlace /\ GraphComplete /\ BytesMatch
  /\ RecordsFit /\ FilesFit
=============================================================================
