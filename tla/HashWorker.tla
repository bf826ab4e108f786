----------------------------- MODULE HashWorker -----------------------------
(* The perceptual hashes of src/hash_worker and the pairs of similar images  *)
(* found with them.  Goroutines take images from the queue of uploads, from  *)
(* the batch of images without a hash and from the backfill of old hashes;   *)
(* an administrator recomputes the pairs; images are uploaded, changed and   *)
(* deleted meanwhile.  One step is one statement of the database.            *)
EXTENDS Naturals, FiniteSets, Sequences

CONSTANTS
  Images,       \* resources whose content type is hashable
  Legacy,       \* those that have a hash of version 1 at the start
  Pictures,     \* what a file may show
  Alike,        \* pairs of pictures within MaxStoredPDistance
  Near,         \* pairs of pictures that share a chunk, as far as the prefilter tells
  Flat,         \* pictures without variance
  Undecodable,  \* files that cannot be hashed
  Hashers,      \* goroutines
  QueueLength,  \* capacity of hashQueue
  CacheSize,    \* capacity of hashCache
  MaxChanges,   \* bound on changes of files
  MaxEnds       \* bound on ends of the process and on cancelled recomputes

ASSUME HashAssumption ==
  /\ Legacy \subseteq Images
  /\ Flat \subseteq Pictures /\ Undecodable \subseteq Pictures
  /\ \A p \in Alike \cup Near : p \subseteq Pictures \ (Flat \cup Undecodable)
  /\ Alike \subseteq Near
  /\ QueueLength \in Nat /\ CacheSize \in Nat /\ MaxChanges \in Nat /\ MaxEnds \in Nat

Nothing == "nothing"
Deleted == "deleted"

ASSUME ImageNamesAssumption == Nothing \notin Pictures \cup Images /\ Deleted \notin Pictures

VARIABLES
  file,       \* [Images -> what the file of the image shows, Nothing before, Deleted after]
  hash,       \* [Images -> its row of image_hashes]
  pairs,      \* resource_similarities: sets of two images
  cache,      \* hashCache: [Images -> the picture whose hash it holds]
  hashQueue,
  hasher,     \* [Hashers -> the image in hand]
  changing,   \* images whose file has changed and whose old hash is still to be deleted
  recompute,  \* RecomputeV2Pairs
  tally,      \* changes and ends so far
  lost,       \* whether a match was cut short since the last whole recompute
  overtaken,  \* images whose hash was deleted while a goroutine had the old file in hand
  changed     \* images whose file has ever changed

hashVars == <<file, hash, pairs, cache, hashQueue, hasher, changing, recompute, tally, lost,
              overtaken, changed>>

NoHash == [version |-> 0, of |-> Nothing]
NoImage == [at |-> "idle", image |-> Nothing, of |-> Nothing, old |-> FALSE, found |-> {}]
NoRecompute == [at |-> "idle", rest |-> {}, image |-> Nothing, found |-> {}, whole |-> TRUE]

Kept(i) == file[i] \in Pictures
AlikeFiles(p, q) == {p, q} \in Alike \/ (p = q /\ {p} \in Alike)
NearFiles(p, q) == {p, q} \in Near \/ (p = q /\ {p} \in Near)

HashInit ==
  /\ file \in [Images -> Pictures \cup {Nothing}]
  /\ \A i \in Images : (i \in Legacy) <=> file[i] # Nothing
  /\ hash = [i \in Images |-> IF i \in Legacy THEN [version |-> 1, of |-> file[i]] ELSE NoHash]
  /\ pairs = {}
  /\ cache = [i \in Images |-> Nothing]
  /\ hashQueue = <<>>
  /\ hasher = [w \in Hashers |-> NoImage]
  /\ changing = {}
  /\ recompute = NoRecompute
  /\ tally = [changes |-> 0, ends |-> 0]
  /\ lost = FALSE /\ overtaken = {} /\ changed = {}

-----------------------------------------------------------------------------
(* The resources: what their handlers do to files, hashes and the queue      *)

\* QueueForHashing: dropped when the queue is full.
Queued(i) == IF Len(hashQueue) < QueueLength THEN Append(hashQueue, i) ELSE hashQueue

Upload(i) ==
  /\ file[i] = Nothing
  /\ \E p \in Pictures : file' = [file EXCEPT ![i] = p]
  /\ hashQueue' = Queued(i)
  /\ UNCHANGED <<hash, pairs, cache, hasher, changing, recompute, tally, lost, overtaken, changed>>

\* A new version, a restored one, a rotation, a crop or a trim is committed.
ChangeFile(i) ==
  /\ Kept(i) /\ i \notin changing /\ tally.changes < MaxChanges
  /\ \E p \in Pictures \ {file[i]} : file' = [file EXCEPT ![i] = p]
  /\ changing' = changing \cup {i} /\ changed' = changed \cup {i}
  /\ tally' = [tally EXCEPT !.changes = @ + 1]
  /\ UNCHANGED <<hash, pairs, cache, hashQueue, hasher, recompute, lost, overtaken>>

\* Goroutines that have a file of i in hand that it no longer has.
Overtaken(i) == \E w \in Hashers :
  hasher[w].image = i /\ hasher[w].at = "read" /\ hasher[w].of # file[i]

\* Mutant of OnResourceFileChanged, not the code: the old hash stays.
QueueOnly(i) ==
  /\ i \in changing
  /\ hashQueue' = Queued(i) /\ changing' = changing \ {i}
  /\ UNCHANGED <<file, hash, pairs, cache, hasher, recompute, tally, lost, overtaken, changed>>

OnResourceFileChanged(i) ==
  /\ i \in changing
  /\ hash' = [hash EXCEPT ![i] = NoHash]
  /\ overtaken' = IF Overtaken(i) THEN overtaken \cup {i} ELSE overtaken \ {i}
  /\ hashQueue' = Queued(i) /\ changing' = changing \ {i}
  /\ UNCHANGED <<file, pairs, cache, hasher, recompute, tally, lost, changed>>

\* Mutant of DeleteImage, not the code: the hash is left to a cascade that does not exist.
DeleteImageOnly(i) ==
  /\ Kept(i) /\ i \notin changing
  /\ file' = [file EXCEPT ![i] = Deleted]
  /\ pairs' = {p \in pairs : i \notin p}
  /\ UNCHANGED <<hash, cache, hashQueue, hasher, changing, recompute, tally, lost, overtaken, changed>>

DeleteImage(i) ==
  /\ Kept(i) /\ i \notin changing
  /\ file' = [file EXCEPT ![i] = Deleted]
  /\ hash' = [hash EXCEPT ![i] = NoHash]
  /\ pairs' = {p \in pairs : i \notin p}
  /\ UNCHANGED <<cache, hashQueue, hasher, changing, recompute, tally, lost, overtaken, changed>>

-----------------------------------------------------------------------------
(* The worker                                                                *)

Decoded(p) == p \notin Undecodable
Hashed(i) == hash[i].version = 2 /\ hash[i].of \notin Flat \cup Undecodable

\* What is in the cache after an entry is added; the cache evicts one that is not the newest.
CacheWith(i, p) ==
  LET full == [cache EXCEPT ![i] = p]
      used == {j \in Images : full[j] # Nothing}
  IN IF Cardinality(used) <= CacheSize THEN {full}
     ELSE {[full EXCEPT ![j] = Nothing] : j \in used \ {i}}

\* warmCache, into an empty cache
Warmed ==
  LET all == [i \in Images |-> IF hash[i].version = 0 \/ ~Decoded(hash[i].of) THEN Nothing
                               ELSE hash[i].of]
      used == {i \in Images : all[i] # Nothing}
  IN IF \E i \in Images : cache[i] # Nothing THEN {cache}
     ELSE {[i \in Images |-> IF i \in keep THEN all[i] ELSE Nothing] :
             keep \in {k \in SUBSET used : Cardinality(k) <= CacheSize
                                           /\ (k # used => Cardinality(k) = CacheSize)}}

\* The image's row is read, and then its file from where the row says it is.
Begin(w, i, old) ==
  hasher' = [hasher EXCEPT ![w] = [at |-> "read", image |-> i, of |-> file[i], old |-> old,
                                   found |-> {}]]

\* processResource: an image that is gone or has a hash is passed over.
TakeQueued(w) ==
  /\ hasher[w].at = "idle" /\ hashQueue # <<>>
  /\ hashQueue' = Tail(hashQueue)
  /\ LET i == Head(hashQueue) IN
     IF Kept(i) /\ hash[i].version = 0
       THEN Begin(w, i, FALSE) /\ cache' \in Warmed
       ELSE UNCHANGED <<hasher, cache>>
  /\ UNCHANGED <<file, hash, pairs, changing, recompute, tally, lost, overtaken, changed>>

\* hashNewResources and backfillV2Hashes: images without a hash, and those with an old one.
TakeBatch(w) ==
  /\ hasher[w].at = "idle"
  /\ \E i \in Images : Kept(i) /\
       \/ hash[i].version = 0 /\ Begin(w, i, FALSE) /\ cache' \in Warmed
       \/ hash[i].version = 1 /\ Begin(w, i, TRUE) /\ UNCHANGED cache
  /\ UNCHANGED <<file, hash, pairs, hashQueue, changing, recompute, tally, lost, overtaken, changed>>

\* The row that a goroutine writes: an insert is refused once the image is deleted, a failure
\* gives way to any row, and the backfill only updates.
Saved(h) ==
  LET i == h.image IN
  IF \/ file[i] = Deleted
     \/ h.old /\ hash[i].version = 0
     \/ ~h.old /\ ~Decoded(h.of) /\ hash[i].version # 0
  THEN hash ELSE [hash EXCEPT ![i] = [version |-> 2, of |-> h.of]]

\* hashAndStoreSimilarities and backfillOne up to their row; only an image whose hash is
\* worth comparing is matched.
SaveHash(w) ==
  LET h == hasher[w] IN
  /\ h.at = "read"
  /\ hash' = Saved(h)
  /\ hasher' = [hasher EXCEPT ![w] =
       IF ~Decoded(h.of) \/ (~h.old /\ file[h.image] = Deleted) THEN NoImage
       ELSE IF h.old THEN IF h.of \in Flat THEN NoImage ELSE [@ EXCEPT !.at = "match"]
       ELSE [@ EXCEPT !.at = "saved"]]
  /\ UNCHANGED <<file, pairs, cache, hashQueue, changing, recompute, tally, lost, overtaken, changed>>

With(i, found) == {{i, j} : j \in found}

\* findAndStoreSimilarities: one insert, refused if any image of it is deleted.
MatchCache(w) ==
  LET h == hasher[w]
      like == {j \in Images \ {h.image} : cache[j] # Nothing /\ AlikeFiles(h.of, cache[j])}
  IN /\ h.at = "saved"
     /\ cache' \in CacheWith(h.image, h.of)
     /\ pairs' = IF \E j \in like \cup {h.image} : file[j] = Deleted THEN pairs
                 ELSE pairs \cup With(h.image, like)
     /\ hasher' = [hasher EXCEPT ![w] = IF h.of \in Flat THEN NoImage ELSE [@ EXCEPT !.at = "match"]]
     /\ UNCHANGED <<file, hash, hashQueue, changing, recompute, tally, lost, overtaken, changed>>

\* Mutant of Candidates, not the code: a shared chunk is taken for likeness.
CandidatesUnverified(i, p) == {j \in Images \ {i} : Hashed(j) /\ NearFiles(p, hash[j].of)}

\* Mutant of Candidates, not the code: only what the cache holds is compared.
CandidatesCached(i, p) == {j \in Images \ {i} : cache[j] # Nothing /\ AlikeFiles(p, cache[j])}

\* FindSimilaritiesV2: the rows that share a chunk, of which the distance is verified.
Candidates(i, p) ==
  {j \in Images \ {i} : Hashed(j) /\ NearFiles(p, hash[j].of) /\ AlikeFiles(p, hash[j].of)}

MatchRows(w) ==
  /\ hasher[w].at = "match"
  /\ hasher' = [hasher EXCEPT ![w].at = "found", ![w].found = Candidates(hasher[w].image, hasher[w].of)]
  /\ UNCHANGED <<file, hash, pairs, cache, hashQueue, changing, recompute, tally, lost, overtaken, changed>>

\* The one insert of all pairs of an image: refused if any image of it is deleted.
Refused(i, found) == found # {} /\ \E j \in found \cup {i} : file[j] = Deleted

Insert(i, found) ==
  /\ pairs' = IF Refused(i, found) THEN pairs ELSE pairs \cup With(i, found)
  /\ lost' = (lost \/ Refused(i, found))

SavePairs(w) ==
  LET h == hasher[w] IN
  /\ h.at = "found" /\ Insert(h.image, h.found)
  /\ hasher' = [hasher EXCEPT ![w] = NoImage]
  /\ recompute' = [recompute EXCEPT !.whole = @ /\ ~Refused(h.image, h.found)]
  /\ UNCHANGED <<file, hash, cache, hashQueue, changing, tally, overtaken, changed>>

-----------------------------------------------------------------------------
(* The administrator, and the end of the process                             *)

RetryFailedHashes ==
  /\ \E i \in Images : hash[i].version = 2 /\ ~Decoded(hash[i].of)
  /\ hash' = [i \in Images |-> IF hash[i].version = 2 /\ ~Decoded(hash[i].of)
                               THEN [hash[i] EXCEPT !.version = 1] ELSE hash[i]]
  /\ UNCHANGED <<file, pairs, cache, hashQueue, hasher, changing, recompute, tally, lost, overtaken, changed>>

\* The rows of a page, as they are when it is read.
Rows == {[image |-> i, of |-> hash[i].of] : i \in {j \in Images : Hashed(j)}}

\* RecomputeV2Pairs: delete, read, and for each row match and insert.
Recompute ==
  \/ /\ recompute.at = "idle" /\ pairs # {}
     /\ recompute' = [NoRecompute EXCEPT !.at = "begun"]
     /\ pairs' = {p \in pairs : \E i \in p : hash[i].version # 2}
     /\ UNCHANGED <<tally, lost>>
  \/ /\ recompute.at = "begun"
     /\ recompute' = [recompute EXCEPT !.at = "rows", !.rest = Rows]
     /\ UNCHANGED <<pairs, tally, lost>>
  \/ /\ recompute.at = "rows"
     /\ \E r \in recompute.rest :
          recompute' = [recompute EXCEPT !.at = "found", !.rest = @ \ {r}, !.image = r.image,
                                         !.found = Candidates(r.image, r.of)]
     /\ UNCHANGED <<pairs, tally, lost>>
  \/ /\ recompute.at = "found" /\ Insert(recompute.image, recompute.found)
     /\ recompute' = [recompute EXCEPT !.at = "rows", !.image = Nothing, !.found = {},
                            !.whole = @ /\ ~Refused(recompute.image, recompute.found)]
     /\ UNCHANGED tally
  \/ /\ recompute.at = "rows" /\ recompute.rest = {}
     /\ recompute' = NoRecompute
     /\ lost' = (lost /\ ~recompute.whole)
     /\ UNCHANGED <<pairs, tally>>
  \/ /\ recompute.at = "begun" /\ tally.ends < MaxEnds    \* cancelled
     /\ recompute' = NoRecompute
     /\ tally' = [tally EXCEPT !.ends = @ + 1]
     /\ lost' = TRUE
     /\ UNCHANGED pairs

RecomputeStep ==
  Recompute /\ UNCHANGED <<file, hash, cache, hashQueue, hasher, changing, overtaken, changed>>

\* The process ends and starts again; a handler may not have come to its clean-up.
HashRestart ==
  /\ tally.ends < MaxEnds
  /\ tally' = [tally EXCEPT !.ends = @ + 1]
  /\ cache' = [i \in Images |-> Nothing] /\ hashQueue' = <<>>
  /\ hasher' = [w \in Hashers |-> NoImage] /\ recompute' = NoRecompute
  /\ changing' = {} /\ overtaken' = overtaken \cup changing
  /\ lost' = (lost \/ recompute.at # "idle" \/ \E w \in Hashers : hasher[w].at \notin {"idle", "read"})
  /\ UNCHANGED <<file, hash, pairs, changed>>

HashNext ==
  \/ \E i \in Images : Upload(i) \/ ChangeFile(i) \/ OnResourceFileChanged(i) \/ DeleteImage(i)
  \/ \E w \in Hashers : TakeQueued(w) \/ TakeBatch(w) \/ SaveHash(w) \/ MatchCache(w)
                         \/ MatchRows(w) \/ SavePairs(w)
  \/ RetryFailedHashes \/ RecomputeStep \/ HashRestart

HashSpec == HashInit /\ [][HashNext]_hashVars

-----------------------------------------------------------------------------
(* Type invariant: what tables, cache and goroutines hold.                               *)
HashTypeOK ==
  /\ file \in [Images -> Pictures \cup {Nothing, Deleted}]
  /\ hash \in [Images -> [version: 0..2, of: Pictures \cup {Nothing}]]
  /\ \A i \in Images : hash[i].version # 0 => Kept(i) /\ hash[i].of # Nothing
  /\ \A p \in pairs : p \subseteq Images /\ Cardinality(p) = 2 /\ \A i \in p : Kept(i)
  /\ cache \in [Images -> Pictures \cup {Nothing}]
  /\ hashQueue \in Seq(Images) /\ Len(hashQueue) <= QueueLength
  /\ hasher \in [Hashers -> [at: {"idle", "read", "saved", "match", "found"},
                             image: Images \cup {Nothing}, of: Pictures \cup {Nothing},
                             old: BOOLEAN, found: SUBSET Images]]
  /\ changing \subseteq Images /\ overtaken \subseteq Images /\ changed \subseteq Images
  /\ recompute \in [at: {"idle", "begun", "rows", "found"}, image: Images \cup {Nothing},
                     rest: SUBSET [image: Images, of: Pictures],
                     found: SUBSET Images, whole: BOOLEAN]
  /\ lost \in BOOLEAN

(* The new hash of an image is that of the file it has, unless the file changed while a  *)
(* goroutine had the old one in hand, or the process ended before the clean-up.          *)
HashesCurrent ==
  \A i \in Images : hash[i].version = 2 /\ i \notin changing \cup overtaken => hash[i].of = file[i]

(* Two images whose hashes are saved and alike are to be a pair.                         *)
Owed(i, j) == i # j /\ Hashed(i) /\ Hashed(j) /\ AlikeFiles(hash[i].of, hash[j].of)

(* They are one, once nobody is matching: the later of two that are hashed at once sees  *)
(* the earlier.  What a crash, a cancelled recompute or a refused insert cut short, a    *)
(* whole recompute makes good.                                                           *)
PairsComplete ==
  (~lost /\ recompute.at = "idle" /\ \A w \in Hashers : hasher[w].at = "idle") =>
    \A i, j \in Images : Owed(i, j) => {i, j} \in pairs

(* The images of a pair are alike, as long as neither's file has changed.                *)
PairsTrue ==
  \A p \in pairs : p \cap changed = {} =>
    \A i, j \in p : i # j => AlikeFiles(file[i], file[j])

-----------------------------------------------------------------------------
(* What the proofs of BackgroundProofs strengthen these with.                            *)

Steady(i) == Kept(i) /\ i \notin changed

(* p was read of i, which was uploaded; if its file never changed, p is still in it.     *)
ReadOf(i, p) == file[i] # Nothing /\ (Steady(i) => p = file[i])

(* What was found for i was uploaded, and is like it if neither has changed.             *)
FoundFor(i, found) ==
  \A j \in found : j # i /\ file[j] # Nothing
                   /\ (Steady(i) /\ Steady(j) => AlikeFiles(file[i], file[j]))

(* A goroutine about to save a hash has read the file of now, or one changed under it.   *)
HasherFits(h) ==
  /\ h.at = "idle" => h.image = Nothing
  /\ h.at # "idle" => /\ h.image \in Images /\ h.of \in Pictures
                      /\ ReadOf(h.image, h.of) /\ FoundFor(h.image, h.found)
  /\ h.at = "read" /\ Kept(h.image) /\ h.image \notin changing \cup overtaken
       => h.of = file[h.image]

RecomputeFits ==
  /\ \A r \in recompute.rest : ReadOf(r.image, r.of)
  /\ recompute.at \in {"idle", "begun"} => recompute.rest = {}
  /\ recompute.at = "found" => recompute.image \in Images /\ file[recompute.image] # Nothing
  /\ recompute.at # "found" => recompute.found = {}
  /\ FoundFor(recompute.image, recompute.found)

RowsRead ==
  \A i \in Images : /\ hash[i].version # 0 => ReadOf(i, hash[i].of)
                    /\ cache[i] # Nothing => ReadOf(i, cache[i])

(* Somebody has found j for i, or has yet to look for what is like the hash of i.        *)
Promised(i, j) ==
  \/ \E w \in Hashers : LET h == hasher[w] IN
       h.image = i /\ \/ h.at \in {"saved", "match"} /\ h.of = hash[i].of
                      \/ h.at = "found" /\ j \in h.found
  \/ [image |-> i, of |-> hash[i].of] \in recompute.rest
  \/ recompute.image = i /\ j \in recompute.found

(* A pair may be missing that a crash, a cancel or a refused insert cut short, unless a  *)
(* recompute has begun since and makes it good.                                          *)
Excused == lost /\ (recompute.at = "idle" \/ ~recompute.whole)

(* Two images that are to be a pair are one, or will be.                                 *)
Covered(i, j) ==
  {i, j} \in pairs \/ Promised(i, j) \/ Promised(j, i) \/ recompute.at = "begun" \/ Excused

PairsPromised == \A i, j \in Images : Owed(i, j) => Covered(i, j)

PairsStrengthening ==
  (\A w \in Hashers : HasherFits(hasher[w])) /\ RecomputeFits /\ RowsRead /\ PairsPromised

(* The tables: a hash is of the file, and two alike images are a pair, and no others; and *)
(* what makes that inductive.                                                            *)
PairsExact == HashTypeOK /\ HashesCurrent /\ PairsComplete /\ PairsTrue /\ PairsStrengthening
=============================================================================
