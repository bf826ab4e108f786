\* Two requests on a row and on the job its retry submits, or one and the sweep, with a restart;
\* or two images, one of them with an old hash, one change of a file, and two goroutines that
\* hash them, or one at a time and one restart or cancel.
CONSTANTS
  j1 = j1
  j2 = j2
  c1 = c1
  c2 = c2
  Jobs = {j1, j2}
  Calls = {c1, c2}
  Failed = {j1}
  TTL = 1
  FailedAge = 0
  DoneAge = 0
  StoreFails = TRUE
  MaxTime = 2
  MaxWrites = 1
  MaxRetries = 1
  MaxCrashes = 1
  i1 = i1
  i2 = i2
  Images = {i1, i2}
  Legacy = {i2}
  Pictures = {"cat", "dog", "broken"}
  Alike <- MCAlike
  Near <- MCNear
  Flat = {}
  Undecodable = {"broken"}
  h1 = h1
  h2 = h2
  Hashers = {h1, h2}
  QueueLength = 1
  CacheSize = 1
  MaxChanges = 1
  MaxEnds = 1
SYMMETRY BackgroundSymmetry
SPECIFICATION BackgroundSpec
INVARIANTS
  RetriesSound PairsExact
PROPERTIES
  DeletionsSpare
CHECK_DEADLOCK FALSE
