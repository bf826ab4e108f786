\* Three requests of two clients over two contents and three resources, one of them
\* from before versions, with one failed write or crash; or two requests that apply one
\* plan in two attempts, with one error, refusal, cancel or crash, over three kinds of archive.
CONSTANTS
  c1 = c1
  c2 = c2
  Clients = {c1, c2}
  a = a
  b = b
  Contents = {a, b}
  r1 = r1
  r2 = r2
  r3 = r3
  Resources = {r1, r2, r3}
  Legacy = {r1}
  MaxRequests = 3
  MaxFaults = 1
  KeptApart = TRUE
  Named = {"tag"}
  NoteTypes = {"type"}
  Groups = {"parent", "child"}
  Media = {"image", "copy"}
  Notes = {"note"}
  Owner <- MCOwner
  Refs <- MCRefs
  Dangling = {"child"}
  HashOf <- MCHashOf
  Carried = {"image"}
  OldHash = "old"
  Archives <- MCArchives
  Priors <- MCPriors
  Exclusions <- MCExclusions
  i1 = i1
  i2 = i2
  Handlers = {i1, i2}
  MaxAttempts = 2
  MaxErrors = 1
  SameDecisions = TRUE
  WholeWrites = TRUE
  FilesUnshared = TRUE
SYMMETRY StorageSymmetry
SPECIFICATION StorageSpec
INVARIANTS
   NothingDoubled   
PROPERTIES
  HistoryKept
CHECK_DEADLOCK FALSE
