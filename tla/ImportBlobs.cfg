\* The write of a blob may fail, or the process die in it, and leave its file truncated.
CONSTANTS
  Named = {"tag"}
  NoteTypes = {"type"}
  Groups = {"parent", "child"}
  Media = {"image", "copy"}
  Notes = {"note"}
  Owner <- MCOwner
  Refs <- MCRefs
  Dangling = {"child"}
  HashOf <- MCHashOf
  Carried = {"image"}
  OldHash = "old"
  Archives <- MCArchives
  Priors <- MCPriors
  Exclusions <- MCExclusions
  i1 = i1
  i2 = i2
  Handlers = {i1, i2}
  MaxAttempts = 2
  MaxErrors = 1
  SameDecisions = TRUE
  WholeWrites = FALSE
  FilesUnshared = TRUE
SYMMETRY ImportSymmetry
SPECIFICATION ImportSpec
INVARIANT
  BytesMatch
CHECK_DEADLOCK FALSE
