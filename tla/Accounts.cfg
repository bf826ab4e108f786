\* Two processes that start while a client of the first changes accounts; or two clients of one
\* process that is up; or three logins from two addresses to two accounts, with two failures allowed.
CONSTANTS
  MaxUsers = 3
  Names = {"root", "root2", "root3", "alice", "bob"}
  RootName = "root"
  RootSuffixes = {"root2", "root3"}
  AdminName = "alice"
  g1 = g1
  g2 = g2
  Groups = {g1, g2}
  Changes <- MCChanges
  NewUsers <- MCNewUsers
  OldUsers <- MCOldUsers
  c1 = c1
  c2 = c2
  Clients = {c1, c2}
  Main = m1
  OtherMain = m2
  MaxHashes = 2
  MaxUserTokens = 1
  a1 = a1
  a2 = a2
  a3 = a3
  Attempts = {a1, a2, a3}
  Addresses = {"near", "far"}
  Usernames = {"ann", "ben"}
  Limit = 2
  Window = 2
  SweepInterval = 1
  MaxKeys = 3
  LastTime = 5
SPECIFICATION AccountsSpec
SYMMETRY AccountsSymmetry
INVARIANTS
   AdminsSound ScopesHold RootCached AttemptsCounted
CHECK_DEADLOCK FALSE
