----------------------------- MODULE MCAccounts -----------------------------
(* Accounts and logins, for TLC.  An instance has two processes that start on  *)
(* one database while an administrator of the first is already at work, or two *)
(* clients of one process, or the limiter of its logins.                       *)
EXTENDS Accounts, LoginLimiter, Sequences, TLC

CONSTANTS g1, g2, c1, c2, a1, a2, a3

VARIABLE part

accountsVars == <<part, vars, limiterVars>>

Old(rows) == [u \in Ids |-> IF u <= Len(rows) THEN rows[u] ELSE Unborn]

Was(name, role, scope, disabled) == Row(name, role, scope, disabled, 0, FALSE)

Started == Old(<<Was("alice", "admin", None, FALSE), Was("bob", "guest", g1, FALSE)>>)

MCOldUsers ==
  {Started,
   Old(<<>>),
   Old(<<Was("root", "admin", None, TRUE), Was("alice", "user", g1, FALSE)>>),
   Old(<<Was("root", "user", None, FALSE)>>)}

Change(role, scope, disabled, password) ==
  [role |-> role, scope |-> scope, disabled |-> disabled, password |-> password]

MCChanges ==
  {Change("admin", Keep, Keep, FALSE), Change("guest", g1, Keep, FALSE),
   Change("guest", Keep, Keep, FALSE), Change(Keep, g1, Keep, FALSE),
   Change(Keep, Keep, "yes", FALSE), Change(Keep, Keep, "no", FALSE),
   Change(Keep, Keep, Keep, TRUE)}

MCNewUsers == {[name |-> "root2", role |-> "admin", scope |-> None]}

AccountsSymmetry == Permutations(Clients) \cup Permutations(Attempts)

\* What does not run has one initial state.
AccountsInit ==
  /\ part \in {"starts", "clients", "logins"}
  /\ Init /\ LimiterInit
  /\ part # "starts" => users = Started

\* Two processes start, and one client at a time is an administrator, who changes no password.
StartsNext ==
  /\ Next
  /\ Cardinality({c \in Clients : procs'[c] # Idle}) <= 1
  /\ \A c \in Clients : At(c, "update") => hashes' = hashes \/ procs'[c] = procs[c]
  /\ UNCHANGED <<sessions, groups>>

\* One process, and two clients that create no account, use one new password and are
\* logged in twice at most; the first account has no tokens, and the second group stays.
ClientsNext ==
  /\ Next
  /\ procs'[OtherMain] = procs[OtherMain]
  /\ users'[MaxUsers] = Unborn /\ hashes' <= 1 /\ Cardinality(sessions') <= 2
  /\ g2 \in groups' /\ tokens'[1] = 0

AccountsNext ==
  \/ part = "starts" /\ StartsNext /\ UNCHANGED <<part, limiterVars>>
  \/ part = "clients" /\ ClientsNext /\ UNCHANGED <<part, limiterVars>>
  \/ part = "logins" /\ LimiterNext /\ UNCHANGED <<part, vars>>

AccountsSpec == AccountsInit /\ [][AccountsNext]_accountsVars
=============================================================================
