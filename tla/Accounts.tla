------------------------------ MODULE Accounts ------------------------------
(* User accounts, their sessions and API tokens, the groups that confine them, *)
(* and the cached root administrator.  Every transaction on accounts takes the *)
(* lock of lockUserManagementMutation first, so a transaction is one step; what *)
(* a request reads before it, or does after its commit, is a step of its own.  *)
EXTENDS Naturals, FiniteSets

CONSTANTS
  MaxUsers,       \* bound on the accounts ever created
  Names,          \* usernames
  RootName,       \* "root"
  RootSuffixes,   \* "root2", "root3", ...
  AdminName,      \* the name given with -create-admin-user
  Groups,         \* groups an account can be confined to
  Changes,        \* the updates administrators send
  NewUsers,       \* the accounts administrators create
  OldUsers,       \* the rows a database may have when the processes start
  Clients,        \* goroutines that serve requests
  Main,           \* the goroutine that starts this process
  OtherMain,      \* that of another process on the same database
  MaxHashes,      \* bound on the passwords ever hashed
  MaxUserTokens   \* Config.MaxUserTokens

Keep == "keep"    \* a field an update leaves out
None == "none"    \* NULL
Nobody == 0       \* no account
Ids == 1 .. MaxUsers
Mains == {Main, OtherMain}

Roles == {"admin", "user", "guest"}

Unborn == [state |-> "unborn"]
Deleted == [state |-> "deleted"]

\* A hash of 0 is of a password from before the start.
Row(name, role, scope, disabled, hash, auto) ==
  [state |-> "row", name |-> name, role |-> role, scope |-> scope,
   disabled |-> disabled, hash |-> hash, auto |-> auto]

\* Administrators (and editors, who are as free) are never confined, guests always.
Confined(role, scope) ==
  CASE role = "admin" -> scope = None
    [] role = "guest" -> scope \in Groups
    [] OTHER -> scope \in Groups \cup {None}

ASSUME AccountsAssumption ==
  /\ MaxUsers \in Nat \ {0} /\ MaxHashes \in Nat /\ MaxUserTokens \in Nat \ {0}
  /\ {RootName, AdminName} \cup RootSuffixes \subseteq Names /\ RootName \notin RootSuffixes
  /\ Main # OtherMain /\ Mains \cap Clients = {} /\ None \notin Clients \cup Mains
  /\ {None, Keep} \cap Groups = {}
  /\ Changes \subseteq [role : Roles \cup {Keep}, scope : Groups \cup {None, Keep},
                        disabled : {"yes", "no", Keep}, password : BOOLEAN]
  /\ NewUsers \subseteq [name : Names, role : Roles, scope : Groups \cup {None}]
  /\ \A old \in OldUsers :
       /\ old = [u \in Ids |-> old[u]]
       /\ \A u \in Ids : old[u] # Unborn =>
            \E name \in Names, role \in Roles, scope \in Groups \cup {None}, disabled \in BOOLEAN :
              /\ Confined(role, scope)
              /\ old[u] = Row(name, role, scope, disabled, 0, FALSE)

VARIABLES
  users,     \* [Ids -> a row of users, or what is there before or after one]
  sessions,  \* the sessions: who has the cookie, the account, its password
  tokens,    \* [Ids -> how many API tokens the account has]
  groups,    \* the groups that exist
  hashes,    \* passwords hashed so far; bcrypt salts, so each hash is a new one
  procs,     \* [Clients \cup Mains -> where a goroutine is]
  root,      \* rootAdminCache.snap of this process
  mu,        \* rootAdminCache.resolveMu
  foreign    \* whether the other process has changed the accounts

vars == <<users, sessions, tokens, groups, hashes, procs, root, mu, foreign>>

Exists(u) == users[u].state = "row"
Enabled(u) == Exists(u) /\ ~users[u].disabled
Named(name) == {u \in Ids : Exists(u) /\ users[u].name = name}

\* The enabled administrators; RootAdmin is the oldest.
Admins == {u \in Ids : Enabled(u) /\ users[u].role = "admin"}
RootAdmin == IF Admins = {} THEN Nobody ELSE CHOOSE u \in Admins : \A v \in Admins : u <= v

\* next is where a goroutine goes when the cache has been refreshed.
Idle == [pc |-> "idle", user |-> Nobody, seen |-> None, change |-> None, next |-> "idle"]

Init ==
  /\ users \in OldUsers
  /\ sessions = {} /\ tokens = [u \in Ids |-> 0]
  /\ groups = Groups /\ hashes = 0
  /\ procs = [p \in Clients \cup Mains |->
                IF p \in Mains THEN [Idle EXCEPT !.pc = "start"] ELSE Idle]
  /\ root = Nobody /\ mu = None /\ foreign = FALSE

-----------------------------------------------------------------------------
(* What the steps are made of.                                               *)

At(p, pc) == procs[p].pc = pc

Goto(p, pc) == procs' = [procs EXCEPT ![p].pc = pc]

Return(p) == procs' = [procs EXCEPT ![p] = Idle]

\* A goroutine has read something and goes on to its transaction.
Hold(p, pc, u, seen, change) ==
  procs' = [procs EXCEPT ![p] = [Idle EXCEPT
              !.pc = pc, !.user = u, !.seen = seen, !.change = change]]

\* A commit, after which this process refreshes its cache.
CommitAnd(p, next) ==
  /\ procs' = [procs EXCEPT ![p] = [Idle EXCEPT
       !.pc = IF p = OtherMain THEN next ELSE "refresh", !.next = next]]
  /\ foreign' = (foreign \/ (p = OtherMain /\ users' # users))

CacheStays == UNCHANGED <<root, mu>>

\* A statement or a transaction that writes no row.
RowsStay == UNCHANGED <<users, sessions, tokens, groups, hashes, foreign>>

SessionsOf(u) == {s \in sessions : s.user = u}

\* deleteUserSessions, deleteUserAPITokens
Revoke(u) == sessions' = sessions \ SessionsOf(u) /\ tokens' = [tokens EXCEPT ![u] = 0]

CredentialsStay == UNCHANGED <<sessions, tokens>>

normalizeScopeGroup(role, scope) == IF role = "admin" THEN None ELSE scope

\* validateAndLockScopeGroup
ScopeValid(role, scope) == IF scope = None THEN role # "guest" ELSE scope \in groups

\* An insert takes the next id; the unique index may refuse the name.
Insert(row) ==
  /\ Named(row.name) = {}
  /\ \E u \in Ids : /\ users[u] = Unborn /\ \A v \in 1 .. (u - 1) : users[v] # Unborn
                    /\ users' = [users EXCEPT ![u] = row]

\* HashPassword
NewHash == hashes < MaxHashes /\ hashes' = hashes + 1

-----------------------------------------------------------------------------
(* rootAdminCache: refreshRootAdmin reads and stores under resolveMu.        *)

\* Mutant of ResolveRoot: the read is not under the mutex.
ResolveUnlocked(p) ==
  /\ At(p, "refresh")
  /\ procs' = [procs EXCEPT ![p].pc = "store", ![p].seen = RootAdmin]
  /\ CacheStays /\ RowsStay

ResolveRoot(p) ==
  /\ At(p, "refresh") /\ mu = None
  /\ mu' = p
  /\ procs' = [procs EXCEPT ![p].pc = "store", ![p].seen = RootAdmin]
  /\ UNCHANGED root /\ RowsStay

StoreRoot(p) ==
  /\ At(p, "store")
  /\ root' = (IF procs[p].seen = Nobody THEN root ELSE procs[p].seen)
  /\ mu' = None
  /\ procs' = [procs EXCEPT ![p] = [Idle EXCEPT !.pc = procs[p].next]]
  /\ RowsStay

-----------------------------------------------------------------------------
(* The start of a process: EnsureAdminUser, if asked for, and EnsureRootAdmin. *)

Start(m) ==
  /\ At(m, "start")
  /\ Goto(m, "lookup") \/ Goto(m, "count")
  /\ CacheStays /\ RowsStay

\* EnsureAdminUser: GetUserByUsername
LookupAdmin(m) ==
  /\ At(m, "lookup")
  /\ \/ Named(AdminName) = {} /\ Goto(m, "create")
     \/ \E u \in Named(AdminName) : Hold(m, "promote", u, users[u].role, None)
  /\ CacheStays /\ RowsStay

\* CreateUser, and the next attempt if the name has been taken since.
CreateAdmin(m) ==
  /\ At(m, "create") /\ CacheStays
  /\ \/ /\ NewHash /\ Insert(Row(AdminName, "admin", None, FALSE, hashes', FALSE))
        /\ CommitAnd(m, "count")
        /\ CredentialsStay /\ UNCHANGED groups
     \/ Named(AdminName) # {} /\ Goto(m, "lookup") /\ RowsStay

\* Whether the row is still the one that was looked up.
StillIs(u, name, role) == Exists(u) /\ users[u].name = name /\ users[u].role = role

\* An account becomes an enabled administrator, with a new password only.
Reclaim(u, auto) ==
  /\ NewHash
  /\ users' = [users EXCEPT ![u] = Row(@.name, "admin", None, FALSE, hashes', auto)]
  /\ Revoke(u)

\* promoteExpectedAdmin
PromoteAdmin(m) ==
  LET u == procs[m].user IN
  /\ At(m, "promote") /\ CacheStays
  /\ \/ /\ StillIs(u, AdminName, procs[m].seen)
        /\ Reclaim(u, FALSE) /\ CommitAnd(m, "count")
        /\ UNCHANGED groups
     \/ ~StillIs(u, AdminName, procs[m].seen) /\ Goto(m, "lookup") /\ RowsStay

\* EnsureRootAdmin: CountEnabledAdmins
Count(m) ==
  /\ At(m, "count") /\ CacheStays
  /\ RowsStay
  /\ IF Admins = {} THEN Goto(m, "root")
     ELSE procs' = [procs EXCEPT ![m] = [Idle EXCEPT
            !.pc = IF m = OtherMain THEN "up" ELSE "refresh", !.next = "up"]]

\* createOrReuseRootAdmin: GetUserByUsername
LookupRoot(m) ==
  /\ At(m, "root")
  /\ \/ Named(RootName) = {} /\ Hold(m, "make", Nobody, RootName, None)
     \/ \E u \in Named(RootName) :
          IF users[u].role = "admin" THEN Hold(m, "reuse", u, "admin", None)
          ELSE Hold(m, "make", Nobody, None, None)
  /\ CacheStays /\ RowsStay

\* enabledAdminInTransaction: another process has been faster.
Winner(m) ==
  /\ Admins # {}
  /\ CredentialsStay /\ UNCHANGED <<users, groups, hashes>>
  /\ CommitAnd(m, "up")

\* Mutant of MakeRoot: the count from before the lock is trusted.
MakeRootAsCounted(m) ==
  /\ At(m, "make") /\ CacheStays
  /\ \/ /\ NewHash
        /\ \E name \in IF procs[m].seen = None THEN RootSuffixes ELSE {RootName} :
             Insert(Row(name, "admin", None, FALSE, hashes', TRUE))
        /\ CommitAnd(m, "up") /\ CredentialsStay /\ UNCHANGED groups
     \/ /\ procs[m].seen = RootName /\ Named(RootName) # {}
        /\ Goto(m, "root") /\ RowsStay

\* createAutoRootAdmin, under "root" or the first free suffix.
MakeRoot(m) ==
  /\ At(m, "make") /\ CacheStays
  /\ \/ Winner(m)
     \/ /\ Admins = {} /\ NewHash
        /\ \E name \in IF procs[m].seen = None THEN RootSuffixes ELSE {RootName} :
             Insert(Row(name, "admin", None, FALSE, hashes', TRUE))
        /\ CommitAnd(m, "up") /\ CredentialsStay /\ UNCHANGED groups
     \/ /\ Admins = {} /\ procs[m].seen = RootName /\ Named(RootName) # {}
        /\ Goto(m, "root") /\ RowsStay

\* reuseExpectedRootAdmin
ReuseRoot(m) ==
  LET u == procs[m].user IN
  /\ At(m, "reuse") /\ CacheStays
  /\ \/ Winner(m)
     \/ /\ Admins = {} /\ StillIs(u, RootName, "admin")
        /\ Reclaim(u, TRUE) /\ CommitAnd(m, "up") /\ UNCHANGED groups
     \/ /\ Admins = {} /\ ~StillIs(u, RootName, "admin")
        /\ Goto(m, "root") /\ RowsStay

-----------------------------------------------------------------------------
(* What users do with their own accounts.                                    *)

Ready(c) == At(c, "idle") /\ At(Main, "up")

\* AuthenticateUser has compared the password with the hash of an enabled account.
Authenticate(c) ==
  /\ Ready(c)
  /\ \E u \in Ids : Enabled(u) /\ Hold(c, "mint", u, users[u].hash, None)
  /\ CacheStays /\ RowsStay

\* Mutant of MintSession: the password that was verified may have been replaced.
MintAsVerified(c) ==
  LET u == procs[c].user IN
  /\ At(c, "mint") /\ Return(c) /\ CacheStays
  /\ sessions' = (IF Enabled(u)
                  THEN sessions \cup {[client |-> c, user |-> u, hash |-> procs[c].seen]}
                  ELSE sessions)
  /\ UNCHANGED <<users, tokens, groups, hashes, foreign>>

\* The transaction of AuthenticateAndCreateSession
MintSession(c) ==
  LET u == procs[c].user IN
  /\ At(c, "mint") /\ Return(c) /\ CacheStays
  /\ sessions' = (IF Enabled(u) /\ users[u].hash = procs[c].seen
                  THEN sessions \cup {[client |-> c, user |-> u, hash |-> procs[c].seen]}
                  ELSE sessions)
  /\ UNCHANGED <<users, tokens, groups, hashes, foreign>>

\* ValidateSession: the request goes on as the account of its cookie.
ValidateSession(c) ==
  /\ Ready(c)
  /\ \E s \in sessions : s.client = c /\ Enabled(s.user) /\ Hold(c, "account", s.user, s, None)
  /\ CacheStays /\ RowsStay

\* RevokeSession, and the removal of sessions that have expired.
RevokeSession ==
  /\ \E s \in sessions : sessions' = sessions \ {s}
  /\ CacheStays /\ UNCHANGED <<users, tokens, groups, hashes, procs, foreign>>

\* Mutant of CreateApiToken: the owner is not looked up under the lock.
CreateTokenUnowned(c) ==
  LET u == procs[c].user IN
  /\ At(c, "account") /\ Return(c) /\ CacheStays
  /\ tokens' = (IF tokens[u] < MaxUserTokens THEN [tokens EXCEPT ![u] = @ + 1] ELSE tokens)
  /\ UNCHANGED <<users, sessions, groups, hashes, foreign>>

CreateApiToken(c) ==
  LET u == procs[c].user IN
  /\ At(c, "account") /\ Return(c) /\ CacheStays
  /\ tokens' = (IF Exists(u) /\ tokens[u] < MaxUserTokens
                THEN [tokens EXCEPT ![u] = @ + 1] ELSE tokens)
  /\ UNCHANGED <<users, sessions, groups, hashes, foreign>>

RevokeApiToken(c) ==
  LET u == procs[c].user IN
  /\ At(c, "account") /\ Return(c) /\ CacheStays
  /\ tokens[u] > 0 /\ tokens' = [tokens EXCEPT ![u] = @ - 1]
  /\ UNCHANGED <<users, sessions, groups, hashes, foreign>>

\* ChangeOwnPassword by somebody who knows the password.  A request with a cookie
\* keeps its session, which from then on stands for the new password.
ChangeOwnPassword(c) ==
  LET u == procs[c].user
      own == procs[c].seen
  IN
  /\ At(c, "account") /\ Return(c) /\ CacheStays
  /\ Exists(u) /\ NewHash
  /\ users' = [users EXCEPT ![u] = [@ EXCEPT !.hash = hashes', !.auto = FALSE]]
  /\ \E kept \in {{}, {own} \cap sessions} :
       sessions' = (sessions \ SessionsOf(u)) \cup {[s EXCEPT !.hash = hashes'] : s \in kept}
  /\ UNCHANGED <<tokens, groups, foreign>>

-----------------------------------------------------------------------------
(* What administrators do.                                                   *)

CreateUser(c) ==
  /\ Ready(c) /\ NewHash
  /\ \E new \in NewUsers :
       LET scope == normalizeScopeGroup(new.role, new.scope) IN
       /\ ScopeValid(new.role, scope)
       /\ Insert(Row(new.name, new.role, scope, FALSE, hashes', FALSE))
  /\ CommitAnd(c, "idle") /\ CacheStays /\ CredentialsStay /\ UNCHANGED groups

\* UpdateUser: effectiveUserScope
EffectiveRole(u, change) == IF change.role = Keep THEN users[u].role ELSE change.role
EffectiveScope(u, change) ==
  normalizeScopeGroup(EffectiveRole(u, change),
                      IF change.scope = Keep THEN users[u].scope ELSE change.scope)
EffectiveDisabled(u, change) ==
  IF change.disabled = Keep THEN users[u].disabled ELSE change.disabled = "yes"

\* Whether an update can affect role, scope or the set of enabled administrators.
Classified(change) == change.role # Keep \/ change.scope # Keep \/ change.disabled # Keep

\* The observation that only says which group has to be locked first.
Observe(c) ==
  /\ Ready(c)
  /\ \E u \in Ids, change \in Changes :
       Exists(u) /\ Hold(c, "update", u,
                         IF Classified(change) THEN EffectiveScope(u, change) ELSE None, change)
  /\ CacheStays /\ RowsStay

\* Mutant of Dangerous: an administrator is removed by demotion only.
DangerousIfDemoted(u, change) == u \in Admins /\ EffectiveRole(u, change) # "admin"

\* The last enabled administrator stays one.
Dangerous(u, change) ==
  /\ u \in Admins
  /\ EffectiveRole(u, change) # "admin" \/ EffectiveDisabled(u, change)

\* Mutant of MayUpdate: the row may have changed since the group was locked.
MayUpdateAsObserved(c, u, change) ==
  /\ ScopeValid(EffectiveRole(u, change), procs[c].seen)
  /\ Dangerous(u, change) => Admins \ {u} # {}

MayUpdate(c, u, change) ==
  /\ EffectiveScope(u, change) = procs[c].seen
  /\ ScopeValid(EffectiveRole(u, change), procs[c].seen)
  /\ Dangerous(u, change) => Admins \ {u} # {}

\* The scope column is written with the role or the scope only.
Updated(u, change, hash) ==
  [users[u] EXCEPT
     !.role = EffectiveRole(u, change),
     !.disabled = EffectiveDisabled(u, change),
     !.scope = IF change.role = Keep /\ change.scope = Keep THEN @ ELSE EffectiveScope(u, change),
     !.hash = hash,
     !.auto = @ /\ ~change.password]

\* The transaction of UpdateUser: what commits, an error, or a new observation.
UpdateUser(c) ==
  LET u == procs[c].user
      change == procs[c].change
  IN
  /\ At(c, "update") /\ CacheStays /\ UNCHANGED groups
  /\ \/ /\ Exists(u) /\ (Classified(change) => MayUpdate(c, u, change))
        /\ IF change.password THEN NewHash ELSE UNCHANGED hashes
        /\ users' = [users EXCEPT ![u] =
                       Updated(u, change, IF change.password THEN hashes' ELSE @.hash)]
        /\ IF change.password \/ change.disabled = "yes" THEN Revoke(u) ELSE CredentialsStay
        /\ CommitAnd(c, "idle")
     \/ /\ IF Exists(u) THEN Classified(change) /\ ~MayUpdate(c, u, change) ELSE TRUE
        /\ IF Exists(u) /\ procs[c].seen \in groups \cup {None}
              /\ EffectiveScope(u, change) # procs[c].seen
           THEN procs' = [procs EXCEPT ![c].seen = EffectiveScope(u, change)]
           ELSE Return(c)
        /\ CredentialsStay /\ UNCHANGED <<users, hashes, foreign>>

DeleteUser(c) ==
  /\ Ready(c)
  /\ \E u \in Ids :
       /\ Exists(u) /\ (u \in Admins => Admins \ {u} # {})
       /\ users' = [users EXCEPT ![u] = Deleted]
       /\ Revoke(u)
  /\ CommitAnd(c, "idle") /\ CacheStays /\ UNCHANGED <<groups, hashes>>

\* deleteGroupInTransaction, with rejectGroupDeletionIfUserScope
DeleteGroup ==
  /\ At(Main, "up")
  /\ \E g \in groups :
       /\ \A u \in Ids : Exists(u) => users[u].scope # g
       /\ groups' = groups \ {g}
  /\ CacheStays /\ CredentialsStay /\ UNCHANGED <<users, hashes, procs, foreign>>

\* MergeGroups: transferUserScopeReferences, then the deletion of the loser.
MergeGroups ==
  /\ At(Main, "up")
  /\ \E winner, loser \in groups :
       /\ winner # loser
       /\ users' = [u \in Ids |-> IF Exists(u) /\ users[u].scope = loser
                                  THEN [users[u] EXCEPT !.scope = winner] ELSE users[u]]
       /\ groups' = groups \ {loser}
  /\ CacheStays /\ CredentialsStay /\ UNCHANGED <<hashes, procs, foreign>>

-----------------------------------------------------------------------------

MainNext(m) ==
  \/ Start(m) \/ LookupAdmin(m) \/ CreateAdmin(m) \/ PromoteAdmin(m)
  \/ Count(m) \/ LookupRoot(m) \/ MakeRoot(m) \/ ReuseRoot(m)
  \/ ResolveRoot(m) \/ StoreRoot(m)

ClientNext(c) ==
  \/ Authenticate(c) \/ MintSession(c) \/ ValidateSession(c)
  \/ CreateApiToken(c) \/ RevokeApiToken(c) \/ ChangeOwnPassword(c)
  \/ CreateUser(c) \/ Observe(c) \/ UpdateUser(c) \/ DeleteUser(c)
  \/ ResolveRoot(c) \/ StoreRoot(c)

Next ==
  \/ \E m \in Mains : MainNext(m)
  \/ \E c \in Clients : ClientNext(c)
  \/ RevokeSession \/ DeleteGroup \/ MergeGroups

Spec == Init /\ [][Next]_vars

-----------------------------------------------------------------------------
(* What must hold.                                                           *)

\* A session is of an enabled account and of the password it has now, whatever was
\* reset, disabled or deleted while the login compared the old one; and nobody
\* deleted has a token.
CredentialsSound ==
  /\ \A s \in sessions : Enabled(s.user) /\ users[s.user].hash = s.hash
  /\ \A u \in Ids : tokens[u] > 0 => Exists(u)

\* Once a process is up somebody can administer it, whoever deletes, demotes and
\* disables whom at the same time.
AdminRemains == (\E m \in Mains : At(m, "up")) => Admins # {}

\* Two processes that start on a database without administrators make one root.
OneRootMade == Cardinality({u \in Ids : Exists(u) /\ users[u].auto}) <= 1

\* The group of a confined account exists, however groups are deleted and merged
\* while it is confined, and each role is confined as it must be.
ScopesHold ==
  \A u \in Ids : Exists(u) =>
    /\ Confined(users[u].role, users[u].scope)
    /\ users[u].scope \in groups \cup {None}

\* When every change has been followed by its refresh, the cached root administrator
\* is the oldest enabled one, in whatever order the refreshes came.
RootCached ==
  /\ At(Main, "up") /\ ~foreign
  /\ \A p \in Clients \cup {Main} : procs[p].pc \notin {"refresh", "store"}
  => root = RootAdmin

-----------------------------------------------------------------------------
(* What the proofs of AccountsProofs strengthen these with.                  *)

UserRows ==
  [state : {"row"}, name : Names, role : Roles, scope : Groups \cup {None},
   disabled : BOOLEAN, hash : Nat, auto : BOOLEAN]

\* The types of what is stored.
AccountsTypeOK ==
  /\ users \in [Ids -> UserRows \cup {Unborn, Deleted}]
  /\ sessions \subseteq [client : Clients, user : Ids, hash : Nat]
  /\ tokens \in [Ids -> Nat] /\ groups \subseteq Groups /\ hashes \in Nat

\* What a goroutine has read is of an account and, where it is used, of a kind.
RequestsHold ==
  /\ DOMAIN procs = Clients \cup Mains
  /\ \A p \in DOMAIN procs :
       /\ DOMAIN procs[p] = DOMAIN Idle /\ procs[p].next \in {"idle", "count", "up"}
       /\ procs[p].pc \in {"mint", "account", "update", "promote", "reuse"} => procs[p].user \in Ids
       /\ procs[p].pc = "mint" => procs[p].seen \in Nat
       /\ procs[p].pc = "update" => procs[p].change \in Changes
       /\ procs[p].pc = "account" =>
            /\ procs[p].seen \in [client : Clients, user : Ids, hash : Nat]
            /\ procs[p].seen.user = procs[p].user

\* A process that is up, or refreshes its cache as the last of its start, has found or
\* made an administrator.
Settled(m) ==
  At(m, "up") \/ (procs[m].pc \in {"refresh", "store"} /\ procs[m].next = "up")

SettledHaveAdmin == \A m \in Mains : Settled(m) => Admins # {}

AccountsStrengthening == AccountsTypeOK /\ RequestsHold /\ SettledHaveAdmin

\* The account made at a start is there only while an administrator is, whoever that is by
\* then, so no other is made.
Autos == {u \in Ids : Exists(u) /\ users[u].auto}
RootMadeRemains == (Autos # {} => Admins # {}) /\ \A u, v \in Autos : u = v

\* Only who has resolveMu stores, and no request is served before the start is over.
MutexHeld ==
  /\ \A p \in Clients \cup Mains : At(p, "store") <=> mu = p
  /\ mu \in {None} \cup Clients \cup Mains
  /\ procs[OtherMain].pc \notin {"refresh", "store"}
  /\ \A c \in Clients : At(c, "idle") \/ At(Main, "up")

\* What is cached, or about to be, is of the last change once each one was followed by a
\* read: a goroutine that still stores an older one has another behind it.
Refreshing == \E p \in Clients \cup {Main} : At(p, "refresh")
CacheFollows ==
  Settled(Main) /\ ~foreign /\ ~Refreshing =>
    RootAdmin = IF mu = None THEN root ELSE procs[mu].seen

StartsAndRefreshes == RootMadeRemains /\ MutexHeld /\ CacheFollows

\* Administrators: at least one, from the start on, and of those made at the start one.
AdminsSound == AccountsStrengthening /\ StartsAndRefreshes /\ AdminRemains /\ OneRootMade
=============================================================================
